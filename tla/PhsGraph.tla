------------------------------ MODULE PhsGraph ------------------------------
(***************************************************************************)
(* The processing element snaxc synthesises for a group of linalg kernels  *)
(* (snaxc/phs): a graph of choices, each one of several operations, and    *)
(* of two-way muxes, each set by a switch.  Encoding makes the element of  *)
(* one kernel, combining adds it to another's, decoding finds the switch   *)
(* values under which the merged element is the one of a kernel again.     *)
(*                                                                         *)
(* An element is [args, paired, sw, order, ops, mux]: its data operands,   *)
(* the outputs that own one of the last operands as carry, its switches,   *)
(* its choices in order, what each choice and the yield take, and the      *)
(* muxes by the switch that drives them.                                   *)
(***************************************************************************)
EXTENDS Integers, Sequences, FiniteSets, SequencesExt, FiniteSetsExt

Arg(i) == [arg |-> i]
Choice(id) == [choose |-> id]
Mux(s) == [mux |-> s]

Positions(seq) == [i \in DOMAIN seq |-> i]

(* The yield is listed as one more user of values, without options. *)
Yield == [sig |-> "yield", n |-> 0]
Users(pe) == Append(pe.order, Yield)

(* Operations are told apart in their bodies by name; attr stands for a    *)
(* constant's value or a comparison's predicate.  ChooseOp.from_operations *)
(* binds an operand used twice to the last of its places.                  *)
NoAttr == "none"
LastPlace(args, p) == Max({q \in DOMAIN args : args[q] = args[p]})
Option(op) ==
  [name |-> op.name, attr |-> op.attr,
   at |-> [p \in DOMAIN op.args |-> LastPlace(op.args, p)]]

AddSwitch(pe) == [pe EXCEPT !.sw = Append(@, Len(@) + 1)]
NewSwitch(pe) == Len(pe.sw) + 1

AddChoice(pe, id, args, opts) ==
  [AddSwitch(pe) EXCEPT
     !.order = Append(@, id),
     !.ops = (id :> [args |-> args, opts |-> opts, sw |-> NewSwitch(pe)]) @@ @]

------------------------------------------------------------------------------
(* convert_generic_body_to_phs.  A kernel's body takes block arguments,    *)
(* earlier results and constants of the function around it; those are      *)
(* cloned first into the body, each in front of the ones before.           *)
Captured(kernel) ==
  LET all == FlattenSeq([j \in DOMAIN kernel.body |->
               SelectSeq(kernel.body[j].args, LAMBDA v : "const" \in DOMAIN v)])
  IN Reverse(FoldLeft(LAMBDA s, v : IF Contains(s, v) THEN s ELSE Append(s, v),
                      <<>>, all))

SinkOuterConstants(kernel) ==
  LET consts == Captured(kernel)
      Local(v) ==
        CASE "const" \in DOMAIN v ->
               [op |-> CHOOSE i \in DOMAIN consts : consts[i] = v]
          [] "op" \in DOMAIN v -> [op |-> v.op + Len(consts)]
          [] OTHER -> v
      Clone(v) ==
        [name |-> "constant", sig |-> "_i", attr |-> v.const, args |-> <<>>]
      Moved(op) == [op EXCEPT !.args = [p \in DOMAIN @ |-> Local(@[p])]]
  IN [body |-> [i \in DOMAIN consts |-> Clone(consts[i])]
                 \o [j \in DOMAIN kernel.body |-> Moved(kernel.body[j])],
      result |-> Local(kernel.result)]

(* The id of a choice: the types of its operation, numbered. *)
Id(body, j) ==
  [sig |-> body[j].sig,
   n |-> Cardinality({i \in 1 .. j - 1 : body[i].sig = body[j].sig})]

Encode(kernel) ==
  LET sunk == SinkOuterConstants(kernel)
      Value(v) == IF "op" \in DOMAIN v THEN Choice(Id(sunk.body, v.op)) ELSE v
      Empty == [args |-> kernel.ins + 1, paired |-> <<1>>, sw |-> <<>>,
                order |-> <<>>, mux |-> <<>>,
                ops |-> (Yield :> [args |-> <<Value(sunk.result)>>,
                                   opts |-> <<>>, sw |-> 0])]
  IN FoldLeft(
       LAMBDA pe, j : LET op == sunk.body[j] IN
         AddChoice(pe, Id(sunk.body, j), [p \in DOMAIN op.args |-> Value(op.args[p])],
                   <<Option(op)>>),
       Empty, Positions(sunk.body))

------------------------------------------------------------------------------
(* append_to_abstract_graph: what a value may come from, past the muxes *)
RECURSIVE Possibilities(_, _)
Possibilities(pe, v) ==
  IF "mux" \in DOMAIN v
  THEN Possibilities(pe, pe.mux[v.mux].lhs) \cup Possibilities(pe, pe.mux[v.mux].rhs)
  ELSE {v}

AddMux(pe, id, p, v) ==
  LET s == NewSwitch(pe) IN
  [AddSwitch(pe) EXCEPT
     !.mux = (s :> [lhs |-> pe.ops[id].args[p], rhs |-> v]) @@ @,
     !.ops[id].args[p] = Mux(s)]

(* Mutant: a value behind a mux is not seen. *)
UncollideDirect(pe, id, args) ==
  FoldLeft(LAMBDA g, p :
             IF args[p] = g.ops[id].args[p]
             THEN g ELSE AddMux(g, id, p, args[p]),
           pe, Positions(args))
UncollideInputs(pe, id, args) ==
  FoldLeft(LAMBDA g, p :
             IF args[p] \in Possibilities(g, g.ops[id].args[p])
             THEN g ELSE AddMux(g, id, p, args[p]),
           pe, Positions(args))

(* An operation a choice does not list is made anew, on its operands in    *)
(* order.                                                                  *)
InsertOperation(opts, name, arity) ==
  IF \E i \in DOMAIN opts : opts[i].name = name THEN opts
  ELSE Append(opts, [name |-> name, attr |-> NoAttr,
                     at |-> [p \in 1 .. arity |-> p]])

AppendChoice(pe, graph, id) ==
  LET op == graph.ops[id] IN
  IF id \notin DOMAIN pe.ops THEN AddChoice(pe, id, op.args, op.opts)
  ELSE LET routed == UncollideInputs(pe, id, op.args) IN
       IF id = Yield THEN routed
       ELSE [routed EXCEPT !.ops[id].opts =
               InsertOperation(@, op.opts[1].name, Len(op.args))]

AppendToAbstractGraph(pe, graph) ==
  FoldLeft(LAMBDA g, id : AppendChoice(g, graph, id), pe, Users(graph))

(* get_equivalent_owner reads past the data operands of a smaller element. *)
Overruns(pe, graph) ==
  \E id \in DOMAIN graph.ops : \E p \in DOMAIN graph.ops[id].args :
    LET v == graph.ops[id].args[p] IN "arg" \in DOMAIN v /\ v.arg > pe.args

------------------------------------------------------------------------------
(* prune_unused_carries *)
Values(pe) ==
  UNION {Range(pe.ops[id].args) : id \in DOMAIN pe.ops}
    \cup UNION {{pe.mux[s].lhs, pe.mux[s].rhs} : s \in DOMAIN pe.mux}

PruneUnusedCarries(pe) ==
  LET pure == pe.args - Len(pe.paired)
      live == SelectSeq(Positions(pe.paired), LAMBDA k : Arg(pure + k) \in Values(pe))
      kept == [i \in 1 .. pure |-> i] \o [k \in DOMAIN live |-> pure + live[k]]
      Moved(v) == IF "arg" \in DOMAIN v
                  THEN Arg(CHOOSE i \in DOMAIN kept : kept[i] = v.arg) ELSE v
  IN [pe EXCEPT
        !.args = Len(kept),
        !.paired = [k \in DOMAIN live |-> pe.paired[live[k]]],
        !.ops = [id \in DOMAIN @ |->
                  [@[id] EXCEPT !.args = [p \in DOMAIN @ |-> Moved(@[p])]]],
        !.mux = [s \in DOMAIN @ |-> [lhs |-> Moved(@[s].lhs), rhs |-> Moved(@[s].rhs)]]]

------------------------------------------------------------------------------
(* decode_abstract_graph.  A mapping sets muxes, 0 the left and 1 the      *)
(* right; a refused candidate maps to NotFound.                            *)
NotFound == [found |-> FALSE]
Ambiguous == [found |-> FALSE, ambiguous |-> TRUE]
Found(mapping) == [found |-> TRUE, mapping |-> mapping]

(* Fixes the muxes from v down to the value it has to deliver. *)
RECURSIVE Constrain(_, _, _, _)
Constrain(pe, v, target, mapping) ==
  IF "mux" \notin DOMAIN v
  THEN IF v = target THEN Found(mapping) ELSE NotFound
  ELSE LET m == pe.mux[v.mux]
           left == target \in Possibilities(pe, m.lhs)
           right == target \in Possibilities(pe, m.rhs)
           side == IF left THEN 0 ELSE 1
       IN CASE left /\ right -> Ambiguous
            [] ~left /\ ~right -> NotFound
            [] v.mux \in DOMAIN mapping /\ mapping[v.mux] # side -> NotFound
            [] OTHER -> Constrain(pe, IF left THEN m.lhs ELSE m.rhs, target,
                                  (v.mux :> side) @@ mapping)

Demands(pe, graph) ==
  FlattenSeq([i \in DOMAIN Users(graph) |->
    LET id == Users(graph)[i] IN
    [p \in DOMAIN graph.ops[id].args |->
       [at |-> pe.ops[id].args[p], from |-> graph.ops[id].args[p]]]])

PropagateMapping(pe, graph) ==
  LET walk == FoldLeft(LAMBDA r, d :
                IF r.found THEN Constrain(pe, d.at, d.from, r.mapping) ELSE r,
                Found(<<>>), Demands(pe, graph))
  IN IF walk.found THEN Found(walk.mapping @@ [s \in DOMAIN pe.mux |-> 0])
     ELSE walk

RECURSIVE FollowOperand(_, _, _)
FollowOperand(pe, v, mapping) ==
  IF "mux" \notin DOMAIN v THEN v
  ELSE LET m == pe.mux[v.mux] IN
       FollowOperand(pe, IF mapping[v.mux] = 1 THEN m.rhs ELSE m.lhs, mapping)

ValidMapping(pe, graph, mapping) ==
  \A i \in DOMAIN Demands(pe, graph) :
    LET d == Demands(pe, graph)[i] IN FollowOperand(pe, d.at, mapping) = d.from

(* search_mapping tries the muxes in the order of their switches, the last *)
(* one fastest: the n-th trial is n in binary.                             *)
Trial(pe, n) ==
  LET muxes == SelectSeq(pe.sw, LAMBDA s : s \in DOMAIN pe.mux)
  IN [s \in DOMAIN pe.mux |->
        LET i == CHOOSE j \in DOMAIN muxes : muxes[j] = s
        IN (n \div 2 ^ (Len(muxes) - i)) % 2]

SearchMapping(pe, graph) ==
  LET valid == {n \in 0 .. 2 ^ Cardinality(DOMAIN pe.mux) - 1 :
                  ValidMapping(pe, graph, Trial(pe, n))}
  IN IF valid = {} THEN NotFound ELSE Found(Trial(pe, Min(valid)))

Mapping(pe, graph) ==
  LET walked == PropagateMapping(pe, graph) IN
  IF walked = Ambiguous
     \/ (walked.found /\ ~ValidMapping(pe, graph, walked.mapping))
  THEN SearchMapping(pe, graph) ELSE walked

(* The choice a switch drives, the option for a candidate.  A candidate    *)
(* without that choice leaves it at the first.                             *)
Chosen(pe, s) == CHOOSE id \in DOMAIN pe.ops : pe.ops[id].sw = s
Wanted(pe, graph, id) ==
  IF id \notin DOMAIN graph.ops THEN {1}
  ELSE {i \in DOMAIN pe.ops[id].opts :
          pe.ops[id].opts[i].name = graph.ops[id].opts[1].name}

Decodable(pe, graph) ==
  /\ graph.args = pe.args
  /\ DOMAIN graph.ops \subseteq DOMAIN pe.ops
  /\ \A id \in DOMAIN pe.ops \ {Yield} : Wanted(pe, graph, id) # {}

(* A choice of one option has no switch value, a mux has. *)
IsOneOption(pe, s) == s \notin DOMAIN pe.mux /\ Len(pe.ops[Chosen(pe, s)].opts) = 1
TrueSwitches(pe) == SelectSeq(pe.sw, LAMBDA s : ~IsOneOption(pe, s))

DecodeAbstractGraph(pe, graph) ==
  IF ~Decodable(pe, graph) THEN NotFound
  ELSE LET routed == Mapping(pe, graph)
           Setting(s) == IF s \in DOMAIN pe.mux THEN routed.mapping[s]
                         ELSE Min(Wanted(pe, graph, Chosen(pe, s))) - 1
           switches == TrueSwitches(pe)
       IN IF routed.found
          THEN [found |-> TRUE,
                switches |-> [i \in DOMAIN switches |-> Setting(switches[i])]]
          ELSE NotFound
=============================================================================
