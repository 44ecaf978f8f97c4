------------------------------- MODULE Accfg -------------------------------
(***************************************************************************)
(* The accfg passes on one function: the states of the setups are woven     *)
(* through control flow (convert_linalg_to_accfg.py), setups are            *)
(* deduplicated (accfg_dedup.py), moved ahead to overlap with the running    *)
(* job (accfg_config_overlap.py) and lowered to writes of control registers  *)
(* (convert_accfg_to_csr.py).                                               *)
(*                                                                          *)
(* A rewrite of a pattern is one action. xDSL's walker visits the            *)
(* operations of a sweep one after the other, the ones a rewrite inserts    *)
(* too, and starts another sweep when one has changed anything. The order   *)
(* of the visits is left open; todo holds the setups still to be visited.   *)
(***************************************************************************)
EXTENDS AccfgIR

CONSTANTS
  Sources,  \* the programs to compile; no setup of theirs has an input state
  Woven     \* the accelerators whose setups exist when states are woven (PHS); the
            \* setups of the others come later (convert_stream_to_accfg.py)

VARIABLES
  source,  \* the program compiled
  prog,    \* what it has become
  phase,
  todo,
  changed  \* did this sweep rewrite anything?

vars == <<source, prog, phase, todo, changed>>

Setups(p) == OpsOfKind(p, "setup")

--------------------------------------------------------------------------
(* Weaving. st maps an accelerator to the state that holds its registers.   *)

(* A walk is a record: p, the program so far; st, for each accelerator whose *)
(* registers have a known state, that state; ok, FALSE once it has failed.    *)
RECURSIVE WeaveBlock(_, _)

NoStates == [a \in {} |-> NoState]
AppendYield(p, b, more) == [p EXCEPT !.op[YieldOf(p, b)].vals = @ \o more]

(* A variant that misses the states changed in one branch only. *)
IfDeltaBoth(old, then, else) ==
  {a \in DOMAIN then \cap DOMAIN else :
     a \in DOMAIN old => then[a] # old[a] /\ else[a] # old[a]}
(* calc_if_state_delta: the accelerators whose state an scf.if changes. *)
IfDelta(old, then, else) ==
  {a \in DOMAIN then \cap DOMAIN else :
     a \in DOMAIN old => ~(then[a] = old[a] /\ else[a] = old[a])}

WeaveIf(w, o) ==
  LET t == WeaveBlock(w, <<o, 1>>)
      e == WeaveBlock([t EXCEPT !.st = w.st], <<o, 2>>)
      n == Len(e.p.op[YieldOf(e.p, <<o, 1>>)].vals)
      delta == SetToSortSeq(IfDelta(w.st, t.st, e.st), <)
      yields(st) == [i \in DOMAIN delta |-> st[delta[i]]]
      results == [a \in ToSet(delta) |-> Res(o, n + SelectInSeq(delta, LAMBDA x : x = a))]
  IN [p  |-> AppendYield(AppendYield(e.p, <<o, 1>>, yields(t.st)), <<o, 2>>, yields(e.st)),
      st |-> w.st ++ results,
      ok |-> e.ok]

(* A setup without fields in front of loop o for each of accs.              *)
EmptySetups(w, o, accs) ==
  FoldSet(LAMBDA a, v :
            LET n == NewOp(v.p)
            IN [v EXCEPT !.p = InsertOp(@, n, SetupOp(a, NoFields, NoState),
                                        Block(@, o), At(@, o)),
                         !.st = @ ++ (a :> Res(n, 1))],
          w, accs)

WeaveFor(w, o) ==
  LET accs == {w.p.op[s].acc : s \in {x \in Setups(w.p) : Inside(w.p, Block(w.p, x), <<o, 1>>)}}
                \cap Woven
      order == SetToSortSeq(accs, <)
      pos == [a \in accs |-> SelectInSeq(order, LAMBDA x : x = a)]
      before == EmptySetups(w, o, accs \ DOMAIN w.st)
      body == WeaveBlock([before EXCEPT !.st = @ ++ [a \in accs |-> Arg(o, pos[a])]], <<o, 1>>)
      inits == [i \in DOMAIN order |-> before.st[order[i]]]
      yields == [i \in DOMAIN order |-> body.st[order[i]]]
  IN IF accs = {} THEN w
     ELSE IF ~(accs \subseteq DOMAIN body.st) THEN [w EXCEPT !.ok = FALSE]  \* a KeyError
     ELSE [p  |-> AppendYield([body.p EXCEPT !.op[o].init = inits], <<o, 1>>, yields),
           st |-> before.st ++ [a \in accs |-> Res(o, pos[a])],
           ok |-> body.ok]

WeaveSetup(w, o) ==
  LET acc == w.p.op[o].acc
  IN IF acc \notin Woven THEN w
     ELSE [w EXCEPT !.p = IF acc \in DOMAIN w.st THEN [@ EXCEPT !.op[o].in = w.st[acc]] ELSE @,
                    !.st = @ ++ (acc :> Res(o, 1))]

(* Only calls have effects of their own (has_accfg_effects). *)
WeaveOp(w, o) ==
  LET kind == w.p.op[o].k IN
  CASE kind = "setup" -> WeaveSetup(w, o)
    [] kind = "if"    -> WeaveIf(w, o)
    [] kind = "for"   -> WeaveFor(w, o)
    [] kind = "call"  -> [w EXCEPT !.st = NoStates]
    [] OTHER          -> w

(* The operations of a block, one after the other; what is inserted goes in  *)
(* front of the one being visited.                                          *)
WeaveBlock(w, b) == FoldLeft(WeaveOp, w, w.p.body[b])

--------------------------------------------------------------------------
(* Inference: the fields a state is known to hold.                          *)

RECURSIVE Infer(_, _)
Infer(p, s) ==
  LET o == s[2]
      op == p.op[o]
      yielded(b) == Infer(p, p.op[YieldOf(p, b)].vals[s[3]])
  IN CASE s[1] = "arg" -> Infer(p, op.init[s[3]])
       [] op.k = "setup" -> IF op.in = NoState THEN op.set ELSE Infer(p, op.in) ++ op.set
       [] op.k = "if" ->
            LET t == yielded(<<o, 1>>)
                e == yielded(<<o, 2>>)
            IN [f \in {x \in DOMAIN t \cap DOMAIN e : t[x] = e[x]} |-> t[f]]
       [] op.k = "for" -> yielded(<<o, 1>>)

--------------------------------------------------------------------------
(* Deduplication: one definition for what each pattern matches, one for     *)
(* the program it makes.                                                    *)

(* SimplifyRedundantSetupCalls: fields that the input state holds already. *)
NewParams(p, o) ==
  LET op == p.op[o]
      prev == IF op.in = NoState THEN NoFields ELSE Infer(p, op.in)
  IN {f \in DOMAIN op.set : ~(f \in DOMAIN prev /\ prev[f] = op.set[f])}
CanSimplify(p, o) == NewParams(p, o) # DOMAIN p.op[o].set
Simplified(p, o) ==
  [p EXCEPT !.op[o].set = [f \in NewParams(p, o) |-> @[f]]]

(* PullSetupOpsOutOfLoops: fields that every setup of the loop sets to the  *)
(* same value from outside of the loop.                                     *)
DefinedInside(p, v, b) ==
  CASE v[1] = "c"  -> FALSE
    [] v[1] = "iv" -> Inside(p, <<v[2], 1>>, b)
    [] v[1] = "op" -> Inside(p, Block(p, v[2]), b)
SetInside(p, acc, b) ==
  {s \in Setups(p) : p.op[s].acc = acc /\ Inside(p, Block(p, s), b)}
LoopInvariant(p, o) ==
  LET b == Block(p, o)
      ss == SetInside(p, p.op[o].acc, b)
      values(f) == {p.op[s].set[f] : s \in {x \in ss : f \in DOMAIN p.op[x].set}}
      safe == {f \in UNION {DOMAIN p.op[s].set : s \in ss} :
                 Cardinality(values(f)) = 1 /\ \A v \in values(f) : ~DefinedInside(p, v, b)}
  IN [f \in safe |-> CHOOSE v \in values(f) : TRUE]
FirstInLoop(p, o) ==
  LET l == Parent(p, o)
  IN l # 0 /\ p.op[l].k = "for" /\ p.op[o].in # NoState
       /\ p.op[o].in[1] = "arg" /\ p.op[o].in[2] = l
CanPullAny(p, o) == FirstInLoop(p, o)  \* a variant that pulls empty setups
CanPull(p, o) == FirstInLoop(p, o) /\ DOMAIN LoopInvariant(p, o) # {}
Pulled(p, o) ==
  LET l == Parent(p, o)
      n == NewOp(p)
      init == p.op[l].init[p.op[o].in[3]]
      q == InsertOp(p, n, SetupOp(p.op[o].acc, LoopInvariant(p, o), init),
                    Block(p, l), At(p, l))
  IN [q EXCEPT !.op[l] = MapStates(@, init :> Res(n, 1))]

(* MergeSetupOps: a setup of the same accelerator before this one, with     *)
(* only pure operations in between.                                         *)
Pure(op) == op.k = "add"
MergePartners(p, o) ==
  {s \in Setups(p) : /\ Before(p, s, o) /\ p.op[s].acc = p.op[o].acc
                     /\ \A x \in DOMAIN p.op :
                          Before(p, s, x) /\ Before(p, x, o) => Pure(p.op[x])}
Merged(p, o) ==
  LET s == CHOOSE x \in MergePartners(p, o) : TRUE
  IN [Erase(p, s) EXCEPT !.op[o].set = p.op[s].set ++ @, !.op[o].in = p.op[s].in]

(* ElideEmptySetupOps *)
CanElide(p, o) == DOMAIN p.op[o].set = {} /\ p.op[o].in # NoState
ElidedOnly(p, o) == Erase(p, o)  \* a variant that leaves the uses
Elided(p, o) == Erase(ReplaceUses(p, Res(o, 1), p.op[o].in), o)

(* HoistSetupCallsIntoConditionals: a setup whose input state an scf.if     *)
(* made moves to the end of both branches.                                  *)
CanHoist(p, o) ==
  LET in == p.op[o].in
  IN /\ in # NoState /\ in[1] = "res" /\ p.op[in[2]].k = "if"
     /\ \A l \in Uses(p, in) \cap OpsOfKind(p, "launch") : Before(p, o, l)
HoistInto(p, o, b) ==
  LET y == YieldOf(p, b)
      k == p.op[o].in[3]
      n == NewOp(p)
      state == p.op[y].vals[k]
      q == InsertOp(p, n, [p.op[o] EXCEPT !.in = state], b, At(p, y))
  IN [q EXCEPT !.op[y] = MapStates(@, state :> Res(n, 1))]
Hoisted(p, o) ==
  LET i == p.op[o].in[2]
      q == HoistInto(HoistInto(p, o, <<i, 1>>), o, <<i, 2>>)
  IN Erase(ReplaceUses(q, Res(o, 1), p.op[o].in), o)

--------------------------------------------------------------------------
(* Overlap.                                                                 *)

RECURSIVE InputsOf(_, _, _)
(* The operations of block b that compute the scalars vs. *)
InputsOf(p, vs, b) ==
  LET ops == {v[2] : v \in {x \in vs : x[1] = "op" /\ Inside(p, Block(p, x[2]), b)}}
  IN ops \cup (IF ops = {} THEN {}
               ELSE InputsOf(p, UNION {ScalarsIn(p.op[x]) : x \in ops}, b))
(* get_scoped_setup_inputs gives up on effects and on arguments of other    *)
(* blocks.                                                                  *)
Scoped(p, o) == InputsOf(p, ScalarsIn(p.op[o]), Block(p, o))
HasScope(p, o) ==
  LET ins == Scoped(p, o)
      vs == ScalarsIn(p.op[o]) \cup UNION {ScalarsIn(p.op[x]) : x \in ins}
  IN /\ \A x \in ins : Pure(p.op[x])
     /\ \A v \in vs : v[1] = "iv" /\ Inside(p, <<v[2], 1>>, Block(p, o))
                        => <<v[2], 1>> = Block(p, o)
InOrder(p, ops) == SetToSortSeq(ops, LAMBDA x, y : Before(p, x, y))

(* BlockLevelSetupAwaitOverlapPattern: the setup after a launch of its      *)
(* input state, when nothing else uses that state.                          *)
LaunchOfInput(p, o) == Uses(p, p.op[o].in) \ {o}
CanOverlap(p, o) ==
  /\ p.op[o].in # NoState
  /\ Cardinality(LaunchOfInput(p, o)) = 1
  /\ \A l \in LaunchOfInput(p, o) :
       /\ p.op[l].k = "launch"
       /\ Block(p, l) = Block(p, o)
       /\ p.body[Block(p, l)][At(p, l) + 1] # o
       /\ HasScope(p, o)
       \* lazy_move_up
       /\ p.body[Block(p, l)][At(p, l) + 1] \notin Scoped(p, o)
Overlapped(p, o) ==
  LET l == CHOOSE x \in LaunchOfInput(p, o) : TRUE
      b == Block(p, o)
      moved == InOrder(p, {x \in Scoped(p, o) \cup {o} : At(p, x) > At(p, l) + 1})
      rest == SelectSeq(p.body[b], LAMBDA x : ~Contains(moved, x))
      at == SelectInSeq(rest, LAMBDA x : x = l)
  IN [p EXCEPT !.body[b] = SubSeq(rest, 1, at) \o moved \o SubSeq(rest, at + 1, Len(rest))]

(* LoopLevelSetupAwaitOverlapPattern: the first setup of a loop is done     *)
(* before the loop for the first iteration, and at the end of the body for  *)
(* the next one.                                                            *)
CanPipeline(p, o) ==
  LET ls == Uses(p, Res(o, 1)) \cap OpsOfKind(p, "launch")
  IN /\ FirstInLoop(p, o)
     /\ ls # {} /\ \A l \in ls : Block(p, l) = Block(p, o)
     /\ ~\E l \in OpsOfKind(p, "launch") : Before(p, l, o)
     /\ HasScope(p, o)
(* copy_with_new_dependent_vals, inserted at position i of block b: setup o *)
(* with its inputs, iv in the place of the loop's induction variable and    *)
(* sts in the place of its loop-carried states.                             *)
CopyScoped(p, o, iv, sts, b, i) ==
  LET l == Parent(p, o)
      copy(w, x) ==
        LET n == NewOp(w.p)
        IN [p |-> InsertOp(w.p, n,
                    MapScalars(MapStates(p.op[x], [s \in {Arg(l, k) : k \in DOMAIN sts} |-> sts[s[3]]]),
                               w.m), b, w.i),
            m |-> w.m ++ (<<"op", x>> :> <<"op", n>>), i |-> w.i + 1, last |-> n]
  IN FoldLeft(copy, [p |-> p, m |-> (<<"iv", l>> :> iv), i |-> i, last |-> o],
              Append(InOrder(p, Scoped(p, o)), o))
Pipelined(p, o) ==
  LET l == Parent(p, o)
      b == <<l, 1>>
      k == p.op[o].in[3]
      first == CopyScoped(p, o, <<"c", 0>>, p.op[l].init, Block(p, l), At(p, l))
      q == [first.p EXCEPT !.op[l].init[k] = Res(first.last, 1)]
      y == YieldOf(q, b)
      next == NewOp(q)
      r == InsertOp(q, next, [k |-> "add", x |-> <<"iv", l>>, y |-> <<"c", 1>>], b, At(q, y))
      last == CopyScoped(r, o, <<"op", next>>, p.op[y].vals, b, At(r, y))
      z == [last.p EXCEPT !.op[y].vals[k] = Res(last.last, 1)]
  IN Erase(ReplaceUses(z, Res(o, 1), p.op[o].in), o)

--------------------------------------------------------------------------
(* Lowering.                                                                *)

(* param_values: the address of each field, and of the launch. *)
ParamValues(acc) ==
  [f \in RegsOf(acc) |-> Base[acc] + SelectInSeq(Fields[acc], LAMBDA x : x = f) - 1]
LaunchAddress(acc) == Base[acc] + Len(Fields[acc])

LoweredOp(op) ==
  CASE op.k = "setup" ->
         LET addr == ParamValues(op.acc)
         IN [k |-> "csrw",
             at |-> [a \in {addr[f] : f \in DOMAIN op.set} |->
                       op.set[CHOOSE f \in DOMAIN op.set : addr[f] = a]]]
    [] op.k = "launch" -> [k |-> "csrw", at |-> (LaunchAddress(op.acc) :> <<"c", 1>>)]
    [] op.k = "await"  -> [k |-> "csrr", addr |-> LaunchAddress(op.acc)]
    [] OTHER -> op
Lowered(p) == [p EXCEPT !.op = [o \in DOMAIN @ |-> LoweredOp(@[o])]]
(* A setup is erased as long as nothing that stays reads its state.         *)
CanErase(p, o) == Uses(p, Res(o, 1)) \cap (OpsOfKind(p, "yield") \cup OpsOfKind(p, "for")) = {}

--------------------------------------------------------------------------
Init ==
  /\ source \in Sources
  /\ prog = source
  /\ phase = "trace"
  /\ todo = {}
  /\ changed = FALSE

Trace ==
  /\ phase = "trace"
  /\ LET w == WeaveBlock([p |-> prog, st |-> NoStates, ok |-> TRUE], Entry)
     IN IF w.ok THEN /\ prog' = w.p /\ phase' = "dedup" /\ todo' = Setups(w.p)
                ELSE /\ phase' = "failed" /\ UNCHANGED <<prog, todo>>
  /\ UNCHANGED <<source, changed>>

(* The patterns are tried in this order; the first that matches rewrites. *)
DedupPattern(o) ==
  IF CanSimplify(prog, o) THEN "simplify"
  ELSE IF CanPull(prog, o) THEN "pull"
  ELSE IF MergePartners(prog, o) # {} THEN "merge"
  ELSE IF CanElide(prog, o) THEN "elide"
  ELSE IF CanHoist(prog, o) THEN "hoist" ELSE "none"
OverlapPattern(o) ==
  IF CanOverlap(prog, o) THEN "block"
  ELSE IF CanPipeline(prog, o) THEN "loop" ELSE "none"

PatternOf(o) == IF phase = "dedup" THEN DedupPattern(o) ELSE OverlapPattern(o)

(* A rewrite of o that keeps o (which is visited again, as it is replaced or *)
(* inserted anew) or not; what it inserts is visited in this sweep.          *)
Rewrite(pattern, o, p, again) ==
  /\ o \in todo
  /\ PatternOf(o) = pattern
  /\ prog' = p
  /\ todo' = ((todo \ (IF again THEN {} ELSE {o})) \cup (Setups(prog') \ Setups(prog)))
               \cap Setups(prog')
  /\ changed' = TRUE
  /\ UNCHANGED <<source, phase>>

Simplify == phase = "dedup" /\ \E o \in todo : Rewrite("simplify", o, Simplified(prog, o), TRUE)
Pull     == phase = "dedup" /\ \E o \in todo : Rewrite("pull", o, Pulled(prog, o), FALSE)
Merge    == phase = "dedup" /\ \E o \in todo : Rewrite("merge", o, Merged(prog, o), TRUE)
Elide    == phase = "dedup" /\ \E o \in todo : Rewrite("elide", o, Elided(prog, o), FALSE)
Hoist    == phase = "dedup" /\ \E o \in todo : Rewrite("hoist", o, Hoisted(prog, o), FALSE)
Overlap  == phase = "overlap" /\ \E o \in todo : Rewrite("block", o, Overlapped(prog, o), TRUE)
LoopOverlap ==
  phase = "overlap" /\ \E o \in todo : Rewrite("loop", o, Pipelined(prog, o), FALSE)

EndSweep ==
  /\ phase \in {"dedup", "overlap"}
  /\ \A o \in todo : PatternOf(o) = "none"
  /\ phase' = IF changed THEN phase
              ELSE IF phase = "dedup" THEN "overlap" ELSE "lower"
  /\ todo' = Setups(prog)
  /\ changed' = FALSE
  /\ UNCHANGED <<source, prog>>

Lower ==
  /\ phase = "lower"
  /\ IF \A o \in Setups(prog) : CanErase(prog, o)
     THEN prog' = Lowered(prog) /\ phase' = "done"
     ELSE phase' = "failed" /\ UNCHANGED prog
  /\ todo' = {}
  /\ UNCHANGED <<source, changed>>

Next ==
  \/ Trace \/ Simplify \/ Pull \/ Merge \/ Elide \/ Hoist
  \/ Overlap \/ LoopOverlap \/ EndSweep \/ Lower

Finished == phase \in {"done", "failed"}
Stop == Finished /\ UNCHANGED vars

Spec == Init /\ [][Next \/ Stop]_vars

(* The compiler does not stop before it has finished. This is weak fairness  *)
(* of Next, which is enabled until then (else the run finds a deadlock).     *)
FairSpec == Spec /\ (<>[]Finished \/ []<><<Next>>_vars)

--------------------------------------------------------------------------
CONSTANT
  MaxTrips  \* bound: loops run at least once, up to MaxTrips times

Loops == OpsOfKind(source, "for")
Ifs == OpsOfKind(source, "if")
Inputs == [trips : [Loops -> 1..MaxTrips], cond : [Ifs -> SUBSET {0, 1}]]

(* The module verifies after each pass: an operand is defined before it is  *)
(* used, in the block of the use or around it, and belongs to the            *)
(* accelerator of the operation (SetupOp.verify_, LaunchOp.verify_). It is   *)
(* what a rewrite of control flow breaks first: a state that a branch or a   *)
(* loop must pass on and does not.                                          *)
RECURSIVE AccOf(_)
AccOf(s) ==
  IF s[1] = "arg" THEN AccOf(prog.op[s[2]].init[s[3]])
  ELSE LET op == prog.op[s[2]]
       IN IF op.k = "setup" THEN op.acc ELSE AccOf(prog.op[YieldOf(prog, <<s[2], 1>>)].vals[s[3]])
Dominates(d, o) ==
  \E x \in DOMAIN prog.op :
     /\ Before(prog, d, x)
     /\ x = o \/ \E b \in DOMAIN prog.body : b[1] = x /\ Inside(prog, Block(prog, o), b)
Defined(v, o) ==
  CASE v[1] = "c" -> TRUE
    [] v[1] \in {"arg", "iv"} -> Inside(prog, Block(prog, o), <<v[2], 1>>)
    [] OTHER -> v[2] \in DOMAIN prog.op /\ Dominates(v[2], o)
Verified ==
  phase # "done" =>
    \A o \in DOMAIN prog.op :
      LET op == prog.op[o]
      IN /\ \A s \in StatesIn(op) :
              Defined(s, o) /\ (op.k \in {"setup", "launch"} => AccOf(s) = op.acc)
         /\ \A v \in ScalarsIn(op) : Defined(v, o)

(* Every launch sees the registers it would have seen in the program as      *)
(* written, in the same order, whatever the branches and the trips.          *)
LaunchesKept ==
  \A inp \in Inputs : Run(prog, inp).log = Run(source, inp).log

(* infer_state_of returns values "that are guaranteed to be set in this     *)
(* state" (trace_acc_state.py:31): when a setup is executed, the registers   *)
(* hold what is inferred of its input state.                                 *)
InferenceSound ==
  phase = "dedup" =>
    \A inp \in Inputs : \A i \in DOMAIN Run(prog, inp).seen :
      LET at == Run(prog, inp).seen[i]
          known == IF prog.op[at.o].in = NoState THEN NoFields ELSE Infer(prog, prog.op[at.o].in)
      IN \A f \in DOMAIN known :
           known[f][1] = "c" => at.regs[f] = known[f][2]

(* The rewriting comes to an end: the patterns do not undo each other.       *)
CompileEnds == <>Finished
============================================================================
