------------------------------- MODULE Buffers -------------------------------
(***************************************************************************)
(* From functions over plain memrefs to buffers in the memory of the        *)
(* cluster: memory spaces and layouts are assigned, casts become copies or  *)
(* disappear into allocations and constants, allocations leave loops, cores *)
(* get their barriers, buffers their lifetimes and addresses. The result is *)
(* then run by the two cores, in every order the barriers allow.            *)
(*                                                                          *)
(* Rewriting follows xDSL's PatternRewriteWalker: the first operation that  *)
(* matches is rewritten, until none does. A kernel of the model has the      *)
(* layouts its accelerator wants, in want: what set_memory_layout.py         *)
(* computes from its schedule.                                              *)
(***************************************************************************)
EXTENDS BufferIR

CONSTANT Sources  \* the functions to compile

VARIABLES
  source,  \* the function as bufferized
  prog,    \* the function now
  phase,   \* the pass that is running, "run" and "done"
  place,   \* the address of each allocation
  pos,     \* where each core is: position and iteration
  mem      \* the contents of the memories

vars == <<source, prog, phase, place, pos, mem>>

Finished == phase \in {"done", "pipelined", "failed"}

(* The pass ph: rewrite the first position that matches.                    *)
Sweep(ph, M, rewrite(_), next) ==
  /\ phase = ph
  /\ IF M = {} THEN phase' = next /\ UNCHANGED prog
               ELSE phase' = phase /\ prog' = rewrite(Min(M))
  /\ UNCHANGED <<source, place, pos, mem>>

--------------------------------------------------------------------------
(* alloc-to-global: what the function returns is a static global.           *)

Returned(p, i) ==
  /\ p.ops[i].k = "alloc"
  /\ \E u \in Users(p, p.ops[i].id) : IsTerminator(u)
  /\ p.ops[i].ty.space = "none"
NewSymbol(p) == 1 + Max({-1} \cup DOMAIN p.glob)
AllocToGlobal(p, i) ==
  LET op == p.ops[i]
      s == NewSymbol(p)
      g == [set |-> TRUE, data |-> [e \in 1 .. op.ty.n |-> <<"magic", 77>>]]
      kept == {u \in ToSet(p.ops) : u.k = "dealloc" /\ u.ins = <<op.id>>}
  IN [p EXCEPT !.glob = [t \in DOMAIN @ \cup {s} |-> IF t = s THEN g ELSE @[t]],
               !.ops = SelectSeq([@ EXCEPT ![i] = [op EXCEPT !.k = "get", !.x = s]],
                                 LAMBDA x : x \notin kept)]

Globals == Sweep("globals", {i \in DOMAIN prog.ops : Returned(prog, i)},
                 LAMBDA i : AllocToGlobal(prog, i), "spaces")

--------------------------------------------------------------------------
(* set-memory-space.                                                        *)

FuncUnset(p) == \E k \in DOMAIN p.args : p.args[k].space = "none"
InitFunc(p) ==
  [p EXCEPT !.args = [k \in DOMAIN @ |-> IF @[k].space = "none" THEN [@[k] EXCEPT !.space = "L3"] ELSE @[k]],
            !.result = IF @ = "none" THEN "L3" ELSE @]

(* The operands that have to be brought to L1. *)
RemoteInputs(p, op) == {v \in ToSet(op.ins) : TypeOf(p, v).space # "L1"}
Remote(p, op) == {v \in ToSet(Operands(op)) : TypeOf(p, v).space # "L1"}
SpaceMatches(p, i) ==
  LET op == p.ops[i] IN
  CASE op.k = "get"     -> op.ty.space # "L3"
    [] op.k = "alloc"   -> op.ty.space # "L1"
    [] op.k = "subview" -> op.ty.space # TypeOf(p, op.ins[1]).space
    [] op.k = "return"  -> op.ins # <<>> /\ TypeOf(p, op.ins[1]).space # p.result
    [] OTHER            -> IsStreaming(op) /\ Remote(p, op) # {}

WithSpace(p, op, space) == SetOp(p, [op EXCEPT !.ty.space = space])

(* A cast of v to L1 that is there already, else a new one before operation o. *)
CastUsers(p, v) == {u \in Users(p, v) : u.k = "mcast" /\ u.ty.space = "L1"}
CastToL1(p, v, o) ==
  IF CastUsers(p, v) # {}
  THEN LET u == CHOOSE u \in CastUsers(p, v) : \A w \in CastUsers(p, v) : At(p, u.id) <= At(p, w.id)
       IN ReplaceIn(p, o, v, u.id)
  ELSE LET n == Fresh(p)
       IN ReplaceIn(InsertOpAt(p, At(p, o), Cast(n, "mcast", v, [TypeOf(p, v) EXCEPT !.space = "L1"])), o, v, n)
CastOperands(p, op) ==
  FoldLeft(LAMBDA q, v : IF v \in Remote(p, op) THEN CastToL1(q, v, op.id) ELSE q, p, Operands(op))
CastReturn(p, op) ==
  LET n == Fresh(p)
      v == op.ins[1]
  IN ReplaceIn(InsertOpAt(p, At(p, op.id), Cast(n, "mcast", v, [TypeOf(p, v) EXCEPT !.space = p.result])),
               op.id, v, n)

SpaceRewrite(p, i) ==
  LET op == p.ops[i] IN
  CASE op.k = "get"     -> WithSpace(p, op, "L3")
    [] op.k = "alloc"   -> WithSpace(p, op, "L1")
    [] op.k = "subview" -> WithSpace(p, op, TypeOf(p, op.ins[1]).space)
    [] op.k = "return"  -> CastReturn(p, op)
    [] OTHER            -> CastOperands(p, op)

(* The function comes before its operations. *)
SetFuncSpace ==
  /\ phase = "spaces" /\ FuncUnset(prog)
  /\ prog' = InitFunc(prog)
  /\ UNCHANGED <<source, phase, place, pos, mem>>
SetSpaces ==
  /\ ~FuncUnset(prog)
  /\ Sweep("spaces", {i \in DOMAIN prog.ops : SpaceMatches(prog, i)},
           LAMBDA i : SpaceRewrite(prog, i), "layouts")

--------------------------------------------------------------------------
(* set-memory-layout: a cast of each operand of a kernel whose accelerator  *)
(* wants layouts, unless a layout was given.                                *)

LayoutMatches(p, i) ==
  LET op == p.ops[i]
  IN op.k = "dart" /\ op.want # <<>> /\ \A v \in ToSet(Operands(op)) : ~IsTSL(TypeOf(p, v).lay)
AddLayouts(p, i) ==
  LET op == p.ops[i]
      n == Fresh(p)
      vs == Operands(op)
      casts == [j \in DOMAIN vs |-> Cast(n + j, "lcast", vs[j], [TypeOf(p, vs[j]) EXCEPT !.lay = op.want[j]])]
      new == [op EXCEPT !.ins = [j \in DOMAIN @ |-> n + j],
                        !.outs = [j \in DOMAIN @ |-> n + Len(op.ins) + j]]
  IN [p EXCEPT !.ops = SubSeq(@, 1, i - 1) \o casts \o <<new>> \o SubSeq(@, i + 1, Len(@))]

SetLayouts == Sweep("layouts", {i \in DOMAIN prog.ops : LayoutMatches(prog, i)},
                    LAMBDA i : AddLayouts(prog, i), "casts")

--------------------------------------------------------------------------
(* realize-memref-casts, first part: layouts move into what is cast.        *)

(* The constant with its elements where layout lay puts them.               *)
TransformConstant(data, lay) ==
  [i \in DOMAIN data |-> LET e == CHOOSE e \in 0 .. Len(data) - 1 : Phys(lay, e) = i - 1 IN data[e + 1]]

UsedByTerminator(p, v) == \E u \in Users(p, v) : IsTerminator(u)
IsKind(p, v, k) == v > 0 /\ Op(p, v).k = k

(* The first pattern that applies to cast op, "none" if none does. *)
CastPattern(p, op) ==
  LET v == SourceOf(p, op.id) IN
  CASE /\ op.k = "lcast" /\ IsKind(p, v, "alloc")
       /\ ~UsedByTerminator(p, v)
       /\ \A u \in Users(p, v) : IsCast(u) -> "alloc"
    [] /\ op.k = "lcast" /\ IsKind(p, v, "get")
       /\ ~UsedByTerminator(p, v)
       /\ Op(p, v).x \in DOMAIN p.glob -> "global"
    [] /\ op.k = "lcast" /\ IsKind(p, v, "subview") /\ IsKind(p, Op(p, v).ins[1], "get")
       /\ Cardinality(Users(p, Op(p, v).ins[1])) = 1
       /\ ~IsTSL(TypeOf(p, Op(p, v).ins[1]).lay) -> "subview"
    [] IsCast(op) /\ Users(p, op.id) = {} -> "unused"
    [] op.k = "mcast" /\ op.ty.lay # TypeOf(p, op.ins[1]).lay -> "update"
    [] OTHER -> "none"

WithLayout(p, v, lay) == SetOp(p, [Op(p, v) EXCEPT !.ty.lay = lay])
(* Uses of the cast become uses of what it casts. *)
DropCast(p, op) == EraseOp(ReplaceUses(p, op.id, op.ins[1]), op.id)

(* A global is replaced by one with a new symbol. *)
TransformGlobal(p, g, lay) ==
  LET s == Op(p, g).x
      t == NewSymbol(p)
      old == p.glob[s]
      new == IF old.set THEN [old EXCEPT !.data = TransformConstant(@, lay)] ELSE old
  IN SetOp([p EXCEPT !.glob = [y \in (DOMAIN @ \ {s}) \cup {t} |-> IF y = t THEN new ELSE @[y]]],
           [Op(p, g) EXCEPT !.x = t, !.ty.lay = lay])
ApplyToGlobal(p, op) == DropCast(TransformGlobal(p, SourceOf(p, op.id), op.ty.lay), op)
(* The layout is repeated over the tiles of the whole. *)
ApplyToSubview(p, op) ==
  LET v == SourceOf(p, op.id)
  IN WithLayout(TransformGlobal(p, Op(p, v).ins[1], op.ty.lay), v, op.ty.lay)
ApplyToAlloc(p, op) == DropCast(WithLayout(p, SourceOf(p, op.id), op.ty.lay), op)
UpdateCast(p, op) == WithLayout(p, op.id, TypeOf(p, op.ins[1]).lay)

CastRewrite(p, i) ==
  LET op == p.ops[i]
      how == CastPattern(p, op)
  IN CASE how = "alloc"   -> ApplyToAlloc(p, op)
       [] how = "global"  -> ApplyToGlobal(p, op)
       [] how = "subview" -> ApplyToSubview(p, op)
       [] how = "unused"  -> EraseOp(p, op.id)
       [] how = "update"  -> UpdateCast(p, op)

SimplifyCasts == Sweep("casts", {i \in DOMAIN prog.ops : CastPattern(prog, prog.ops[i]) # "none"},
                       LAMBDA i : CastRewrite(prog, i), "realize")

--------------------------------------------------------------------------
(* Second part, from the last cast to the first: a cast becomes an           *)
(* allocation, filled before its first use as an input and copied back after *)
(* its last use as an output.                                               *)

IsInput(u, v) == IF IsStreaming(u) THEN Contains(u.ins, v) ELSE TRUE
IsOutput(u, v) ==
  IF IsStreaming(u) THEN Contains(u.outs, v) ELSE u.k # "return"

(* The positions in the block of position i, nested ones included. *)
Walk(p, i) ==
  IF LoopAt(p, i) = 0 THEN DOMAIN p.ops ELSE LoopAt(p, i) + 1 .. YieldAt(p, LoopAt(p, i))
UsesAsInput(p, i) ==
  {j \in Walk(p, i) : Contains(Operands(p.ops[j]), p.ops[i].id) /\ IsInput(p.ops[j], p.ops[i].id)}
UsesAsOutput(p, i) ==
  {j \in Walk(p, i) : Contains(Operands(p.ops[j]), p.ops[i].id) /\ IsOutput(p.ops[j], p.ops[i].id)}

RealizeCast(p, i) ==
  LET op == p.ops[i]
      v == SourceOf(p, op.id)
      in == UsesAsInput(p, i)
      out == UsesAsOutput(p, i)
      n == Fresh(p)
      back == IF out = {} THEN p ELSE InsertOpAt(p, Max(out) + 1, CopyOp(n, op.id, v))
      first == IF out # {} /\ Max(out) < Min(in) THEN Min(in) + 1 ELSE Min(in)
      copied == IF in = {} THEN back ELSE InsertOpAt(back, first, CopyOp(n + 1, v, op.id))
  IN IF TypeOf(p, v) = op.ty THEN DropCast(p, op)
     ELSE SetOp(copied, [op EXCEPT !.k = "alloc", !.ins = <<>>])

UsedCasts(p) == {i \in DOMAIN p.ops : IsCast(p.ops[i]) /\ Users(p, p.ops[i].id) # {}}
RealizeCasts ==
  Sweep("realize", IF UsedCasts(prog) = {} THEN {} ELSE {Max(UsedCasts(prog))},
        LAMBDA i : RealizeCast(prog, i), "hoist")

--------------------------------------------------------------------------
(* reuse-memref-allocs: an allocation in a loop is done before it.          *)

CanHoist(p, i) == p.ops[i].k = "alloc" /\ LoopAt(p, i) # 0
HoistAlloc(p, i) == InsertOpAt(EraseOp(p, p.ops[i].id), LoopAt(p, i), p.ops[i])
HoistAllocs == Sweep("hoist", {i \in DOMAIN prog.ops : CanHoist(prog, i)},
                     LAMBDA i : HoistAlloc(prog, i), "sync")

--------------------------------------------------------------------------
(* insert-sync-barrier: one walk over the operations. todo are the ones     *)
(* that need a barrier between them and something before them.              *)

ToDM(op) == op.k = "copy"
ToCompute(op) == op.k = "generic"

(* What has to wait for op: users on another core, the next iteration when  *)
(* both are in one loop, and the end of a buffer.                           *)
SyncAfterUsers(p, op) ==
  LET users == UNION {Users(p, v) : v \in ToSet(Operands(op)) \cup {op.id}}
  IN {u.id : u \in {u \in users : (ToDM(op) /\ ~ToDM(u)) \/ (ToCompute(op) /\ ~ToCompute(u))}}
SyncAfterStraight(p, op) ==
  SyncAfterUsers(p, op) \cup {u.id : u \in {u \in Users(p, op.id) : u.k = "dealloc"}}
SyncAfter(p, op) ==
  LET i == At(p, op.id)
      values == ToSet(Operands(op)) \cup {op.id}
      users == UNION {Users(p, v) : v \in values}
      remote == {u \in users : (ToDM(op) /\ ~ToDM(u)) \/ (ToCompute(op) /\ ~ToCompute(u))}
      yields == {p.ops[YieldAt(p, LoopAt(p, i))].id :
                   u \in {u \in remote : LoopAt(p, i) # 0 /\ LoopAt(p, At(p, u.id)) = LoopAt(p, i)}}
  IN {u.id : u \in remote} \cup yields \cup {u.id : u \in {u \in users : u.k = "dealloc"}}
SyncVisit(w, op) ==
  LET before == IF op.id \in w.todo /\ op.k # "sync" THEN <<Effect(w.next, "sync", <<>>)>> ELSE <<>>
      todo == IF op.id \in w.todo \/ op.k = "sync" THEN {} ELSE w.todo
  IN [p |-> w.p, out |-> w.out \o before \o <<op>>, todo |-> todo \cup SyncAfter(w.p, op),
      next |-> w.next + Len(before)]
InsertSyncs(p) ==
  LET w == FoldLeft(SyncVisit, [p |-> p, out |-> <<>>, todo |-> {}, next |-> Fresh(p)], p.ops)
  IN [p EXCEPT !.ops = w.out]

Step(ph, p, next) ==
  /\ phase = ph /\ prog' = p /\ phase' = next
  /\ UNCHANGED <<source, place, pos, mem>>
SyncOnce == Step("sync", InsertSyncs(prog), "pipeline")

(* A loop that construct-pipeline takes: module Pipeline goes on from there. *)
IsStageOp(op) == op.k = "copy" \/ IsStreaming(op)
Stages(p, j) ==
  LET y == YieldAt(p, j)
      first == Min({y} \cup {i \in j + 1 .. y - 1 : ToDM(p.ops[i]) \/ ToCompute(p.ops[i]) \/ p.ops[i].k = "sync"})
      body == SubSeq(p.ops, first, y - 1)
      fits(i) == IsStageOp(body[i]) \/ (body[i].k = "sync" /\ i > 1 /\ IsStageOp(body[i - 1]))
      prefix == {i \in DOMAIN body : \A k \in 1 .. i : fits(k)}
  IN IF prefix = DOMAIN body /\ body # <<>> /\ Last(body).k # "sync" THEN 0
     ELSE Cardinality({i \in prefix : body[i].k = "sync"})
IsPipeline(p) == \E j \in DOMAIN p.ops : p.ops[j].k = "for" /\ Stages(p, j) >= 2
TryPipeline == Step("pipeline", prog, IF IsPipeline(prog) THEN "pipelined" ELSE "lower")

--------------------------------------------------------------------------
(* Canonicalization drops casts and views nobody uses.                      *)
Dead(p) == {i \in DOMAIN p.ops : (IsCast(p.ops[i]) \/ p.ops[i].k \in {"subview", "get"})
                                    /\ Users(p, p.ops[i].id) = {}}
Canonicalize == Sweep("lower", Dead(prog), LAMBDA i : EraseOp(prog, prog.ops[i].id), "alloc")

(* snax-allocate, mode minimalloc: a buffer lives from its allocation to the *)
(* last operation of the function's block that uses it.                      *)
Buffers(p) == {i \in DOMAIN p.ops : p.ops[i].k = "alloc" /\ p.ops[i].ty.space = "L1" /\ LoopAt(p, i) = 0}
TopOf(p, i) == IF LoopAt(p, i) = 0 THEN i ELSE LoopAt(p, i)
EndTime(p, i) == Max({i} \cup {TopOf(p, At(p, u.id)) : u \in Users(p, p.ops[i].id)})
Overlap(p, i, j) == i <= EndTime(p, j) /\ j <= EndTime(p, i)

(* Any solution of minimalloc. *)
Placements(p) ==
  LET size(i) == p.ops[i].ty.n
      free(i) == {a \in 0 .. L1Size - size(i) : a % Tile = 0}
  IN {f \in [Buffers(p) -> {a \in 0 .. L1Size : a % Tile = 0}] :
        \A i \in Buffers(p) :
          /\ f[i] \in free(i)
          /\ \A j \in Buffers(p) : j < i /\ Overlap(p, i, j) =>
               f[i] + size(i) <= f[j] \/ f[j] + size(j) <= f[i]}

(* Deallocations right after the last use, those of later buffers first.    *)
DeallocAfter(p, i) ==
  LET ends == SetToSortSeq({b \in Buffers(p) : EndTime(p, b) = i /\ ~IsTerminator(p.ops[i])}, >)
      n == Fresh(p)
  IN [k \in DOMAIN ends |-> Effect(n + ends[k], "dealloc", <<p.ops[ends[k]].id>>)]
InsertDeallocs(p) ==
  LET after(i) == UNION {{j} : j \in {j \in DOMAIN p.ops : EndOf(p, j) = i /\ LoopAt(p, j) = 0}}
      emit(acc, i) == acc \o <<p.ops[i]>> \o
                        (IF after(i) = {} THEN <<>> ELSE DeallocAfter(p, CHOOSE j \in after(i) : TRUE))
  IN [p EXCEPT !.ops = FoldLeft(emit, <<>>, [i \in DOMAIN p.ops |-> i])]

PlaceOf(p, f) ==
  [v \in {op.id : op \in {op \in ToSet(p.ops) : op.k = "alloc"}} |->
     IF At(p, v) \in DOMAIN f THEN f[At(p, v)] ELSE 2000 + 10 * v]

Place(mode, places, p) ==
  /\ phase = "alloc" /\ prog.mode = mode
  /\ IF places = {}
     THEN phase' = "failed" /\ UNCHANGED <<prog, place>>
     ELSE /\ phase' = "resync" /\ prog' = p
          /\ \E f \in places : place' = PlaceOf(prog, f)
  /\ UNCHANGED <<source, pos, mem>>
MiniMallocate == Place("minimalloc", Placements(prog), InsertDeallocs(prog))

(* Mode static: one after the other, nothing is ever freed.                 *)
NextAligned(a) == ((a + Tile - 1) \div Tile) * Tile
StaticPlacements(p) ==
  LET step(acc, i) ==
        IF i \notin Buffers(p) THEN acc
        ELSE [next |-> NextAligned(acc.next) + p.ops[i].ty.n,
              at   |-> [j \in DOMAIN acc.at \cup {i} |-> IF j = i THEN NextAligned(acc.next) ELSE acc.at[j]]]
      end == FoldLeft(step, [next |-> 0, at |-> [j \in {} |-> 0]], [i \in DOMAIN p.ops |-> i])
  IN IF end.next > L1Size THEN {} ELSE {end.at}
StaticAllocs == Place("static", StaticPlacements(prog), prog)

SyncAgain ==
  /\ phase = "resync"
  /\ LET p == InsertSyncs(prog)
     IN /\ prog' = p
        /\ pos' = [c \in Cores |-> Advance(p, {c}, 1, 0)]
        /\ mem' = Memory0(p, place)
  /\ phase' = "run"
  /\ UNCHANGED <<source, place>>

--------------------------------------------------------------------------
(* The cores run the function. *)

OpAt(c) == prog.ops[pos[c].at]
Work(c) ==
  /\ phase = "run"
  /\ c \in RunsOn(OpAt(c))
  /\ mem' = Exec(prog, place, mem, OpAt(c), pos[c].it)
  /\ pos' = [pos EXCEPT ![c] = Advance(prog, {c}, @.at + 1, @.it)]
  /\ UNCHANGED <<source, prog, phase, place>>
Synchronise ==
  /\ phase = "run"
  /\ \A c \in Cores : OpAt(c).k = "sync"
  /\ pos' = [c \in Cores |-> Advance(prog, {c}, pos[c].at + 1, pos[c].it)]
  /\ UNCHANGED <<source, prog, phase, place, mem>>
Return ==
  /\ phase = "run"
  /\ \A c \in Cores : OpAt(c).k = "return"
  /\ phase' = "done"
  /\ UNCHANGED <<source, prog, place, pos, mem>>

--------------------------------------------------------------------------
Init ==
  /\ source \in Sources
  /\ prog = source
  /\ phase = "globals"
  /\ place = <<>>
  /\ pos = <<>>
  /\ mem = <<>>

Next ==
  \/ Globals \/ SetFuncSpace \/ SetSpaces \/ SetLayouts \/ SimplifyCasts \/ RealizeCasts
  \/ HoistAllocs \/ SyncOnce \/ TryPipeline \/ Canonicalize
  \/ MiniMallocate \/ StaticAllocs \/ SyncAgain
  \/ (\E c \in Cores : Work(c)) \/ Synchronise \/ Return

Stop == Finished /\ UNCHANGED vars
Spec == Init /\ [][Next \/ Stop]_vars

--------------------------------------------------------------------------
(* After a pass the module verifies: operands are defined before they are    *)
(* used and in scope, symbols exist, and a kernel has its operands in L1, in  *)
(* the layouts its accelerator wants.                                        *)
DefinedAt(p, v, i) ==
  v < 0 \/ (/\ v \in {x.id : x \in ToSet(p.ops)}
            /\ At(p, v) < i /\ LoopAt(p, At(p, v)) \in {0, LoopAt(p, i)})
Verified ==
  phase \notin {"globals", "spaces"} =>
    \A i \in DOMAIN prog.ops :
      LET op == prog.ops[i] IN
      /\ \A v \in ToSet(Operands(op)) : DefinedAt(prog, v, i)
      /\ op.k = "get" => op.x \in DOMAIN prog.glob
      /\ IsStreaming(op) => \A v \in ToSet(Operands(op)) : TypeOf(prog, v).space = "L1"
      /\ phase = "run" /\ op.k = "dart" /\ op.want # <<>> =>
           \A j \in DOMAIN op.want : TypeOf(prog, Operands(op)[j]).lay = op.want[j]

(* "Synchronisation barriers are required when data is shared between        *)
(* multiple cores in a cluster, and the correct data flow of the program     *)
(* must be maintained" (insert_sync_barrier.py): whatever the order of the   *)
(* cores and the addresses of the buffers, the caller sees what the function *)
(* as written computes.                                                      *)
SourcePlace ==
  [v \in {op.id : op \in {op \in ToSet(source.ops) : op.k = "alloc"}} |-> 2000 + 10 * v]
Expected ==
  Outcome(source, SourcePlace,
          RunAll(source, SourcePlace, Memory0(source, SourcePlace), Advance(source, Cores, 1, 0)))
DataRight == phase = "done" => Outcome(prog, place, mem) = Expected

(* No core works on a buffer whose end another core has passed: its memory   *)
(* may belong to the next buffer.                                            *)
Touches(c) == IF c \in RunsOn(OpAt(c)) THEN ToSet(Operands(OpAt(c))) ELSE {}
NoUseAfterEnd ==
  phase = "run" =>
    \A i \in DOMAIN prog.ops : prog.ops[i].k = "dealloc" =>
      \A c, d \in Cores : pos[d].at > i => prog.ops[i].ins[1] \notin Touches(c)
==============================================================================
