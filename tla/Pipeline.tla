------------------------------ MODULE Pipeline -------------------------------
(***************************************************************************)
(* Software pipelining of a loop over the cores of a cluster               *)
(* (snaxc/transforms/pipeline).  A nest of two loops, whose body is a      *)
(* sequence of stages with a cluster_sync after each, is merged into one   *)
(* loop (pipeline-canonicalize-for), the buffer between two stages gets a  *)
(* second copy (pipeline-duplicate-buffers), and the loop is unrolled so   *)
(* that all stages work in the same phase, on different iterations         *)
(* (unroll-pipeline).  Phases end with a cluster_sync.                     *)
(*                                                                         *)
(* The operators are the program the passes emit, the actions its          *)
(* execution: every core runs the whole program and does the stages        *)
(* dispatched to it; a stage takes time, it reads when it begins and has   *)
(* written when it ends.  Data is its own history: <<i, j, 0, 1>> is what  *)
(* stages 0 and 1 made of the input tile <<i, j>>.                         *)
(***************************************************************************)
EXTENDS ClusterCores, Integers, Sequences

CONSTANTS
  NumStages,  \* pipeline.nb_stages
  CoreOf,     \* CoreOf[s]: the core stage s is dispatched to
  Outer,      \* [ub, step] of the outer loop, from 0
  Inner,      \* [ub, step] of the inner loop, from 0
  NoTile      \* the content of a buffer nobody has written

Stages == 0 .. NumStages - 1

(* ChangeForStep: a loop with step 1 that runs ub // step times. *)
Trips(loop) == loop.ub \div loop.step

(* MergeForLoops: one loop; its iterations give back those of the nest. *)
Ub == Trips(Inner) * Trips(Outer)

(* Mutant: the iterations of the outer loop are counted inside. *)
TileByOuter(n) ==
  <<(n \div Trips(Outer)) * Outer.step, (n % Trips(Outer)) * Inner.step>>
Tile(n) == <<(n \div Trips(Inner)) * Outer.step, (n % Trips(Inner)) * Inner.step>>

ASSUME PipelineAssumption ==
  /\ NumStages \in Nat \ {0, 1}
  /\ CoreOf \in [Stages -> Cores]
  /\ {Outer.ub, Inner.ub} \subseteq Nat
  /\ {Outer.step, Inner.step} \subseteq Nat \ {0}
  /\ Trips(Inner) # 0 /\ Trips(Outer) # 0
  /\ NoTile \notin Seq(Int)

(* Nothing in the passes checks it: the loop has a trip per stage but one. *)
LongEnough == Ub >= NumStages - 1

(* Nor that the bounds are whole numbers of steps: ub // step drops the rest. *)
Even == Outer.ub % Outer.step = 0 /\ Inner.ub % Inner.step = 0

------------------------------------------------------------------------------
(* UnrollPipeline: stages of one phase, [stage, index] in program order. *)
Preamble(i) == [k \in 1 .. i + 1 |-> [stage |-> k - 1, index |-> i - (k - 1)]]
Body(i) == [k \in 1 .. NumStages |-> [stage |-> k - 1, index |-> i - (k - 1)]]
(* Mutant: the last iteration is that of index ub. *)
PostambleLate(i) ==
  [k \in 1 .. i + 1 |->
     LET j == i + 1 - k
     IN  [stage |-> NumStages - 1 - j, index |-> Ub - (i - j)]]
Postamble(i) ==
  [k \in 1 .. i + 1 |->
     LET j == i + 1 - k
     IN  [stage |-> NumStages - 1 - j, index |-> Ub - (i - j + 1)]]

(* Mutant: the loop keeps its lower bound, the preamble is one phase less. *)
LoopStartEarly == NumStages - 2
LoopStart == NumStages - 1
LoopEnd == IF Ub > LoopStart THEN Ub ELSE LoopStart
NumPhases == LoopEnd + NumStages - 1
Phase(k) ==
  IF k < LoopStart THEN Preamble(k)
  ELSE IF k < LoopEnd THEN Body(k)
  ELSE Postamble(NumPhases - 1 - k)

(* Mutant: there is one copy. *)
FirstCopy(index) == 0

(* PipelineDuplicateBuffers: the copy that belongs to an iteration. *)
Copy(index) == IF index % 2 = 0 THEN 0 ELSE 1
Copies == (0 .. NumStages - 2) \X {0, 1}
Reads(op) == IF op.stage = 0 THEN {} ELSE {<<op.stage - 1, Copy(op.index)>>}
Writes(op) == IF op.stage = NumStages - 1 THEN {}
              ELSE {<<op.stage, Copy(op.index)>>}

------------------------------------------------------------------------------
VARIABLES
  phase,    \* cluster_syncs passed; all cores have passed the same number
  pos,      \* pos[c]: where core c is in its phase
  running,  \* running[c]: a stage has begun
  input,    \* input[c]: what the running stage of core c has read
  buf,      \* the buffers between stages, two copies each
  out       \* the tiles written, by their position

vars == <<phase, pos, running, input, buf, out>>

(* The iterations of the nest before the passes: scf.for, from 0 *)
Iterations(loop) == {i \in 0 .. loop.ub - 1 : i % loop.step = 0}
Tiles == Iterations(Outer) \X Iterations(Inner)

Init ==
  /\ phase = 0
  /\ pos = [c \in Cores |-> 1]
  /\ running = [c \in Cores |-> FALSE]
  /\ input = [c \in Cores |-> NoTile]
  /\ buf = [b \in Copies |-> NoTile]
  /\ out = [t \in Tiles |-> NoTile]

Contents == {NoTile} \cup Seq(Int)

InPhase(c) == phase < NumPhases /\ pos[c] <= Len(Phase(phase))
Op(c) == Phase(phase)[pos[c]]
(* Mutant: nothing is dispatched. *)
AnyCore(c) == InPhase(c)
Mine(c) == InPhase(c) /\ CoreOf[Op(c).stage] = c

(* A stage of another core: the branch on the hart id jumps over it. *)
Skip(c) ==
  /\ InPhase(c) /\ ~Mine(c)
  /\ pos' = [pos EXCEPT ![c] = @ + 1]
  /\ UNCHANGED <<phase, running, input, buf, out>>

Begin(c) ==
  /\ Mine(c) /\ ~running[c]
  /\ running' = [running EXCEPT ![c] = TRUE]
  /\ input' = [input EXCEPT ![c] =
       IF Op(c).stage = 0 THEN Tile(Op(c).index)
       ELSE buf[<<Op(c).stage - 1, Copy(Op(c).index)>>]]
  /\ UNCHANGED <<phase, pos, buf, out>>

End(c) ==
  /\ running[c]
  /\ LET op == Op(c)
         result == IF input[c] = NoTile THEN NoTile ELSE Append(input[c], op.stage)
     IN  /\ buf' = [b \in Copies |-> IF b \in Writes(op) THEN result ELSE buf[b]]
         /\ out' = IF op.stage = NumStages - 1
                   THEN [out EXCEPT ![Tile(op.index)] = result] ELSE out
  /\ running' = [running EXCEPT ![c] = FALSE]
  /\ input' = [input EXCEPT ![c] = NoTile]
  /\ pos' = [pos EXCEPT ![c] = @ + 1]
  /\ UNCHANGED phase

(* Mutant: only cores that have a stage in the phase reach its sync. *)
AtSyncIfWorked(c) ==
  pos[c] > Len(Phase(phase)) /\ \E k \in DOMAIN Phase(phase) : CoreOf[Phase(phase)[k].stage] = c
AtSync(c) == pos[c] > Len(Phase(phase))

ClusterSync ==
  /\ phase < NumPhases
  /\ \A c \in Cores : AtSync(c)
  /\ phase' = phase + 1
  /\ pos' = [c \in Cores |-> 1]
  /\ UNCHANGED <<running, input, buf, out>>

Next == ClusterSync \/ \E c \in Cores : Skip(c) \/ Begin(c) \/ End(c)

Spec == Init /\ [][Next]_vars

------------------------------------------------------------------------------
TypeOK ==
  /\ phase \in 0 .. NumPhases
  /\ pos \in [Cores -> Nat \ {0}]
  /\ running \in [Cores -> BOOLEAN]
  /\ \A c \in Cores : running[c] => InPhase(c) /\ CoreOf[Op(c).stage] = c
  /\ input \in [Cores -> Contents]
  /\ buf \in [Copies -> Contents]
  /\ out \in [Tiles -> Contents]

(***************************************************************************)
(* No stage runs on an iteration the loop does not have, although preamble *)
(* and postamble are emitted without looking at the bound: this needs a    *)
(* loop that is LongEnough.                                                *)
(***************************************************************************)
InBounds ==
  \A c \in Cores : running[c] => Op(c).index \in 0 .. Ub - 1

(***************************************************************************)
(* No stage touches a copy of a buffer another core is writing: between    *)
(* two syncs nothing orders the cores.                                     *)
(***************************************************************************)
NoRace ==
  \A c, d \in Cores :
    c # d /\ running[c] /\ running[d] =>
      Writes(Op(c)) \cap (Reads(Op(d)) \cup Writes(Op(d))) = {}

(***************************************************************************)
(* When the program ends every tile of the original nest has gone through  *)
(* all stages in order. This needs a loop that is LongEnough and Even.     *)
(***************************************************************************)
Finished == phase = NumPhases
OutputRight ==
  Finished => \A t \in Tiles : out[t] = t \o [k \in 1 .. NumStages |-> k - 1]

(* The program ends: no core waits for ever at a sync. *)
ProgramFinishes == <>Finished
==============================================================================
