--------------------------- MODULE PipelineProofs ----------------------------
(***************************************************************************)
(* A pipelined loop is free of races and computes what the nest computes,  *)
(* for any number of stages, cores and iterations.  The argument is the    *)
(* diagonal: in one phase the index of a stage plus its number is          *)
(* constant, so neighbouring stages work on neighbouring iterations, whose *)
(* copies differ.                                                          *)
(*                                                                         *)
(* What ends a phase is cluster_sync.  The last part shows that the phases *)
(* are the rounds of a barrier, that the hardware (ClusterSync) makes      *)
(* cluster_sync, and global_sync with the manager, such barriers, and that *)
(* the two together (PipelinedCluster) do nothing either would not do.     *)
(***************************************************************************)
EXTENDS PipelinedCluster, Numbers, SequenceTheorems

Ops == [stage : Stages, index : Int]

(* The sum of stage and index in phase k. *)
Diagonal(k) ==
  IF k < LoopEnd THEN k ELSE Ub + NumStages - 1 - (NumPhases - k)

(* What the passes are given: a whole number of trips. *)
LEMMA TripsNat == Trips(Inner) \in Nat /\ Trips(Outer) \in Nat /\ Ub \in Nat
  <1>1. \A m, n \in Nat : n # 0 => m \div n \in Nat
    OBVIOUS
  <1>2. \A m, n \in Nat : m * n \in Nat
    OBVIOUS
  <1> QED BY <1>1, <1>2, PipelineAssumption DEF Trips, Ub

(* The numbers of stages, iterations and phases *)
LEMMA Counts ==
  /\ NumStages \in Nat \ {0, 1} /\ LoopStart \in Nat /\ LoopEnd \in Nat
  /\ LoopEnd >= LoopStart /\ NumPhases \in Nat /\ NumPhases = LoopEnd + NumStages - 1
  BY TripsNat, PipelineAssumption DEF LoopStart, LoopEnd, NumPhases

(* Every stage of a phase lies on its diagonal. *)
LEMMA OnDiagonal ==
  ASSUME NEW k \in 0 .. NumPhases - 1, NEW p \in Nat \ {0}, p <= Len(Phase(k))
  PROVE  /\ Phase(k)[p] \in Ops
         /\ Phase(k)[p].stage + Phase(k)[p].index = Diagonal(k)
         /\ LongEnough => Phase(k)[p].index \in 0 .. Ub - 1
  <1>1. CASE k < LoopStart
    <2>1. Phase(k) = [q \in 1 .. k + 1 |-> [stage |-> q - 1, index |-> k - (q - 1)]]
      BY <1>1 DEF Phase, Preamble
    <2>2. p \in 1 .. k + 1
      BY <2>1, Counts
    <2>3. Phase(k)[p] = [stage |-> p - 1, index |-> k - (p - 1)]
      BY <2>1, <2>2
    <2>4. Diagonal(k) = k
      BY <1>1, Counts DEF Diagonal
    <2> QED BY <1>1, <2>2, <2>3, <2>4, Counts, TripsNat
            DEF Ops, Stages, LoopStart, LongEnough
  <1>2. CASE ~(k < LoopStart) /\ k < LoopEnd
    <2>1. Phase(k) = [q \in 1 .. NumStages |-> [stage |-> q - 1, index |-> k - (q - 1)]]
      BY <1>2 DEF Phase, Body
    <2>2. p \in 1 .. NumStages
      BY <2>1, Counts
    <2>3. Phase(k)[p] = [stage |-> p - 1, index |-> k - (p - 1)]
      BY <2>1, <2>2
    <2>4. Diagonal(k) = k
      BY <1>2 DEF Diagonal
    <2> QED BY <1>2, <2>2, <2>3, <2>4, Counts, TripsNat
            DEF Ops, Stages, LoopStart, LoopEnd, LongEnough
  <1>3. CASE ~(k < LoopStart) /\ ~(k < LoopEnd)
    <2> DEFINE i == NumPhases - 1 - k
    <2>1. i \in 0 .. NumStages - 2
      BY <1>3, Counts
    <2>2. Phase(k) = [q \in 1 .. i + 1 |->
            [stage |-> NumStages - 1 - (i + 1 - q),
             index |-> Ub - (i - (i + 1 - q) + 1)]]
      BY <1>3 DEF Phase, Postamble
    <2>3. p \in 1 .. i + 1
      BY <2>1, <2>2
    <2>4. Phase(k)[p] = [stage |-> NumStages - 1 - (i + 1 - p),
                         index |-> Ub - (i - (i + 1 - p) + 1)]
      BY <2>2, <2>3
    <2>5. Diagonal(k) = Ub + NumStages - 1 - (NumPhases - k)
      BY <1>3 DEF Diagonal
    <2> QED BY <2>1, <2>3, <2>4, <2>5, Counts, TripsNat DEF Ops, Stages, LongEnough
  <1> QED BY <1>1, <1>2, <1>3

(* Consecutive iterations use different copies. *)
LEMMA CopiesAlternate == \A n \in Int : Copy(n) # Copy(n - 1) /\ Copy(n) \in {0, 1}
  BY DEF Copy

------------------------------------------------------------------------------
(* A tile is its two indices. *)
LEMMA TileIsPair == \A n \in Int : Tile(n) \in Seq(Int)
  <1>1. \A a, b \in Int : <<a, b>> \in Seq(Int)
    OBVIOUS
  <1> SUFFICES ASSUME NEW n \in Int PROVE Tile(n) \in Seq(Int)
    OBVIOUS
  <1>2. Trips(Inner) \in Nat \ {0}
    BY TripsNat, PipelineAssumption
  <1>3. \A m \in Nat \ {0} : n \div m \in Int /\ n % m \in Int
    OBVIOUS
  <1>4. \A a, b \in Int : a * b \in Int
    OBVIOUS
  <1>5. Outer.step \in Int /\ Inner.step \in Int
    BY PipelineAssumption
  <1> QED BY <1>1, <1>2, <1>3, <1>4, <1>5 DEF Tile

(* The operation a core is at is one of its phase. *)
LEMMA OpInOps ==
  ASSUME TypeOK, NEW c \in Cores, InPhase(c)
  PROVE  /\ Op(c) \in Ops
         /\ Op(c).stage + Op(c).index = Diagonal(phase)
         /\ LongEnough => Op(c).index \in 0 .. Ub - 1
  <1>1. phase \in 0 .. NumPhases - 1
    BY Counts DEF TypeOK, InPhase
  <1>2. pos[c] \in Nat \ {0} /\ pos[c] <= Len(Phase(phase))
    BY DEF TypeOK, InPhase
  <1> QED BY <1>1, <1>2, OnDiagonal DEF Op

(* Types hold at the start and are kept by each action. *)
LEMMA InitTyped == Init => TypeOK
  BY Counts DEF Init, TypeOK, Contents

LEMMA SkipTyped == ASSUME TypeOK, NEW c \in Cores, Skip(c) PROVE TypeOK'
  <1>1. ~running[c] /\ running' = running /\ phase' = phase
    BY DEF Skip, TypeOK, Mine
  <1>2. pos' \in [Cores -> Nat \ {0}]
    BY DEF Skip, TypeOK
  <1>3. ASSUME NEW d \in Cores, running[d]
        PROVE  InPhase(d)' /\ (CoreOf[Op(d).stage] = d)'
    <2>1. d # c /\ pos'[d] = pos[d]
      BY <1>1, <1>3 DEF Skip, TypeOK
    <2> QED BY <1>1, <1>3, <2>1 DEF TypeOK, InPhase, Op
  <1> QED BY <1>1, <1>2, <1>3 DEF Skip, TypeOK

LEMMA BeginTyped == ASSUME TypeOK, NEW c \in Cores, Begin(c) PROVE TypeOK'
  <1>1. Op(c) \in Ops
    BY OpInOps DEF Begin, Mine
  <1>2. CASE Op(c).stage = 0
    <2>1. Tile(Op(c).index) \in Contents
      BY <1>1, TileIsPair DEF Ops, Contents
    <2> QED BY <1>2, <2>1 DEF Begin, Mine, TypeOK, InPhase, Op
  <1>3. CASE Op(c).stage # 0
    <2>1. <<Op(c).stage - 1, Copy(Op(c).index)>> \in Copies
      BY <1>1, <1>3, CopiesAlternate, Counts DEF Ops, Stages, Copies
    <2>2. buf[<<Op(c).stage - 1, Copy(Op(c).index)>>] \in Contents
      BY <2>1 DEF TypeOK
    <2> QED BY <1>3, <2>2 DEF Begin, Mine, TypeOK, InPhase, Op
  <1> QED BY <1>2, <1>3

LEMMA EndTyped == ASSUME TypeOK, NEW c \in Cores, End(c) PROVE TypeOK'
  <1> DEFINE op == Op(c)
             result == IF input[c] = NoTile THEN NoTile ELSE Append(input[c], op.stage)
  <1>1. op \in Ops
    BY OpInOps DEF End, TypeOK
  <1>2. op.stage \in Int
    BY <1>1, Counts DEF Ops, Stages
  <1>3. result \in Contents
    BY <1>2 DEF TypeOK, Contents
  <1>4. buf' \in [Copies -> Contents]
    BY <1>3 DEF End, TypeOK
  <1>5. out' \in [Tiles -> Contents]
    BY <1>3 DEF End, TypeOK
  <1>6. input' \in [Cores -> Contents]
    BY DEF End, TypeOK, Contents
  <1>7. ASSUME NEW d \in Cores, running'[d]
        PROVE  InPhase(d)' /\ (CoreOf[Op(d).stage] = d)'
    <2>1. d # c /\ pos'[d] = pos[d] /\ running[d] /\ phase' = phase
      BY <1>7 DEF End, TypeOK
    <2> QED BY <2>1 DEF TypeOK, InPhase, Op
  <1> QED BY <1>4, <1>5, <1>6, <1>7 DEF End, TypeOK

LEMMA SyncTyped == ASSUME TypeOK, ClusterSync PROVE TypeOK'
  <1>1. ASSUME NEW c \in Cores PROVE ~running[c]
    BY Counts DEF ClusterSync, AtSync, TypeOK, InPhase
  <1> QED BY <1>1, Counts DEF ClusterSync, TypeOK

(* Registers and buffers keep their types, and a core is only ever in a    *)
(* stage of its own phase that is dispatched to it.                        *)
THEOREM TypeCorrect == Spec => []TypeOK
  <1>1. ASSUME TypeOK, [Next]_vars PROVE TypeOK'
    <2>1. CASE UNCHANGED vars
      BY <1>1, <2>1 DEF vars, TypeOK, InPhase, Op
    <2> QED BY <1>1, <2>1, SkipTyped, BeginTyped, EndTyped, SyncTyped DEF Next
  <1> QED BY InitTyped, <1>1, PTL DEF Spec

------------------------------------------------------------------------------
(* Two stages of one phase on different cores do not conflict.             *)
LEMMA TypedNoRace == TypeOK => NoRace
  <1> SUFFICES ASSUME TypeOK, NEW c \in Cores, NEW d \in Cores,
                      c # d, running[c], running[d]
               PROVE  Writes(Op(c)) \cap (Reads(Op(d)) \cup Writes(Op(d))) = {}
    BY DEF NoRace
  <1> DEFINE a == Op(c)
             b == Op(d)
  <1>1. /\ a \in Ops /\ b \in Ops
        /\ a.stage + a.index = b.stage + b.index
        /\ CoreOf[a.stage] = c /\ CoreOf[b.stage] = d
    BY OpInOps DEF TypeOK
  <1>2. a.stage \in Int /\ a.index \in Int /\ b.stage \in Int /\ b.index \in Int
    BY <1>1, Counts DEF Ops, Stages
  <1> HIDE DEF a, b
  <1>3. a.stage # b.stage
    BY <1>1
  <1>4. ASSUME a.stage = b.stage - 1 PROVE Copy(a.index) # Copy(b.index)
    <2>1. \A s, i, t, j \in Int : s + i = t + j /\ s = t - 1 => j = i - 1
      OBVIOUS
    <2>2. b.index = a.index - 1
      <3>1. a.stage + a.index = b.stage + b.index
        BY <1>1
      <3> QED BY <1>2, <1>4, <2>1, <3>1
    <2> QED BY <1>2, <2>2, CopiesAlternate
  <1>5. Writes(a) \cap (Reads(b) \cup Writes(b)) = {}
    BY <1>3, <1>4 DEF Writes, Reads
  <1> QED BY <1>5 DEF a, b

(* No core reads or writes a copy of a buffer another core is writing,     *)
(* whatever the dispatch, the number of stages and the iterations.         *)
THEOREM RaceFree == Spec => []NoRace
  BY TypeCorrect, TypedNoRace, PTL

(* Preamble, loop and postamble stay within the iterations of the nest,    *)
(* provided that there are as many as stages but one.                      *)
THEOREM StaysInBounds == ASSUME LongEnough PROVE Spec => []InBounds
  <1>1. TypeOK => InBounds
    BY OpInOps DEF TypeOK, InBounds
  <1> QED BY TypeCorrect, <1>1, PTL

------------------------------------------------------------------------------
(***************************************************************************)
(* What the loop computes. In a loop that is LongEnough the diagonal of    *)
(* phase k is k, and phase k has every stage and iteration on it. A stage  *)
(* that has run left its result in its copy of the buffer, which nobody    *)
(* overwrites before the next phase has read it.                           *)
(***************************************************************************)
Indices == 0 .. Ub - 1
Last == NumStages - 1

(* What the first m stages make of tile n *)
Value(m, n) ==
  [k \in 1 .. m + 2 |->
     IF k = 1 THEN Tile(n)[1] ELSE IF k = 2 THEN Tile(n)[2] ELSE k - 3]

RanInPhase(p) ==
  p \in 1 .. Len(Phase(phase)) /\ pos[CoreOf[Phase(phase)[p].stage]] > p

BufferHolds(s, n) == s # Last => buf[<<s, Copy(n)>>] = Value(s + 1, n)
TileHolds(s, n) == s = Last => out[Tile(n)] = Value(NumStages, n)

FromLastPhase ==
  \A s \in Stages, n \in Indices : s + n = phase - 1 => BufferHolds(s, n)
FromThisPhase ==
  phase < NumPhases => \A p \in Nat :
    RanInPhase(p) => LET op == Phase(phase)[p]
                     IN  BufferHolds(op.stage, op.index) /\ TileHolds(op.stage, op.index)
AtWork ==
  \A c \in Cores : running[c] => input[c] = Value(Op(c).stage, Op(c).index)
Written ==
  \A n \in Indices : n + Last < phase => TileHolds(Last, n)

HistoryInv == TypeOK /\ FromLastPhase /\ FromThisPhase /\ AtWork /\ Written

(* A loop of enough iterations has one phase for each diagonal. *)
LEMMA LongCounts ==
  ASSUME LongEnough
  PROVE  /\ LoopEnd = Ub /\ NumPhases = Ub + NumStages - 1
         /\ \A k \in 0 .. NumPhases - 1 : Diagonal(k) = k
  BY Counts, TripsNat DEF LongEnough, LoopEnd, LoopStart, NumPhases, Diagonal

(* The first stage of a phase *)
First(k) == IF k < LoopEnd THEN 0 ELSE k - Ub + 1

(* The operations of a phase are those of its diagonal, each once. *)
LEMMA PhaseStages ==
  ASSUME LongEnough, NEW k \in 0 .. NumPhases - 1
  PROVE  /\ First(k) \in Nat /\ Len(Phase(k)) \in Nat
         /\ \A p \in 1 .. Len(Phase(k)) :
              Phase(k)[p] = [stage |-> First(k) + p - 1, index |-> k - (First(k) + p - 1)]
         /\ \A s \in Stages : k - s \in Indices =>
              s - First(k) + 1 \in 1 .. Len(Phase(k))
  <1> USE Counts, TripsNat, LongCounts
  <1>1. CASE k < LoopStart
    <2>1. Phase(k) = [q \in 1 .. k + 1 |-> [stage |-> q - 1, index |-> k - (q - 1)]]
      BY <1>1 DEF Phase, Preamble
    <2>2. First(k) = 0 /\ Len(Phase(k)) = k + 1
      BY <1>1, <2>1 DEF First
    <2>3. ASSUME NEW p \in 1 .. k + 1
          PROVE  First(k) + p - 1 = p - 1
      BY <2>2
    <2>4. \A p \in 1 .. k + 1 :
            Phase(k)[p] = [stage |-> First(k) + p - 1, index |-> k - (First(k) + p - 1)]
      BY <2>1, <2>3
    <2>5. \A s \in Stages : k - s \in Indices => s - First(k) + 1 \in 1 .. k + 1
      BY <2>2 DEF Stages, Indices
    <2> QED BY <2>2, <2>4, <2>5
  <1>2. CASE ~(k < LoopStart) /\ k < LoopEnd
    <2>1. Phase(k) = [q \in 1 .. NumStages |-> [stage |-> q - 1, index |-> k - (q - 1)]]
      BY <1>2 DEF Phase, Body
    <2>2. First(k) = 0 /\ Len(Phase(k)) = NumStages
      BY <1>2, <2>1 DEF First
    <2>3. ASSUME NEW p \in 1 .. NumStages
          PROVE  First(k) + p - 1 = p - 1
      BY <2>2
    <2>4. \A p \in 1 .. NumStages :
            Phase(k)[p] = [stage |-> First(k) + p - 1, index |-> k - (First(k) + p - 1)]
      BY <2>1, <2>3
    <2>5. \A s \in Stages : k - s \in Indices => s - First(k) + 1 \in 1 .. NumStages
      BY <2>2 DEF Stages, Indices
    <2> QED BY <2>2, <2>4, <2>5
  <1>3. CASE ~(k < LoopStart) /\ ~(k < LoopEnd)
    <2> DEFINE i == NumPhases - 1 - k
    <2>1. i \in 0 .. NumStages - 2
      BY <1>3
    <2>2. Phase(k) = [q \in 1 .. i + 1 |->
            [stage |-> NumStages - 1 - (i + 1 - q),
             index |-> Ub - (i - (i + 1 - q) + 1)]]
      BY <1>3 DEF Phase, Postamble
    <2>3. First(k) = k - Ub + 1 /\ Len(Phase(k)) = i + 1 /\ First(k) \in Nat
      BY <1>3, <2>1, <2>2 DEF First
    <2>4. ASSUME NEW p \in 1 .. i + 1
          PROVE  /\ NumStages - 1 - (i + 1 - p) = First(k) + p - 1
                 /\ Ub - (i - (i + 1 - p) + 1) = k - (First(k) + p - 1)
      BY <2>1, <2>3
    <2>5. \A p \in 1 .. i + 1 :
            Phase(k)[p] = [stage |-> First(k) + p - 1, index |-> k - (First(k) + p - 1)]
      BY <2>2, <2>4
    <2>6. \A s \in Stages : k - s \in Indices => s - First(k) + 1 \in 1 .. i + 1
      BY <2>1, <2>3 DEF Stages, Indices
    <2> QED BY <2>3, <2>5, <2>6, <2>1
  <1> QED BY <1>1, <1>2, <1>3

LEMMA OpAt ==
  ASSUME LongEnough, NEW k \in 0 .. NumPhases - 1, NEW p \in 1 .. Len(Phase(k))
  PROVE  /\ Phase(k)[p].stage \in Stages /\ Phase(k)[p].index \in Indices
         /\ Phase(k)[p].stage + Phase(k)[p].index = k
         /\ \A q \in 1 .. Len(Phase(k)) : Phase(k)[q].stage = Phase(k)[p].stage => q = p
  <1>1. p \in Nat \ {0} /\ p <= Len(Phase(k))
    BY PhaseStages
  <1>2. Phase(k)[p] \in Ops /\ Phase(k)[p].stage + Phase(k)[p].index = k
        /\ Phase(k)[p].index \in Indices
    BY <1>1, OnDiagonal, LongCounts DEF Indices
  <1>3. ASSUME NEW q \in 1 .. Len(Phase(k)) PROVE Phase(k)[q].stage = First(k) + q - 1
    <2>1. Phase(k)[q] = [stage |-> First(k) + q - 1, index |-> k - (First(k) + q - 1)]
      BY PhaseStages
    <2> QED BY <2>1
  <1>4. \A q \in 1 .. Len(Phase(k)) : First(k) + q - 1 = First(k) + p - 1 => q = p
    BY PhaseStages
  <1> QED BY <1>2, <1>3, <1>4 DEF Ops

LEMMA PlaceOf ==
  ASSUME LongEnough, NEW k \in 0 .. NumPhases - 1,
         NEW s \in Stages, NEW n \in Indices, s + n = k
  PROVE  \E p \in 1 .. Len(Phase(k)) : Phase(k)[p].stage = s /\ Phase(k)[p].index = n
  <1>1. s \in Nat /\ n \in Nat /\ k \in Nat /\ k - s = n
    BY Counts, TripsNat DEF Stages, Indices
  <1>2. s - First(k) + 1 \in 1 .. Len(Phase(k))
    BY <1>1, PhaseStages
  <1>3. First(k) + (s - First(k) + 1) - 1 = s
    BY <1>1, PhaseStages
  <1>4. Phase(k)[s - First(k) + 1] = [stage |-> s, index |-> n]
    BY <1>1, <1>2, <1>3, PhaseStages
  <1> QED BY <1>2, <1>4

------------------------------------------------------------------------------
(* Values grow by one stage at a time. *)
LEMMA TilePair ==
  ASSUME NEW n \in Int
  PROVE  /\ Tile(n) \in Seq(Int) /\ Len(Tile(n)) = 2
         /\ Tile(n)[1] \in Int /\ Tile(n)[2] \in Int
  <1>1. Tile(n) \in Seq(Int)
    BY TileIsPair
  <1>2. Len(Tile(n)) = 2
    BY DEF Tile
  <1> QED BY <1>1, <1>2

(* The value of a tile after a number of stages *)
LEMMA ValueIsSeq ==
  ASSUME NEW m \in Nat, NEW n \in Int
  PROVE  Value(m, n) \in Seq(Int) /\ Len(Value(m, n)) = m + 2
  <1>1. m + 2 \in Nat
    OBVIOUS
  <1>2. \A k \in 1 .. m + 2 : k - 3 \in Int
    OBVIOUS
  <1>3. Value(m, n) \in [1 .. m + 2 -> Int]
    BY <1>2, TilePair DEF Value
  <1> QED BY <1>1, <1>3

LEMMA ValueOfTile == ASSUME NEW n \in Int PROVE Value(0, n) = Tile(n)
  <1>1. Value(0, n) \in Seq(Int) /\ Len(Value(0, n)) = 2
    <2>1. Value(0, n) \in Seq(Int) /\ Len(Value(0, n)) = 0 + 2
      BY ValueIsSeq, Zenon
    <2> QED BY <2>1
  <1>2. \A k \in 1 .. 2 : Value(0, n)[k] = Tile(n)[k]
    BY DEF Value
  <1> QED BY <1>1, <1>2, TilePair, SeqEqual

LEMMA ValueNext ==
  ASSUME NEW s \in Nat, NEW n \in Int
  PROVE  Append(Value(s, n), s) = Value(s + 1, n)
  <1>1. /\ Value(s, n) \in Seq(Int) /\ Len(Value(s, n)) = s + 2
        /\ Value(s + 1, n) \in Seq(Int) /\ Len(Value(s + 1, n)) = s + 3
    <2>1. s + 1 \in Nat /\ (s + 1) + 2 = s + 3
      OBVIOUS
    <2>2. /\ Value(s, n) \in Seq(Int) /\ Len(Value(s, n)) = s + 2
          /\ Value(s + 1, n) \in Seq(Int) /\ Len(Value(s + 1, n)) = (s + 1) + 2
      BY <2>1, ValueIsSeq, Zenon
    <2> QED BY <2>1, <2>2
  <1> DEFINE longer == Append(Value(s, n), s)
  <1>2. longer \in Seq(Int) /\ Len(longer) = s + 3
    BY <1>1
  <1>3. ASSUME NEW k \in 1 .. s + 3 PROVE longer[k] = Value(s + 1, n)[k]
    <2>1. CASE k = s + 3
      <3>1. longer[k] = s
        BY <1>1, <2>1
      <3>2. Value(s + 1, n)[k] = k - 3
        BY <2>1 DEF Value
      <3> QED BY <2>1, <3>1, <3>2
    <2>2. CASE k # s + 3
      <3>1. k \in 1 .. s + 2
        BY <2>2
      <3>2. longer[k] = Value(s, n)[k]
        BY <1>1, <3>1
      <3> QED BY <3>1, <3>2 DEF Value
    <2> QED BY <2>1, <2>2
  <1> QED BY <1>1, <1>2, <1>3, SeqEqual

LEMMA ValueOfAll ==
  ASSUME NEW n \in Int
  PROVE  Value(NumStages, n) = Tile(n) \o [k \in 1 .. NumStages |-> k - 1]
  <1> DEFINE stages == [k \in 1 .. NumStages |-> k - 1]
             whole == Tile(n) \o stages
  <1>1. stages \in Seq(Int) /\ Len(stages) = NumStages
    BY Counts
  <1>2. \A k \in 1 .. NumStages : stages[k] = k - 1
    OBVIOUS
  <1>3. Value(NumStages, n) \in Seq(Int) /\ Len(Value(NumStages, n)) = NumStages + 2
    BY ValueIsSeq, Counts
  <1> HIDE DEF stages
  <1>4. whole \in Seq(Int) /\ Len(whole) = NumStages + 2
        /\ \A k \in 1 .. NumStages + 2 :
             whole[k] = IF k <= 2 THEN Tile(n)[k] ELSE stages[k - 2]
    <2>1. Tile(n) \in Seq(Int) /\ Len(Tile(n)) = 2
      BY TilePair
    <2>2. /\ whole \in Seq(Int)
          /\ Len(whole) = Len(Tile(n)) + Len(stages)
          /\ \A k \in 1 .. Len(Tile(n)) + Len(stages) :
               whole[k] = IF k <= Len(Tile(n)) THEN Tile(n)[k] ELSE stages[k - Len(Tile(n))]
      BY <1>1, <2>1, ConcatProperties, Zenon
    <2>3. Len(Tile(n)) + Len(stages) = NumStages + 2
      BY <1>1, <2>1, Counts
    <2> QED BY <2>1, <2>2, <2>3
  <1>5. ASSUME NEW k \in 1 .. NumStages + 2 PROVE whole[k] = Value(NumStages, n)[k]
    <2>1. CASE k \in 1 .. 2
      BY SMTT(20), <1>4, <2>1, Counts DEF Value
    <2>2. CASE k \notin 1 .. 2
      <3>1. k - 2 \in 1 .. NumStages
        BY <2>2, Counts
      <3>2. whole[k] = k - 3
        BY <1>2, <1>4, <2>2, <3>1
      <3> QED BY <2>2, <3>2 DEF Value
    <2> QED BY <2>1, <2>2
  <1>6. Value(NumStages, n) = whole
    BY <1>3, <1>4, <1>5, SeqEqual
  <1> QED BY <1>6 DEF stages

------------------------------------------------------------------------------
(* The merged loop visits every tile of the nest once. *)
LEMMA Cancel == \A a, b \in Nat, s \in Nat \ {0} : a * s = b * s => a = b
  <1> SUFFICES ASSUME NEW a \in Nat, NEW b \in Nat, NEW s \in Nat \ {0}, a * s = b * s
               PROVE  a = b
    OBVIOUS
  <1>1. (a - b) * s = 0
    OBVIOUS
  <1> QED BY <1>1, SMTT(30)

(* The trips and steps of the two loops, as numbers *)
LEMMA Loops ==
  /\ Trips(Inner) \in Nat \ {0} /\ Trips(Outer) \in Nat \ {0}
  /\ Outer.step \in Nat \ {0} /\ Inner.step \in Nat \ {0}
  /\ Ub = Trips(Inner) * Trips(Outer) /\ Ub \in Nat
  BY TripsNat, PipelineAssumption DEF Ub

(* A tile is the row and the column of its number. *)
LEMMA RowAndColumn ==
  ASSUME NEW n \in Indices
  PROVE  /\ n \div Trips(Inner) \in 0 .. Trips(Outer) - 1
         /\ n % Trips(Inner) \in 0 .. Trips(Inner) - 1
         /\ n = Trips(Inner) * (n \div Trips(Inner)) + (n % Trips(Inner))
  <1> DEFINE r == Trips(Inner)
             q == n \div r
  <1>1. n \in Nat /\ n < Ub
    BY Loops DEF Indices
  <1>2. r \in Nat \ {0} /\ Trips(Outer) \in Nat /\ Ub = r * Trips(Outer)
    BY Loops
  <1>3. n = r * q + (n % r) /\ n % r \in 0 .. r - 1 /\ q \in Int
    BY <1>1, <1>2, Division
  <1>4. q >= 0
    <2>1. \A a, b \in Nat : b # 0 => a \div b \in Nat
      OBVIOUS
    <2> QED BY <1>1, <1>2, <2>1
  <1>5. q < Trips(Outer)
    <2>1. ASSUME Trips(Outer) <= q PROVE FALSE
      <3>1. r * Trips(Outer) <= r * q
        BY <1>2, <1>3, <1>4, <2>1, Monotone
      <3>2. r * q \in Int /\ r * Trips(Outer) \in Int
        BY <1>2, <1>3
      <3> QED BY <1>1, <1>2, <1>3, <3>1, <3>2
    <2> QED BY <1>2, <1>3, <2>1
  <1> QED BY <1>2, <1>3, <1>4, <1>5

(* The iterations of a loop are the multiples of its step. *)
LEMMA StepIn ==
  ASSUME NEW loop, loop.ub \in Nat, loop.step \in Nat \ {0}, Trips(loop) \in Nat,
         NEW i \in 0 .. Trips(loop) - 1
  PROVE  i * loop.step \in Iterations(loop)
  <1> DEFINE u == loop.ub
             s == loop.step
             t == Trips(loop)
  <1>1. u = s * t + (u % s) /\ u % s \in 0 .. s - 1
    BY Division DEF Trips
  <1>2. i \in Nat /\ i + 1 \in Nat /\ i + 1 <= t /\ t \in Nat /\ s \in Nat /\ u \in Nat
    OBVIOUS
  <1>3. s * (i + 1) <= s * t
    BY <1>2, Monotone
  <1>4. s * (i + 1) = s * i + s /\ s * i \in Nat /\ i * s = s * i
    <2>1. \A a, b \in Nat : a * (b + 1) = a * b + a /\ a * b \in Nat /\ b * a = a * b
      BY SMTT(30)
    <2> QED BY <1>2, <2>1, Zenon
  <1>5. i * s \in 0 .. u - 1
    BY <1>1, <1>2, <1>3, <1>4
  <1>6. i * s = s * i + 0 /\ i * s \in Nat /\ i \in Int /\ 0 \in 0 .. s - 1
    BY <1>4
  <1>7. (i * s) % s = 0
    BY <1>6, OneRemainder
  <1> QED BY <1>5, <1>7 DEF Iterations

(* Every iteration of a loop is a multiple of its step. *)
LEMMA StepFound ==
  ASSUME NEW loop, loop.ub \in Nat, loop.step \in Nat \ {0}, Trips(loop) \in Nat,
         loop.ub % loop.step = 0, NEW x \in Iterations(loop)
  PROVE  \E i \in 0 .. Trips(loop) - 1 : x = i * loop.step
  <1> DEFINE u == loop.ub
             s == loop.step
             t == Trips(loop)
             i == x \div s
  <1>1. x \in Nat /\ x < u /\ x % s = 0 /\ s \in Nat \ {0} /\ t \in Nat /\ u \in Nat
    BY DEF Iterations
  <1>2. u = s * t
    <2>1. u = s * t + (u % s)
      BY <1>1, Division DEF Trips
    <2> QED BY <1>1, <2>1
  <1>3. x = s * i
    <2>1. x = s * i + (x % s) /\ i \in Int
      BY <1>1, Division
    <2> QED BY <1>1, <2>1
  <1>4. i \in Nat
    <2>1. \A a, b \in Nat : b # 0 => a \div b \in Nat
      OBVIOUS
    <2> QED BY <1>1, <2>1
  <1> HIDE DEF i
  <1>5. i < t
    <2>1. ASSUME t <= i PROVE FALSE
      <3>1. s * t <= s * i
        BY <1>1, <1>4, <2>1, Monotone
      <3> QED BY <1>1, <1>2, <1>3, <3>1
    <2> QED BY <1>1, <1>4, <2>1
  <1>6. i \in 0 .. t - 1 /\ x = i * s
    BY <1>1, <1>3, <1>4, <1>5
  <1> QED BY <1>6

(* Iterations and tiles correspond one to one. *)
LEMMA TileIn == ASSUME NEW n \in Indices PROVE Tile(n) \in Tiles
  <1>1. /\ (n \div Trips(Inner)) * Outer.step \in Iterations(Outer)
        /\ (n % Trips(Inner)) * Inner.step \in Iterations(Inner)
    BY RowAndColumn, StepIn, Loops, PipelineAssumption
  <1> QED BY <1>1 DEF Tile, Tiles

LEMMA TileOnce ==
  ASSUME NEW m \in Indices, NEW n \in Indices, Tile(m) = Tile(n)
  PROVE  m = n
  <1> DEFINE r == Trips(Inner)
  <1>1. /\ (m \div r) * Outer.step = (n \div r) * Outer.step
        /\ (m % r) * Inner.step = (n % r) * Inner.step
    BY DEF Tile
  <1>2. /\ m \div r \in Nat /\ n \div r \in Nat /\ m % r \in Nat /\ n % r \in Nat
        /\ m = r * (m \div r) + (m % r) /\ n = r * (n \div r) + (n % r)
    BY RowAndColumn, Loops
  <1>3. m \div r = n \div r
    BY <1>1, <1>2, Loops, Cancel
  <1>4. m % r = n % r
    BY <1>1, <1>2, Loops, Cancel
  <1>5. r * (m \div r) + (m % r) = r * (n \div r) + (n % r)
    BY <1>3, <1>4
  <1> QED BY <1>2, <1>5

LEMMA TileFound == ASSUME Even, NEW t \in Tiles PROVE \E n \in Indices : Tile(n) = t
  <1> DEFINE r == Trips(Inner)
  <1>1. PICK i \in 0 .. Trips(Outer) - 1, j \in 0 .. r - 1 :
          t = <<i * Outer.step, j * Inner.step>>
    <2>1. PICK x \in Iterations(Outer), y \in Iterations(Inner) : t = <<x, y>>
      BY DEF Tiles
    <2>2. \E i \in 0 .. Trips(Outer) - 1 : x = i * Outer.step
      BY StepFound, Loops, PipelineAssumption DEF Even
    <2>3. \E j \in 0 .. r - 1 : y = j * Inner.step
      BY StepFound, Loops, PipelineAssumption DEF Even
    <2> QED BY <2>1, <2>2, <2>3
  <1>2. i \in Nat /\ j \in Nat /\ r \in Nat \ {0} /\ i + 1 <= Trips(Outer) /\ i + 1 \in Nat
        /\ Trips(Outer) \in Nat /\ r * i \in Nat
    BY Loops, SMTT(30)
  <1> DEFINE n == r * i + j
  <1>3. n \in Indices
    <2>1. r * (i + 1) <= r * Trips(Outer)
      BY <1>2, Monotone
    <2>2. r * (i + 1) = r * i + r
      BY <1>2
    <2>3. n < r * i + r /\ n >= 0
      BY <1>1, <1>2
    <2>4. r * i + r <= Ub
      BY <2>1, <2>2, Loops
    <2> QED BY <1>2, <2>3, <2>4, Loops DEF Indices
  <1>4. n \div r = i /\ n % r = j
    <2>1. n \in Nat /\ i \in Int /\ j \in 0 .. r - 1 /\ n = r * i + j
      BY <1>2, <1>3, Loops DEF Indices
    <2> HIDE DEF n
    <2> QED BY <1>2, <2>1, OneRemainder
  <1>5. Tile(n) = t
    BY <1>1, <1>4 DEF Tile
  <1> QED BY <1>3, <1>5

------------------------------------------------------------------------------
(* The number of the phase *)
LEMMA PhaseNumber ==
  ASSUME TypeOK
  PROVE  /\ phase \in Nat /\ phase <= NumPhases
         /\ phase < NumPhases => phase \in 0 .. NumPhases - 1
  BY Counts DEF TypeOK

(* Every operation has its core. *)
LEMMA CoreOfOp ==
  ASSUME LongEnough, NEW k \in 0 .. NumPhases - 1, NEW p \in 1 .. Len(Phase(k))
  PROVE  CoreOf[Phase(k)[p].stage] \in Cores
  BY OpAt, PipelineAssumption

(* Nothing has run when a phase begins. *)
LEMMA FreshPhase ==
  ASSUME LongEnough, TypeOK, pos = [c \in Cores |-> 1]
  PROVE  FromThisPhase
  <1>1. ASSUME NEW p \in Nat, phase < NumPhases, RanInPhase(p) PROVE FALSE
    <2>1. CoreOf[Phase(phase)[p].stage] \in Cores /\ p \in 1 .. Len(Phase(phase))
      BY <1>1, PhaseNumber, CoreOfOp DEF RanInPhase
    <2>2. pos[CoreOf[Phase(phase)[p].stage]] = 1
      BY <2>1
    <2> QED BY <1>1, <2>1, <2>2 DEF RanInPhase
  <1> QED BY <1>1 DEF FromThisPhase

(* The history invariant holds at the start and is kept by each action. *)
LEMMA InitHistory == ASSUME LongEnough, Init PROVE HistoryInv
  <1>1. TypeOK /\ AtWork
    BY InitTyped DEF Init, AtWork
  <1>2. FromLastPhase
    BY Counts, TripsNat DEF Init, FromLastPhase, Stages, Indices
  <1>3. Written
    BY Counts, TripsNat DEF Init, Written, Indices, Last
  <1>4. FromThisPhase
    BY <1>1, FreshPhase DEF Init
  <1> QED BY <1>1, <1>2, <1>3, <1>4 DEF HistoryInv

(* A core that is in a stage is in one of its own. *)
LEMMA RunningOp ==
  ASSUME LongEnough, TypeOK, NEW c \in Cores, InPhase(c)
  PROVE  /\ phase \in 0 .. NumPhases - 1 /\ pos[c] \in 1 .. Len(Phase(phase))
         /\ Op(c).stage \in Stages /\ Op(c).index \in Indices
         /\ Op(c).stage + Op(c).index = phase
  <1>1. phase \in 0 .. NumPhases - 1
    BY PhaseNumber DEF InPhase
  <1>2. pos[c] \in 1 .. Len(Phase(phase))
    BY <1>1, PhaseStages DEF TypeOK, InPhase
  <1> QED BY <1>1, <1>2, OpAt DEF Op

LEMMA SkipHistory == ASSUME LongEnough, HistoryInv, NEW c \in Cores, Skip(c)
                     PROVE HistoryInv'
  <1>1. /\ phase' = phase /\ buf' = buf /\ out' = out /\ running' = running
        /\ input' = input /\ pos' = [pos EXCEPT ![c] = @ + 1] /\ InPhase(c) /\ ~Mine(c)
    BY DEF Skip
  <1>2. TypeOK' /\ TypeOK
    BY SkipTyped DEF HistoryInv
  <1>3. FromLastPhase'
    BY <1>1 DEF HistoryInv, FromLastPhase, BufferHolds
  <1>4. Written'
    BY <1>1 DEF HistoryInv, Written, TileHolds
  <1>5. AtWork'
    <2> SUFFICES ASSUME NEW d \in Cores, running[d]
                 PROVE  (input[d] = Value(Op(d).stage, Op(d).index))'
      BY <1>1 DEF AtWork
    <2>1. d # c
      BY <1>1, <1>2 DEF TypeOK, Mine
    <2>2. Op(d)' = Op(d)
      BY <1>1, <1>2, <2>1 DEF Op, TypeOK
    <2> QED BY <1>1, <2>2 DEF HistoryInv, AtWork
  <1>6. ASSUME NEW p \in Nat, phase < NumPhases, RanInPhase(p)'
        PROVE  RanInPhase(p)
    <2>1. phase \in 0 .. NumPhases - 1 /\ p \in 1 .. Len(Phase(phase))
      BY <1>1, <1>2, <1>6, PhaseNumber DEF RanInPhase
    <2> DEFINE d == CoreOf[Phase(phase)[p].stage]
    <2>2. d \in Cores /\ pos'[d] > p
      BY <1>1, <1>6, <2>1, CoreOfOp DEF RanInPhase
    <2>3. CASE d = c
      <3>1. p # pos[c]
        BY <1>1, <2>3 DEF Mine, Op
      <3>2. pos'[c] = pos[c] + 1 /\ pos[c] \in Nat
        BY <1>1, <1>2 DEF TypeOK
      <3> QED BY <2>1, <2>2, <2>3, <3>1, <3>2 DEF RanInPhase
    <2>4. CASE d # c
      BY <1>1, <1>2, <2>1, <2>2, <2>4 DEF RanInPhase, TypeOK
    <2> QED BY <2>3, <2>4
  <1>7. FromThisPhase'
    BY <1>1, <1>6 DEF HistoryInv, FromThisPhase, BufferHolds, TileHolds
  <1> QED BY <1>2, <1>3, <1>4, <1>5, <1>7 DEF HistoryInv

LEMMA BeginHistory == ASSUME LongEnough, HistoryInv, NEW c \in Cores, Begin(c)
                      PROVE HistoryInv'
  <1>1. /\ phase' = phase /\ buf' = buf /\ out' = out /\ pos' = pos
        /\ running' = [running EXCEPT ![c] = TRUE] /\ InPhase(c)
    BY DEF Begin, Mine
  <1>2. TypeOK' /\ TypeOK
    BY BeginTyped DEF HistoryInv
  <1>3. FromLastPhase' /\ Written' /\ FromThisPhase'
    BY <1>1 DEF HistoryInv, FromLastPhase, Written, FromThisPhase, RanInPhase,
                BufferHolds, TileHolds
  <1> DEFINE a == Op(c)
  <1>4. /\ phase \in Nat /\ a.stage \in Stages /\ a.index \in Indices
        /\ a.stage + a.index = phase
    BY <1>1, <1>2, RunningOp, PhaseNumber
  <1>5. input'[c] = Value(a.stage, a.index)
    <2>1. CASE a.stage = 0
      <3>1. input'[c] = Tile(a.index)
        BY <1>2, <2>1 DEF Begin, TypeOK
      <3> QED BY <1>4, <2>1, <3>1, ValueOfTile, TripsNat DEF Indices
    <2>2. CASE a.stage # 0
      <3> DEFINE s == a.stage - 1
      <3>1. /\ s \in Stages /\ s # Last /\ s + a.index = phase - 1 /\ s + 1 = a.stage
        BY <1>4, <2>2, Counts, TripsNat DEF Stages, Last, Indices
      <3>2. buf[<<s, Copy(a.index)>>] = Value(s + 1, a.index)
        BY <1>4, <3>1 DEF HistoryInv, FromLastPhase, BufferHolds
      <3>3. input'[c] = buf[<<s, Copy(a.index)>>]
        BY <1>2, <2>2 DEF Begin, TypeOK
      <3> QED BY <3>1, <3>2, <3>3
    <2> QED BY <2>1, <2>2
  <1>6. AtWork'
    <2> SUFFICES ASSUME NEW d \in Cores, running'[d]
                 PROVE  input'[d] = Value(Op(d).stage, Op(d).index)
      BY <1>1 DEF AtWork, Op
    <2>1. CASE d = c
      BY <1>5, <2>1
    <2>2. CASE d # c
      BY <1>2, <2>2 DEF Begin, TypeOK, HistoryInv, AtWork
    <2> QED BY <2>1, <2>2
  <1> QED BY <1>2, <1>3, <1>6 DEF HistoryInv

(* What the end of a stage changes: its copy of its buffer, or its tile *)
LEMMA EndResult ==
  ASSUME LongEnough, HistoryInv, NEW c \in Cores, End(c), NEW a, a = Op(c)
  PROVE  /\ a.stage \in Stages /\ a.index \in Indices /\ a.stage + a.index = phase
         /\ BufferHolds(a.stage, a.index)' /\ TileHolds(a.stage, a.index)'
         /\ \A s \in Stages, n \in Indices :
              BufferHolds(s, n) /\ (s # a.stage \/ Copy(n) # Copy(a.index))
                => BufferHolds(s, n)'
         /\ \A s \in Stages, n \in Indices :
              TileHolds(s, n) /\ (s # a.stage \/ n # a.index) => TileHolds(s, n)'
  <1> DEFINE result == Value(a.stage + 1, a.index)
  <1>1. TypeOK /\ running[c] /\ InPhase(c)
    BY DEF HistoryInv, End, TypeOK
  <1>2. /\ a.stage \in Stages /\ a.index \in Indices /\ a.stage + a.index = phase
    BY <1>1, RunningOp
  <1>3. /\ a.stage \in Nat /\ a.index \in Int /\ Last \in Stages
    BY <1>2, Counts, TripsNat DEF Stages, Indices, Last
  <1>4. input[c] = Value(a.stage, a.index)
    BY <1>1 DEF HistoryInv, AtWork
  <1>5. input[c] # NoTile
    BY <1>3, <1>4, ValueIsSeq, PipelineAssumption
  <1>6. Append(input[c], a.stage) = result
    BY <1>3, <1>4, ValueNext
  <1>7. /\ buf' = [b \in Copies |-> IF b \in Writes(a) THEN result ELSE buf[b]]
        /\ out' = IF a.stage = Last THEN [out EXCEPT ![Tile(a.index)] = result] ELSE out
    BY <1>5, <1>6 DEF End, Last
  <1> HIDE DEF result
  <1>8. ASSUME NEW s \in Stages, NEW n \in Indices, s # Last
        PROVE  /\ <<s, Copy(n)>> \in Copies
               /\ <<s, Copy(n)>> \in Writes(a) <=> s = a.stage /\ Copy(n) = Copy(a.index)
    <2>1. Copy(n) \in {0, 1}
      BY DEF Copy
    <2>2. <<s, Copy(n)>> \in Copies
      BY <1>8, <2>1, Counts DEF Stages, Last, Copies
    <2>3. <<s, Copy(n)>> \in Writes(a) <=> s = a.stage /\ Copy(n) = Copy(a.index)
      BY <1>8 DEF Writes, Last
    <2> QED BY <2>2, <2>3
  <1>9. BufferHolds(a.stage, a.index)'
    BY <1>2, <1>7, <1>8 DEF BufferHolds, result
  <1>10. ASSUME NEW s \in Stages, NEW n \in Indices,
                BufferHolds(s, n), s # a.stage \/ Copy(n) # Copy(a.index)
         PROVE  BufferHolds(s, n)'
    BY <1>7, <1>8, <1>10 DEF BufferHolds
  <1>11. TileHolds(a.stage, a.index)'
    <2> SUFFICES ASSUME a.stage = Last PROVE out'[Tile(a.index)] = Value(NumStages, a.index)
      BY DEF TileHolds
    <2>1. a.stage + 1 = NumStages
      BY Counts DEF Last
    <2> QED BY <1>1, <1>2, <1>7, <2>1, TileIn DEF TypeOK, result
  <1>12. ASSUME NEW s \in Stages, NEW n \in Indices,
                TileHolds(s, n), s # a.stage \/ n # a.index
         PROVE  TileHolds(s, n)'
    <2> SUFFICES ASSUME s = Last PROVE out'[Tile(n)] = Value(NumStages, n)
      BY DEF TileHolds
    <2>1. CASE a.stage = Last
      <3>1. Tile(n) # Tile(a.index)
        BY <1>2, <1>12, <2>1, TileOnce
      <3> QED BY <1>1, <1>7, <1>12, <2>1, <3>1, TileIn DEF TypeOK, TileHolds
    <2>2. CASE a.stage # Last
      BY <1>7, <1>12, <2>2 DEF TileHolds
    <2> QED BY <2>1, <2>2
  <1> QED BY <1>2, <1>9, <1>10, <1>11, <1>12

LEMMA EndHistory == ASSUME LongEnough, HistoryInv, NEW c \in Cores, End(c)
                    PROVE HistoryInv'
  <1>0. PICK a : a = Op(c)
    OBVIOUS
  <1>1. /\ phase' = phase /\ pos' = [pos EXCEPT ![c] = @ + 1] /\ InPhase(c)
        /\ running' = [running EXCEPT ![c] = FALSE]
        /\ input' = [input EXCEPT ![c] = NoTile]
    BY DEF End, HistoryInv, TypeOK
  <1>2. TypeOK' /\ TypeOK
    BY EndTyped DEF HistoryInv
  <1>3. /\ phase \in 0 .. NumPhases - 1 /\ phase \in Nat /\ pos[c] \in 1 .. Len(Phase(phase))
        /\ a.stage \in Stages /\ a.index \in Indices /\ a.stage + a.index = phase
    BY <1>0, <1>1, <1>2, RunningOp, PhaseNumber
  <1>4. FromLastPhase'
    <2> SUFFICES ASSUME NEW s \in Stages, NEW n \in Indices, s + n = phase - 1
                 PROVE  BufferHolds(s, n)'
      BY <1>1 DEF FromLastPhase
    <2>1. BufferHolds(s, n)
      BY DEF HistoryInv, FromLastPhase
    <2>2. ASSUME s = a.stage PROVE Copy(n) # Copy(a.index)
      <3>1. a.index \in Int /\ n = a.index - 1
        <4>1. a.index \in Int /\ s \in Int /\ n \in Int /\ phase \in Int
          BY <1>3, Counts, TripsNat DEF Stages, Indices
        <4>2. s + a.index = phase /\ s + n = phase - 1
          BY <1>3, <2>2
        <4>3. a.index = phase - s
          BY <4>1, <4>2
        <4>4. n = (phase - s) - 1
          BY <4>1, <4>2
        <4> QED BY <4>1, <4>3, <4>4
      <3> QED BY <3>1, CopiesAlternate
    <2> QED BY <1>0, <2>1, <2>2, EndResult
  <1>5. Written'
    <2> SUFFICES ASSUME NEW n \in Indices, n + Last < phase
                 PROVE  TileHolds(Last, n)'
      BY <1>1 DEF Written
    <2>1. TileHolds(Last, n) /\ Last \in Stages
      BY Counts DEF HistoryInv, Written, Last, Stages
    <2>2. Last # a.stage \/ n # a.index
      BY <1>3, Counts, TripsNat DEF Stages, Indices, Last
    <2> QED BY <1>0, <2>1, <2>2, EndResult
  <1>6. AtWork'
    <2> SUFFICES ASSUME NEW d \in Cores, running'[d]
                 PROVE  (input[d] = Value(Op(d).stage, Op(d).index))'
      BY DEF AtWork
    <2>1. d # c /\ running[d]
      BY <1>1, <1>2 DEF TypeOK
    <2>2. Op(d)' = Op(d) /\ input'[d] = input[d]
      BY <1>1, <1>2, <2>1 DEF Op, TypeOK
    <2> QED BY <2>1, <2>2 DEF HistoryInv, AtWork
  <1>7. FromThisPhase'
    <2> SUFFICES ASSUME NEW p \in Nat, RanInPhase(p)', NEW b, b = Phase(phase)[p]
                 PROVE  BufferHolds(b.stage, b.index)' /\ TileHolds(b.stage, b.index)'
      BY <1>1 DEF FromThisPhase
    <2> DEFINE d == CoreOf[b.stage]
    <2>1. p \in 1 .. Len(Phase(phase)) /\ d \in Cores /\ pos'[d] > p
      BY <1>1, <1>3, CoreOfOp DEF RanInPhase
    <2>2. b.stage \in Stages /\ b.index \in Indices
      BY <1>3, <2>1, OpAt
    <2>3. CASE p = pos[c]
      <3>1. b = a
        BY <1>0, <2>3 DEF Op
      <3> QED BY <1>0, <3>1, EndResult
    <2>4. CASE p # pos[c]
      <3>1. b.stage # a.stage
        BY <1>0, <1>3, <2>1, <2>4, OpAt DEF Op
      <3>2. RanInPhase(p)
        <4>1. CASE d = c
          BY <1>1, <1>2, <2>1, <2>4, <4>1 DEF RanInPhase, TypeOK
        <4>2. CASE d # c
          BY <1>1, <1>2, <2>1, <4>2 DEF RanInPhase, TypeOK
        <4> QED BY <4>1, <4>2
      <3>3. BufferHolds(b.stage, b.index) /\ TileHolds(b.stage, b.index)
        <4>1. phase < NumPhases
          BY <1>3, Counts
        <4> QED BY <3>2, <4>1 DEF HistoryInv, FromThisPhase
      <3> QED BY <1>0, <2>2, <3>1, <3>3, EndResult
    <2> QED BY <2>3, <2>4
  <1> QED BY <1>2, <1>4, <1>5, <1>6, <1>7 DEF HistoryInv

(* Before a sync every stage of the phase has run. *)
LEMMA AllRan ==
  ASSUME LongEnough, HistoryInv, ClusterSync, NEW s \in Stages, NEW n \in Indices,
         s + n = phase
  PROVE  BufferHolds(s, n) /\ TileHolds(s, n)
  <1>1. phase \in 0 .. NumPhases - 1 /\ phase < NumPhases
    BY PhaseNumber DEF ClusterSync, HistoryInv
  <1>2. PICK p \in 1 .. Len(Phase(phase)) :
          Phase(phase)[p].stage = s /\ Phase(phase)[p].index = n
    BY <1>1, PlaceOf
  <1>3. CoreOf[Phase(phase)[p].stage] \in Cores
    BY <1>1, CoreOfOp
  <1>4. pos[CoreOf[Phase(phase)[p].stage]] > Len(Phase(phase))
    BY <1>3 DEF ClusterSync, AtSync
  <1>5. p \in Nat /\ RanInPhase(p)
    BY <1>1, <1>2, <1>3, <1>4, PhaseStages DEF RanInPhase, HistoryInv, TypeOK
  <1> QED BY <1>1, <1>2, <1>5 DEF HistoryInv, FromThisPhase

LEMMA SyncHistory == ASSUME LongEnough, HistoryInv, ClusterSync PROVE HistoryInv'
  <1>1. /\ phase' = phase + 1 /\ buf' = buf /\ out' = out /\ running' = running
        /\ pos' = [c \in Cores |-> 1] /\ phase \in Nat
    BY PhaseNumber DEF ClusterSync, HistoryInv
  <1>2. TypeOK' /\ TypeOK
    BY SyncTyped DEF HistoryInv
  <1>3. ASSUME NEW c \in Cores PROVE ~running[c]
    <2>1. pos[c] > Len(Phase(phase))
      BY DEF ClusterSync, AtSync
    <2>2. ASSUME running[c] PROVE FALSE
      <3>1. InPhase(c)
        BY <1>2, <2>2 DEF TypeOK
      <3>2. pos[c] \in 1 .. Len(Phase(phase)) /\ Len(Phase(phase)) \in Nat
        BY <1>2, <3>1, RunningOp, PhaseStages
      <3> QED BY <2>1, <3>2
    <2> QED BY <2>2
  <1>4. AtWork'
    BY <1>1, <1>3 DEF AtWork
  <1>5. FromLastPhase'
    <2> SUFFICES ASSUME NEW s \in Stages, NEW n \in Indices, s + n = (phase + 1) - 1
                 PROVE  BufferHolds(s, n)'
      BY <1>1 DEF FromLastPhase
    <2>1. s + n = phase
      BY <1>1
    <2> QED BY <1>1, <2>1, AllRan DEF BufferHolds
  <1>6. Written'
    <2> SUFFICES ASSUME NEW n \in Indices, n + Last < phase + 1
                 PROVE  TileHolds(Last, n)'
      BY <1>1 DEF Written
    <2>1. Last \in Stages /\ (n + Last < phase \/ Last + n = phase)
      BY <1>1, Counts, TripsNat DEF Last, Stages, Indices
    <2>2. TileHolds(Last, n)
      BY <2>1, AllRan DEF HistoryInv, Written
    <2> QED BY <1>1, <2>2 DEF TileHolds
  <1>7. FromThisPhase'
    <2>1. ASSUME NEW p \in Nat, (phase < NumPhases)', RanInPhase(p)' PROVE FALSE
      <3>1. phase' \in 0 .. NumPhases - 1
        BY <1>1, <2>1, Counts
      <3>2. CoreOf[Phase(phase')[p].stage] \in Cores /\ p \in 1 .. Len(Phase(phase'))
        BY <2>1, <3>1, CoreOfOp DEF RanInPhase
      <3>3. pos'[CoreOf[Phase(phase')[p].stage]] = 1
        BY <1>1, <3>2
      <3> QED BY <2>1, <3>2, <3>3 DEF RanInPhase
    <2> QED BY <2>1 DEF FromThisPhase
  <1> QED BY <1>2, <1>4, <1>5, <1>6, <1>7 DEF HistoryInv

(* At the end it says that every tile went through all stages in order. *)
LEMMA HistoryRight == ASSUME LongEnough, Even, HistoryInv PROVE OutputRight
  <1> SUFFICES ASSUME Finished, NEW t \in Tiles
               PROVE  out[t] = t \o [k \in 1 .. NumStages |-> k - 1]
    BY DEF OutputRight
  <1>1. PICK n \in Indices : Tile(n) = t
    BY TileFound
  <1>2. n + Last < phase /\ n \in Int
    BY LongCounts, Counts, TripsNat DEF Finished, Indices, Last
  <1>3. out[Tile(n)] = Value(NumStages, n)
    BY <1>2 DEF HistoryInv, Written, TileHolds
  <1> QED BY <1>1, <1>2, <1>3, ValueOfAll

(* When the program ends, every tile of the nest has gone through all      *)
(* stages in order, for any stages, cores, dispatch, loops and timing,     *)
(* provided that it has a trip for every stage but one and that its bounds *)
(* are whole numbers of steps.                                             *)
THEOREM ComputesTheNest == ASSUME LongEnough, Even PROVE Spec => []OutputRight
  <1>1. Init => HistoryInv
    BY InitHistory
  <1>2. ASSUME HistoryInv, [Next]_vars PROVE HistoryInv'
    <2>1. CASE UNCHANGED vars
      BY <1>2, <2>1 DEF vars, HistoryInv, TypeOK, InPhase, Op, FromLastPhase,
         FromThisPhase, RanInPhase, AtWork, Written, BufferHolds, TileHolds
    <2> QED BY <1>2, <2>1, SkipHistory, BeginHistory, EndHistory, SyncHistory DEF Next
  <1>3. HistoryInv => OutputRight
    BY HistoryRight
  <1> QED BY <1>1, <1>2, <1>3, PTL DEF Spec
------------------------------------------------------------------------------
(***************************************************************************)
(* The barriers themselves.  The phases end in a barrier as Barrier        *)
(* specifies it, and that is what cluster_sync of the hardware is.         *)
(***************************************************************************)
AtBarrier(c) == phase < NumPhases /\ AtSync(c)

PhaseBarrier == INSTANCE Barrier WITH
  Parties <- Cores,
  arrived <- {c \in Cores : AtBarrier(c)},
  rounds <- [c \in Cores |-> phase]

(* Every core has a stage, its own or not, before it is at the barrier. *)
LEMMA PhaseNotEmpty ==
  ASSUME NEW k \in 0 .. NumPhases - 1
  PROVE  Len(Phase(k)) \in Nat \ {0}
  <1> USE Counts
  <1>1. CASE k < LoopStart
    BY <1>1 DEF Phase, Preamble
  <1>2. CASE ~(k < LoopStart) /\ k < LoopEnd
    BY <1>2 DEF Phase, Body
  <1>3. CASE ~(k < LoopStart) /\ ~(k < LoopEnd)
    <2>1. NumPhases - 1 - k \in Nat
      OBVIOUS
    <2> QED BY <1>3, <2>1 DEF Phase, Postamble
  <1> QED BY <1>1, <1>2, <1>3

(* In its first place a core is not at the barrier. *)
LEMMA FirstPlace ==
  ASSUME phase \in 0 .. NumPhases, NEW c \in Cores, pos[c] = 1
  PROVE  ~AtBarrier(c)
  <1> SUFFICES ASSUME phase < NumPhases PROVE ~AtSync(c)
    BY DEF AtBarrier
  <1>1. Len(Phase(phase)) \in Nat \ {0}
    BY PhaseNotEmpty, Counts
  <1> QED BY <1>1 DEF AtSync

(* A core at the barrier stays while the phase lasts. *)
LEMMA StaysAtBarrier ==
  ASSUME TypeOK, phase' = phase, \A c \in Cores : pos'[c] \in {pos[c], pos[c] + 1}
  PROVE  PhaseBarrier!Next
  <1> DEFINE W == {c \in Cores : AtBarrier(c)}
  <1>1. ASSUME NEW c \in Cores, AtBarrier(c) PROVE AtBarrier(c)'
    <2>1. Len(Phase(phase)) \in Nat /\ pos[c] \in Nat
      BY <1>1, PhaseNotEmpty, Counts DEF TypeOK, AtBarrier
    <2> QED BY <1>1, <2>1 DEF AtBarrier, AtSync
  <1>2. W \subseteq W'
    BY <1>1
  <1>3. W' \in SUBSET Cores /\ W' = W \cup W'
    BY <1>2
  <1>4. PhaseBarrier!Arrive(W')
    BY <1>3 DEF PhaseBarrier!Arrive
  <1> QED BY <1>3, <1>4 DEF PhaseBarrier!Next

(* The end of a phase releases all cores. *)
LEMMA PhaseEnds == ASSUME TypeOK, ClusterSync PROVE PhaseBarrier!Next
  <1>1. phase' \in 0 .. NumPhases /\ phase \in Nat /\ phase' = phase + 1
    BY Counts DEF TypeOK, ClusterSync
  <1>2. ASSUME NEW c \in Cores PROVE ~AtBarrier(c)'
    <2>1. pos'[c] = 1
      BY DEF ClusterSync
    <2>2. phase' < NumPhases => Len(Phase(phase')) \in Nat \ {0}
      BY <1>1, PhaseNotEmpty, Counts
    <2> QED BY <2>1, <2>2 DEF AtBarrier, AtSync
  <1>3. {c \in Cores : AtBarrier(c)}' = {}
    BY <1>2
  <1>4. [c \in Cores |-> phase]' = [p \in Cores |-> [c \in Cores |-> phase][p] + 1]
    BY <1>1
  <1> QED BY <1>3, <1>4 DEF PhaseBarrier!Next, PhaseBarrier!Release

(***************************************************************************)
(* In the program no core enters a phase before all have left the last     *)
(* one: its cluster_syncs are the rounds of one barrier.                   *)
(***************************************************************************)
THEOREM PhasesAreRounds == Spec => PhaseBarrier!Spec
  <1>1. Init => PhaseBarrier!Init
    <2> SUFFICES ASSUME Init PROVE PhaseBarrier!Init
      OBVIOUS
    <2>1. ASSUME NEW c \in Cores PROVE ~AtBarrier(c)
      <3>1. phase \in 0 .. NumPhases
        BY Counts DEF Init
      <3>2. pos[c] = 1
        BY DEF Init
      <3> QED BY <3>1, <3>2, FirstPlace
    <2>2. {c \in Cores : AtBarrier(c)} = {}
      BY <2>1
    <2>3. [c \in Cores |-> phase] = [c \in Cores |-> 0]
      BY DEF Init
    <2> QED BY <2>2, <2>3, Zenon DEF PhaseBarrier!Init
  <1>2. ASSUME TypeOK, [Next]_vars PROVE [PhaseBarrier!Next]_(PhaseBarrier!vars)
    <2>1. CASE UNCHANGED vars
      BY <2>1 DEF vars, PhaseBarrier!vars, AtBarrier, AtSync
    <2>2. CASE ClusterSync
      BY <1>2, <2>2, PhaseEnds
    <2>3. ASSUME NEW c \in Cores, Skip(c) \/ Begin(c) \/ End(c)
          PROVE  PhaseBarrier!Next
      <3>1. phase' = phase /\ \A d \in Cores : pos'[d] \in {pos[d], pos[d] + 1}
        BY <1>2, <2>3 DEF TypeOK, Skip, Begin, End
      <3> QED BY <1>2, <3>1, StaysAtBarrier
    <2> QED BY <1>2, <2>1, <2>2, <2>3 DEF Next
  <1> QED BY <1>1, <1>2, TypeCorrect, PTL DEF Spec, PhaseBarrier!Spec

------------------------------------------------------------------------------
(* Types hold after reset and are kept. *)
LEMMA SyncInitType == SyncInit => SyncTypeOK
<1> SUFFICES ASSUME SyncInit PROVE SyncTypeOK
  OBVIOUS
<1>1. todo \in [Cores -> Seq(Accesses)]
  BY SyncAssumption DEF SyncInit
<1> QED
  BY <1>1 DEF SyncInit, SyncTypeOK, Zero

LEMMA SyncNextType == SyncTypeOK /\ [SyncNext]_syncVars => SyncTypeOK'
<1> SUFFICES ASSUME SyncTypeOK, [SyncNext]_syncVars PROVE SyncTypeOK'
  OBVIOUS
<1>1. CASE UNCHANGED syncVars
  BY <1>1 DEF SyncTypeOK, syncVars, coreVars, managerVars
<1>2. ASSUME NEW issue \in SUBSET Cores, NEW accReady \in SUBSET Cores,
             NEW store \in BOOLEAN, NEW bReady \in BOOLEAN,
             Clock(issue, accReady, store, bReady)
      PROVE  SyncTypeOK'
  <2>1. todo' \in [Cores -> Seq(Accesses)]
    BY <1>2 DEF SyncTypeOK, Clock, CoresEdge, Holds, Passes, Valid
  <2>2. held' \in [Cores -> BOOLEAN]
    BY <1>2 DEF Clock, CoresEdge, Holds, Valid
  <2>3. \A c \in Cores : held'[c] => todo'[c] # <<>>
    BY <1>2 DEF Clock, CoresEdge, Holds, Valid
  <2>4. local' \in [Cores -> Nat] /\ global' \in [Cores -> Nat]
    BY <1>2 DEF SyncTypeOK, Clock, CoresEdge, Holds
  <2>5. /\ storeHeld' \in BOOLEAN /\ managerValid' \in BOOLEAN
        /\ managerRespPending' \in BOOLEAN
    BY <1>2 DEF Clock, ManagerEdge
  <2>6. stores' \in Nat
    BY <1>2 DEF SyncTypeOK, Clock, ManagerEdge
  <2> QED
    BY <2>1, <2>2, <2>3, <2>4, <2>5, <2>6 DEF SyncTypeOK
<1> QED
  BY <1>1, <1>2 DEF SyncNext

(* The registers keep their types, and only a core with an access to do    *)
(* waits.                                                                  *)
THEOREM SyncTypeCorrect == SyncSpec => []SyncTypeOK
  BY SyncInitType, SyncNextType, PTL DEF SyncSpec

------------------------------------------------------------------------------
(* At a barrier port nobody leaves before it opens, and all leave then. *)
LEMMA LocalPasses ==
  ASSUME NEW issue, NEW accReady, NEW c \in Cores
  PROVE  /\ LocalSync(issue) => Passes(c, issue, accReady) /\ Port(c) = "local"
         /\ ~LocalSync(issue) => ~(Passes(c, issue, accReady) /\ Port(c) = "local")
  BY DEF LocalSync, ValidAt, Passes, Ready

(* Only a synchronisation of a core reaches the global port. *)
LEMMA GlobalPasses ==
  ASSUME NEW issue, NEW accReady, NEW c \in Cores
  PROVE  /\ Sync(issue) => Passes(c, issue, accReady) /\ Port(c) = "global"
         /\ ~Sync(issue) => ~(Passes(c, issue, accReady) /\ Port(c) = "global")
  BY DEF Sync, Combined, ValidAt, Passes, Ready

(* A core that waits at a port and does not pass goes on waiting there. *)
LEMMA KeepsWaiting ==
  ASSUME SyncTypeOK, NEW issue, NEW accReady, CoresEdge(issue, accReady),
         NEW c \in Cores, held[c], ~Passes(c, issue, accReady)
  PROVE  held'[c] /\ todo'[c] = todo[c]
  BY DEF SyncTypeOK, CoresEdge, Holds, Valid

(* A clock edge is a step of the local barrier, or none. *)
LEMMA LocalEdge ==
  ASSUME SyncTypeOK, NEW issue, NEW accReady, CoresEdge(issue, accReady)
  PROVE  LocalBarrier!Next
<1>1. CASE LocalSync(issue)
  <2>1. \A c \in Cores : Passes(c, issue, accReady) /\ Port(c) = "local"
    BY <1>1, LocalPasses
  <2>2. local' = [c \in Cores |-> local[c] + 1]
    BY <2>1 DEF CoresEdge, Holds
  <2>3. \A c \in Cores : ~held'[c]
    BY <2>1 DEF CoresEdge, Holds
  <2>4. Waiting("local")' = {}
    BY <2>3 DEF Waiting
  <2> QED
    BY <2>2, <2>4 DEF LocalBarrier!Next, LocalBarrier!Release
<1>2. CASE ~LocalSync(issue)
  <2>1. \A c \in Cores : ~(Passes(c, issue, accReady) /\ Port(c) = "local")
    BY <1>2, LocalPasses
  <2>2. local' = local
    BY <2>1 DEF CoresEdge, Holds, SyncTypeOK
  <2>3. Waiting("local") \subseteq Waiting("local")'
    BY <2>1, KeepsWaiting DEF Waiting, Port, Access
  <2>4. Waiting("local")' \in SUBSET Cores
    BY DEF Waiting
  <2>5. LocalBarrier!Arrive(Waiting("local")')
    BY <2>2, <2>3 DEF LocalBarrier!Arrive
  <2> QED
    BY <2>4, <2>5 DEF LocalBarrier!Next
<1> QED
  BY <1>1, <1>2

LEMMA LocalStep == SyncTypeOK /\ [SyncNext]_syncVars => [LocalBarrier!Next]_(LocalBarrier!vars)
<1>1. ASSUME UNCHANGED syncVars PROVE UNCHANGED LocalBarrier!vars
  BY <1>1 DEF syncVars, coreVars, LocalBarrier!vars, Waiting, Port, Access
<1>2. ASSUME SyncTypeOK, SyncNext PROVE LocalBarrier!Next
  BY <1>2, LocalEdge DEF SyncNext, Clock
<1> QED
  BY <1>1, <1>2

(* It starts as one. *)
LEMMA LocalInit == SyncInit => LocalBarrier!Init
  BY DEF SyncInit, Zero, LocalBarrier!Init, Waiting

(* cluster_sync implements a barrier of the cores. *)
THEOREM LocalIsBarrier == SyncSpec => LocalSpec
<1>1. SyncSpec => []SyncTypeOK
  BY SyncTypeCorrect
<1> QED
  BY <1>1, LocalInit, LocalStep, PTL DEF SyncSpec, LocalSpec, LocalBarrier!Spec
------------------------------------------------------------------------------
(***************************************************************************)
(* A store that meets the edge which clears managerValid is lost.  Two     *)
(* kinds of manager never make one: one that the cores tell when they have *)
(* left a global_sync, and one that synchronises once.                     *)
(***************************************************************************)
OneRoundAtATime == ManagerWaits \/ ManagerSyncs <= 1

(* Rounds of the manager that are over *)
ManagerRounds == stores - (IF managerValid THEN 1 ELSE 0)

(* The cores have left as many rounds, and no store waits behind one. *)
RoundsInv ==
  /\ \A c \in Cores : global[c] = ManagerRounds
  /\ storeHeld => ~managerValid

(* At the start nobody has left a round. *)
LEMMA RoundsInit == SyncInit => RoundsInv
<1> SUFFICES ASSUME SyncInit PROVE RoundsInv
  OBVIOUS
<1>1. ~storeHeld /\ ~managerValid /\ stores = 0 /\ \A c \in Cores : global[c] = 0
  BY DEF SyncInit, Zero
<1>2. ManagerRounds = 0
  <2>1. 0 - 0 = 0
    OBVIOUS
  <2> QED
    BY <1>1, <2>1, Zenon DEF ManagerRounds
<1> QED
  BY <1>1, <1>2 DEF RoundsInv

(* A manager with a store to make has no request standing. *)
LEMMA StoresAlone ==
  ASSUME SyncTypeOK, RoundsInv, OneRoundAtATime, NEW store \in BOOLEAN, StoreValid(store)
  PROVE  ~managerValid
<1>1. CASE storeHeld
  BY <1>1 DEF RoundsInv
<1>2. CASE ~storeHeld
  <2>1. MayStore
    BY <1>2 DEF StoreValid
  <2>2. PICK c \in Cores : TRUE
    BY SyncAssumption
  <2>3. global[c] = ManagerRounds /\ global[c] \in Nat /\ stores \in Nat
    BY DEF RoundsInv, SyncTypeOK
  <2>4. CASE ManagerWaits
    <3>1. global[c] = stores
      BY <2>1, <2>4 DEF MayStore
    <3> QED
      BY <2>3, <3>1 DEF ManagerRounds
  <2>5. CASE ManagerSyncs <= 1
    <3>1. stores = 0
      BY <2>1, <2>3, <2>5, SyncAssumption DEF MayStore
    <3> QED
      BY <2>3, <3>1 DEF ManagerRounds
  <2> QED
    BY <2>4, <2>5 DEF OneRoundAtATime
<1> QED
  BY <1>1, <1>2

(* What an edge does to the rounds: all parties leave one, or nobody does. *)
LEMMA RoundsEdge ==
  ASSUME SyncTypeOK, RoundsInv, OneRoundAtATime,
         NEW issue, NEW accReady, NEW store \in BOOLEAN, NEW bReady \in BOOLEAN,
         Clock(issue, accReady, store, bReady)
  PROVE  /\ Sync(issue) =>
              /\ managerValid /\ ~managerValid'
              /\ ManagerRounds' = ManagerRounds + 1
              /\ global' = [c \in Cores |-> global[c] + 1]
         /\ ~Sync(issue) => ManagerRounds' = ManagerRounds /\ global' = global
         /\ storeHeld' => ~managerValid'
<1>a. CoresEdge(issue, accReady) /\ ManagerEdge(issue, store, bReady)
  BY DEF Clock
<1>b. stores \in Nat /\ global \in [Cores -> Nat]
  BY DEF SyncTypeOK
<1>c. StoreFire(store) => StoreValid(store)
  BY DEF StoreFire
<1>1. CASE Sync(issue)
  <2>1. managerValid
    BY <1>1 DEF Sync
  <2>2. ~StoreFire(store)
    BY <1>c, <2>1, StoresAlone
  <2>3. ~managerValid' /\ stores' = stores
    BY <1>a, <1>1, <2>2 DEF ManagerEdge
  <2>4. \A c \in Cores : Passes(c, issue, accReady) /\ Port(c) = "global"
    BY <1>1, GlobalPasses
  <2>5. global' = [c \in Cores |-> global[c] + 1]
    BY <1>a, <2>4 DEF CoresEdge
  <2> QED
    BY <1>b, <1>1, <2>1, <2>3, <2>5 DEF ManagerRounds
<1>2. CASE ~Sync(issue)
  <2>1. \A c \in Cores : ~(Passes(c, issue, accReady) /\ Port(c) = "global")
    BY <1>2, GlobalPasses
  <2>2. global' = global
    BY <1>a, <1>b, <2>1 DEF CoresEdge
  <2>3. ManagerRounds' = ManagerRounds
    <3>1. CASE StoreFire(store)
      <4>1. ~managerValid
        BY <1>c, <3>1, StoresAlone
      <4>2. managerValid' /\ stores' = stores + 1
        BY <1>a, <1>2, <3>1 DEF ManagerEdge
      <4> QED
        BY <1>b, <4>1, <4>2 DEF ManagerRounds
    <3>2. CASE ~StoreFire(store)
      <4>1. (managerValid' <=> managerValid) /\ stores' = stores
        BY <1>a, <1>2, <3>2 DEF ManagerEdge
      <4> QED
        BY <4>1 DEF ManagerRounds
    <3> QED
      BY <3>1, <3>2
  <2>4. storeHeld' => ~managerValid'
    <3>1. storeHeld' => StoreValid(store) /\ ~StoreFire(store)
      BY <1>a DEF ManagerEdge
    <3>2. managerValid' => managerValid \/ StoreFire(store)
      BY <1>a DEF ManagerEdge
    <3> QED
      BY <3>1, <3>2, StoresAlone
  <2> QED
    BY <1>2, <2>2, <2>3, <2>4
<1> QED
  BY <1>1, <1>2

(* Rounds keep in step. *)
LEMMA RoundsNext ==
  ASSUME OneRoundAtATime
  PROVE  SyncTypeOK /\ RoundsInv /\ [SyncNext]_syncVars => RoundsInv'
<1> SUFFICES ASSUME SyncTypeOK, RoundsInv, [SyncNext]_syncVars PROVE RoundsInv'
  OBVIOUS
<1>1. CASE UNCHANGED syncVars
  BY <1>1 DEF RoundsInv, ManagerRounds, syncVars, coreVars, managerVars
<1>2. ASSUME NEW issue, NEW accReady, NEW store \in BOOLEAN, NEW bReady \in BOOLEAN,
             Clock(issue, accReady, store, bReady)
      PROVE  RoundsInv'
  <2>1. storeHeld' => ~managerValid'
    BY <1>2, RoundsEdge
  <2>2. ASSUME NEW c \in Cores PROVE global'[c] = ManagerRounds'
    <3>1. global[c] = ManagerRounds
      BY DEF RoundsInv
    <3> QED
      BY <1>2, <3>1, RoundsEdge
  <2> QED
    BY <2>1, <2>2 DEF RoundsInv
<1> QED
  BY <1>1, <1>2 DEF SyncNext

(* A clock edge is a step of the global barrier, or none. *)
LEMMA GlobalEdge ==
  ASSUME SyncTypeOK, RoundsInv, OneRoundAtATime,
         NEW issue, NEW accReady, NEW store \in BOOLEAN, NEW bReady \in BOOLEAN,
         Clock(issue, accReady, store, bReady)
  PROVE  GlobalBarrier!Next
<1> DEFINE Parties == Cores \cup {Manager}
           Arrived == Waiting("global") \cup (IF managerValid THEN {Manager} ELSE {})
           Rounds == [p \in Parties |->
                        IF p = Manager THEN stores - (IF managerValid THEN 1 ELSE 0)
                        ELSE global[p]]
<1>a. CoresEdge(issue, accReady) /\ ManagerEdge(issue, store, bReady)
  BY DEF Clock
<1>b. \A p \in Cores : p # Manager
  BY SyncAssumption
<1>1. CASE Sync(issue)
  <2>1. /\ ~managerValid' /\ ManagerRounds' = ManagerRounds + 1
        /\ global' = [c \in Cores |-> global[c] + 1]
    BY <1>1, RoundsEdge
  <2>2. \A c \in Cores : Passes(c, issue, accReady) /\ Port(c) = "global"
    BY <1>1, GlobalPasses
  <2>3. \A c \in Cores : ~held'[c]
    BY <1>a, <2>2 DEF CoresEdge, Holds
  <2>4. Arrived' = {}
    BY <2>1, <2>3 DEF Waiting
  <2>5. Rounds' = [p \in Parties |-> Rounds[p] + 1]
    BY <1>b, <2>1 DEF ManagerRounds
  <2> QED
    BY <2>4, <2>5 DEF GlobalBarrier!Next, GlobalBarrier!Release
<1>2. CASE ~Sync(issue)
  <2>1. \A c \in Cores : ~(Passes(c, issue, accReady) /\ Port(c) = "global")
    BY <1>2, GlobalPasses
  <2>2. Waiting("global") \subseteq Waiting("global")'
    BY <1>a, <2>1, KeepsWaiting DEF Waiting, Port, Access
  <2>3. managerValid => managerValid'
    BY <1>a, <1>2 DEF ManagerEdge
  <2>4. ManagerRounds' = ManagerRounds /\ global' = global
    BY <1>2, RoundsEdge
  <2>5. Rounds' = Rounds
    BY <2>4 DEF ManagerRounds
  <2>6. Arrived \subseteq Arrived' /\ Arrived' \subseteq Parties
    BY <2>2, <2>3 DEF Waiting
  <2>7. GlobalBarrier!Arrive(Arrived')
    BY <2>5, <2>6 DEF GlobalBarrier!Arrive
  <2> QED
    BY <2>6, <2>7 DEF GlobalBarrier!Next
<1> QED
  BY <1>1, <1>2

(* So is every step. *)
LEMMA GlobalStep ==
  ASSUME OneRoundAtATime
  PROVE  SyncTypeOK /\ RoundsInv /\ [SyncNext]_syncVars =>
           [GlobalBarrier!Next]_(GlobalBarrier!vars)
<1>1. ASSUME UNCHANGED syncVars PROVE UNCHANGED GlobalBarrier!vars
  BY <1>1 DEF syncVars, coreVars, managerVars, GlobalBarrier!vars, Waiting, Port, Access
<1>2. ASSUME SyncTypeOK, RoundsInv, SyncNext PROVE GlobalBarrier!Next
  BY <1>2, GlobalEdge DEF SyncNext
<1> QED
  BY <1>1, <1>2

(* It starts as one. *)
LEMMA GlobalInit == SyncInit => GlobalBarrier!Init
<1> SUFFICES ASSUME SyncInit PROVE GlobalBarrier!Init
  OBVIOUS
<1>1. Waiting("global") = {}
  BY DEF SyncInit, Waiting
<1>2. ~managerValid /\ stores = 0 /\ \A c \in Cores : global[c] = 0
  BY DEF SyncInit, Zero
<1>3. stores - 0 = 0
  BY <1>2
<1> QED
  BY <1>1, <1>2, <1>3 DEF GlobalBarrier!Init

(* global_sync implements a barrier of the cores and the manager, if the   *)
(* manager starts no round before the cores have left the last one.        *)
THEOREM GlobalIsBarrier ==
  ASSUME ManagerWaits \/ ManagerSyncs <= 1
  PROVE  SyncSpec => GlobalSpec
<1>a. OneRoundAtATime
  BY DEF OneRoundAtATime
<1>1. SyncSpec => []SyncTypeOK
  BY SyncTypeCorrect
<1>2. SyncTypeOK /\ RoundsInv /\ [SyncNext]_syncVars => RoundsInv'
  BY <1>a, RoundsNext
<1>3. SyncSpec => []RoundsInv
  BY RoundsInit, <1>1, <1>2, PTL DEF SyncSpec
<1>4. SyncTypeOK /\ RoundsInv /\ [SyncNext]_syncVars => [GlobalBarrier!Next]_(GlobalBarrier!vars)
  BY <1>a, GlobalStep
<1> QED
  BY <1>1, <1>3, <1>4, GlobalInit, PTL DEF SyncSpec, GlobalSpec, GlobalBarrier!Spec

------------------------------------------------------------------------------
(***************************************************************************)
(* The pipelined program on the cores of the cluster is a run of Pipeline  *)
(* and a run of ClusterSync: the kernel ends a phase at its own guards     *)
(* only, and between two accesses the stages leave the barriers alone.  So *)
(* everything above holds of the whole.                                    *)
(***************************************************************************)
THEOREM SystemRunsBoth == SysSpec => Spec /\ SyncSpec
<1>1. SysInit => Init /\ SyncInit
  BY DEF SysInit
<1>2. [SysNext]_sysVars => [Next]_vars /\ [SyncNext]_syncVars
  <2> SUFFICES ASSUME [SysNext]_sysVars PROVE [Next]_vars /\ [SyncNext]_syncVars
    OBVIOUS
  <2>1. CASE UNCHANGED sysVars
    BY <2>1 DEF sysVars
  <2>2. ASSUME NEW c \in Cores, Work(c) PROVE Next /\ UNCHANGED syncVars
    BY <2>2 DEF Work, Next
  <2>3. ASSUME NEW issue \in SUBSET Issuing, NEW accReady \in SUBSET Accessed,
               NEW store \in BOOLEAN, NEW bReady \in BOOLEAN,
               Edge(issue, accReady, store, bReady)
        PROVE  [Next]_vars /\ SyncNext
    <3>1. issue \in SUBSET Cores /\ accReady \in SUBSET Cores
      BY DEF Issuing, Accessed
    <3>2. SyncNext
      BY <2>3, <3>1 DEF Edge, SyncNext
    <3>3. [Next]_vars
      BY <2>3 DEF Edge, Next
    <3> QED
      BY <3>2, <3>3
  <2> QED
    BY <2>1, <2>2, <2>3 DEF SysNext
<1> QED
  BY <1>1, <1>2, PTL DEF SysSpec, Spec, SyncSpec

(* A pipelined kernel on the cores of the cluster has no race and computes *)
(* what the nest computes, and its syncs are barriers.                     *)
THEOREM ClusterComputesTheNest ==
  ASSUME LongEnough, Even
  PROVE  SysSpec => [](NoRace /\ OutputRight) /\ LocalSpec
  BY SystemRunsBoth, RaceFree, ComputesTheNest, LocalIsBarrier, PTL
==============================================================================
