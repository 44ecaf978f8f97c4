------------------------------- MODULE Streams -------------------------------
(***************************************************************************)
(* From an operation to the registers of the streamers: the schedule, the  *)
(* layout of the operands, their place in the TCDM, the stride patterns of *)
(* the accelerator's streamers and of the DMA's, and the registers.        *)
(*                                                                         *)
(* A job is an operation and its accelerator:                              *)
(*   shapes, maps, sizes   of the operands, the output last                *)
(*   dims                  of the iteration space                          *)
(*   acc                   the accelerator:                                *)
(*     bounds, maps          its template                                  *)
(*     streamers             of each operand                               *)
(*     vector                the dimensions of the template that order the *)
(*                           elements of each vector, the fastest last     *)
(*     kind                  "tensorcore" or "phs"                         *)
(* No step depends on another actor; what is checked is that the passes    *)
(* agree with each other and with the hardware's address generators.       *)
(***************************************************************************)
EXTENDS Integers, Sequences, FiniteSets, SequencesExt, FiniteSetsExt, Tsl, Dart,
        Accelerators

CONSTANTS
  Jobs,
  Dma   \* [tcdm, axi], two streamers

VARIABLES
  job,
  phase,    \* the pass that is next, "done" and "failed"
  stack,    \* the search for a schedule: one frame for each dimension
  sched,    \* the schedule
  layout,   \* of each operand in the TCDM
  place,    \* address of each operand in the TCDM
  access,   \* bytes one step of each loop moves each operand
  pattern,  \* stride pattern of each operand's streamer
  copy      \* stride patterns of the DMA for each operand

vars == <<job, phase, stack, sched, layout, place, access, pattern, copy>>

Operands == DOMAIN job.maps
IsTensorCore == job.acc.kind = "tensorcore"

------------------------------------------------------------------------------
(* The scheduler: a depth first search, one rotation of one frame per step *)
Operation(j) ==
  CanonicalDims([bounds |-> PatternBounds(j.shapes, j.maps, j.dims),
                 maps |-> j.maps])

(* A nest of loops that run, and for each operand a matrix with one column *)
(* for each loop *)
WellShaped(s) ==
  s \in [bounds : Seq(Nat \ {0}), maps : Seq(Seq([1 .. LoopsOf(s) -> Int]))]

MovesOutput(s, i) == \E r \in DOMAIN Last(s.maps) : Last(s.maps)[r][i] # 0

JobsAssumption ==
  \A j \in Jobs :
    /\ j.acc.bounds \in Seq(Nat)
    /\ WellShaped(Operation(j)) /\ Operation(j).maps # <<>>

ASSUME JobsAssumption

(* Each loop that moves the output of an operation is an index of it on    *)
(* its own, as in the output maps of linalg's operations.                  *)
OutputAssumption ==
  \A j \in Jobs : LET s == Operation(j) IN
    \A i \in 1 .. LoopsOf(s) : MovesOutput(s, i) =>
      \E r \in DOMAIN Last(s.maps) : Last(s.maps)[r] = Unit(LoopsOf(s), i)

ASSUME OutputAssumption

Frame(s, inner) == [sched |-> s, inner |-> inner, left |-> LoopsOf(s) - inner + 1]

TemplateBound(inner) ==
  IF inner > LoopsOf(job.acc) THEN 0
  ELSE job.acc.bounds[LoopsOf(job.acc) - inner + 1]

Focus(s, inner) == LoopsOf(s) - inner + 1

(* Imperfect factors are not supported. *)
Fits(s, inner) ==
  LET bound == s.bounds[Focus(s, inner)]
      limit == TemplateBound(inner)
  IN limit = 0 \/ bound <= limit \/ bound % limit = 0

Accepts(s, inner) ==
  LET t == InnerDims(job.acc, inner)
      c == InnerDims(s, inner)
  IN /\ Matches(t, c)
     /\ OutputStationary(t, c)
     /\ MemoryFlexible(t, c, job.sizes)
     /\ Fits(s, inner)

Candidate(s, inner) ==
  LET limit == TemplateBound(inner) IN
  IF limit > 0 /\ s.bounds[Focus(s, inner)] > limit
  THEN TileDim(s, Focus(s, inner), limit)
  ELSE s

TryRotation ==
  /\ phase = "schedule"
  /\ LET f == Last(stack)
         s == Rotate(f.sched, Focus(f.sched, f.inner))
         c == Candidate(s, f.inner)
         tried == Append(Front(stack), [f EXCEPT !.sched = s, !.left = @ - 1])
     IN /\ f.left > 0
        /\ IF ~Accepts(s, f.inner)
           THEN stack' = tried /\ UNCHANGED <<phase, sched>>
           ELSE IF f.inner < LoopsOf(c)
           THEN stack' = Append(tried, Frame(c, f.inner + 1))
                /\ UNCHANGED <<phase, sched>>
           ELSE stack' = <<>> /\ sched' = c /\ phase' = "layout"
  /\ UNCHANGED <<job, layout, place, access, pattern, copy>>

(* No rotation is left: back to the frame below, or StopIteration. *)
Backtrack ==
  /\ phase = "schedule"
  /\ Last(stack).left = 0
  /\ stack' = Front(stack)
  /\ phase' = IF Len(stack) = 1 THEN "failed" ELSE phase
  /\ UNCHANGED <<job, sched, layout, place, access, pattern, copy>>

(* The tensor core takes the rows of its second operand one k after the    *)
(* other: its two innermost columns are swapped (the bounds are not).      *)
Transformed(s) ==
  LET n == LoopsOf(s)
      swap == SubSeq(Upto(n), 1, n - 2) \o <<n, n - 1>>
  IN IF ~IsTensorCore THEN s
     ELSE [s EXCEPT !.maps[2] = Select(s, swap).maps[2]]

------------------------------------------------------------------------------
(***************************************************************************)
(* SetMemoryLayout: strides are given out from the innermost loop to the   *)
(* outermost, a tile for each loop that moves the operand.                 *)
(***************************************************************************)
(* Mutant: a loop may cross the tiles of another. *)
Crossing(s, row, bound) == bound \in {s.bounds[i] : i \in DOMAIN row}

Hyperrectangular(s, row, bound) ==
  \A i \in DOMAIN row : row[i] % bound = 0 \/ s.bounds[i] = bound

LayoutBound(s, map, d, shape, tiles, bound) ==
  LET left == shape[d] \div Prod(Bounds(tiles[d]))
  IN IF left % bound = 0 /\ Hyperrectangular(s, map[d], bound) THEN bound ELSE left

AddTile(i, l, s, map, shape) ==
  LET moved == {d \in DOMAIN map : map[d][i] # 0}
      d == Min(moved)
      bound == LayoutBound(s, map, d, shape, l.tiles, s.bounds[i])
  IN IF moved = {} THEN l
     ELSE [step |-> l.step * bound,
           tiles |-> [l.tiles EXCEPT ![d] = <<Stride(l.step, bound)>> \o @]]

CyclicLayout(s, map, shape) ==
  LET l == FoldRight(LAMBDA i, acc : AddTile(i, acc, s, map, shape),
                     Upto(LoopsOf(s)),
                     [step |-> 1, tiles |-> [d \in DOMAIN shape |-> <<>>]])
  IN [d \in DOMAIN shape |->
        IF l.tiles[d] = <<>> THEN <<Stride(l.step, 1)>> ELSE Canonical(l.tiles[d])]

Plain(shape) ==
  FromStrides(RowMajor(shape), [d \in DOMAIN shape |-> <<shape[d]>>])

SetLayout ==
  /\ phase = "layout"
  /\ layout' = [o \in Operands |->
                  IF IsTensorCore
                  THEN CyclicLayout(sched, Transformed(sched).maps[o], job.shapes[o])
                  ELSE Plain(job.shapes[o])]
  /\ phase' = "allocate"
  /\ UNCHANGED <<job, stack, sched, place, access, pattern, copy>>

(* memref-to-snax computes the sizes; here the buffers follow each other. *)
Allocate ==
  /\ phase = "allocate"
  /\ place' = [o \in Operands |->
                 MapThenSumSet(LAMBDA p : AllocSize(layout[p], job.sizes[p]),
                               1 .. o - 1)]
  /\ phase' = "resolve"
  /\ UNCHANGED <<job, stack, sched, layout, access, pattern, copy>>

(* The answer of an operand's address to one step of each loop *)
ResolveLayout ==
  /\ phase = "resolve"
  /\ LET n == LoopsOf(sched) IN
     access' = [o \in Operands |-> [i \in 1 .. n |->
       job.sizes[o] * PlaceIn(layout[o],
                              Index(Transformed(sched).maps[o], Unit(n, i)))]]
  /\ phase' = "stream"
  /\ UNCHANGED <<job, stack, sched, layout, place, pattern, copy>>

------------------------------------------------------------------------------
(* Stride patterns: innermost first in time; ss as the passes leave it *)
NoPattern == [ok |-> FALSE, ub |-> <<>>, ts |-> <<>>, ss |-> <<>>]
Zeros(n) == [i \in 1 .. n |-> 0]
Steps(strides) == [i \in DOMAIN strides |-> strides[i].step]
Pad(s, n, x) == s \o [i \in 1 .. n - Len(s) |-> x]

(* What both passes call create_stride_pattern.  unused is the bound of a  *)
(* temporal dimension that is not needed.                                  *)
StridePattern(streamer, r, unused) ==
  LET spatial == Len(streamer.spatial)
      strides == Front(r.strides)
      n == Len(strides) - spatial
      time == Reverse(SubSeq(strides, 1, n))
  IN IF ~r.ok \/ Len(r.strides) <= 1 \/ n < 0 \/ n > streamer.temporal + 1
     THEN NoPattern
     ELSE [ok |-> TRUE,
           ub |-> Pad(Bounds(time), streamer.temporal, unused),
           ts |-> Pad(Steps(time), streamer.temporal, 0),
           ss |-> Steps(SubSeq(strides, n + 1, Len(strides)))]

(* StridePattern.canonicalize, and legalize *)
MergeTime(p, i) ==
  LET n == Len(p.ub) IN
  IF p.from.ub[i] = 1 THEN p
  ELSE IF p.from.ub[i] # 0 /\ n > 0 /\ p.ub[n] * p.ts[n] = p.from.ts[i]
  THEN [p EXCEPT !.ub[n] = @ * p.from.ub[i]]
  ELSE [p EXCEPT !.ub = Append(@, p.from.ub[i]),
                 !.ts = Append(@, IF p.from.ub[i] = 0 THEN 0 ELSE p.from.ts[i])]

CanonicalPattern(p) ==
  LET merged == FoldLeft(MergeTime, [ub |-> <<>>, ts |-> <<>>, from |-> p],
                         Upto(Len(p.ub)))
  IN IF \E i \in DOMAIN p.ss : p.ss[i] = 0 THEN p
     ELSE [p EXCEPT !.ub = merged.ub, !.ts = merged.ts]

Legal(p, streamer) ==
  [p EXCEPT !.ub = Pad(@, streamer.temporal, 1),
            !.ts = Pad(@, streamer.temporal, 1),
            !.ok = @ /\ Len(p.ub) <= streamer.temporal]

Outer(s) == SubSeq(s.bounds, 1, LoopsOf(s) - LoopsOf(job.acc))

(* Does the operand's streamer follow this loop? *)
Relevant(o, i) ==
  LET outer == Max({0, LoopsOf(sched) - LoopsOf(job.acc)}) IN
  i <= outer \/ \E r \in DOMAIN job.acc.maps[o] : job.acc.maps[o][r][i - outer] # 0

Loops(o) == SelectSeq(Upto(LoopsOf(sched)), LAMBDA i : Relevant(o, i))

(* The bytes inside the innermost loop are taken to be contiguous, whatever *)
(* its step is.                                                             *)
StrideList(o) ==
  LET loops == Loops(o)
      strides == [i \in DOMAIN loops |->
                    Stride(access[o][loops[i]], sched.bounds[loops[i]])]
  IN Append(strides, Stride(1, Last(strides).step))

PatternOf(o) ==
  LET streamer == job.acc.streamers[o] IN
  IF job.maps[o] = <<>>
  THEN [ok |-> TRUE, ub |-> <<Prod(Outer(sched))>>, ts |-> <<0>>,
        ss |-> Zeros(Len(streamer.spatial))]
  ELSE StridePattern(streamer,
                     Resample(Canonical(StrideList(o)),
                              Append(streamer.spatial, streamer.access)), 1)

ConvertToStreams ==
  /\ phase = "stream"
  /\ pattern' = [o \in Operands |->
                   Legal(CanonicalPattern(PatternOf(o)), job.acc.streamers[o])]
  /\ phase' = IF \A o \in Operands : pattern'[o].ok THEN "copy" ELSE "failed"
  /\ UNCHANGED <<job, stack, sched, layout, place, access, copy>>

------------------------------------------------------------------------------
(* The DMA moves an operand between its place and row-major memory. *)
(* Plain operands: one run, as many whole vectors as fit *)
FlatPattern(streamer, o) ==
  [ok |-> TRUE,
   ub |-> Pad(<<(job.sizes[o] * Prod(job.shapes[o])) \div FullWidth(Dma.tcdm)>>,
              streamer.temporal, 0),
   ts |-> Pad(<<FullWidth(streamer)>>, streamer.temporal, 0),
   ss |-> ByteOffsets(streamer)]

Tiles(o) == [d \in DOMAIN layout[o] |-> Bounds(layout[o][d])]

(* Strides of both sides, in the order of the steps on the AXI side.  The  *)
(* sort is stable.                                                         *)
SortedStrides(o) ==
  LET axi == ByteStrides(FromStrides(RowMajor(job.shapes[o]), Tiles(o)), job.sizes[o])
      tcdm == ByteStrides(layout[o], job.sizes[o])
      order == SetToSortSeq(DOMAIN axi, LAMBDA i, j :
                 axi[i].step > axi[j].step \/ (axi[i].step = axi[j].step /\ i < j))
  IN [tcdm |-> [i \in DOMAIN order |-> tcdm[order[i]]],
      axi |-> [i \in DOMAIN order |-> axi[order[i]]]]

(* Mutant: each side in the order of its own steps. *)
TransformPatternOwnOrder(streamer, strides) ==
  LET sorted == SetToSortSeq(DOMAIN strides, LAMBDA i, j :
                  strides[i].step > strides[j].step
                  \/ (strides[i].step = strides[j].step /\ i < j))
      p == StridePattern(streamer,
                         Resample(Canonical([i \in DOMAIN sorted |-> strides[sorted[i]]]),
                                  Append(streamer.spatial, streamer.access)), 0)
  IN [p EXCEPT !.ss = Reverse(@), !.ok = @ /\ Len(p.ub) = streamer.temporal]

TransformPattern(streamer, strides) ==
  LET p == StridePattern(streamer,
                         Resample(Canonical(strides),
                                  Append(streamer.spatial, streamer.access)), 0)
  IN [p EXCEPT !.ss = Reverse(@), !.ok = @ /\ Len(p.ub) = streamer.temporal]

CopyToDma ==
  /\ phase = "copy"
  /\ copy' = [o \in Operands |->
       IF IsTensorCore
       THEN [tcdm |-> TransformPattern(Dma.tcdm, SortedStrides(o).tcdm),
             axi |-> TransformPattern(Dma.axi, SortedStrides(o).axi)]
       ELSE [tcdm |-> FlatPattern(Dma.tcdm, o), axi |-> FlatPattern(Dma.axi, o)]]
  /\ phase' = IF \A o \in Operands : copy'[o].tcdm.ok /\ copy'[o].axi.ok
              THEN "done" ELSE "failed"
  /\ UNCHANGED <<job, stack, sched, layout, place, access, pattern>>

------------------------------------------------------------------------------
(* Registers of a streamer: address, temporal strides, bounds, spatial     *)
(* strides.  Tensor core and DMA are written from the outermost loop to    *)
(* the innermost, PHS as the pattern stands.                               *)
Registers(kind, base, p) ==
  IF kind = "phs" THEN <<base>> \o p.ts \o p.ub \o p.ss
  ELSE <<base>> \o Reverse(p.ts) \o Reverse(p.ub) \o Reverse(p.ss)

(* What the hardware makes of its registers: the last register of a vector *)
(* is its first element, but PhsAccelerator wires each by its own index.   *)
Config(kind, regs, temporal, spatial) ==
  LET Field(from, n) == LET f == SubSeq(regs, from + 1, from + n)
                        IN IF kind = "phs" THEN f ELSE Reverse(f)
  IN [base |-> regs[1],
      strides |-> Field(1, temporal),
      bounds |-> Field(1 + temporal, temporal),
      spatial |-> Field(1 + 2 * temporal, spatial)]

(* Spatial dimensions as the generator lists them *)
LaneDims(kind, streamer) ==
  IF kind = "phs" THEN streamer.spatial ELSE Reverse(streamer.spatial)

Agu(dims, ports) ==
  INSTANCE AffineAgu WITH NumDims <- dims, SpatialDims <- ports, AddrBits <- 16

Programmed(kind, streamer, base, p) ==
  LET p1 == [p EXCEPT !.ub = Pad(@, streamer.temporal, 1),
                      !.ts = Pad(@, streamer.temporal, 0)]
  IN Config(kind, Registers(kind, base, p1), streamer.temporal, Len(streamer.spatial))

(* Address of a byte of the vector of step n *)
ByteAddress(kind, streamer, cfg, n, byte) ==
  Agu(streamer.temporal, LaneDims(kind, streamer))!
    IterAddress(cfg, n, byte \div streamer.access) + (byte % streamer.access)

Vectors(streamer, cfg) == Agu(streamer.temporal, <<>>)!Iterations(cfg)

------------------------------------------------------------------------------
Init ==
  /\ job \in Jobs
  /\ phase = "schedule"
  /\ stack = <<Frame(Operation(job), 1)>>
  /\ sched = Operation(job)
  /\ layout = <<>> /\ place = <<>> /\ access = <<>>
  /\ pattern = <<>> /\ copy = <<>>

Stop == phase \in {"done", "failed"} /\ UNCHANGED vars

Next ==
  \/ TryRotation \/ Backtrack
  \/ SetLayout \/ Allocate \/ ResolveLayout \/ ConvertToStreams \/ CopyToDma
  \/ Stop

Spec == Init /\ [][Next]_vars

------------------------------------------------------------------------------
(* Reference: iteration n of a loop nest, the innermost loop fastest *)
Iteration(bounds, n) ==
  [i \in DOMAIN bounds |->
     (n \div Prod(SubSeq(bounds, i + 1, Len(bounds)))) % bounds[i]]

Nest(bounds) == {Iteration(bounds, n) : n \in 0 .. Prod(bounds) - 1}

Work(s) ==
  {[o \in DOMAIN s.maps |-> Index(s.maps[o], x)] : x \in Nest(s.bounds)}

(* However a schedule is rotated and tiled, in the search and at its end,  *)
(* it does each of the operation's iterations once, on the elements the    *)
(* operation names.                                                        *)
SameWork ==
  \A s \in {sched} \cup {f.sched : f \in ToSet(stack)} :
    /\ Prod(s.bounds) = Prod(Operation(job).bounds)
    /\ Work(s) = Work(Operation(job))

(* The last operand's vector of step n *)
OutputOf(n) ==
  LET outer == Iteration(Outer(sched), n)
  IN Index(Last(sched.maps), outer \o Zeros(LoopsOf(sched) - Len(outer)))

(* The chosen schedule leaves a vector of the output only when it is       *)
(* finished: a streamer reads ahead of its writes, so a vector that comes  *)
(* back would be read before its partial result is in memory.              *)
FinishedOnce ==
  phase \notin {"schedule", "failed"} =>
    LET steps == 0 .. Prod(Outer(sched)) - 1
        left == {n \in steps \ {0} : OutputOf(n) # OutputOf(n - 1)}
    IN Cardinality({OutputOf(n) : n \in steps}) = Cardinality(left) + 1

(* Element e of the vector of step n, as the datapath takes it *)
Element(o, n, e) ==
  LET dims == job.acc.vector[o]
      digits == Iteration([i \in DOMAIN dims |-> job.acc.bounds[dims[i]]], e)
      inner == [t \in 1 .. LoopsOf(job.acc) |->
                  IF \E i \in DOMAIN dims : dims[i] = t
                  THEN digits[CHOOSE i \in DOMAIN dims : dims[i] = t] ELSE 0]
  IN Index(sched.maps[o], Iteration(Outer(sched), n) \o inner)

AddressRight(o) ==
  LET streamer == job.acc.streamers[o]
      kind == job.acc.kind
      cfg == Programmed(kind, streamer, place[o], pattern[o])
      size == job.sizes[o]
      vector == [i \in DOMAIN job.acc.vector[o] |->
                   job.acc.bounds[job.acc.vector[o][i]]]
  IN /\ Vectors(streamer, cfg) = Prod(Outer(sched))
     /\ \A n \in 0 .. Prod(Outer(sched)) - 1, e \in 0 .. Prod(vector) - 1 :
          ByteAddress(kind, streamer, cfg, n, e * size)
            = place[o] + size * PlaceIn(layout[o], Element(o, n, e))

(* The tensor core's third streamer has two spatial dimensions: see        *)
(* LanesRight.                                                             *)
Swapped(o) == IsTensorCore /\ Len(job.acc.streamers[o].spatial) > 1

(* The innermost loop moves the operand by one element: see InnermostOne. *)
Packed(o) == job.maps[o] = <<>> \/ access[o][Last(Loops(o))] = job.sizes[o]

(* Every streamer as it is programmed fetches, step for step and lane for  *)
(* lane, the elements of the schedule where the layout put them.           *)
AddressesRight ==
  phase = "done" =>
    \A o \in Operands : Packed(o) /\ ~Swapped(o) => AddressRight(o)

(* "maks sure the innermost step size is 1"                                *)
(* (convert_dart_to_snax_stream.py:87): the schedule that is streamed has  *)
(* operands whose innermost loop moves them by one element.                *)
InnermostOne ==
  phase = "copy" => \A o \in Operands : Packed(o)

(* The same of the streamers with two spatial dimensions: "stride is       *)
(* outermost-> innnermost, stride pattern is innermost -> outermost"       *)
(* (convert_dart_to_snax_stream.py:121).                                   *)
LanesRight ==
  phase = "done" => \A o \in Operands : Swapped(o) => AddressRight(o)

Elements(o) ==
  {Iteration(job.shapes[o], n) : n \in 0 .. Prod(job.shapes[o]) - 1}

(* A copy without a layout rounds down to whole vectors. *)
Whole(o) ==
  IsTensorCore
  \/ (job.sizes[o] * Prod(job.shapes[o])) % FullWidth(Dma.tcdm) = 0

(* The DMA's streamers pair every byte of an operand in row-major memory   *)
(* with the byte of the same element in its buffer, whose bytes all lie in *)
(* what was allocated for it and belong to one element only.               *)
CopyRight ==
  phase = "done" => \A o \in {p \in Operands : Whole(p)} :
    LET size == job.sizes[o]
        plain == Plain(job.shapes[o])
        tcdm == Programmed("dma", Dma.tcdm, place[o], copy[o].tcdm)
        axi == Programmed("dma", Dma.axi, 0, copy[o].axi)
        moved == {<<ByteAddress("dma", Dma.tcdm, tcdm, n, b),
                    ByteAddress("dma", Dma.axi, axi, n, b)>> :
                     n \in 0 .. Vectors(Dma.tcdm, tcdm) - 1,
                     b \in 0 .. FullWidth(Dma.tcdm) - 1}
    IN /\ Vectors(Dma.axi, axi) = Vectors(Dma.tcdm, tcdm)
       /\ moved = {<<place[o] + size * PlaceIn(layout[o], i) + b,
                     size * PlaceIn(plain, i) + b>> :
                     i \in Elements(o), b \in 0 .. size - 1}
       /\ Cardinality({m[1] : m \in moved}) = Cardinality(moved)
       /\ \A m \in moved : m[1] - place[o] < AllocSize(layout[o], size)
==============================================================================
