-------------------------------- MODULE Tsl --------------------------------
(***************************************************************************)
(* Strides and tiled strided layouts (snaxc/ir/tsl).                       *)
(*                                                                         *)
(* A stride [step, bound] stands for bound values, step apart.  A tiled    *)
(* stride is a sequence of strides, the outermost first.  A layout has one *)
(* tiled stride for each dimension of a memref.  All of them are static:   *)
(* the dynamic strides of the source (None) are not modelled.              *)
(***************************************************************************)
EXTENDS Integers, Sequences, SequencesExt, FiniteSetsExt, SeqSums

Stride(step, bound) == [step |-> step, bound |-> bound]

Bounds(strides) == [i \in DOMAIN strides |-> strides[i].bound]

(* The strides of the tiles of one dimension, given the innermost step *)
FromStride(step, tiles) ==
  [i \in DOMAIN tiles |->
     Stride(step * Prod(SubSeq(tiles, i + 1, Len(tiles))), tiles[i])]

FromStrides(steps, tiles) ==
  [d \in DOMAIN steps |-> FromStride(steps[d], tiles[d])]

(* Steps of a dense row-major array *)
RowMajor(shape) ==
  [d \in DOMAIN shape |-> Prod(SubSeq(shape, d + 1, Len(shape)))]

------------------------------------------------------------------------------
(* s continues where the stride inside it ends. *)
CanSquash(inner, s) ==
  /\ inner.step # 0 /\ inner.bound # 0 /\ s.bound # 0
  /\ s.step = inner.step * inner.bound

AddOutside(s, strides) ==
  IF strides = <<>> THEN <<s>>
  ELSE IF s.bound = 1 THEN strides
  ELSE IF CanSquash(strides[1], s)
       THEN <<Stride(strides[1].step, strides[1].bound * s.bound)>>
              \o Tail(strides)
  ELSE <<s>> \o strides

Canonical(strides) == FoldRight(AddOutside, strides, <<>>)

(***************************************************************************)
(* Cut the innermost strides to the given bounds, the last one first.  It  *)
(* raises RuntimeError when a bound does not fit.                          *)
(***************************************************************************)
Cut(bound, c) ==
  LET s == Last(c.left) IN
  IF ~c.ok \/ c.left = <<>> THEN [c EXCEPT !.ok = FALSE]
  ELSE IF s.bound = bound
  THEN [c EXCEPT !.left = Front(c.left), !.out = <<s>> \o c.out]
  ELSE IF s.bound > bound /\ s.bound % bound = 0
  THEN [c EXCEPT !.left = Front(c.left) \o
                            <<Stride(s.step * bound, s.bound \div bound)>>,
                 !.out = <<Stride(s.step, bound)>> \o c.out]
  ELSE [c EXCEPT !.ok = FALSE]

Resample(strides, bounds) ==
  LET c == FoldRight(Cut, bounds, [left |-> strides, out |-> <<>>, ok |-> TRUE])
  IN [ok |-> c.ok, strides |-> c.left \o c.out]

------------------------------------------------------------------------------
(* Digit of index i that the stride at this depth counts *)
TileIndex(tstride, depth, i) ==
  LET inside == Prod(Bounds(SubSeq(tstride, depth + 1, Len(tstride))))
      here == i \div inside
  IN IF depth = 1 THEN here ELSE here % tstride[depth].bound

(* The affine map of a layout: the place, in elements, of an index vector *)
PlaceIn(layout, index) ==
  MapThenSumSet(
    LAMBDA d : MapThenSumSet(
      LAMBDA k : layout[d][k].step * TileIndex(layout[d], k, index[d]),
      DOMAIN layout[d]),
    DOMAIN layout)

(* Bytes a layout spans: those of its last element included *)
AllocSize(layout, size) ==
  size + size * MapThenSumSet(
    LAMBDA d : MapThenSumSet(
      LAMBDA k : (layout[d][k].bound - 1) * layout[d][k].step,
      DOMAIN layout[d]),
    DOMAIN layout)

(* All strides of a layout, dimension by dimension, in bytes; the bytes of *)
(* an element are the innermost stride.                                    *)
ByteStrides(layout, size) ==
  FlattenSeq([d \in DOMAIN layout |->
    [k \in DOMAIN layout[d] |->
       Stride(layout[d][k].step * size, layout[d][k].bound)]])
    \o <<Stride(1, size)>>
=============================================================================
