-------------------------------- MODULE Dart --------------------------------
(***************************************************************************)
(* Affine access patterns and the checks of the scheduler (snaxc/ir/dart). *)
(*                                                                         *)
(* A schedule is a loop nest, the outermost dimension first, and for each  *)
(* operand the matrix that maps an iteration to the index of the element   *)
(* it accesses: [bounds, maps].  A template is the nest the accelerator    *)
(* unrolls in space, in the same form.  The patterns have no offset: none  *)
(* of the operations lowered to them has one.                              *)
(***************************************************************************)
EXTENDS Integers, Sequences, FiniteSets, SequencesExt, FiniteSetsExt, SeqSums

LoopsOf(s) == Len(s.bounds)
Upto(n) == [i \in 1 .. n |-> i]

(* Dimensions ds of a schedule, in that order *)
Select(s, ds) ==
  [bounds |-> [i \in DOMAIN ds |-> s.bounds[ds[i]]],
   maps |-> [o \in DOMAIN s.maps |->
              [r \in DOMAIN s.maps[o] |->
                [i \in DOMAIN ds |-> s.maps[o][r][ds[i]]]]]]

(* The n innermost dimensions, or all of them *)
InnerDims(s, n) ==
  Select(s, IF n >= LoopsOf(s) THEN Upto(LoopsOf(s))
            ELSE SubSeq(Upto(LoopsOf(s)), LoopsOf(s) - n + 1, LoopsOf(s)))

CanonicalDims(s) ==
  Select(s, SelectSeq(Upto(LoopsOf(s)), LAMBDA i : s.bounds[i] > 1))

(* The first n dimensions, rotated to the left by one *)
Rotate(s, n) ==
  Select(s, SubSeq(Upto(n), 2, n) \o <<1>>
              \o SubSeq(Upto(LoopsOf(s)), n + 1, LoopsOf(s)))

(* Mutant: both loops keep the step of one element. *)
SplitColumnFlat(row, d, inner) ==
  SubSeq(row, 1, d) \o SubSeq(row, d, Len(row))

SplitColumn(row, d, inner) ==
  SubSeq(row, 1, d - 1) \o <<row[d] * inner>> \o SubSeq(row, d, Len(row))

(* Dimension d becomes a loop over tiles and a loop of inner iterations. *)
TileDim(s, d, inner) ==
  [bounds |-> SubSeq(s.bounds, 1, d - 1)
                \o <<s.bounds[d] \div inner, inner>>
                \o SubSeq(s.bounds, d + 1, LoopsOf(s)),
   maps |-> [o \in DOMAIN s.maps |->
              [r \in DOMAIN s.maps[o] |-> SplitColumn(s.maps[o][r], d, inner)]]]

(* Bounds of the nest, from the shapes: the first result that is just d *)
PatternBounds(shapes, maps, dims) ==
  [d \in 1 .. dims |->
     LET unit == [i \in 1 .. dims |-> IF i = d THEN 1 ELSE 0]
         o == Min({x \in DOMAIN maps : \E r \in DOMAIN maps[x] : maps[x][r] = unit})
     IN shapes[o][Min({r \in DOMAIN maps[o] : maps[o][r] = unit})]]

(* The element an iteration accesses *)
Index(map, x) ==
  [r \in DOMAIN map |-> Sum([i \in DOMAIN x |-> map[r][i] * x[i]])]

------------------------------------------------------------------------------
(***************************************************************************)
(* Two matrices with the same columns span the same rows.  The source      *)
(* compares projections made from singular vectors, in floating point; of  *)
(* integers this is exact with ranks, found from minors that are not 0.    *)
(***************************************************************************)
Bijections(k) ==
  {p \in [1 .. k -> 1 .. k] : \A i, j \in 1 .. k : i # j => p[i] # p[j]}

Sign(p) ==
  LET inversions == {ij \in (DOMAIN p) \X (DOMAIN p) :
                       ij[1] < ij[2] /\ p[ij[1]] > p[ij[2]]}
  IN IF Cardinality(inversions) % 2 = 0 THEN 1 ELSE -1

Det(m) ==
  MapThenSumSet(
    LAMBDA p : Sign(p) * FoldLeft(LAMBDA a, b : a * b, 1,
                                  [i \in DOMAIN m |-> m[i][p[i]]]),
    Bijections(Len(m)))

Minor(m, rows, cols) ==
  LET r == SetToSortSeq(rows, <)
      c == SetToSortSeq(cols, <)
  IN [i \in DOMAIN r |-> [j \in DOMAIN c |-> m[r[i]][c[j]]]]

Rank(m, dims) ==
  Max({0} \cup {k \in 1 .. Min({Len(m), dims}) :
    \E rows \in kSubset(k, DOMAIN m), cols \in kSubset(k, 1 .. dims) :
      Det(Minor(m, rows, cols)) # 0})

SameSpan(a, b, dims) ==
  /\ Rank(a, dims) = Rank(b, dims)
  /\ Rank(a \o b, dims) = Rank(a, dims)

(* The template may have more leading results: they are broadcast. *)
PatternMatches(tmap, smap, dims) ==
  SameSpan(SubSeq(tmap, 1 + Max({0, Len(tmap) - Len(smap)}), Len(tmap)),
           smap, dims)

(* The template matches the innermost dimensions of the schedule. *)
Matches(t, s) ==
  /\ LoopsOf(s) >= LoopsOf(t)
  /\ Len(s.maps) = Len(t.maps)
  /\ LET inner == InnerDims(s, LoopsOf(t))
     IN \A o \in DOMAIN t.maps :
          PatternMatches(t.maps[o], inner.maps[o], LoopsOf(t))

------------------------------------------------------------------------------
Temporal(t, s) == 1 .. LoopsOf(s) - LoopsOf(t)
Spatial(t, s) == (LoopsOf(s) - LoopsOf(t)) + 1 .. LoopsOf(s)

(* Mutant: reductions may come anywhere. *)
OutputStationaryNever(t, s) == LoopsOf(t) <= LoopsOf(s)

(* Outside the template, the loops that move the output enclose the others *)
OutputStationary(t, s) ==
  \A i, j \in Temporal(t, s) :
    ( /\ \E r \in DOMAIN Last(s.maps) : Last(s.maps)[r][j] # 0
      /\ \A r \in DOMAIN Last(s.maps) : Last(s.maps)[r][i] = 0 )
    => j < i

BankWidth == 4   \* TCDM_BANK_WIDTH, in bytes
PerBank(size) == (BankWidth + size - 1) \div size

(* Every operand has a dimension that is unrolled with step 1 and that the *)
(* outer loops move by whole banks only.                                   *)
MemoryFlexible(t, s, sizes) ==
  LoopsOf(s) > LoopsOf(t) =>
    \A o \in DOMAIN s.maps :
      s.maps[o] # <<>> =>
        \E r \in DOMAIN s.maps[o] :
          /\ \A i \in Temporal(t, s) : s.maps[o][r][i] % PerBank(sizes[o]) = 0
          /\ \E i \in Spatial(t, s) : s.maps[o][r][i] = 1
=============================================================================
