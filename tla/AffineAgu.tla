----------------------------- MODULE AffineAgu -------------------------------
(***************************************************************************)
(* The affine address generator of a streamer                              *)
(* (src/main/scala/streamer/AffineAgu.scala).  This module holds no        *)
(* variables: it gives the registers of one generator as a record, the     *)
(* wires as operators of that record and of the configuration, and the     *)
(* next value of the record at a clock edge, so that a streamer can embed  *)
(* as many generators as it likes.                                         *)
(*                                                                         *)
(* A configuration is [base, strides, bounds, spatial]: a base address, a  *)
(* stride and a bound for each temporal dimension (dimension 1 is the      *)
(* innermost, index 0 of the source) and a stride for each spatial one.    *)
(* Addresses are counted in words of the memory, modulo 2^AddrBits.        *)
(***************************************************************************)
EXTENDS Integers, Sequences, SeqSums

CONSTANTS
  NumDims,     \* nTemporalDims
  SpatialDims, \* spatialDimSizes, a sequence of sizes
  AddrBits     \* addrWidth

ASSUME NumDimsAssumption == NumDims \in Nat \ {0}
ASSUME SpatialAssumption == SpatialDims \in Seq(Nat \ {0})
ASSUME AddrBitsAssumption == AddrBits \in Nat

Dims == 1 .. NumDims
SDims == DOMAIN SpatialDims
AddrSpace == 2 ^ AddrBits
ASSUME AddrSpaceAssumption == AddrSpace \in Nat \ {0}
Wrap(n) == n % AddrSpace

(* Lanes that differ in the first k spatial dimensions only. *)
LanesWithin(k) == Products(SpatialDims)[k]
NumLanes == LanesWithin(Len(SpatialDims))
Lanes == 0 .. NumLanes - 1

(* Index of a lane along spatial dimension k: dimension 1 varies fastest. *)
DimIndex(lane, k) == (lane \div LanesWithin(k - 1)) % SpatialDims[k]

TemporalAddress(cfg, counters) ==
  Wrap(cfg.base + Sum([d \in Dims |-> counters[d] * cfg.strides[d]]))

Address(cfg, counters, lane) ==
  Wrap(TemporalAddress(cfg, counters)
       + Sum([k \in SDims |-> DimIndex(lane, k) * cfg.spatial[k]]))

------------------------------------------------------------------------------
(* Registers: state (busy or idle) and one counter per temporal dimension. *)
AguReset == [busy |-> FALSE, counters |-> [d \in Dims |-> 0]]

(* The counter is at bound - 1, computed in AddrBits bits. *)
AtBound(cfg, counters, d) == counters[d] = Wrap(cfg.bounds[d] - 1)

(* Mutant: an unused dimension is treated like any other. *)
WrapsAtBoundOnly(cfg, counters, d) == AtBound(cfg, counters, d)

(* The dimension wraps at this step: unused (bound 0 or 1) or at its bound *)
Wraps(cfg, counters, d) == cfg.bounds[d] <= 1 \/ AtBound(cfg, counters, d)

(* Mutant: an unused dimension never ends. *)
AllDoneAtBound(cfg, counters) == \A d \in Dims : AtBound(cfg, counters, d)

AllDone(cfg, counters) == \A d \in Dims : Wraps(cfg, counters, d)

(* Mutants: the stride is not looked at. *)
IsFirstByCounter(cfg, counters) == counters[1] = 0
IsLastByCounter(cfg, counters) == AtBound(cfg, counters, 1)

(* Only the innermost dimension is looked at for reuse of an element. *)
IsFirst(cfg, counters) == cfg.strides[1] # 0 \/ counters[1] = 0
IsLast(cfg, counters) == cfg.strides[1] # 0 \/ AtBound(cfg, counters, 1)

Carry(cfg, counters, d) == \A e \in 1 .. d - 1 : Wraps(cfg, counters, e)

IncrementCounters(cfg, counters) ==
  [d \in Dims |-> IF ~Carry(cfg, counters, d) THEN counters[d]
                  ELSE IF Wraps(cfg, counters, d) THEN 0
                  ELSE counters[d] + 1]

(* One clock edge; the address is taken when the generator is busy and the *)
(* consumer ready.  The last address makes it idle again.                  *)
AguNext(cfg, agu, start, ready) ==
  IF agu.busy
  THEN IF ready
       THEN [busy |-> ~AllDone(cfg, agu.counters),
             counters |-> IncrementCounters(cfg, agu.counters)]
       ELSE agu
  ELSE [agu EXCEPT !.busy = start]

------------------------------------------------------------------------------
(***************************************************************************)
(* Reference: the nested loops a configuration stands for.  A bound of 0   *)
(* or 1 is one iteration.  Iteration n of the nest has counters Digits.    *)
(***************************************************************************)
Radix(cfg, d) == IF cfg.bounds[d] <= 1 THEN 1 ELSE cfg.bounds[d]

IterationsBelow(cfg, d) == Products([e \in Dims |-> Radix(cfg, e)])[d - 1]

Iterations(cfg) == IterationsBelow(cfg, NumDims + 1)

Digits(cfg, n) ==
  [d \in Dims |-> (n \div IterationsBelow(cfg, d)) % Radix(cfg, d)]

IterAddress(cfg, n, lane) == Address(cfg, Digits(cfg, n), lane)

(* Iterations that share an element: those of an innermost dimension with  *)
(* stride 0.                                                               *)
Reuse(cfg) == IF cfg.strides[1] # 0 THEN 1 ELSE Radix(cfg, 1)

(* Bounds are registers of AddrBits bits; a reused innermost dimension is  *)
(* a used one (with bound 0 its last use would never be seen).             *)
WellFormed(cfg) == /\ cfg.bounds \in [Dims -> 0 .. AddrSpace - 1]
                   /\ cfg.bounds[1] = 0 => cfg.strides[1] # 0
                   /\ cfg.base \in Int /\ cfg.strides \in [Dims -> Int]
                   /\ cfg.spatial \in [SDims -> Int]
==============================================================================
