--------------------------- MODULE AguLoopProofs -----------------------------
(***************************************************************************)
(* The address generator walks its loop nest in order for every number of  *)
(* dimensions, width and configuration.  The invariant is NestOrder: the   *)
(* counters are the digits of the number of addresses taken.  A step adds  *)
(* one to both (IncrementCounts of AffineAguProofs).                       *)
(***************************************************************************)
EXTENDS AguLoop, AffineAguProofs

IInv == TypeOK /\ NestOrder

------------------------------------------------------------------------------
(* The invariant holds after reset, and is kept by a start and by a step. *)
LEMMA InitInv == Init => IInv
  <1> SUFFICES ASSUME Init PROVE IInv
    OBVIOUS
  <1>1. agu = [busy |-> FALSE, counters |-> [d \in Dims |-> 0]] /\ n = 0 /\ cfg \in Configs
    BY DEF Init, AguReset
  <1>2. \A d \in Dims : agu.counters[d] = 0 /\ Radix(cfg, d) > 0
    BY <1>1, RadixPositive, ConfigsAssumption
  <1>3. NestOrder
    BY <1>1 DEF NestOrder, AguReset
  <1> QED BY <1>1, <1>2, <1>3 DEF IInv, TypeOK

LEMMA StartInv ==
  ASSUME IInv, NEW c \in Configs, Start(c)
  PROVE  IInv'
  <1>1. agu' = [agu EXCEPT !.busy = TRUE] /\ cfg' = c /\ n' = 0 /\ ~agu.busy
    BY DEF Start, AguNext
  <1>2. /\ agu' \in [busy : BOOLEAN, counters : [Dims -> Nat]]
        /\ agu'.busy /\ agu'.counters = AguReset.counters
    BY <1>1 DEF IInv, TypeOK, NestOrder
  <1>3. \A d \in Dims : agu'.counters[d] = 0 /\ Radix(cfg', d) \in Nat \ {0}
    BY <1>1, <1>2, RadixPositive, ConfigsAssumption DEF AguReset
  <1>4. TypeOK'
    BY <1>1, <1>2, <1>3 DEF TypeOK
  <1>5. Digits(c, 0) = AguReset.counters /\ Iterations(c) \in Nat \ {0}
    BY ConfigsAssumption, FirstDigits, Below
  <1> QED BY <1>1, <1>2, <1>4, <1>5 DEF IInv, NestOrder

(* What a step of the consumer does to the generator *)
LEMMA TakeStep ==
  ASSUME IInv, Take
  PROVE  /\ agu'.busy <=> ~AllDone(cfg, agu.counters)
         /\ agu'.counters = IncrementCounters(cfg, agu.counters)
         /\ agu' = [busy |-> agu'.busy, counters |-> agu'.counters]
         /\ agu'.busy \in BOOLEAN
         /\ agu.counters = Digits(cfg, n) /\ n \in 0 .. Iterations(cfg) - 1
         /\ n' = n + 1 /\ cfg' = cfg /\ cfg \in Configs /\ WellFormed(cfg) /\ agu.busy
  <1>1. agu' = [busy |-> ~AllDone(cfg, agu.counters),
                counters |-> IncrementCounters(cfg, agu.counters)]
    BY DEF Take, AguNext
  <1>2. /\ cfg' = cfg /\ cfg \in Configs /\ WellFormed(cfg) /\ agu.busy
        /\ agu.counters = Digits(cfg, n) /\ n \in Nat /\ n < Iterations(cfg)
    BY ConfigsAssumption DEF Take, IInv, TypeOK, NestOrder
  <1>3. n \in 0 .. Iterations(cfg) - 1 /\ n' = n + 1
    BY <1>2, Below DEF Take
  <1>4. agu'.busy = ~AllDone(cfg, agu.counters)
    BY <1>1
  <1>5. agu'.busy <=> ~AllDone(cfg, agu.counters)
    BY <1>4, Zenon
  <1> QED BY <1>1, <1>2, <1>3, <1>5

LEMMA TakeInv ==
  ASSUME IInv, Take
  PROVE  IInv'
  <1>1. /\ agu'.counters = Digits(cfg, n + 1)
        /\ InRange(cfg, Digits(cfg, n + 1))
    BY TakeStep, IncrementCounts, DigitsInRange
  <1>2. TypeOK'
    BY <1>1, TakeStep DEF TypeOK, InRange
  <1>3. agu'.busy <=> n + 1 < Iterations(cfg)
    <2>1. AllDone(cfg, agu.counters) <=> n = Iterations(cfg) - 1
      BY TakeStep, AllDoneAtLast
    <2>2. Iterations(cfg) \in Nat
      BY TakeStep, Below
    <2> QED BY <2>1, <2>2, TakeStep
  <1>4. NestOrder'
    <2>1. CASE agu'.busy
      BY <1>1, <1>3, <2>1, TakeStep DEF NestOrder
    <2>2. CASE ~agu'.busy
      <3>1. agu'.counters = AguReset.counters
        BY <2>2, TakeStep, LastStep
      <3>2. n' = Iterations(cfg)
        BY <1>3, <2>2, TakeStep, Below
      <3> QED BY <2>2, <3>1, <3>2, TakeStep DEF NestOrder
    <2> QED BY <2>1, <2>2
  <1> QED BY <1>2, <1>4 DEF IInv

(* The generator is always where the number of addresses taken says it is. *)
THEOREM Invariant == Spec => []IInv
  <1>1. Init => IInv
    BY InitInv
  <1>2. IInv /\ [Next]_vars => IInv'
    <2> SUFFICES ASSUME IInv, [Next]_vars PROVE IInv'
      OBVIOUS
    <2>1. CASE \E c \in Configs : Start(c)
      BY <2>1, StartInv
    <2>2. CASE Take
      BY <2>2, TakeInv
    <2>3. CASE UNCHANGED vars
      BY <2>3 DEF vars, IInv, TypeOK, NestOrder
    <2> QED BY <2>1, <2>2, <2>3 DEF Next
  <1> QED BY <1>1, <1>2, PTL DEF Spec

------------------------------------------------------------------------------
(* Counters stay below the trips of their dimensions, whatever the bounds. *)
THEOREM TypeCorrect == Spec => []TypeOK
  <1>1. IInv => TypeOK
    BY DEF IInv
  <1> QED BY <1>1, Invariant, PTL

(* The generator (AffineAgu.scala) goes through the iterations of its loop *)
(* nest in order, each once, and then is idle with its counters cleared.   *)
THEOREM CountsTheNest == Spec => []NestOrder
  <1>1. IInv => NestOrder
    BY DEF IInv
  <1> QED BY <1>1, Invariant, PTL

(* The reuse flags of the generator: an element is fetched at its first    *)
(* use of the innermost loop.                                              *)
THEOREM FetchesAtFirstUse == Spec => []FetchedAtFirstUse
  <1>1. IInv => FetchedAtFirstUse
    <2> SUFFICES ASSUME IInv, agu.busy
                 PROVE  IsFirst(cfg, agu.counters) <=> ElementStart(cfg, n)
      BY DEF FetchedAtFirstUse, IsFirst, ElementStart
    <2>1. agu.counters = Digits(cfg, n) /\ n \in Nat /\ WellFormed(cfg)
      BY ConfigsAssumption DEF IInv, TypeOK, NestOrder
    <2> QED BY <2>1, ElementFlags DEF ElementStart
  <1> QED BY <1>1, Invariant, PTL

(* And retired at its last one. *)
THEOREM RetiresAtLastUse == Spec => []RetiredAtLastUse
  <1>1. IInv => RetiredAtLastUse
    <2> SUFFICES ASSUME IInv, agu.busy
                 PROVE  IsLast(cfg, agu.counters) <=> ElementEnd(cfg, n)
      BY DEF RetiredAtLastUse, IsLast, ElementEnd
    <2>1. agu.counters = Digits(cfg, n) /\ n \in Nat /\ WellFormed(cfg)
      BY ConfigsAssumption DEF IInv, TypeOK, NestOrder
    <2> QED BY <2>1, ElementFlags DEF ElementEnd
  <1> QED BY <1>1, Invariant, PTL
==============================================================================
