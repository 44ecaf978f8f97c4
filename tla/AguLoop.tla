------------------------------ MODULE AguLoop --------------------------------
(***************************************************************************)
(* The address generator on its own: it is started with a configuration    *)
(* while idle and its consumer takes an address whenever it likes.         *)
(***************************************************************************)
EXTENDS AffineAgu

CONSTANTS Configs   \* the configurations a run starts the generator with

ASSUME ConfigsAssumption == \A c \in Configs : WellFormed(c)

VARIABLES
  agu,   \* the registers of the generator
  cfg,   \* io.config, stable while the generator is busy
  n      \* history: addresses taken since the last start, one too many at most

vars == <<agu, cfg, n>>

Init ==
  /\ agu = AguReset
  /\ cfg \in Configs
  /\ n = 0

Start(c) ==
  /\ ~agu.busy
  /\ cfg' = c
  /\ agu' = AguNext(c, agu, TRUE, FALSE)
  /\ n' = 0

Take ==
  /\ agu.busy
  /\ agu' = AguNext(cfg, agu, FALSE, TRUE)
  /\ n' = IF n <= Iterations(cfg) THEN n + 1 ELSE n
  /\ UNCHANGED cfg

Next == (\E c \in Configs : Start(c)) \/ Take

Spec == Init /\ [][Next]_vars /\ WF_vars(Take)

------------------------------------------------------------------------------
TypeOK ==
  /\ agu \in [busy : BOOLEAN, counters : [Dims -> Nat]]
  /\ \A d \in Dims : agu.counters[d] < Radix(cfg, d)
  /\ cfg \in Configs
  /\ n \in Nat

(***************************************************************************)
(* The counters walk the loop nest in order: after n addresses they are    *)
(* the digits of n, no iteration is skipped, repeated or run past the      *)
(* bounds, and the generator is idle again with its counters cleared.      *)
(***************************************************************************)
NestOrder ==
  IF agu.busy THEN n < Iterations(cfg) /\ agu.counters = Digits(cfg, n)
  ELSE agu.counters = AguReset.counters /\ n \in {0, Iterations(cfg)}

(***************************************************************************)
(* An element is fetched at its first use and retired at its last one:     *)
(* along the innermost dimension with stride 0 that is the first and the   *)
(* last iteration, otherwise every iteration.  The bound on n is the one   *)
(* the history is cut at; NestOrder shows that it is not reached.          *)
(***************************************************************************)
ElementStart(c, m) == m % Reuse(c) = 0
ElementEnd(c, m) == (m + 1) % Reuse(c) = 0

FetchedAtFirstUse ==
  agu.busy /\ n <= Iterations(cfg) =>
    IsFirst(cfg, agu.counters) = ElementStart(cfg, n)
RetiredAtLastUse ==
  agu.busy /\ n <= Iterations(cfg) =>
    IsLast(cfg, agu.counters) = ElementEnd(cfg, n)

(* A started generator becomes idle when its consumer keeps taking. *)
Finishes == agu.busy ~> ~agu.busy
==============================================================================
