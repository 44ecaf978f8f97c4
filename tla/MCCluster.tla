----------------------------- MODULE MCCluster -------------------------------
(***************************************************************************)
(* Three cores and a manager.  Prologues: a start-up with a global sync,   *)
(* phases separated by cluster syncs with accelerator accesses in some     *)
(* cores, two global syncs in a row.  The kernel: copy in, two             *)
(* computations, copy out, the outer stages on the core with the DMA, the  *)
(* inner ones on cores of their own; 2 x 3 tiles.                          *)
(***************************************************************************)
EXTENDS PipelinedCluster

G == [addr |-> GlobalBase, op |-> "read"]
L == SyncAccess
A == [addr |-> 2304, op |-> "write"]   \* 0x900, a register of the accelerator

Kernel == [k \in 1 .. NumPhases |-> SyncAccess]
For(p, q, r) ==
  [c \in Cores |-> (CASE c = 1 -> p [] c = 2 -> q [] OTHER -> r) \o Kernel]

MatchedPrograms ==
  {For(<<G, A, L, A, L>>, <<G, L, A, A, L>>, <<G, L, L>>),
   For(<<L, G, A, G, L>>, <<A, L, A, G, G, L>>, <<L, G, G, A, L>>),
   For(<<A, L, L, G>>, <<L, A, L, G>>, <<L, L, A, G, A>>)}

ThreeCores == {1, 2, 3}
Dispatch == [s \in 0 .. 3 |-> CASE s \in {0, 3} -> 2 [] s = 1 -> 1 [] OTHER -> 3]
TwoRows == [ub |-> 8, step |-> 4]
ThreeColumns == [ub |-> 6, step |-> 2]
==============================================================================
