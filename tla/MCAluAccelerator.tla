-------------------------- MODULE MCAluAccelerator ---------------------------
(***************************************************************************)
(* Programs of two jobs for one lane, 16 words of memory in two banks.     *)
(***************************************************************************)
EXTENDS AluAccelerator

Nest(base, strides, bounds) ==
  [base |-> base, strides |-> strides, bounds |-> bounds, spatial |-> <<1>>]
Walk(base, n) == Nest(base, <<1, 0>>, <<n, 0>>)

(* The accesses of one job: the registers, then the start. *)
Set(addr, wdata) == [addr |-> addr, wdata |-> wdata]
Job(sel, mode, a, b, c) ==
  <<Set("A", a), Set("B", b), Set("C", c), Set("select", sel), Set("mode", mode),
    Set("mask", <<TRUE>>), Set("start", 1)>>
Wait == <<Set("start", 0)>>

AluRegs == {"A", "B", "C", "select", "mode", "mask"}
OneLane == <<1>>

Unused == Nest(0, <<0, 0>>, <<0, 0>>)

(* C = A op B; the second job overwrites an operand and reads a result.    *)
NormalPrograms ==
  {Job(1, 0, Walk(0, 3), Walk(4, 3), Walk(8, 3)) \o
   Job(3, 0, Walk(8, 2), Walk(1, 2), Walk(1, 2)) \o Wait}

(* Two reductions of two elements, then an update in place. *)
ReductionPrograms ==
  {Job(0, 1, Walk(1, 4), Unused, Nest(8, <<0, 1>>, <<2, 2>>)) \o
   Job(2, 1, Walk(1, 2), Unused, Walk(8, 2)) \o Wait}

AllPrograms == NormalPrograms \cup ReductionPrograms

(* A reduction, then a normal job. *)
MixedPrograms ==
  {Job(0, 1, Walk(0, 1), Unused, Walk(4, 1)) \o
   Job(0, 0, Walk(0, 1), Walk(2, 1), Walk(6, 1)) \o Wait}
==============================================================================
