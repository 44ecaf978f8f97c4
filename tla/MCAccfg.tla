------------------------------ MODULE MCAccfg ------------------------------
(* Small programs for Accfg. A kernel is a setup of both fields, its launch *)
(* and its await, as the front end emits it.                                *)
EXTENDS Accfg

MCFields == <<<<"x", "y">>, <<"x", "y">>>>
MCBase == <<10, 20>>
MCWoven == {1}

C(n) == <<"c", n>>
IV(o) == <<"iv", o>>
Val(o) == <<"op", o>>

Kernel(n, a, x, y) ==
  [op   |-> (n :> SetupOp(a, [f \in {"x", "y"} |-> IF f = "x" THEN x ELSE y], NoState)) @@
            (n + 1 :> LaunchOp(a, Res(n, 1))) @@ (n + 2 :> AwaitOp(a)),
   body |-> Entry :> <<n, n + 1, n + 2>>]
Single(n, op) == [op |-> n :> op, body |-> Entry :> <<n>>]
Call(n) == Single(n, [k |-> "call"])
Add(n, x, y) == Single(n, [k |-> "add", x |-> x, y |-> y])
Load(n) == Single(n, [k |-> "load"])

RECURSIVE Then(_)
Then(ps) ==
  IF Len(ps) = 1 THEN ps[1]
  ELSE LET r == Then(Tail(ps))
       IN [op |-> ps[1].op @@ r.op,
           body |-> (Entry :> (ps[1].body[Entry] \o r.body[Entry])) @@ ps[1].body @@ r.body]
(* The statement n around p, whose yield is n + 1, as block i of n. *)
Nested(p, n, y, i) ==
  [op |-> p.op @@ (y :> [k |-> "yield", vals |-> <<>>]),
   body |-> [b \in {<<n, i>>} \cup (DOMAIN p.body \ {Entry}) |->
               IF b = <<n, i>> THEN Append(p.body[Entry], y) ELSE p.body[b]]]
For(n, p) ==
  LET q == Nested(p, n, n + 1, 1)
  IN [op |-> (n :> [k |-> "for", init |-> <<>>]) @@ q.op, body |-> (Entry :> <<n>>) @@ q.body]
If(n, p, q) ==
  LET t == Nested(p, n, n + 1, 1)
      e == Nested(q, n, n + 2, 2)
  IN [op |-> (n :> [k |-> "if"]) @@ t.op @@ e.op, body |-> (Entry :> <<n>>) @@ t.body @@ e.body]

(* Fields that stay the same from kernel to kernel, and a call that may have  *)
(* changed them.                                                            *)
Straight == Then(<<Kernel(1, 1, C(1), C(2)), Kernel(4, 1, C(1), C(3)), Call(7), Kernel(8, 1, C(1), C(3))>>)
(* A loop with a field that is the same in all iterations.                   *)
Loop == Then(<<Kernel(1, 1, C(1), C(1)), For(4, Kernel(6, 1, IV(4), C(2))), Kernel(9, 1, C(1), C(2))>>)
(* Two kernels in a loop, of which the first can be set up ahead.            *)
Twice == For(1, Then(<<Kernel(3, 1, C(1), IV(1)), Kernel(6, 1, C(2), IV(1))>>))
(* A nest whose inner setup needs both induction variables.                  *)
Nest == For(1, For(3, Then(<<Add(5, IV(1), IV(3)), Kernel(6, 1, Val(5), IV(1))>>)))
(* A value read from memory in each iteration.                               *)
Impure == For(1, Then(<<Load(3), Kernel(4, 1, Val(3), C(1))>>))
(* Setups of an accelerator that is not woven between those of one that is.  *)
Copies == For(1, Then(<<Kernel(3, 2, IV(1), C(1)), Kernel(6, 1, IV(1), C(5)), Kernel(9, 2, IV(1), C(2))>>))
(* Branches that leave different registers, and a setup after them.          *)
Branch == Then(<<Kernel(1, 1, C(1), C(2)),
                 If(4, Kernel(7, 1, C(1), C(3)), Kernel(10, 1, C(4), C(2))), Kernel(13, 1, C(4), C(3))>>)
(* The same with a branch that sets up nothing.                              *)
OneBranch == Then(<<Kernel(1, 1, C(1), C(2)),
                    If(4, Kernel(7, 1, C(1), C(3)), Load(10)), Kernel(11, 1, C(1), C(2))>>)
LoopIf == For(1, If(3, Kernel(6, 1, IV(1), C(2)), Kernel(9, 1, IV(1), C(3))))

MCSources == {Straight, Loop, Twice, Nest, Impure, Copies, Branch, OneBranch, LoopIf}

(* A loop that sets x back to what it was before the loop.                   *)
SetBack == Then(<<Kernel(1, 1, C(1), C(1)), For(4, Then(<<Kernel(6, 1, C(1), C(1)), Kernel(9, 1, C(2), C(1))>>))>>)
SetBackOnly == {SetBack}
============================================================================
