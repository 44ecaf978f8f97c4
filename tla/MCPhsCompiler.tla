---------------------------- MODULE MCPhsCompiler ----------------------------
(***************************************************************************)
(* Programs of up to three kernels: on one row of elements every order of  *)
(* a dozen bodies, with tags for two accelerators and without; and arrays  *)
(* of one and two dimensions that map, broadcast, transpose and reduce.    *)
(***************************************************************************)
EXTENDS PhsCompiler

Result(j) == [op |-> j]
Const(c) == [const |-> c]
Binary(name, x, y) ==
  [name |-> name, sig |-> "ii_i", attr |-> NoAttr, args |-> <<x, y>>]
Cmp(predicate, x, y) ==
  [name |-> "cmpi", sig |-> "ii_b", attr |-> predicate, args |-> <<x, y>>]
Select(c, x, y) ==
  [name |-> "select", sig |-> "bii_i", attr |-> NoAttr, args |-> <<c, x, y>>]

Body(ops) == [ins |-> 2, body |-> ops, result |-> Result(Len(ops))]

AddBody == Body(<<Binary("addi", Arg(1), Arg(2))>>)
MulBody == Body(<<Binary("muli", Arg(1), Arg(2))>>)
SubBody == Body(<<Binary("subi", Arg(2), Arg(1))>>)
MacBody == Body(<<Binary("muli", Arg(1), Arg(2)), Binary("addi", Result(1), Arg(3))>>)
HornerBody == Body(<<Binary("addi", Arg(1), Arg(3)), Binary("muli", Arg(2), Result(1))>>)
ThreeBody == Body(<<Binary("addi", Arg(3), Arg(1)), Binary("xori", Arg(2), Result(1)),
                    Binary("muli", Result(1), Result(2))>>)
MaxBody == Body(<<Cmp("sgt", Arg(1), Arg(2)), Select(Result(1), Arg(1), Arg(2))>>)
MaxAccBody == Body(<<Cmp("sgt", Arg(1), Arg(2)), Select(Result(1), Arg(1), Arg(2)),
                     Binary("addi", Result(2), Arg(3))>>)
LateBody == Body(<<Binary("addi", Arg(1), Arg(2)), Cmp("sgt", Result(1), Arg(3)),
                   Select(Result(2), Result(1), Arg(1))>>)
BiasBody(c) == Body(<<Binary("addi", Arg(1), Const(c)), Binary("muli", Result(1), Arg(2))>>)
SquareBody == Body(<<Binary("muli", Arg(1), Arg(1)), Binary("addi", Result(1), Arg(2))>>)
CopyBody == [ins |-> 1, body |-> <<>>, result |-> Arg(1)]
NegBody == [ins |-> 1, body |-> <<Binary("subi", Const(7), Arg(1))>>, result |-> Result(1)]
SumBody == [ins |-> 1, body |-> <<Binary("addi", Arg(1), Arg(2))>>, result |-> Result(1)]

On(acc, body, maps, bounds) ==
  [acc |-> acc, ins |-> body.ins, body |-> body.body, result |-> body.result,
   maps |-> maps, bounds |-> bounds]

Row(acc, body) ==
  On(acc, body, [i \in 1 .. body.ins + 1 |-> <<1>>], <<2>>)

Merged == {Row(1, b) : b \in {AddBody, SubBody, MacBody, HornerBody, ThreeBody,
                              MaxBody, MaxAccBody, LateBody, BiasBody(7)}}
Others == {Row(1, b) : b \in {MulBody, BiasBody(3), SquareBody, NegBody, SumBody, CopyBody}}
            \cup {Row(0, b) : b \in {AddBody, MacBody, SumBody}}
            \cup {Row(2, b) : b \in {MulBody, MacBody}}
            \cup {On(1, AddBody, <<<<1>>, <<1>>, <<1>>>>, <<>>),
                  On(1, AddBody, <<<<1>>, <<1>>, <<1>>>>, <<3>>)}

Shapes == {<<<<<<1, 2>>, <<1, 2>>, <<1, 2>>>>, <<2, 3>>>>,
           <<<<<<1>>, <<2>>, <<1, 2>>>>, <<3, 2>>>>,
           <<<<<<2, 1>>, <<>>, <<1, 2>>>>, <<2, 2>>>>,
           <<<<<<1>>, <<1>>, <<>>>>, <<3>>>>,
           <<<<<<1, 2>>, <<2>>, <<1>>>>, <<2, 3>>>>,
           <<<<<<1, 2>>, <<1, 2>>, <<2>>>>, <<2, 2>>>>,
           <<<<<<1, 2>>, <<2, 1>>, <<2, 1>>>>, <<2, 3>>>>,
           <<<<<<1, 2>>, <<2, 1>>, <<2, 1>>>>, <<2, 2>>>>}
Shaped == {On(1, b, s[1], s[2]) : b \in {AddBody, MacBody, LateBody}, s \in Shapes}

MCPrograms ==
  {<<j, k, l>> : j, k, l \in Merged}
    \cup {<<j, k>> : j, k \in Merged \cup Others}
    \cup {<<j, k>> : j, k \in Shaped}
    \cup {<<On(2, MacBody, <<<<1>>, <<1>>, <<>>>>, <<3>>), k>> : k \in Merged}
=============================================================================
