----------------------------- MODULE MCBuffers ------------------------------
(* Functions for Buffers.                                                   *)
EXTENDS Buffers

A == -1
B == -2
C == -3
D == -4
E == -5
One == Type(2, "none", "none")   \* a buffer of one tile
All == Type(4, "none", "none")   \* one tile for each iteration
Plain == <<>>                    \* a kernel that takes any layout

Def(o, k, ins, ty, x) == [id |-> o, k |-> k, ins |-> ins, outs |-> <<>>, ty |-> ty, x |-> x, want |-> <<>>]
Alloc(o) == Def(o, "alloc", <<>>, One, 0)
Get(o, s, ty) == Def(o, "get", <<>>, ty, s)
Subview(o, v, x) == Def(o, "subview", <<v>>, One, x)
Dart(o, ins, out, want) == [id |-> o, k |-> "dart", ins |-> ins, outs |-> <<out>>, ty |-> NoType, x |-> 0, want |-> want]
Generic(o, ins, out) == [id |-> o, k |-> "generic", ins |-> ins, outs |-> <<out>>, ty |-> NoType, x |-> 0, want |-> <<>>]
For(o) == Effect(o, "for", <<>>)
Yield(o) == Effect(o, "yield", <<>>)
Global(n) == [set |-> TRUE, data |-> [i \in 1 .. n |-> <<"const", i>>]]
NoGlobals == [s \in {} |-> 0]

Func(args, globals, ops, result) ==
  [args |-> args, glob |-> globals, result |-> "none", mode |-> "minimalloc",
   ops |-> Append(ops, Effect(99, "return", result))]
Weights(n) == [s \in {0} |-> Global(n)]

(* One kernel, each operand with a layout of its own. *)
Gemm == Func(<<One, One, One>>, NoGlobals, <<Dart(1, <<A, B>>, C, <<"swap", "rows", "swap">>)>>, <<>>)
(* A temporary between two kernels, in the layout of both or of the first.   *)
Chain == Func(<<One, One>>, NoGlobals,
  <<Alloc(1), Dart(2, <<A>>, 1, <<"swap", "swap">>), Dart(3, <<1>>, B, <<"swap", "rows">>)>>, <<>>)
Relaid == Func(<<One, One>>, NoGlobals,
  <<Alloc(1), Dart(2, <<A>>, 1, <<"rows", "swap">>), Dart(3, <<1>>, B, <<"rows", "rows">>)>>, <<>>)
(* A constant operand, and a tile of a constant. *)
Constant == Func(<<One, One>>, Weights(2),
  <<Get(1, 0, One), Dart(2, <<A, 1>>, B, <<"rows", "swap", "rows">>)>>, <<>>)
ConstantTile == Func(<<One, One>>, Weights(4),
  <<Get(1, 0, All), Subview(2, 1, 0), Dart(3, <<A, 2>>, B, <<"rows", "swap", "rows">>)>>, <<>>)
(* An input two kernels want in different layouts. *)
Shared == Func(<<One, One, One>>, NoGlobals,
  <<Dart(1, <<A>>, B, <<"swap", "rows">>), Dart(2, <<A>>, C, <<"rows", "swap">>)>>, <<>>)
(* A result the function allocates. *)
Returning == Func(<<One>>, NoGlobals, <<Alloc(1), Dart(2, <<A>>, 1, Plain)>>, <<1>>)
(* A kernel no accelerator takes, before one that runs on an accelerator.    *)
Mixed == Func(<<One, One>>, NoGlobals,
  <<Alloc(1), Generic(2, <<A>>, 1), Dart(3, <<1>>, B, <<"swap", "swap">>)>>, <<>>)
(* Four buffers whose lives overlap in part: more than fit side by side.      *)
Long == Func(<<One, One>>, NoGlobals,
  <<Alloc(1), Alloc(2), Dart(3, <<A>>, 1, Plain), Dart(4, <<1>>, 2, Plain), Dart(5, <<2>>, B, Plain)>>, <<>>)
(* Loops over tiles, one that becomes a pipeline and one that does not.       *)
Tiles == Func(<<All, All>>, NoGlobals,
  <<For(1), Subview(2, A, 1), Subview(3, B, 1), Generic(4, <<2>>, 3), Yield(5)>>, <<>>)
TilesTwice == Func(<<All, All>>, NoGlobals,
  <<For(1), Subview(2, A, 1), Alloc(3), Generic(4, <<2>>, 3), Subview(5, B, 1),
    Generic(6, <<3>>, 5), Yield(7)>>, <<>>)

(* Kernels on the core, buffers that are never freed. *)
Static == [Func(<<One, One, One>>, NoGlobals,
  <<Alloc(1), Generic(2, <<A>>, 1), Generic(3, <<1, B>>, C)>>, <<>>) EXCEPT !.mode = "static"]
(* Five buffers at once: they do not fit. *)
TooLarge == Func(<<One, One, One, One, One>>, NoGlobals, <<Dart(1, <<A, B, C, D>>, E, Plain)>>, <<>>)

MCSources == {Gemm, Chain, Relaid, Constant, ConstantTile, Shared, Returning, Mixed, Long, Tiles, TilesTwice, Static, TooLarge}

(* Not among them: an input that both kernels take as it is, so that its    *)
(* buffer outlives the first kernel and no barrier orders the copy of that  *)
(* kernel's result; and a constant cast to one layout twice.  TLC refutes   *)
(* DataRight for each (README, Buffers).                                    *)
SharedPlain == Func(<<One, One, One>>, NoGlobals,
  <<Dart(1, <<A>>, B, Plain), Dart(2, <<A>>, C, Plain)>>, <<>>)
SharedConstant == Func(<<One, One>>, Weights(2),
  <<Get(1, 0, One), Dart(2, <<1>>, A, <<"swap", "swap">>), Dart(3, <<1>>, B, <<"swap", "swap">>)>>, <<>>)
SharedPlainOnly == {SharedPlain}
SharedConstantOnly == {SharedConstant}
==============================================================================
