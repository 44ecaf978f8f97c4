------------------------------ MODULE MCStreams ------------------------------
(***************************************************************************)
(* Streams for small accelerators: a tensor core and three PHS arrays, a   *)
(* DMA of four 32-bit ports, and matrix products, transposed ones, batched *)
(* ones, convolutions and elementwise kernels of different sizes.          *)
(***************************************************************************)
EXTENDS Streams

D(n, d) == Unit(n, d)
Sum2(n, d, e) == [i \in 1 .. n |-> IF i \in {d, e} THEN 1 ELSE 0]

Core(m) == TensorCore(m, 4, 4, 4)

Job(acc, dims, shapes, maps, sizes) ==
  [acc |-> acc, dims |-> dims, shapes |-> shapes, maps |-> maps, sizes |-> sizes]

Gemm(mm, m, n, k) ==
  Job(Core(mm), 3, <<<<m, k>>, <<k, n>>, <<m, n>>>>,
      <<<<D(3, 1), D(3, 3)>>, <<D(3, 3), D(3, 2)>>, <<D(3, 1), D(3, 2)>>>>, <<1, 1, 4>>)

(* The second operand is stored transposed; loops in another order *)
GemmT(m, n, k) ==
  Job(Core(2), 3, <<<<m, k>>, <<n, k>>, <<m, n>>>>,
      <<<<D(3, 2), D(3, 1)>>, <<D(3, 3), D(3, 1)>>, <<D(3, 2), D(3, 3)>>>>, <<1, 1, 4>>)

Batched(b, m, n, k) ==
  Job(Core(2), 4, <<<<b, m, k>>, <<b, k, n>>, <<b, m, n>>>>,
      <<<<D(4, 1), D(4, 2), D(4, 4)>>, <<D(4, 1), D(4, 4), D(4, 3)>>,
        <<D(4, 1), D(4, 2), D(4, 3)>>>>, <<1, 1, 4>>)

(* Dimensions: width, output channel, filter position, input channel *)
Conv(w, oc, f, c) ==
  Job(Core(2), 4, <<<<w + f - 1, c>>, <<f, c, oc>>, <<w, oc>>>>,
      <<<<Sum2(4, 1, 3), D(4, 4)>>, <<D(4, 3), D(4, 4), D(4, 2)>>,
        <<D(4, 1), D(4, 2)>>>>, <<1, 1, 4>>)

(* The same with the input channel ahead of the filter position *)
ConvC(w, oc, f, c) ==
  Job(Core(2), 4, <<<<w + f - 1, c>>, <<f, c, oc>>, <<w, oc>>>>,
      <<<<Sum2(4, 1, 4), D(4, 3)>>, <<D(4, 4), D(4, 3), D(4, 2)>>,
        <<D(4, 1), D(4, 2)>>>>, <<1, 1, 4>>)

D1 == <<D(1, 1)>>
D2 == <<D(2, 1), D(2, 2)>>

Vector(n) ==
  Job(Phs(<<4>>, <<D1, D1>>, <<D1>>), 1, <<<<n>>, <<n>>, <<n>>>>, <<D1, D1, D1>>, <<4, 4, 4>>)

(* A matrix on an array of one dimension *)
Rows(m, n) ==
  Job(Phs(<<4>>, <<D1>>, <<D1>>), 2, <<<<m, n>>, <<m, n>>>>, <<D2, D2>>, <<4, 4>>)

Matrix(m, n) ==
  Job(Phs(<<2, 2>>, <<D2>>, <<D2>>), 2, <<<<m, n>>, <<m, n>>>>, <<D2, D2>>, <<4, 4>>)

(* A row added to every row of a matrix, and a scalar to every element *)
Bias(m, n) ==
  Job(Phs(<<2, 2>>, <<D2, <<D(2, 2)>>>>, <<D2>>), 2, <<<<m, n>>, <<n>>, <<m, n>>>>,
      <<D2, <<D(2, 2)>>, D2>>, <<4, 4, 4>>)

ScalarBias(n) ==
  Job(Phs(<<4>>, <<D1, <<>>>>, <<D1>>), 1, <<<<n>>, <<>>, <<n>>>>,
      <<D1, <<>>, D1>>, <<4, 4, 4>>)

MCJobs ==
  { Gemm(2, 4, 8, 8), Gemm(2, 2, 16, 8), Gemm(2, 8, 4, 8), Gemm(2, 4, 8, 4),
    Gemm(4, 4, 8, 8), Gemm(4, 8, 4, 12), Gemm(2, 3, 8, 8), Gemm(2, 4, 6, 8),
    GemmT(4, 8, 8), Batched(2, 4, 4, 8),
    Conv(4, 4, 2, 8), Conv(6, 4, 3, 8), Conv(2, 4, 3, 16), ConvC(2, 4, 3, 16), ConvC(6, 4, 3, 8),
    Vector(4), Vector(8), Vector(6), Rows(4, 4), Rows(2, 8), Rows(3, 4),
    Matrix(2, 2), Matrix(4, 4), Matrix(2, 8), Bias(4, 4), Bias(2, 8),
    ScalarBias(8), ScalarBias(16) }

MCDma == DmaOf(2, 4)
==============================================================================
