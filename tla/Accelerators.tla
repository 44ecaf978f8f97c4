---------------------------- MODULE Accelerators ----------------------------
(***************************************************************************)
(* What snaxc knows of an accelerator (snaxc/hw): its streamers and its    *)
(* template, the loop nest it unrolls in space.                            *)
(***************************************************************************)
EXTENDS Integers, Sequences, SequencesExt, FiniteSetsExt

(* spatial: the outermost dimension first; access: bytes of a port *)
Streamer(spatial, width, temporal) ==
  [spatial |-> spatial, access |-> width, temporal |-> temporal]

Ports(streamer) == FoldRight(LAMBDA x, y : x * y, streamer.spatial, 1)
FullWidth(streamer) == streamer.access * Ports(streamer)

(* Steps of the ports when they lie one after the other, innermost first *)
ByteOffsets(streamer) ==
  LET s == streamer.spatial IN
  Reverse([i \in DOMAIN s |->
    FullWidth([streamer EXCEPT !.spatial = SubSeq(s, i + 1, Len(s))])])

Unit(n, d) == [i \in 1 .. n |-> IF i = d THEN 1 ELSE 0]

------------------------------------------------------------------------------
(* Dimensions of ports of width bytes for rows of so many bytes; the       *)
(* generator lists them innermost first, from_params turns them around.    *)
PortSizes(rows, bytes, width) ==
  Reverse(IF bytes > width THEN <<bytes \div width, rows>> ELSE <<rows>>)

(* Operands a (m, k), b (k, n) and c (m, n).  The datapath takes b row by  *)
(* row.                                                                    *)
TensorCore(m, n, k, width) ==
  [kind |-> "tensorcore",
   bounds |-> <<m, n, k>>,
   maps |-> <<<<Unit(3, 1), Unit(3, 3)>>, <<Unit(3, 3), Unit(3, 2)>>,
              <<Unit(3, 1), Unit(3, 2)>>>>,
   streamers |-> <<Streamer(PortSizes(m, k, width), width, 6),
                   Streamer(PortSizes(k, n, width), width, 6),
                   Streamer(PortSizes(m, 4 * n, width), width, 6)>>,
   vector |-> <<<<1, 3>>, <<3, 2>>, <<1, 2>>>>]

------------------------------------------------------------------------------
(* A map of a template is a selection of its dimensions.  The PE array     *)
(* numbers the elements of an operand with the first dimension fastest.    *)
Dims(map) == [r \in DOMAIN map |-> CHOOSE d \in DOMAIN map[r] : map[r][d] = 1]

(* Phs.from_template: streamers in the order of the dart operands, pure    *)
(* inputs and then outputs; a carry shares its output's streamer.  At      *)
(* least one temporal dimension, for an operand without dimensions.        *)
Sizes(bounds, map) == [r \in DOMAIN map |-> bounds[Dims(map)[r]]]
DartTemplate(inputs, outputs) == inputs \o outputs

Phs(bounds, inputs, outputs) ==
  LET maps == DartTemplate(inputs, outputs)
  IN [kind |-> "phs", bounds |-> bounds, maps |-> maps,
      streamers |-> [o \in DOMAIN maps |->
        Streamer(Sizes(bounds, maps[o]), 4, Max({1, Len(maps[o])}))],
      vector |-> [o \in DOMAIN maps |-> Reverse(Dims(maps[o]))]]

------------------------------------------------------------------------------
(* The DMA's two sides: ports in dimensions of two, and one wide port *)
DmaOf(dims, width) ==
  LET tcdm == Streamer([i \in 1 .. dims |-> 2], width, 4)
  IN [tcdm |-> tcdm, axi |-> Streamer(<<>>, FullWidth(tcdm), 4)]
=============================================================================
