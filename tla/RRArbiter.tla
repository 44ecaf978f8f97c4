------------------------------ MODULE RRArbiter ------------------------------
(***************************************************************************)
(* The round-robin arbiter of the Chisel library (chisel3.util.RRArbiter), *)
(* as the cluster uses it: the instruction cache arbitrates its cores with *)
(* it, every bank of the interconnect its ports, every streamer lane its   *)
(* reads and writes, the AXI network its masters.  Inputs are numbered     *)
(* 0 .. n-1, "valid" is the set of inputs that offer a transfer, "last" is *)
(* the input that won the last transfer that fired.                        *)
(***************************************************************************)
EXTENDS Naturals, FiniteSetsExt

(***************************************************************************)
(* The input the arbiter shows at its output: the lowest valid input above *)
(* the last winner, else the lowest valid one, else input n-1 (the default *)
(* of the multiplexer, harmless because nothing is valid).                 *)
(***************************************************************************)
Chosen(n, valid, last) ==
  LET above == {i \in valid : i > last}
  IN  IF above # {} THEN Min(above)
      ELSE IF valid # {} THEN Min(valid)
      ELSE n - 1

(* The last-winner register is loaded only when the output fires. *)
LastGrant(last, chosen, fire) == IF fire THEN chosen ELSE last

==============================================================================
