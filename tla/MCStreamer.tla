----------------------------- MODULE MCStreamer ------------------------------
(***************************************************************************)
(* Jobs for the streamer: two temporal dimensions, one spatial dimension.  *)
(***************************************************************************)
EXTENDS StreamerSys

Job(dir, base, strides, bounds, spatial, mask) ==
  [dir |-> dir, mask |-> <<mask>>,
   agu |-> [base |-> base, strides |-> strides, bounds |-> bounds, spatial |-> <<spatial>>]]

TwoLanes == <<2>>

(* A plain walk, a walk of a matrix, reuse of each element, lanes that     *)
(* share a bank, a masked walk.                                            *)
ReadJobs ==
  {Job("read", 0, <<1, 0>>, <<6, 0>>, 1, TRUE),
   Job("read", 1, <<1, 4>>, <<3, 2>>, 1, TRUE),
   Job("read", 0, <<0, 2>>, <<2, 3>>, 1, TRUE),
   Job("read", 0, <<1, 4>>, <<2, 2>>, 2, TRUE),
   Job("read", 2, <<2, 0>>, <<4, 1>>, 1, FALSE)}

(* Lanes with banks of their own, lanes that share one, one lane. *)
WriteJobs ==
  {Job("write", 0, <<2, 0>>, <<4, 0>>, 1, TRUE),
   Job("write", 0, <<4, 2>>, <<2, 2>>, 1, TRUE),
   Job("write", 0, <<1, 4>>, <<2, 2>>, 2, TRUE),
   Job("write", 1, <<1, 0>>, <<5, 1>>, 1, FALSE)}

(* In place on one lane, a reduction over the inner dimension into four   *)
(* elements, a repeated walk, a reduction on both lanes.                   *)
ReadWriteJobs ==
  {Job("readWrite", 0, <<1, 0>>, <<5, 0>>, 1, FALSE),
   Job("readWrite", 2, <<0, 1>>, <<2, 4>>, 1, FALSE),
   Job("readWrite", 0, <<0, 3>>, <<3, 2>>, 1, TRUE)}

(* Updates on both lanes, without reuse of an element and with reuse of as *)
(* many as let a lane run ahead.                                           *)
UpdateJobs ==
  {Job("readWrite", 1, <<2, 0>>, <<3, 0>>, 1, TRUE),
   Job("readWrite", 0, <<0, 2>>, <<2, 3>>, 1, TRUE)}

(* Every vector and lane has a word of its own. *)
Numbered == {[m \in 0 .. 7 |-> [i \in 0 .. 1 |-> 16 * (m + 1) + i]]}

AllJobSets == {ReadJobs, WriteJobs, ReadWriteJobs, UpdateJobs}
StoreJobSets == {WriteJobs}
==============================================================================
