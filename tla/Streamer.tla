------------------------------ MODULE Streamer -------------------------------
(***************************************************************************)
(* A streamer (src/main/scala/streamer/Streamer.scala): it walks the       *)
(* addresses of its generator, reads and writes one word per lane from     *)
(* memory and hands whole vectors to, or takes them from, a datapath.      *)
(*                                                                         *)
(* No variables: "s" is the record of all registers and queues, "j" the    *)
(* job on the configuration wires, "in" the inputs of the cycle.  Wires    *)
(* are operators, StreamerNext is the clock edge.                          *)
(*   j.dir  : "read", "write" or "readWrite"     j.agu : generator config  *)
(*   j.mask : one Boolean per spatial dimension                            *)
(*   in.start, in.readReady, in.writeValid : Booleans                      *)
(*   in.writeVec[i] : the word for lane i                                  *)
(*   in.granted     : lanes whose memory port is ready in this cycle       *)
(*   in.rsp[i]      : [valid, data], the memory's response to lane i       *)
(***************************************************************************)
EXTENDS AffineAgu, RRArbiter

CONSTANTS
  QueueDepth,   \* queueDepth, of the request, data and response queues
  IsLastDepth,  \* depth of isLastQueue, 32 in the source
  NoData        \* a word nobody looks at

ASSUME DepthAssumption == QueueDepth \in Nat \ {0, 1} /\ IsLastDepth \in Nat \ {0}

(* After reset: everything empty; the arbiters' last winners have no reset. *)
StreamerReset(g) ==
  [agu |-> AguReset,
   readReqQ   |-> [i \in Lanes |-> <<>>],  \* addresses to read
   writeReqQ  |-> [i \in Lanes |-> <<>>],  \* addresses waiting for data
   writeDataQ |-> [i \in Lanes |-> <<>>],  \* [addr, data] to write
   rspQ       |-> [i \in Lanes |-> <<>>],  \* words read
   isLastQ    |-> <<>>,                    \* isLast of the steps taken
   bypass     |-> <<>>,                    \* at most one vector
   readPending |-> [i \in Lanes |-> FALSE],
   lastGrant  |-> [i \in Lanes |-> g]]

(* The mask of all dimensions, as the product of one list per dimension in *)
(* order: the last dimension varies fastest.                               *)
MaskIndex(lane, k) ==
  (lane \div (NumLanes \div LanesWithin(k))) % SpatialDims[k]
LaneEnabled(j, lane) == \A k \in SDims : j.mask[k] \/ MaskIndex(lane, k) = 0

HasRoom(q) == Len(q) < QueueDepth
PopIf(q, c) == IF c /\ q # <<>> THEN Tail(q) ELSE q
PushIf(q, c, x) == IF c THEN Append(q, x) ELSE q

------------------------------------------------------------------------------
(* Step 1: from generated addresses to read and write requests. *)
ReadReq(s, j)  == IsFirst(j.agu, s.agu.counters) /\ j.dir \in {"read", "readWrite"}
WriteReq(s, j) == IsLast(j.agu, s.agu.counters) /\ j.dir \in {"write", "readWrite"}

(* Mutant: one lane with room is enough. *)
SomeReadQueueReady(s) == \E i \in Lanes : HasRoom(s.readReqQ[i])

ReadQueuesReady(s)  == \A i \in Lanes : HasRoom(s.readReqQ[i])
WriteQueuesReady(s) == \A i \in Lanes : HasRoom(s.writeReqQ[i])

AguReady(s, j) == /\ ReadQueuesReady(s) \/ ~ReadReq(s, j)
                  /\ WriteQueuesReady(s) \/ ~WriteReq(s, j)
AguFire(s, j) == s.agu.busy /\ AguReady(s, j)

EnqRead(s, j, i)  == AguFire(s, j) /\ ReadReq(s, j) /\ LaneEnabled(j, i)
(* Mutant: disabled lanes get addresses too. *)
EnqWriteEveryLane(s, j, i) == AguFire(s, j) /\ WriteReq(s, j)

EnqWrite(s, j, i) == AguFire(s, j) /\ WriteReq(s, j) /\ LaneEnabled(j, i)

(* The generator does not wait for isLastQueue: when it is full the entry  *)
(* of the step is lost.                                                    *)
EnqIsLast(s, j) == AguFire(s, j) /\ Len(s.isLastQ) < IsLastDepth

------------------------------------------------------------------------------
(* Step 2: couple write requests with data; other data is bypassed. *)
LastAhead(s)   == s.isLastQ # <<>> /\ Head(s.isLastQ)
BypassAhead(s) == s.isLastQ # <<>> /\ ~Head(s.isLastQ)

WriteDataReady(s) ==
  (LastAhead(s) /\ \A i \in Lanes : HasRoom(s.writeDataQ[i])) \/ BypassAhead(s)

(* Each lane couples its own queues: it does not look at the other lanes. *)
EnqData(s, j, in, i) ==
  /\ LastAhead(s)
  /\ s.writeReqQ[i] # <<>>
  /\ in.writeValid
  /\ LaneEnabled(j, i)
  /\ HasRoom(s.writeDataQ[i])

AllLanesEnqData(s, j, in) ==
  \A i \in Lanes : EnqData(s, j, in, i) \/ ~LaneEnabled(j, i)

BypassValid(s, in) == BypassAhead(s) /\ in.writeValid
(* Mutant: the bypass buffer is no pipe. *)
BypassReadyEmpty(s, in) == s.bypass = <<>>

BypassReady(s, in) == s.bypass = <<>> \/ in.readReady
BypassFire(s, in) == BypassValid(s, in) /\ BypassReady(s, in)

------------------------------------------------------------------------------
(* Steps 3 and 4: each lane arbitrates its reads (0) and writes (1). *)
(* Mutant: no room is kept for the response that is on its way. *)
RoomForRspNow(s, i) == Len(s.rspQ[i]) < QueueDepth

RoomForRsp(s, i) == Len(s.rspQ[i]) < QueueDepth - 1

Offers(s, i) ==
  (IF s.readReqQ[i] # <<>> /\ RoomForRsp(s, i) THEN {0} ELSE {})
    \cup (IF s.writeDataQ[i] # <<>> THEN {1} ELSE {})
Pick(s, i) == Chosen(2, Offers(s, i), s.lastGrant[i])

ReqFire(s, in, i)   == Offers(s, i) # {} /\ i \in in.granted
ReadFire(s, in, i)  == ReqFire(s, in, i) /\ Pick(s, i) = 0
WriteFire(s, in, i) == ReqFire(s, in, i) /\ Pick(s, i) = 1
ReqAddr(s, i) == IF Pick(s, i) = 0 THEN Head(s.readReqQ[i])
                                   ELSE Head(s.writeDataQ[i]).addr

(* Only answers to reads are kept. *)
EnqRsp(s, in, i) ==
  in.rsp[i].valid /\ s.readPending[i] /\ HasRoom(s.rspQ[i])

------------------------------------------------------------------------------
(* Step 5: vectors to the datapath, from the bypass buffer if it holds one. *)
AllRspValid(s, j) == \A i \in Lanes : s.rspQ[i] # <<>> \/ ~LaneEnabled(j, i)
ReadValid(s, j) == s.bypass # <<>> \/ AllRspValid(s, j)
ReadVec(s) ==
  [i \in Lanes |-> IF s.bypass # <<>> THEN Head(s.bypass)[i]
                   ELSE IF s.rspQ[i] # <<>> THEN Head(s.rspQ[i]) ELSE NoData]

(* Mutant: a response is popped although the bypass buffer answers. *)
FromRspAnyway(s, j, in) == AllRspValid(s, j) /\ in.readReady

FromRsp(s, j, in) == s.bypass = <<>> /\ AllRspValid(s, j) /\ in.readReady

DeqRsp(s, j, in) == FromRsp(s, j, in) /\ (j.dir = "read" => LastAhead(s))

(* In write mode isLastQueue is never popped. *)
DeqIsLast(s, j, in) ==
  \/ j.dir = "readWrite" /\ (BypassFire(s, in) \/ AllLanesEnqData(s, j, in))
  \/ j.dir = "read" /\ FromRsp(s, j, in)

(* Mutant: writes waiting for the memory are forgotten. *)
RequestQueuesEmpty(s) ==
  \A i \in Lanes : <<>> = s.rspQ[i] \o s.readReqQ[i] \o s.writeReqQ[i]

AllQueuesEmpty(s) ==
  \A i \in Lanes : <<>> = s.rspQ[i] \o s.writeDataQ[i] \o s.readReqQ[i] \o s.writeReqQ[i]
Done(s) == ~s.agu.busy /\ AllQueuesEmpty(s)

StreamerNext(s, j, in) ==
  [agu |-> AguNext(j.agu, s.agu, in.start, AguReady(s, j)),
   readReqQ |-> [i \in Lanes |->
     PushIf(PopIf(s.readReqQ[i], ReadFire(s, in, i)),
            EnqRead(s, j, i), Address(j.agu, s.agu.counters, i))],
   writeReqQ |-> [i \in Lanes |->
     PushIf(PopIf(s.writeReqQ[i], EnqData(s, j, in, i)),
            EnqWrite(s, j, i), Address(j.agu, s.agu.counters, i))],
   writeDataQ |-> [i \in Lanes |->
     IF EnqData(s, j, in, i)
     THEN Append(PopIf(s.writeDataQ[i], WriteFire(s, in, i)),
                 [addr |-> Head(s.writeReqQ[i]), data |-> in.writeVec[i]])
     ELSE PopIf(s.writeDataQ[i], WriteFire(s, in, i))],
   rspQ |-> [i \in Lanes |->
     PushIf(PopIf(s.rspQ[i], DeqRsp(s, j, in)),
            EnqRsp(s, in, i), in.rsp[i].data)],
   isLastQ |-> PushIf(PopIf(s.isLastQ, DeqIsLast(s, j, in)),
                      EnqIsLast(s, j), IsLast(j.agu, s.agu.counters)),
   bypass |-> PushIf(PopIf(s.bypass, in.readReady), BypassFire(s, in), in.writeVec),
   readPending |-> [i \in Lanes |-> ReadFire(s, in, i)],
   lastGrant |-> [i \in Lanes |->
     LastGrant(s.lastGrant[i], Pick(s, i), ReqFire(s, in, i))]]
==============================================================================
