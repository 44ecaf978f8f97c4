------------------------------ MODULE AluProofs -------------------------------
(***************************************************************************)
(* The ALU accelerator computes what its jobs say.  Each of its streamers  *)
(* is one of StreamerSys between the memory and the ALUs: A and B read,    *)
(* C writes what the ALUs make of the words memory held when the job was   *)
(* started.  That the operands are still those words when they are read is *)
(* the part that needs all three: reads run ahead of the ALUs, writes      *)
(* behind them.                                                            *)
(***************************************************************************)
EXTENDS AluAccelerator, Numbers

FlagsFit(j) == \/ 2 * QueueDepth * Reuse(j.agu) <= IsLastDepth
               \/ Iterations(j.agu) <= IsLastDepth

Configs == [base : Int, strides : [Dims -> Int], bounds : [Dims -> 0 .. AddrSpace - 1],
            spatial : [SDims -> Int]]
Jobs(dir) == {j \in [dir : {dir}, mask : [SDims -> BOOLEAN], agu : Configs] :
                WellFormed(j.agu)}
ReadJobs  == {j \in Jobs("read") : FlagsFit(j)}
WriteJobs == {j \in Jobs("write") : Reuse(j.agu) = 1}

At(p, n, i) == IterAddress(csr.vals[p], n, i)

(* What the ALUs make of the operands of iteration n, as memory held them  *)
(* at the start *)
Output(n) == [i \in Lanes |-> Alu(csr.vals["select"] % 4, mem0[At("A", n, i)],
                                  mem0[At("B", n, i)])]

A == INSTANCE StreamerProofs WITH
  s <- st["A"], job <- StreamJob("A"), mem <- mem0, rsp <- rsp["A"],
  jobs <- 1, pool <- ReadJobs, made <- [m \in Nat |-> COut],
  JobSets <- {ReadJobs}, MaxJobs <- 1, torn <- FALSE, Outputs <- {}

B == INSTANCE StreamerProofs WITH
  s <- st["B"], job <- StreamJob("B"), mem <- mem0, rsp <- rsp["B"],
  jobs <- 1, pool <- ReadJobs, made <- [m \in Nat |-> COut],
  JobSets <- {ReadJobs}, MaxJobs <- 1, torn <- FALSE, Outputs <- {}

C == INSTANCE StreamerProofs WITH
  s <- st["C"], job <- StreamJob("C"), rsp <- rsp["C"],
  jobs <- 1, pool <- WriteJobs, made <- [m \in Nat |-> Output(m)],
  JobSets <- {WriteJobs}, MaxJobs <- 1, torn <- FALSE, Outputs <- {}

(***************************************************************************)
(* What the theorems ask of the running job: two operands, no reduction;   *)
(* the three nests have the same number of iterations, and no iteration    *)
(* reads a word that an earlier one has written.                           *)
(***************************************************************************)
Regular ==
  started =>
    /\ ~ReadWriteMode
    /\ StreamJob("A") \in ReadJobs /\ StreamJob("B") \in ReadJobs
    /\ StreamJob("C") \in WriteJobs
    /\ Length("A") = Length("C") /\ Length("B") = Length("C")
    /\ \A n \in 0 .. Length("C") - 1 : \A m \in 0 .. n - 1 : \A i, k \in On :
         At("C", m, k) # At("A", n, i) /\ At("C", m, k) # At("B", n, i)

(* The lanes of a vector are stored in the same cycle. *)
StoresTogether ==
  {i \in Lanes : rsp'["C"][i].valid} \in {{}, {i \in Lanes : Offers(st["C"], i) # {}}}

------------------------------------------------------------------------------
LEMMA SameA ==
  /\ \A s : A!Done(s) <=> Done(s)
  /\ \A s, j : A!ReadValid(s, j) <=> ReadValid(s, j)
  /\ \A s, in, i : A!ReqFire(s, in, i) <=> ReqFire(s, in, i)
  /\ \A s, in, i : A!ReadFire(s, in, i) <=> ReadFire(s, in, i)
  /\ \A s, in, i : A!WriteFire(s, in, i) <=> WriteFire(s, in, i)
  /\ \A s, i : A!ReqAddr(s, i) = ReqAddr(s, i)
  /\ \A s, i : A!Offers(s, i) = Offers(s, i)
  /\ \A j, i : A!LaneEnabled(j, i) <=> LaneEnabled(j, i)
  /\ \A c, n, i : A!IterAddress(c, n, i) = IterAddress(c, n, i)
  /\ \A c : A!Iterations(c) = Iterations(c)
  /\ \A c : A!Reuse(c) = Reuse(c)
  /\ \A c : A!WellFormed(c) <=> WellFormed(c)
  /\ \A s : A!WriteDataReady(s) <=> WriteDataReady(s)
  /\ A!AguReset = AguReset
  /\ A!Lanes = Lanes
  /\ A!AddrSpace = AddrSpace
  /\ \A s : A!ReadVec(s) = ReadVec(s)
  <1> USE DEF A!AddrSpace, AddrSpace, A!Address, Address,
              A!AguReset, AguReset, A!AllQueuesEmpty,
              AllQueuesEmpty, A!AllRspValid, AllRspValid,
              A!BypassAhead, BypassAhead, A!Chosen, Chosen,
              A!Digits, Digits, A!DimIndex, DimIndex, A!Dims,
              Dims, A!Done, Done, A!HasRoom, HasRoom,
              A!IterAddress, IterAddress, A!Iterations,
              Iterations, A!IterationsBelow, IterationsBelow,
              A!LaneEnabled, LaneEnabled, A!Lanes, Lanes,
              A!LanesWithin, LanesWithin, A!LastAhead,
              LastAhead, A!MaskIndex, MaskIndex, A!Min, Min,
              A!NumLanes, NumLanes, A!Offers, Offers, A!Pick,
              Pick, A!Products, Products, A!Radix, Radix,
              A!ReadFire, ReadFire, A!ReadValid, ReadValid,
              A!ReadVec, ReadVec, A!ReqAddr, ReqAddr, A!ReqFire,
              ReqFire, A!Reuse, Reuse, A!RoomForRsp, RoomForRsp,
              A!SDims, SDims, A!Sum, Sum, A!Sums, Sums,
              A!TemporalAddress, TemporalAddress, A!WellFormed,
              WellFormed, A!Wrap, Wrap, A!WriteDataReady,
              WriteDataReady, A!WriteFire, WriteFire
  <1>1. \A s : A!Done(s) <=> Done(s)
    OBVIOUS
  <1>2. \A s, j : A!ReadValid(s, j) <=> ReadValid(s, j)
    OBVIOUS
  <1>3. \A s, in, i : A!ReqFire(s, in, i) <=> ReqFire(s, in, i)
    OBVIOUS
  <1>4. \A s, in, i : A!ReadFire(s, in, i) <=> ReadFire(s, in, i)
    OBVIOUS
  <1>5. \A s, in, i : A!WriteFire(s, in, i) <=> WriteFire(s, in, i)
    OBVIOUS
  <1>6. \A s, i : A!ReqAddr(s, i) = ReqAddr(s, i)
    OBVIOUS
  <1>7. \A s, i : A!Offers(s, i) = Offers(s, i)
    OBVIOUS
  <1>8. \A j, i : A!LaneEnabled(j, i) <=> LaneEnabled(j, i)
    OBVIOUS
  <1>9. \A c, n, i : A!IterAddress(c, n, i) = IterAddress(c, n, i)
    OBVIOUS
  <1>10. \A c : A!Iterations(c) = Iterations(c)
    OBVIOUS
  <1>11. \A c : A!Reuse(c) = Reuse(c)
    OBVIOUS
  <1>12. \A c : A!WellFormed(c) <=> WellFormed(c)
    OBVIOUS
  <1>13. \A s : A!WriteDataReady(s) <=> WriteDataReady(s)
    OBVIOUS
  <1>14. A!AguReset = AguReset
    OBVIOUS
  <1>15. A!Lanes = Lanes
    OBVIOUS
  <1>16. A!AddrSpace = AddrSpace
    OBVIOUS
  <1>17. \A s : A!ReadVec(s) = ReadVec(s)
    OBVIOUS
  <1> QED BY Zenon, <1>1, <1>2, <1>3, <1>4, <1>5, <1>6, <1>7, <1>8, <1>9, <1>10, <1>11,
             <1>12, <1>13, <1>14, <1>15, <1>16, <1>17

LEMMA EdgeA ==
  ASSUME NEW s, NEW j, NEW in
  PROVE  A!StreamerNext(s, j, in) = StreamerNext(s, j, in)
  <1> DEFINE a == A!StreamerNext(s, j, in)
             b == StreamerNext(s, j, in)
  <1>1. /\ a.agu = b.agu
        /\ a.writeDataQ = b.writeDataQ
        /\ a.rspQ = b.rspQ
        /\ a.isLastQ = b.isLastQ
        /\ a.bypass = b.bypass
        /\ a.readPending = b.readPending
        /\ a.lastGrant = b.lastGrant
        /\ \A i : A!ReadFire(s, in, i) <=> ReadFire(s, in, i)
        /\ \A i : A!EnqRead(s, j, i) <=> EnqRead(s, j, i)
        /\ \A i : A!EnqData(s, j, in, i) <=> EnqData(s, j, in, i)
        /\ \A i : A!EnqWrite(s, j, i) <=> EnqWrite(s, j, i)
        /\ \A i : A!Address(j.agu, s.agu.counters, i) = Address(j.agu, s.agu.counters, i)
        /\ A!Lanes = Lanes
    <2> USE DEF A!AddrSpace, AddrSpace, A!Address, Address,
                A!AguFire, AguFire, A!AguNext, AguNext,
                A!AguReady, AguReady, A!AllDone, AllDone,
                A!AllLanesEnqData, AllLanesEnqData, A!AllRspValid,
                AllRspValid, A!AtBound, AtBound, A!BypassAhead,
                BypassAhead, A!BypassFire, BypassFire,
                A!BypassReady, BypassReady, A!BypassValid,
                BypassValid, A!Carry, Carry, A!Chosen, Chosen,
                A!DeqIsLast, DeqIsLast, A!DeqRsp, DeqRsp,
                A!DimIndex, DimIndex, A!Dims, Dims, A!EnqData,
                EnqData, A!EnqIsLast, EnqIsLast, A!EnqRead,
                EnqRead, A!EnqRsp, EnqRsp, A!EnqWrite, EnqWrite,
                A!FromRsp, FromRsp, A!HasRoom, HasRoom,
                A!IncrementCounters, IncrementCounters, A!IsFirst,
                IsFirst, A!IsLast, IsLast, A!LaneEnabled,
                LaneEnabled, A!Lanes, Lanes, A!LanesWithin,
                LanesWithin, A!LastAhead, LastAhead, A!LastGrant,
                LastGrant, A!MaskIndex, MaskIndex, A!Min, Min,
                A!NumLanes, NumLanes, A!Offers, Offers, A!Pick,
                Pick, A!PopIf, PopIf, A!Products, Products,
                A!PushIf, PushIf, A!ReadFire, ReadFire,
                A!ReadQueuesReady, ReadQueuesReady, A!ReadReq,
                ReadReq, A!ReqFire, ReqFire, A!RoomForRsp,
                RoomForRsp, A!SDims, SDims, A!StreamerNext,
                StreamerNext, A!Sum, Sum, A!Sums, Sums,
                A!TemporalAddress, TemporalAddress, A!Wrap, Wrap,
                A!Wraps, Wraps, A!WriteFire, WriteFire,
                A!WriteQueuesReady, WriteQueuesReady, A!WriteReq,
                WriteReq
    <2>1. a.agu = b.agu
      OBVIOUS
    <2>2. a.writeDataQ = b.writeDataQ
      OBVIOUS
    <2>3. a.rspQ = b.rspQ
      OBVIOUS
    <2>4. a.isLastQ = b.isLastQ
      OBVIOUS
    <2>5. a.bypass = b.bypass
      OBVIOUS
    <2>6. a.readPending = b.readPending
      OBVIOUS
    <2>7. a.lastGrant = b.lastGrant
      OBVIOUS
    <2>8. \A i : A!ReadFire(s, in, i) <=> ReadFire(s, in, i)
      OBVIOUS
    <2>9. \A i : A!EnqRead(s, j, i) <=> EnqRead(s, j, i)
      OBVIOUS
    <2>10. \A i : A!EnqData(s, j, in, i) <=> EnqData(s, j, in, i)
      OBVIOUS
    <2>11. \A i : A!EnqWrite(s, j, i) <=> EnqWrite(s, j, i)
      OBVIOUS
    <2>12. \A i : A!Address(j.agu, s.agu.counters, i) = Address(j.agu, s.agu.counters, i)
      OBVIOUS
    <2>13. A!Lanes = Lanes
      OBVIOUS
    <2> QED BY Zenon, <2>1, <2>2, <2>3, <2>4, <2>5, <2>6, <2>7, <2>8, <2>9, <2>10, <2>11,
               <2>12, <2>13
  <1>2. a.readReqQ = b.readReqQ
    BY <1>1 DEF A!StreamerNext, StreamerNext, A!PushIf, PushIf, A!PopIf, PopIf
  <1>3. a.writeReqQ = b.writeReqQ
    BY <1>1 DEF A!StreamerNext, StreamerNext, A!PushIf, PushIf, A!PopIf, PopIf
  <1> QED BY Zenon, <1>1, <1>2, <1>3 DEF A!StreamerNext, StreamerNext

(* The assumptions of the streamer hold for it. *)
LEMMA GivenA ==
  /\ A!AddrSpaceAssumption /\ A!JobsAssumption /\ A!MaxJobsAssumption
  /\ A!NumDimsAssumption /\ A!SpatialAssumption /\ A!AddrBitsAssumption
  /\ A!DepthAssumption
  <1>1. A!AddrSpace \in Nat \ {0}
    BY AddrSpaceAssumption, SameA
  <1>2. \A P \in {ReadJobs} : \A j \in P : A!WellFormed(j.agu)
    BY SameA DEF ReadJobs, Jobs
  <1> QED BY <1>1, <1>2, NumDimsAssumption, SpatialAssumption, AddrBitsAssumption,
             DepthAssumption

LEMMA SameB ==
  /\ \A s : B!Done(s) <=> Done(s)
  /\ \A s, j : B!ReadValid(s, j) <=> ReadValid(s, j)
  /\ \A s, in, i : B!ReqFire(s, in, i) <=> ReqFire(s, in, i)
  /\ \A s, in, i : B!ReadFire(s, in, i) <=> ReadFire(s, in, i)
  /\ \A s, in, i : B!WriteFire(s, in, i) <=> WriteFire(s, in, i)
  /\ \A s, i : B!ReqAddr(s, i) = ReqAddr(s, i)
  /\ \A s, i : B!Offers(s, i) = Offers(s, i)
  /\ \A j, i : B!LaneEnabled(j, i) <=> LaneEnabled(j, i)
  /\ \A c, n, i : B!IterAddress(c, n, i) = IterAddress(c, n, i)
  /\ \A c : B!Iterations(c) = Iterations(c)
  /\ \A c : B!Reuse(c) = Reuse(c)
  /\ \A c : B!WellFormed(c) <=> WellFormed(c)
  /\ \A s : B!WriteDataReady(s) <=> WriteDataReady(s)
  /\ B!AguReset = AguReset
  /\ B!Lanes = Lanes
  /\ B!AddrSpace = AddrSpace
  /\ \A s : B!ReadVec(s) = ReadVec(s)
  <1> USE DEF B!AddrSpace, AddrSpace, B!Address, Address,
              B!AguReset, AguReset, B!AllQueuesEmpty,
              AllQueuesEmpty, B!AllRspValid, AllRspValid,
              B!BypassAhead, BypassAhead, B!Chosen, Chosen,
              B!Digits, Digits, B!DimIndex, DimIndex, B!Dims,
              Dims, B!Done, Done, B!HasRoom, HasRoom,
              B!IterAddress, IterAddress, B!Iterations,
              Iterations, B!IterationsBelow, IterationsBelow,
              B!LaneEnabled, LaneEnabled, B!Lanes, Lanes,
              B!LanesWithin, LanesWithin, B!LastAhead,
              LastAhead, B!MaskIndex, MaskIndex, B!Min, Min,
              B!NumLanes, NumLanes, B!Offers, Offers, B!Pick,
              Pick, B!Products, Products, B!Radix, Radix,
              B!ReadFire, ReadFire, B!ReadValid, ReadValid,
              B!ReadVec, ReadVec, B!ReqAddr, ReqAddr, B!ReqFire,
              ReqFire, B!Reuse, Reuse, B!RoomForRsp, RoomForRsp,
              B!SDims, SDims, B!Sum, Sum, B!Sums, Sums,
              B!TemporalAddress, TemporalAddress, B!WellFormed,
              WellFormed, B!Wrap, Wrap, B!WriteDataReady,
              WriteDataReady, B!WriteFire, WriteFire
  <1>1. \A s : B!Done(s) <=> Done(s)
    OBVIOUS
  <1>2. \A s, j : B!ReadValid(s, j) <=> ReadValid(s, j)
    OBVIOUS
  <1>3. \A s, in, i : B!ReqFire(s, in, i) <=> ReqFire(s, in, i)
    OBVIOUS
  <1>4. \A s, in, i : B!ReadFire(s, in, i) <=> ReadFire(s, in, i)
    OBVIOUS
  <1>5. \A s, in, i : B!WriteFire(s, in, i) <=> WriteFire(s, in, i)
    OBVIOUS
  <1>6. \A s, i : B!ReqAddr(s, i) = ReqAddr(s, i)
    OBVIOUS
  <1>7. \A s, i : B!Offers(s, i) = Offers(s, i)
    OBVIOUS
  <1>8. \A j, i : B!LaneEnabled(j, i) <=> LaneEnabled(j, i)
    OBVIOUS
  <1>9. \A c, n, i : B!IterAddress(c, n, i) = IterAddress(c, n, i)
    OBVIOUS
  <1>10. \A c : B!Iterations(c) = Iterations(c)
    OBVIOUS
  <1>11. \A c : B!Reuse(c) = Reuse(c)
    OBVIOUS
  <1>12. \A c : B!WellFormed(c) <=> WellFormed(c)
    OBVIOUS
  <1>13. \A s : B!WriteDataReady(s) <=> WriteDataReady(s)
    OBVIOUS
  <1>14. B!AguReset = AguReset
    OBVIOUS
  <1>15. B!Lanes = Lanes
    OBVIOUS
  <1>16. B!AddrSpace = AddrSpace
    OBVIOUS
  <1>17. \A s : B!ReadVec(s) = ReadVec(s)
    OBVIOUS
  <1> QED BY Zenon, <1>1, <1>2, <1>3, <1>4, <1>5, <1>6, <1>7, <1>8, <1>9, <1>10, <1>11,
             <1>12, <1>13, <1>14, <1>15, <1>16, <1>17

LEMMA EdgeB ==
  ASSUME NEW s, NEW j, NEW in
  PROVE  B!StreamerNext(s, j, in) = StreamerNext(s, j, in)
  <1> DEFINE a == B!StreamerNext(s, j, in)
             b == StreamerNext(s, j, in)
  <1>1. /\ a.agu = b.agu
        /\ a.writeDataQ = b.writeDataQ
        /\ a.rspQ = b.rspQ
        /\ a.isLastQ = b.isLastQ
        /\ a.bypass = b.bypass
        /\ a.readPending = b.readPending
        /\ a.lastGrant = b.lastGrant
        /\ \A i : B!ReadFire(s, in, i) <=> ReadFire(s, in, i)
        /\ \A i : B!EnqRead(s, j, i) <=> EnqRead(s, j, i)
        /\ \A i : B!EnqData(s, j, in, i) <=> EnqData(s, j, in, i)
        /\ \A i : B!EnqWrite(s, j, i) <=> EnqWrite(s, j, i)
        /\ \A i : B!Address(j.agu, s.agu.counters, i) = Address(j.agu, s.agu.counters, i)
        /\ B!Lanes = Lanes
    <2> USE DEF B!AddrSpace, AddrSpace, B!Address, Address,
                B!AguFire, AguFire, B!AguNext, AguNext,
                B!AguReady, AguReady, B!AllDone, AllDone,
                B!AllLanesEnqData, AllLanesEnqData, B!AllRspValid,
                AllRspValid, B!AtBound, AtBound, B!BypassAhead,
                BypassAhead, B!BypassFire, BypassFire,
                B!BypassReady, BypassReady, B!BypassValid,
                BypassValid, B!Carry, Carry, B!Chosen, Chosen,
                B!DeqIsLast, DeqIsLast, B!DeqRsp, DeqRsp,
                B!DimIndex, DimIndex, B!Dims, Dims, B!EnqData,
                EnqData, B!EnqIsLast, EnqIsLast, B!EnqRead,
                EnqRead, B!EnqRsp, EnqRsp, B!EnqWrite, EnqWrite,
                B!FromRsp, FromRsp, B!HasRoom, HasRoom,
                B!IncrementCounters, IncrementCounters, B!IsFirst,
                IsFirst, B!IsLast, IsLast, B!LaneEnabled,
                LaneEnabled, B!Lanes, Lanes, B!LanesWithin,
                LanesWithin, B!LastAhead, LastAhead, B!LastGrant,
                LastGrant, B!MaskIndex, MaskIndex, B!Min, Min,
                B!NumLanes, NumLanes, B!Offers, Offers, B!Pick,
                Pick, B!PopIf, PopIf, B!Products, Products,
                B!PushIf, PushIf, B!ReadFire, ReadFire,
                B!ReadQueuesReady, ReadQueuesReady, B!ReadReq,
                ReadReq, B!ReqFire, ReqFire, B!RoomForRsp,
                RoomForRsp, B!SDims, SDims, B!StreamerNext,
                StreamerNext, B!Sum, Sum, B!Sums, Sums,
                B!TemporalAddress, TemporalAddress, B!Wrap, Wrap,
                B!Wraps, Wraps, B!WriteFire, WriteFire,
                B!WriteQueuesReady, WriteQueuesReady, B!WriteReq,
                WriteReq
    <2>1. a.agu = b.agu
      OBVIOUS
    <2>2. a.writeDataQ = b.writeDataQ
      OBVIOUS
    <2>3. a.rspQ = b.rspQ
      OBVIOUS
    <2>4. a.isLastQ = b.isLastQ
      OBVIOUS
    <2>5. a.bypass = b.bypass
      OBVIOUS
    <2>6. a.readPending = b.readPending
      OBVIOUS
    <2>7. a.lastGrant = b.lastGrant
      OBVIOUS
    <2>8. \A i : B!ReadFire(s, in, i) <=> ReadFire(s, in, i)
      OBVIOUS
    <2>9. \A i : B!EnqRead(s, j, i) <=> EnqRead(s, j, i)
      OBVIOUS
    <2>10. \A i : B!EnqData(s, j, in, i) <=> EnqData(s, j, in, i)
      OBVIOUS
    <2>11. \A i : B!EnqWrite(s, j, i) <=> EnqWrite(s, j, i)
      OBVIOUS
    <2>12. \A i : B!Address(j.agu, s.agu.counters, i) = Address(j.agu, s.agu.counters, i)
      OBVIOUS
    <2>13. B!Lanes = Lanes
      OBVIOUS
    <2> QED BY Zenon, <2>1, <2>2, <2>3, <2>4, <2>5, <2>6, <2>7, <2>8, <2>9, <2>10, <2>11,
               <2>12, <2>13
  <1>2. a.readReqQ = b.readReqQ
    BY <1>1 DEF B!StreamerNext, StreamerNext, B!PushIf, PushIf, B!PopIf, PopIf
  <1>3. a.writeReqQ = b.writeReqQ
    BY <1>1 DEF B!StreamerNext, StreamerNext, B!PushIf, PushIf, B!PopIf, PopIf
  <1> QED BY Zenon, <1>1, <1>2, <1>3 DEF B!StreamerNext, StreamerNext

(* The assumptions of the streamer hold for it. *)
LEMMA GivenB ==
  /\ B!AddrSpaceAssumption /\ B!JobsAssumption /\ B!MaxJobsAssumption
  /\ B!NumDimsAssumption /\ B!SpatialAssumption /\ B!AddrBitsAssumption
  /\ B!DepthAssumption
  <1>1. B!AddrSpace \in Nat \ {0}
    BY AddrSpaceAssumption, SameB
  <1>2. \A P \in {ReadJobs} : \A j \in P : B!WellFormed(j.agu)
    BY SameB DEF ReadJobs, Jobs
  <1> QED BY <1>1, <1>2, NumDimsAssumption, SpatialAssumption, AddrBitsAssumption,
             DepthAssumption

LEMMA SameC ==
  /\ \A s : C!Done(s) <=> Done(s)
  /\ \A s, j : C!ReadValid(s, j) <=> ReadValid(s, j)
  /\ \A s, in, i : C!ReqFire(s, in, i) <=> ReqFire(s, in, i)
  /\ \A s, in, i : C!ReadFire(s, in, i) <=> ReadFire(s, in, i)
  /\ \A s, in, i : C!WriteFire(s, in, i) <=> WriteFire(s, in, i)
  /\ \A s, i : C!ReqAddr(s, i) = ReqAddr(s, i)
  /\ \A s, i : C!Offers(s, i) = Offers(s, i)
  /\ \A j, i : C!LaneEnabled(j, i) <=> LaneEnabled(j, i)
  /\ \A c, n, i : C!IterAddress(c, n, i) = IterAddress(c, n, i)
  /\ \A c : C!Iterations(c) = Iterations(c)
  /\ \A c : C!Reuse(c) = Reuse(c)
  /\ \A c : C!WellFormed(c) <=> WellFormed(c)
  /\ \A s : C!WriteDataReady(s) <=> WriteDataReady(s)
  /\ C!AguReset = AguReset
  /\ C!Lanes = Lanes
  /\ C!AddrSpace = AddrSpace
  /\ \A s : C!ReadVec(s) = ReadVec(s)
  <1> USE DEF C!AddrSpace, AddrSpace, C!Address, Address,
              C!AguReset, AguReset, C!AllQueuesEmpty,
              AllQueuesEmpty, C!AllRspValid, AllRspValid,
              C!BypassAhead, BypassAhead, C!Chosen, Chosen,
              C!Digits, Digits, C!DimIndex, DimIndex, C!Dims,
              Dims, C!Done, Done, C!HasRoom, HasRoom,
              C!IterAddress, IterAddress, C!Iterations,
              Iterations, C!IterationsBelow, IterationsBelow,
              C!LaneEnabled, LaneEnabled, C!Lanes, Lanes,
              C!LanesWithin, LanesWithin, C!LastAhead,
              LastAhead, C!MaskIndex, MaskIndex, C!Min, Min,
              C!NumLanes, NumLanes, C!Offers, Offers, C!Pick,
              Pick, C!Products, Products, C!Radix, Radix,
              C!ReadFire, ReadFire, C!ReadValid, ReadValid,
              C!ReadVec, ReadVec, C!ReqAddr, ReqAddr, C!ReqFire,
              ReqFire, C!Reuse, Reuse, C!RoomForRsp, RoomForRsp,
              C!SDims, SDims, C!Sum, Sum, C!Sums, Sums,
              C!TemporalAddress, TemporalAddress, C!WellFormed,
              WellFormed, C!Wrap, Wrap, C!WriteDataReady,
              WriteDataReady, C!WriteFire, WriteFire
  <1>1. \A s : C!Done(s) <=> Done(s)
    OBVIOUS
  <1>2. \A s, j : C!ReadValid(s, j) <=> ReadValid(s, j)
    OBVIOUS
  <1>3. \A s, in, i : C!ReqFire(s, in, i) <=> ReqFire(s, in, i)
    OBVIOUS
  <1>4. \A s, in, i : C!ReadFire(s, in, i) <=> ReadFire(s, in, i)
    OBVIOUS
  <1>5. \A s, in, i : C!WriteFire(s, in, i) <=> WriteFire(s, in, i)
    OBVIOUS
  <1>6. \A s, i : C!ReqAddr(s, i) = ReqAddr(s, i)
    OBVIOUS
  <1>7. \A s, i : C!Offers(s, i) = Offers(s, i)
    OBVIOUS
  <1>8. \A j, i : C!LaneEnabled(j, i) <=> LaneEnabled(j, i)
    OBVIOUS
  <1>9. \A c, n, i : C!IterAddress(c, n, i) = IterAddress(c, n, i)
    OBVIOUS
  <1>10. \A c : C!Iterations(c) = Iterations(c)
    OBVIOUS
  <1>11. \A c : C!Reuse(c) = Reuse(c)
    OBVIOUS
  <1>12. \A c : C!WellFormed(c) <=> WellFormed(c)
    OBVIOUS
  <1>13. \A s : C!WriteDataReady(s) <=> WriteDataReady(s)
    OBVIOUS
  <1>14. C!AguReset = AguReset
    OBVIOUS
  <1>15. C!Lanes = Lanes
    OBVIOUS
  <1>16. C!AddrSpace = AddrSpace
    OBVIOUS
  <1>17. \A s : C!ReadVec(s) = ReadVec(s)
    OBVIOUS
  <1> QED BY Zenon, <1>1, <1>2, <1>3, <1>4, <1>5, <1>6, <1>7, <1>8, <1>9, <1>10, <1>11,
             <1>12, <1>13, <1>14, <1>15, <1>16, <1>17

LEMMA EdgeC ==
  ASSUME NEW s, NEW j, NEW in
  PROVE  C!StreamerNext(s, j, in) = StreamerNext(s, j, in)
  <1> DEFINE a == C!StreamerNext(s, j, in)
             b == StreamerNext(s, j, in)
  <1>1. /\ a.agu = b.agu
        /\ a.writeDataQ = b.writeDataQ
        /\ a.rspQ = b.rspQ
        /\ a.isLastQ = b.isLastQ
        /\ a.bypass = b.bypass
        /\ a.readPending = b.readPending
        /\ a.lastGrant = b.lastGrant
        /\ \A i : C!ReadFire(s, in, i) <=> ReadFire(s, in, i)
        /\ \A i : C!EnqRead(s, j, i) <=> EnqRead(s, j, i)
        /\ \A i : C!EnqData(s, j, in, i) <=> EnqData(s, j, in, i)
        /\ \A i : C!EnqWrite(s, j, i) <=> EnqWrite(s, j, i)
        /\ \A i : C!Address(j.agu, s.agu.counters, i) = Address(j.agu, s.agu.counters, i)
        /\ C!Lanes = Lanes
    <2> USE DEF C!AddrSpace, AddrSpace, C!Address, Address,
                C!AguFire, AguFire, C!AguNext, AguNext,
                C!AguReady, AguReady, C!AllDone, AllDone,
                C!AllLanesEnqData, AllLanesEnqData, C!AllRspValid,
                AllRspValid, C!AtBound, AtBound, C!BypassAhead,
                BypassAhead, C!BypassFire, BypassFire,
                C!BypassReady, BypassReady, C!BypassValid,
                BypassValid, C!Carry, Carry, C!Chosen, Chosen,
                C!DeqIsLast, DeqIsLast, C!DeqRsp, DeqRsp,
                C!DimIndex, DimIndex, C!Dims, Dims, C!EnqData,
                EnqData, C!EnqIsLast, EnqIsLast, C!EnqRead,
                EnqRead, C!EnqRsp, EnqRsp, C!EnqWrite, EnqWrite,
                C!FromRsp, FromRsp, C!HasRoom, HasRoom,
                C!IncrementCounters, IncrementCounters, C!IsFirst,
                IsFirst, C!IsLast, IsLast, C!LaneEnabled,
                LaneEnabled, C!Lanes, Lanes, C!LanesWithin,
                LanesWithin, C!LastAhead, LastAhead, C!LastGrant,
                LastGrant, C!MaskIndex, MaskIndex, C!Min, Min,
                C!NumLanes, NumLanes, C!Offers, Offers, C!Pick,
                Pick, C!PopIf, PopIf, C!Products, Products,
                C!PushIf, PushIf, C!ReadFire, ReadFire,
                C!ReadQueuesReady, ReadQueuesReady, C!ReadReq,
                ReadReq, C!ReqFire, ReqFire, C!RoomForRsp,
                RoomForRsp, C!SDims, SDims, C!StreamerNext,
                StreamerNext, C!Sum, Sum, C!Sums, Sums,
                C!TemporalAddress, TemporalAddress, C!Wrap, Wrap,
                C!Wraps, Wraps, C!WriteFire, WriteFire,
                C!WriteQueuesReady, WriteQueuesReady, C!WriteReq,
                WriteReq
    <2>1. a.agu = b.agu
      OBVIOUS
    <2>2. a.writeDataQ = b.writeDataQ
      OBVIOUS
    <2>3. a.rspQ = b.rspQ
      OBVIOUS
    <2>4. a.isLastQ = b.isLastQ
      OBVIOUS
    <2>5. a.bypass = b.bypass
      OBVIOUS
    <2>6. a.readPending = b.readPending
      OBVIOUS
    <2>7. a.lastGrant = b.lastGrant
      OBVIOUS
    <2>8. \A i : C!ReadFire(s, in, i) <=> ReadFire(s, in, i)
      OBVIOUS
    <2>9. \A i : C!EnqRead(s, j, i) <=> EnqRead(s, j, i)
      OBVIOUS
    <2>10. \A i : C!EnqData(s, j, in, i) <=> EnqData(s, j, in, i)
      OBVIOUS
    <2>11. \A i : C!EnqWrite(s, j, i) <=> EnqWrite(s, j, i)
      OBVIOUS
    <2>12. \A i : C!Address(j.agu, s.agu.counters, i) = Address(j.agu, s.agu.counters, i)
      OBVIOUS
    <2>13. C!Lanes = Lanes
      OBVIOUS
    <2> QED BY Zenon, <2>1, <2>2, <2>3, <2>4, <2>5, <2>6, <2>7, <2>8, <2>9, <2>10, <2>11,
               <2>12, <2>13
  <1>2. a.readReqQ = b.readReqQ
    BY <1>1 DEF C!StreamerNext, StreamerNext, C!PushIf, PushIf, C!PopIf, PopIf
  <1>3. a.writeReqQ = b.writeReqQ
    BY <1>1 DEF C!StreamerNext, StreamerNext, C!PushIf, PushIf, C!PopIf, PopIf
  <1> QED BY Zenon, <1>1, <1>2, <1>3 DEF C!StreamerNext, StreamerNext

(* The assumptions of the streamer hold for it. *)
LEMMA GivenC ==
  /\ C!AddrSpaceAssumption /\ C!JobsAssumption /\ C!MaxJobsAssumption
  /\ C!NumDimsAssumption /\ C!SpatialAssumption /\ C!AddrBitsAssumption
  /\ C!DepthAssumption
  <1>1. C!AddrSpace \in Nat \ {0}
    BY AddrSpaceAssumption, SameC
  <1>2. \A P \in {WriteJobs} : \A j \in P : C!WellFormed(j.agu)
    BY SameC DEF WriteJobs, Jobs
  <1> QED BY <1>1, <1>2, NumDimsAssumption, SpatialAssumption, AddrBitsAssumption,
             DepthAssumption

------------------------------------------------------------------------------
(* A streamer with nothing to do, whatever is left in isLastQueue *)
Idle(s) ==
  /\ s.agu = AguReset /\ s.bypass = <<>>
  /\ \A i \in Lanes : /\ s.readReqQ[i] = <<>> /\ s.rspQ[i] = <<>>
                      /\ s.writeReqQ[i] = <<>> /\ s.writeDataQ[i] = <<>>
                      /\ ~s.readPending[i]

LEMMA IdleOffers ==
  ASSUME NEW s, Idle(s), NEW in, NEW i \in Lanes
  PROVE  /\ Offers(s, i) = {}
         /\ ~ReqFire(s, in, i) /\ ~ReadFire(s, in, i) /\ ~WriteFire(s, in, i)
  <1>1. Offers(s, i) = {}
    BY DEF Idle, Offers
  <1> QED BY <1>1 DEF ReqFire, ReadFire, WriteFire

(* It goes on doing nothing until it is started. *)
LEMMA IdleEdge ==
  ASSUME NEW s, Idle(s), NEW j, NEW in, ~BypassFire(s, in),
         NEW t, t = StreamerNext(s, j, in)
  PROVE  /\ t.bypass = <<>>
         /\ \A i \in Lanes : /\ t.readReqQ[i] = <<>> /\ t.rspQ[i] = <<>>
                             /\ t.writeReqQ[i] = <<>> /\ t.writeDataQ[i] = <<>>
                             /\ ~t.readPending[i]
         /\ s.isLastQ = <<>> => t.isLastQ = <<>>
         /\ j.dir = "write" => t.isLastQ = s.isLastQ
  <1>1. s.agu = AguReset /\ s.bypass = <<>> /\ ~AguFire(s, j)
    BY DEF Idle, AguReset, AguFire
  <1>2. t.bypass = <<>>
    <2>1. t.bypass = PushIf(PopIf(s.bypass, in.readReady), BypassFire(s, in), in.writeVec)
      BY DEF StreamerNext
    <2> QED BY <1>1, <2>1 DEF PushIf, PopIf
  <1>3. /\ s.isLastQ = <<>> => t.isLastQ = <<>>
        /\ j.dir = "write" => t.isLastQ = s.isLastQ
    <2>1. t.isLastQ = PushIf(PopIf(s.isLastQ, DeqIsLast(s, j, in)),
                             EnqIsLast(s, j), IsLast(j.agu, s.agu.counters))
      BY DEF StreamerNext
    <2>2. t.isLastQ = PopIf(s.isLastQ, DeqIsLast(s, j, in))
      BY <1>1, <2>1 DEF PushIf, EnqIsLast
    <2> QED BY <2>2 DEF PopIf, DeqIsLast
  <1>4. ASSUME NEW i \in Lanes
        PROVE  /\ t.readReqQ[i] = <<>> /\ t.rspQ[i] = <<>>
               /\ t.writeReqQ[i] = <<>> /\ t.writeDataQ[i] = <<>>
               /\ ~t.readPending[i]
    <2>1. /\ ~EnqRead(s, j, i) /\ ~EnqWrite(s, j, i) /\ ~EnqData(s, j, in, i)
          /\ ~EnqRsp(s, in, i) /\ ~ReadFire(s, in, i)
      BY <1>1, IdleOffers DEF Idle, EnqRead, EnqWrite, EnqData, EnqRsp
    <2>2. /\ s.readReqQ[i] = <<>> /\ s.rspQ[i] = <<>>
          /\ s.writeReqQ[i] = <<>> /\ s.writeDataQ[i] = <<>>
      BY DEF Idle
    <2>3. t.readReqQ[i] = PushIf(PopIf(s.readReqQ[i], ReadFire(s, in, i)),
                                 EnqRead(s, j, i), Address(j.agu, s.agu.counters, i))
      BY DEF StreamerNext
    <2>4. t.writeReqQ[i] = PushIf(PopIf(s.writeReqQ[i], EnqData(s, j, in, i)),
                                  EnqWrite(s, j, i), Address(j.agu, s.agu.counters, i))
      BY DEF StreamerNext
    <2>5. t.writeDataQ[i] = PopIf(s.writeDataQ[i], WriteFire(s, in, i))
      BY <2>1 DEF StreamerNext
    <2>6. t.rspQ[i] = PushIf(PopIf(s.rspQ[i], DeqRsp(s, j, in)),
                             EnqRsp(s, in, i), in.rsp[i].data)
      BY DEF StreamerNext
    <2>7. t.readPending[i] = ReadFire(s, in, i)
      BY DEF StreamerNext
    <2> QED BY <2>1, <2>2, <2>3, <2>4, <2>5, <2>6, <2>7 DEF PushIf, PopIf
  <1> QED BY <1>2, <1>3, <1>4

LEMMA IdleAgu ==
  ASSUME NEW s, Idle(s), NEW j, NEW in
  PROVE  StreamerNext(s, j, in).agu = [busy |-> in.start, counters |-> AguReset.counters]
  <1>1. s.agu = AguReset /\ ~s.agu.busy
    BY DEF Idle, AguReset
  <1>2. StreamerNext(s, j, in).agu = AguNext(j.agu, s.agu, in.start, AguReady(s, j))
    BY DEF StreamerNext
  <1>3. StreamerNext(s, j, in).agu = [AguReset EXCEPT !.busy = in.start]
    BY <1>1, <1>2 DEF AguNext
  <1> QED BY <1>3 DEF AguReset

(* A vector matters where it is taken only. *)
LEMMA SameVector ==
  ASSUME NEW s, NEW j, NEW in, NEW in2, ~BypassFire(s, in),
         in2.start = in.start, in2.readReady = in.readReady,
         in2.writeValid = in.writeValid, in2.granted = in.granted, in2.rsp = in.rsp,
         in.writeValid => \A i \in Lanes : LaneEnabled(j, i) => in2.writeVec[i] = in.writeVec[i]
  PROVE  /\ StreamerNext(s, j, in2) = StreamerNext(s, j, in)
         /\ \A i : /\ ReqFire(s, in2, i) <=> ReqFire(s, in, i)
                   /\ ReadFire(s, in2, i) <=> ReadFire(s, in, i)
                   /\ WriteFire(s, in2, i) <=> WriteFire(s, in, i)
  <1> DEFINE a == StreamerNext(s, j, in2)
             b == StreamerNext(s, j, in)
  <1>1. \A i : /\ ReqFire(s, in2, i) <=> ReqFire(s, in, i)
               /\ ReadFire(s, in2, i) <=> ReadFire(s, in, i)
               /\ WriteFire(s, in2, i) <=> WriteFire(s, in, i)
               /\ EnqData(s, j, in2, i) <=> EnqData(s, j, in, i)
               /\ EnqRsp(s, in2, i) <=> EnqRsp(s, in, i)
    BY DEF ReqFire, ReadFire, WriteFire, EnqData, EnqRsp
  <1>2. /\ ~BypassFire(s, in2)
        /\ DeqRsp(s, j, in2) <=> DeqRsp(s, j, in)
        /\ DeqIsLast(s, j, in2) <=> DeqIsLast(s, j, in)
    BY <1>1 DEF BypassFire, BypassValid, BypassReady, DeqRsp, DeqIsLast, FromRsp,
                AllLanesEnqData
  <1>3. a.agu = b.agu
    BY DEF StreamerNext
  <1>4. a.readReqQ = b.readReqQ
    BY <1>1 DEF StreamerNext, PopIf
  <1>5. a.writeReqQ = b.writeReqQ
    BY <1>1 DEF StreamerNext, PopIf
  <1>6. a.writeDataQ = b.writeDataQ
    <2>1. \A i \in Lanes : EnqData(s, j, in, i) => in2.writeVec[i] = in.writeVec[i]
      BY DEF EnqData
    <2> QED BY <1>1, <2>1 DEF StreamerNext, PopIf
  <1>7. a.rspQ = b.rspQ
    BY <1>1, <1>2 DEF StreamerNext, PopIf, PushIf
  <1>8. a.isLastQ = b.isLastQ
    BY <1>2 DEF StreamerNext, PopIf
  <1>9. a.bypass = b.bypass
    BY <1>2 DEF StreamerNext, PushIf
  <1>10. a.readPending = b.readPending
    <2>1. a.readPending = [i \in Lanes |-> ReadFire(s, in2, i)]
      BY DEF StreamerNext
    <2>2. b.readPending = [i \in Lanes |-> ReadFire(s, in, i)]
      BY DEF StreamerNext
    <2>3. \A i \in Lanes : ReadFire(s, in2, i) = ReadFire(s, in, i)
      BY Zenon DEF ReadFire, ReqFire
    <2> QED BY Zenon, <2>1, <2>2, <2>3
  <1>11. a.lastGrant = b.lastGrant
    BY <1>1 DEF StreamerNext, LastGrant
  <1>12. a = b
    BY Zenon, <1>3, <1>4, <1>5, <1>6, <1>7, <1>8, <1>9, <1>10, <1>11 DEF StreamerNext
  <1> QED BY <1>1, <1>12

------------------------------------------------------------------------------
(* One clock edge, part by part *)
LEMMA ClockStep ==
  ASSUME NEW granted, NEW issue, Clock(granted, issue),
         NEW start, start = CsrStart(Access(issue), AccDone)
  PROVE  /\ granted \in Grants /\ start \in BOOLEAN
         /\ \A p \in Streams :
              /\ st'[p] = StreamerNext(st[p], StreamJob(p), StreamIn(p, start, granted))
              /\ rsp'[p] = [i \in Lanes |->
                   [valid |-> ReqFire(st[p], StreamIn(p, start, granted), i),
                    data |-> IF ReadFire(st[p], StreamIn(p, start, granted), i)
                             THEN mem[ReqAddr(st[p], i)] ELSE NoData]]
         /\ csr'.vals = IF start THEN csr.shadow ELSE csr.vals
         /\ started' = (started \/ start)
         /\ mem0' = IF start THEN mem ELSE mem0
         /\ moved' = IF start THEN 0
                     ELSE IF AValid /\ BValid /\ CanProcess THEN moved + 1 ELSE moved
         /\ start => AccDone
  <1>1. start \in BOOLEAN /\ (start => AccDone)
    BY DEF CsrStart, SyncAccess
  <1>2. csr'.vals = IF start THEN csr.shadow ELSE csr.vals
    BY DEF Clock, CsrNext, ValsNext
  <1> QED BY <1>1, <1>2 DEF Clock

------------------------------------------------------------------------------
(* A streamer that has nothing left, and no flag in isLastQueue *)
Quiet(p) == Idle(st[p]) /\ st[p].isLastQ = <<>>

(***************************************************************************)
(* The running job.  All three streamers are as streamers alone would be;  *)
(* C has its first address before A and B offer their first vectors: they  *)
(* are the same age.                                                       *)
(***************************************************************************)
WorkInv ==
  /\ A!ReadInv /\ A!InUse /\ B!ReadInv /\ B!InUse
  /\ C!WriteInv /\ C!AheadInv
  /\ C!Generated = 0 => A!Taken = 0 /\ B!Taken = 0

SystemInv ==
  /\ started \in BOOLEAN /\ mem = [x \in Addrs |-> mem[x]]
  /\ IF started THEN WorkInv ELSE \A p \in Streams : Quiet(p)

(* The streamers of a regular job *)
LEMMA RunningJob ==
  ASSUME Regular, started
  PROVE  /\ ~ReadWriteMode
         /\ StreamJob("A").dir = "read" /\ StreamJob("B").dir = "read"
         /\ StreamJob("C").dir = "write"
         /\ StreamJob("A") \in ReadJobs /\ StreamJob("B") \in ReadJobs
         /\ StreamJob("C") \in WriteJobs
         /\ Length("A") = Length("C") /\ Length("B") = Length("C")
         /\ BValid <=> ReadValid(st["B"], StreamJob("B"))
         /\ BVec = ReadVec(st["B"])
         /\ A!OnlyReads /\ B!OnlyReads /\ C!OnlyWrites
         /\ A!Enabled = On /\ B!Enabled = On /\ C!Enabled = On
  <1>1. /\ ~ReadWriteMode
        /\ StreamJob("A") \in ReadJobs /\ StreamJob("B") \in ReadJobs
        /\ StreamJob("C") \in WriteJobs
        /\ Length("A") = Length("C") /\ Length("B") = Length("C")
    BY DEF Regular
  <1>2. /\ StreamJob("A").dir = "read" /\ StreamJob("B").dir = "read"
        /\ StreamJob("C").dir = "write"
    BY <1>1 DEF ReadJobs, WriteJobs, Jobs
  <1>3. (BValid <=> ReadValid(st["B"], StreamJob("B"))) /\ BVec = ReadVec(st["B"])
    BY <1>1 DEF BValid, BVec
  <1>4. A!OnlyReads
    <2>1. \A j \in ReadJobs : j.dir = "read" /\ FlagsFit(j)
      BY DEF ReadJobs, Jobs
    <2>2. \A j : FlagsFit(j) <=> A!FlagsFit(j)
      BY SameA DEF FlagsFit, A!FlagsFit
    <2> QED BY <2>1, <2>2 DEF A!OnlyReads
  <1>5. B!OnlyReads
    <2>1. \A j \in ReadJobs : j.dir = "read" /\ FlagsFit(j)
      BY DEF ReadJobs, Jobs
    <2>2. \A j : FlagsFit(j) <=> B!FlagsFit(j)
      BY SameB DEF FlagsFit, B!FlagsFit
    <2> QED BY <2>1, <2>2 DEF B!OnlyReads
  <1>6. C!OnlyWrites
    <2>1. \A j \in WriteJobs : j.dir = "write" /\ C!Reuse(j.agu) = 1
      BY SameC DEF WriteJobs, Jobs
    <2> QED BY <2>1 DEF C!OnlyWrites
  <1>7. /\ StreamJob("A").mask = StreamJob("C").mask
        /\ StreamJob("B").mask = StreamJob("C").mask
    BY DEF StreamJob
  <1>8. \A i : /\ LaneEnabled(StreamJob("A"), i) <=> LaneEnabled(StreamJob("C"), i)
               /\ LaneEnabled(StreamJob("B"), i) <=> LaneEnabled(StreamJob("C"), i)
    BY <1>7 DEF LaneEnabled
  <1>9. A!Enabled = On
    BY <1>8, SameA DEF A!Enabled, On
  <1>10. B!Enabled = On
    BY <1>8, SameB DEF B!Enabled, On
  <1>11. C!Enabled = On
    BY SameC DEF C!Enabled, On
  <1> QED BY <1>1, <1>2, <1>3, <1>4, <1>5, <1>6, <1>9, <1>10, <1>11

------------------------------------------------------------------------------
(* A streamer whose job is over is quiet. *)
LEMMA RestA ==
  ASSUME A!ReadInv, moved = Length("A")
  PROVE  Quiet("A")
  <1> DEFINE s == st["A"]
             n == moved + Len(s.isLastQ)
  <1>1. moved = A!Iterations(StreamJob("A").agu)
    BY SameA DEF Length, StreamJob
  <1>2. s.isLastQ = <<>> /\ ~s.agu.busy /\ \A i \in A!Lanes : A!UnusedLane(i)
    BY <1>1, A!Rest, GivenA
  <1>3. s.agu = AguReset
    <2>1. A!AtIteration(StreamJob("A").agu, s.agu, 1 > 0, A!Taken)
      BY DEF A!ReadInv, A!AguInv
    <2>2. /\ s.agu = [busy |-> s.agu.busy, counters |-> s.agu.counters]
          /\ s.agu.busy \in BOOLEAN /\ s.agu.counters = A!AguReset.counters
      BY <1>2, <2>1 DEF A!AtIteration
    <2>3. AguReset = [busy |-> FALSE, counters |-> AguReset.counters]
      BY DEF AguReset
    <2> QED BY <1>2, <2>2, <2>3, SameA
  <1>4. \A i \in Lanes : A!UnusedLane(i) /\ s.writeReqQ[i] = <<>> /\ s.writeDataQ[i] = <<>>
    BY <1>2, SameA DEF A!ReadInv, A!QuietInv
  <1>5. s.bypass = <<>>
    BY DEF A!ReadInv, A!QuietInv
  <1> QED BY <1>2, <1>3, <1>4, <1>5 DEF Quiet, Idle, A!UnusedLane

LEMMA RestB ==
  ASSUME B!ReadInv, moved = Length("B")
  PROVE  Quiet("B")
  <1> DEFINE s == st["B"]
             n == moved + Len(s.isLastQ)
  <1>1. moved = B!Iterations(StreamJob("B").agu)
    BY SameB DEF Length, StreamJob
  <1>2. s.isLastQ = <<>> /\ ~s.agu.busy /\ \A i \in B!Lanes : B!UnusedLane(i)
    BY <1>1, B!Rest, GivenB
  <1>3. s.agu = AguReset
    <2>1. B!AtIteration(StreamJob("B").agu, s.agu, 1 > 0, B!Taken)
      BY DEF B!ReadInv, B!AguInv
    <2>2. /\ s.agu = [busy |-> s.agu.busy, counters |-> s.agu.counters]
          /\ s.agu.busy \in BOOLEAN /\ s.agu.counters = B!AguReset.counters
      BY <1>2, <2>1 DEF B!AtIteration
    <2>3. AguReset = [busy |-> FALSE, counters |-> AguReset.counters]
      BY DEF AguReset
    <2> QED BY <1>2, <2>2, <2>3, SameB
  <1>4. \A i \in Lanes : B!UnusedLane(i) /\ s.writeReqQ[i] = <<>> /\ s.writeDataQ[i] = <<>>
    BY <1>2, SameB DEF B!ReadInv, B!QuietInv
  <1>5. s.bypass = <<>>
    BY DEF B!ReadInv, B!QuietInv
  <1> QED BY <1>2, <1>3, <1>4, <1>5 DEF Quiet, Idle, B!UnusedLane

LEMMA RestC ==
  ASSUME C!WriteInv, C!OnlyWrites, Done(st["C"])
  PROVE  /\ moved = Length("C") /\ Idle(st["C"])
         /\ C!IsSeq(st["C"].isLastQ) /\ C!Holds(st["C"].isLastQ, C!AlwaysLast, 0)
  <1> DEFINE s == st["C"]
  <1>1. /\ ~s.agu.busy /\ (\A i \in Lanes : C!IdleLane(i))
        /\ C!Written = Length("C")
    <2>1. 1 > 0
      OBVIOUS
    <2>2. C!Done(s)
      BY SameC
    <2>3. /\ ~s.agu.busy /\ (\A i \in C!Lanes : C!IdleLane(i))
          /\ C!Written = C!Iterations(StreamJob("C").agu)
      BY <2>1, <2>2, C!WriterAtRest, GivenC
    <2> QED BY <2>3, SameC DEF Length, StreamJob
  <1>2. moved = Length("C")
    <2>1. s.writeDataQ[0] = <<>> /\ Len(<<>>) = 0
      BY <1>1, SameC, C!SomeLane, GivenC DEF C!IdleLane
    <2>2. C!Written = moved - Len(s.writeDataQ[0]) /\ moved \in Nat
      BY DEF C!Written, C!WriteInv, C!JobInv
    <2> QED BY <1>1, <2>1, <2>2
  <1>3. s.agu = AguReset
    <2>1. C!AtIteration(StreamJob("C").agu, s.agu, 1 > 0, C!Generated)
      BY DEF C!WriteInv, C!GeneratorInv
    <2>2. /\ s.agu = [busy |-> s.agu.busy, counters |-> s.agu.counters]
          /\ s.agu.busy \in BOOLEAN /\ s.agu.counters = C!AguReset.counters
      BY <1>1, <2>1 DEF C!AtIteration
    <2>3. AguReset = [busy |-> FALSE, counters |-> AguReset.counters]
      BY DEF AguReset
    <2> QED BY <1>1, <2>2, <2>3, SameC
  <1>4. s.bypass = <<>> /\ \A i \in Lanes : C!UnusedLane(i)
    BY SameC DEF C!WriteInv, C!NoReads
  <1>5. C!IsSeq(s.isLastQ) /\ C!Holds(s.isLastQ, C!AlwaysLast, 0)
    BY DEF C!WriteInv, C!AllLastInv
  <1> QED BY <1>1, <1>2, <1>3, <1>4, <1>5 DEF Idle, C!UnusedLane, C!IdleLane

(* One that has just been started is in order. *)
LEMMA FreshA == A!FreshInv => A!ReadInv /\ A!InUse /\ A!Taken = 0
  <1> SUFFICES ASSUME A!FreshInv PROVE A!ReadInv /\ A!InUse /\ A!Taken = 0
    OBVIOUS
  <1>1. A!ReadInv /\ A!InUse
    BY A!Fresh, A!FreshUse, GivenA
  <1>2. moved = 0 /\ st["A"].isLastQ = <<>>
    BY DEF A!FreshInv
  <1>3. A!Taken = moved + Len(st["A"].isLastQ) /\ Len(<<>>) = 0
    BY DEF A!Taken
  <1> QED BY <1>1, <1>2, <1>3

LEMMA FreshB == B!FreshInv => B!ReadInv /\ B!InUse /\ B!Taken = 0
  <1> SUFFICES ASSUME B!FreshInv PROVE B!ReadInv /\ B!InUse /\ B!Taken = 0
    OBVIOUS
  <1>1. B!ReadInv /\ B!InUse
    BY B!Fresh, B!FreshUse, GivenB
  <1>2. moved = 0 /\ st["B"].isLastQ = <<>>
    BY DEF B!FreshInv
  <1>3. B!Taken = moved + Len(st["B"].isLastQ) /\ Len(<<>>) = 0
    BY DEF B!Taken
  <1> QED BY <1>1, <1>2, <1>3

LEMMA FreshC == C!EmptyInv => C!WriteInv /\ C!AheadInv
  <1> SUFFICES ASSUME C!EmptyInv PROVE C!WriteInv /\ C!AheadInv
    OBVIOUS
  <1>1. C!WriteInv
    BY C!EmptyIsGood, GivenC
  <1>2. C!Generated = moved + Len(st["C"].writeReqQ[0])
    BY DEF C!Generated
  <1>3. moved = 0 /\ st["C"].writeReqQ[0] = <<>> /\ Len(<<>>) = 0
    BY C!SomeLane, GivenC DEF C!EmptyInv, C!IdleLane
  <1>4. C!Generated = 0
    BY <1>2, <1>3
  <1> QED BY <1>1, <1>4 DEF C!AheadInv

(* A cycle in which nothing is started *)
LEMMA RunStep ==
  ASSUME NEW granted, NEW issue, Clock(granted, issue), ~CsrStart(Access(issue), AccDone)
  PROVE  /\ granted \in Grants
         /\ \A p \in Streams :
              /\ st'[p] = StreamerNext(st[p], StreamJob(p), StreamIn(p, FALSE, granted))
              /\ rsp'[p] = [i \in Lanes |->
                   [valid |-> ReqFire(st[p], StreamIn(p, FALSE, granted), i),
                    data |-> IF ReadFire(st[p], StreamIn(p, FALSE, granted), i)
                             THEN mem[ReqAddr(st[p], i)] ELSE NoData]]
         /\ csr'.vals = csr.vals /\ mem0' = mem0 /\ started' \in BOOLEAN /\ (started' <=> started)
         /\ moved' = IF AValid /\ BValid /\ CanProcess THEN moved + 1 ELSE moved
  <1>0. PICK start : start = CsrStart(Access(issue), AccDone)
    OBVIOUS
  <1>1. start = FALSE
    BY Zenon, <1>0 DEF CsrStart, SyncAccess
  <1>2. /\ granted \in Grants
        /\ \A p \in Streams :
              /\ st'[p] = StreamerNext(st[p], StreamJob(p), StreamIn(p, start, granted))
              /\ rsp'[p] = [i \in Lanes |->
                   [valid |-> ReqFire(st[p], StreamIn(p, start, granted), i),
                    data |-> IF ReadFire(st[p], StreamIn(p, start, granted), i)
                             THEN mem[ReqAddr(st[p], i)] ELSE NoData]]
        /\ csr'.vals = IF start THEN csr.shadow ELSE csr.vals
        /\ started' = (started \/ start)
        /\ mem0' = IF start THEN mem ELSE mem0
        /\ moved' = IF start THEN 0
                    ELSE IF AValid /\ BValid /\ CanProcess THEN moved + 1 ELSE moved
    BY <1>0, ClockStep
  <1> QED BY <1>1, <1>2

------------------------------------------------------------------------------
(* A cycle of the running job.  What A and B fetch is still what memory    *)
(* held at the start: no vector before theirs writes it, and C has written *)
(* none after the one the ALUs are at.                                     *)
LEMMA OldWordsA ==
  ASSUME WorkInv, Regular, started, NEW in, NEW i \in Lanes, ReadFire(st["A"], in, i)
  PROVE  mem[ReqAddr(st["A"], i)] = mem0[ReqAddr(st["A"], i)]
  <1> DEFINE N == Length("C")
             a == ReqAddr(st["A"], i)
  <1>1. /\ A!ReadInv /\ A!InUse /\ C!WriteInv /\ C!OnlyWrites /\ A!OnlyReads
        /\ A!Enabled = On /\ C!Enabled = On /\ Length("A") = N
    BY RunningJob DEF WorkInv
  <1>2. i \in On /\ \E y \in Nat : /\ a = A!IterAddress(StreamJob("A").agu, A!R * y, i)
                                   /\ moved <= A!R * y /\ A!R * y < A!Iterations(StreamJob("A").agu)
    <2>1. i \in A!Lanes /\ A!ReadFire(st["A"], in, i) /\ A!ReqAddr(st["A"], i) = a
      BY SameA
    <2> QED BY <1>1, <2>1, A!FetchAhead, GivenA
  <1>3. PICK y \in Nat : /\ a = At("A", A!R * y, i)
                         /\ moved <= A!R * y /\ A!R * y < N
    BY <1>1, <1>2, SameA DEF At, StreamJob, Length
  <1>4. A!R \in Nat \ {0} /\ moved \in Nat /\ A!WellFormed(csr.vals["A"])
    BY <1>1, A!ReadNumbers, GivenA DEF StreamJob
  <1>5. N \in Nat /\ C!Written \in Nat /\ C!Written <= moved
    <2>1. /\ C!Iterations(StreamJob("C").agu) \in Nat \ {0} /\ C!Written \in Nat
          /\ Len(st["C"].writeDataQ[0]) \in Nat
          /\ C!Written + Len(st["C"].writeDataQ[0]) = moved
      BY <1>1, C!WriteNumbers, GivenC
    <2>2. N \in Nat
      BY <2>1, SameC DEF Length, StreamJob
    <2> QED BY <1>4, <2>1, <2>2
  <1> DEFINE n == A!R * y
  <1>6. n \in 0 .. N - 1 /\ C!Written <= n
    BY <1>3, <1>4, <1>5
  <1>7. a \in Addrs
    <2>1. n \in Nat /\ i \in A!Lanes
      BY <1>6, SameA
    <2>2. A!IterAddress(csr.vals["A"], n, i) \in 0 .. A!AddrSpace - 1
      BY <1>4, <2>1, A!AddressInRange, GivenA
    <2> QED BY <1>3, <2>2, SameA DEF At, Addrs
  <1>8. C!MemoryAfter(C!Written, a)
    BY <1>1, <1>7, SameC DEF C!WriteInv, C!MemoryInv, C!Addrs, Addrs
  <1>9. ASSUME NEW m \in 0 .. C!Written - 1, NEW k \in On PROVE At("C", m, k) # a
    <2>1. m \in 0 .. n - 1
      BY <1>5, <1>6
    <2> QED BY <1>2, <1>3, <1>6, <2>1 DEF Regular
  <1>10. \A m, k : C!IterAddress(StreamJob("C").agu, m, k) = At("C", m, k)
    BY SameC DEF StreamJob, At
  <1> QED BY <1>1, <1>8, <1>9, <1>10 DEF C!MemoryAfter

LEMMA OldWordsB ==
  ASSUME WorkInv, Regular, started, NEW in, NEW i \in Lanes, ReadFire(st["B"], in, i)
  PROVE  mem[ReqAddr(st["B"], i)] = mem0[ReqAddr(st["B"], i)]
  <1> DEFINE N == Length("C")
             a == ReqAddr(st["B"], i)
  <1>1. /\ B!ReadInv /\ B!InUse /\ C!WriteInv /\ C!OnlyWrites /\ B!OnlyReads
        /\ B!Enabled = On /\ C!Enabled = On /\ Length("B") = N
    BY RunningJob DEF WorkInv
  <1>2. i \in On /\ \E y \in Nat : /\ a = B!IterAddress(StreamJob("B").agu, B!R * y, i)
                                   /\ moved <= B!R * y /\ B!R * y < B!Iterations(StreamJob("B").agu)
    <2>1. i \in B!Lanes /\ B!ReadFire(st["B"], in, i) /\ B!ReqAddr(st["B"], i) = a
      BY SameB
    <2> QED BY <1>1, <2>1, B!FetchAhead, GivenB
  <1>3. PICK y \in Nat : /\ a = At("B", B!R * y, i)
                         /\ moved <= B!R * y /\ B!R * y < N
    BY <1>1, <1>2, SameB DEF At, StreamJob, Length
  <1>4. B!R \in Nat \ {0} /\ moved \in Nat /\ B!WellFormed(csr.vals["B"])
    BY <1>1, B!ReadNumbers, GivenB DEF StreamJob
  <1>5. N \in Nat /\ C!Written \in Nat /\ C!Written <= moved
    <2>1. /\ C!Iterations(StreamJob("C").agu) \in Nat \ {0} /\ C!Written \in Nat
          /\ Len(st["C"].writeDataQ[0]) \in Nat
          /\ C!Written + Len(st["C"].writeDataQ[0]) = moved
      BY <1>1, C!WriteNumbers, GivenC
    <2>2. N \in Nat
      BY <2>1, SameC DEF Length, StreamJob
    <2> QED BY <1>4, <2>1, <2>2
  <1> DEFINE n == B!R * y
  <1>6. n \in 0 .. N - 1 /\ C!Written <= n
    BY <1>3, <1>4, <1>5
  <1>7. a \in Addrs
    <2>1. n \in Nat /\ i \in B!Lanes
      BY <1>6, SameB
    <2>2. B!IterAddress(csr.vals["B"], n, i) \in 0 .. B!AddrSpace - 1
      BY <1>4, <2>1, B!AddressInRange, GivenB
    <2> QED BY <1>3, <2>2, SameB DEF At, Addrs
  <1>8. C!MemoryAfter(C!Written, a)
    BY <1>1, <1>7, SameC DEF C!WriteInv, C!MemoryInv, C!Addrs, Addrs
  <1>9. ASSUME NEW m \in 0 .. C!Written - 1, NEW k \in On PROVE At("C", m, k) # a
    <2>1. m \in 0 .. n - 1
      BY <1>5, <1>6
    <2> QED BY <1>2, <1>3, <1>6, <2>1 DEF Regular
  <1>10. \A m, k : C!IterAddress(StreamJob("C").agu, m, k) = At("C", m, k)
    BY SameC DEF StreamJob, At
  <1> QED BY <1>1, <1>8, <1>9, <1>10 DEF C!MemoryAfter

(* The vectors the ALUs are offered are those of the iteration they are at. *)
LEMMA VectorA ==
  ASSUME WorkInv, Regular, started, ReadValid(st["A"], StreamJob("A"))
  PROVE  /\ moved < Length("C") /\ A!Taken # 0
         /\ \A i \in On : ReadVec(st["A"])[i] = mem0[At("A", moved, i)]
  <1>1. /\ A!ReadInv /\ A!OnlyReads /\ A!Enabled = On /\ Length("A") = Length("C")
        /\ StreamJob("A").dir = "read"
    BY RunningJob DEF WorkInv
  <1>2. A!ReadValid(st["A"], StreamJob("A")) /\ 1 > 0
    BY SameA
  <1>3. A!ReadsInOrder
    BY <1>1, A!InOrder, GivenA
  <1>4. /\ moved < A!Iterations(StreamJob("A").agu)
        /\ \A i \in A!Enabled :
             A!ReadVec(st["A"])[i] = mem0[A!IterAddress(StreamJob("A").agu, moved, i)]
    BY <1>1, <1>2, <1>3 DEF A!ReadsInOrder
  <1>5. A!Taken # 0
    <2>1. st["A"].bypass = <<>>
      BY <1>1 DEF A!ReadInv, A!QuietInv
    <2>2. A!AllRspValid(st["A"], StreamJob("A"))
      BY <1>2, <2>1 DEF A!ReadValid
    <2>3. moved < A!Taken
      BY <1>1, <2>2, A!OfferedIsTaken, GivenA
    <2>4. moved \in Nat
      BY <1>1 DEF A!ReadInv, A!JobInv
    <2> QED BY <2>3, <2>4
  <1> QED BY <1>1, <1>4, <1>5, SameA DEF At, StreamJob, Length

LEMMA VectorB ==
  ASSUME WorkInv, Regular, started, ReadValid(st["B"], StreamJob("B"))
  PROVE  /\ moved < Length("C") /\ B!Taken # 0
         /\ \A i \in On : ReadVec(st["B"])[i] = mem0[At("B", moved, i)]
  <1>1. /\ B!ReadInv /\ B!OnlyReads /\ B!Enabled = On /\ Length("B") = Length("C")
        /\ StreamJob("B").dir = "read"
    BY RunningJob DEF WorkInv
  <1>2. B!ReadValid(st["B"], StreamJob("B")) /\ 1 > 0
    BY SameB
  <1>3. B!ReadsInOrder
    BY <1>1, B!InOrder, GivenB
  <1>4. /\ moved < B!Iterations(StreamJob("B").agu)
        /\ \A i \in B!Enabled :
             B!ReadVec(st["B"])[i] = mem0[B!IterAddress(StreamJob("B").agu, moved, i)]
    BY <1>1, <1>2, <1>3 DEF B!ReadsInOrder
  <1>5. B!Taken # 0
    <2>1. st["B"].bypass = <<>>
      BY <1>1 DEF B!ReadInv, B!QuietInv
    <2>2. B!AllRspValid(st["B"], StreamJob("B"))
      BY <1>2, <2>1 DEF B!ReadValid
    <2>3. moved < B!Taken
      BY <1>1, <2>2, B!OfferedIsTaken, GivenB
    <2>4. moved \in Nat
      BY <1>1 DEF B!ReadInv, B!JobInv
    <2> QED BY <2>3, <2>4
  <1> QED BY <1>1, <1>4, <1>5, SameB DEF At, StreamJob, Length

(* A and B go on as reading streamers do. *)
LEMMA NoStoreA ==
  ASSUME A!ReadInv, NEW in, NEW i \in Lanes
  PROVE  ~WriteFire(st["A"], in, i)
  <1> DEFINE s == st["A"]
  <1>1. s.writeDataQ[i] = <<>>
    BY SameA DEF A!ReadInv, A!QuietInv
  <1> SUFFICES ASSUME A!WriteFire(s, in, i) PROVE FALSE
    BY SameA
  <1>2. A!Offers(s, i) # {} /\ A!Pick(s, i) = 1
    BY DEF A!WriteFire, A!ReqFire
  <1>3. 1 \in A!Offers(s, i)
    BY <1>2, A!PickOffered, GivenA
  <1> QED BY <1>1, <1>3 DEF A!Offers

LEMMA NoStoreB ==
  ASSUME B!ReadInv, NEW in, NEW i \in Lanes
  PROVE  ~WriteFire(st["B"], in, i)
  <1> DEFINE s == st["B"]
  <1>1. s.writeDataQ[i] = <<>>
    BY SameB DEF B!ReadInv, B!QuietInv
  <1> SUFFICES ASSUME B!WriteFire(s, in, i) PROVE FALSE
    BY SameB
  <1>2. B!Offers(s, i) # {} /\ B!Pick(s, i) = 1
    BY DEF B!WriteFire, B!ReqFire
  <1>3. 1 \in B!Offers(s, i)
    BY <1>2, B!PickOffered, GivenB
  <1> QED BY <1>1, <1>3 DEF B!Offers

LEMMA CycleA ==
  ASSUME WorkInv, Regular, started,
         NEW granted, NEW issue, Clock(granted, issue), ~CsrStart(Access(issue), AccDone)
  PROVE  A!ReadInv' /\ A!InUse'
  <1> DEFINE in == StreamIn("A", FALSE, granted)
             g  == {i \in Lanes : <<"A", i>> \in granted}
             av == AReady
             s  == st["A"]
             j  == StreamJob("A")
  <1>1. /\ "A" \in Streams /\ FALSE = CsrStart(Access(issue), AccDone)
        /\ A!ReadInv /\ A!InUse /\ A!OnlyReads /\ j.dir = "read" /\ ~ReadWriteMode
    BY RunningJob DEF WorkInv, Streams, CsrStart, SyncAccess
  <1>2. /\ s' = StreamerNext(s, j, in)
        /\ rsp'["A"] = [i \in Lanes |->
                 [valid |-> ReqFire(s, in, i),
                  data |-> IF ReadFire(s, in, i) THEN mem[ReqAddr(s, i)] ELSE NoData]]
        /\ csr'.vals = csr.vals /\ mem0' = mem0
        /\ moved' = IF AValid /\ BValid /\ CanProcess THEN moved + 1 ELSE moved
    BY <1>1, RunStep DEF in
  <1>3. j' = j
    BY <1>2 DEF StreamJob, ReadWriteMode
  <1>4. av \in BOOLEAN
    BY DEF AReady
  <1>5. in = A!Inputs(FALSE, g, av)
    <2>1. A!Result(A!ReadVec(s)) = COut
      <3>1. moved \in Nat
        BY <1>1 DEF A!ReadInv, A!JobInv
      <3>2. \A i \in Lanes : [m \in Nat |-> COut][moved][i] = COut[i]
        BY <3>1
      <3>3. A!Result(A!ReadVec(s)) = [i \in A!Lanes |-> [m \in Nat |-> COut][moved][i]]
        BY <1>1 DEF A!Result
      <3>4. COut = [i \in Lanes |-> COut[i]]
        BY DEF COut
      <3> HIDE DEF s
      <3> QED BY <3>2, <3>3, <3>4, SameA
    <2>2. in = [start |-> FALSE, readReady |-> av, writeValid |-> FALSE, writeVec |-> COut,
                granted |-> g, rsp |-> rsp["A"]]
      <3>1. (BReady /\ ~ReadWriteMode) = BReady
        BY Zenon, <1>1 DEF BReady
      <3> QED BY <1>1, <3>1 DEF StreamIn, Starts
    <2>3. A!Inputs(FALSE, g, av) =
            [start |-> FALSE, readReady |-> av, writeValid |-> FALSE, writeVec |-> COut,
             granted |-> g, rsp |-> rsp["A"]]
      <3> HIDE DEF s, g, av
      <3> QED BY Zenon, <1>1, <1>4, <2>1 DEF A!Inputs, s, j
    <2> QED BY <2>2, <2>3
  <1> HIDE DEF in, g, av
  <1>6. \A i \in Lanes : ~WriteFire(s, in, i)
    BY <1>1, NoStoreA
  <1>7. ASSUME NEW i \in Lanes, ReadFire(s, in, i) PROVE mem[ReqAddr(s, i)] = mem0[ReqAddr(s, i)]
    BY <1>7, OldWordsA
  <1>8. A!MemoryEdge(in)
    <2>1. mem0' = [a \in A!Addrs |->
            IF \E i \in A!Lanes : A!WriteFire(s, in, i) /\ A!ReqAddr(s, i) = a
            THEN Head(s.writeDataQ[CHOOSE i \in A!Lanes :
                     A!WriteFire(s, in, i) /\ A!ReqAddr(s, i) = a]).data
            ELSE mem0[a]]
      <3>1. mem0 = [a \in A!Addrs |-> mem0[a]]
        BY <1>1 DEF A!ReadInv, A!QuietInv
      <3>2. \A a : ~\E i \in A!Lanes : A!WriteFire(s, in, i) /\ A!ReqAddr(s, i) = a
        BY <1>6, SameA
      <3> HIDE DEF s
      <3> QED BY <1>2, <3>1, <3>2
    <2>2. rsp'["A"] = [i \in A!Lanes |->
            [valid |-> A!ReqFire(s, in, i),
             data |-> IF A!ReadFire(s, in, i) THEN mem0[A!ReqAddr(s, i)] ELSE NoData]]
      <3>1. ASSUME NEW i \in Lanes
            PROVE  [valid |-> A!ReqFire(s, in, i),
                    data |-> IF A!ReadFire(s, in, i) THEN mem0[A!ReqAddr(s, i)] ELSE NoData]
                   = rsp'["A"][i]
        <4>1. /\ A!ReqFire(s, in, i) = ReqFire(s, in, i)
              /\ A!ReadFire(s, in, i) <=> ReadFire(s, in, i)
              /\ A!ReqAddr(s, i) = ReqAddr(s, i)
          BY SameA, Zenon DEF A!ReqFire, ReqFire
        <4>2. (IF A!ReadFire(s, in, i) THEN mem0[A!ReqAddr(s, i)] ELSE NoData)
              = IF ReadFire(s, in, i) THEN mem[ReqAddr(s, i)] ELSE NoData
          BY <1>7, <4>1, Zenon
        <4> QED BY <1>2, <4>1, <4>2, Zenon
      <3>2. rsp'["A"] = [i \in A!Lanes |-> rsp'["A"][i]]
        BY <1>2, SameA
      <3> QED BY <3>1, <3>2, SameA, Zenon
    <2> QED BY <2>1, <2>2 DEF A!MemoryEdge
  <1>9. moved' = IF A!Moves(in) THEN moved + 1 ELSE moved
    <2>1. in.readReady = av
      <3>1. (BReady /\ ~ReadWriteMode) = BReady
        BY Zenon, <1>1 DEF BReady
      <3> QED BY <3>1 DEF in, av, StreamIn
    <2>2. A!Moves(in) <=> ReadValid(s, j) /\ av
      BY <1>1, <2>1, SameA DEF A!Moves
    <2>3. ReadValid(s, j) /\ av <=> AValid /\ BValid /\ CanProcess
      BY RunningJob DEF av, AReady, AValid
    <2> QED BY <1>2, <2>2, <2>3
  <1>10. A!ReadCycle(in, g, av)
    <2>1. s' = A!StreamerNext(s, j, in)
      BY <1>2, EdgeA
    <2>2. in = A!Inputs(FALSE, g, av)
      BY <1>5 DEF in, g, av
    <2>3. UNCHANGED <<ReadJobs, StreamJob("A"), 1, mem0>>
      BY <1>2, <1>3
    <2> QED BY <1>1, <1>4, <1>8, <1>9, <2>1, <2>2, <2>3 DEF A!ReadCycle
  <1>11. A!ReadInv'
    BY <1>10, A!CycleKeeps, GivenA
  <1>12. A!InUse'
    BY <1>1, <1>10, A!UseKept, GivenA
  <1> QED BY <1>11, <1>12

LEMMA CycleB ==
  ASSUME WorkInv, Regular, started,
         NEW granted, NEW issue, Clock(granted, issue), ~CsrStart(Access(issue), AccDone)
  PROVE  B!ReadInv' /\ B!InUse'
  <1> DEFINE in == StreamIn("B", FALSE, granted)
             g  == {i \in Lanes : <<"B", i>> \in granted}
             av == BReady
             s  == st["B"]
             j  == StreamJob("B")
  <1>1. /\ "B" \in Streams /\ FALSE = CsrStart(Access(issue), AccDone)
        /\ B!ReadInv /\ B!InUse /\ B!OnlyReads /\ j.dir = "read" /\ ~ReadWriteMode
    BY RunningJob DEF WorkInv, Streams, CsrStart, SyncAccess
  <1>2. /\ s' = StreamerNext(s, j, in)
        /\ rsp'["B"] = [i \in Lanes |->
                 [valid |-> ReqFire(s, in, i),
                  data |-> IF ReadFire(s, in, i) THEN mem[ReqAddr(s, i)] ELSE NoData]]
        /\ csr'.vals = csr.vals /\ mem0' = mem0
        /\ moved' = IF AValid /\ BValid /\ CanProcess THEN moved + 1 ELSE moved
    BY <1>1, RunStep DEF in
  <1>3. j' = j
    BY <1>2 DEF StreamJob, ReadWriteMode
  <1>4. av \in BOOLEAN
    BY DEF BReady
  <1>5. in = B!Inputs(FALSE, g, av)
    <2>1. B!Result(B!ReadVec(s)) = COut
      <3>1. moved \in Nat
        BY <1>1 DEF B!ReadInv, B!JobInv
      <3>2. \A i \in Lanes : [m \in Nat |-> COut][moved][i] = COut[i]
        BY <3>1
      <3>3. B!Result(B!ReadVec(s)) = [i \in B!Lanes |-> [m \in Nat |-> COut][moved][i]]
        BY <1>1 DEF B!Result
      <3>4. COut = [i \in Lanes |-> COut[i]]
        BY DEF COut
      <3> HIDE DEF s
      <3> QED BY <3>2, <3>3, <3>4, SameB
    <2>2. in = [start |-> FALSE, readReady |-> av, writeValid |-> FALSE, writeVec |-> COut,
                granted |-> g, rsp |-> rsp["B"]]
      <3>1. (BReady /\ ~ReadWriteMode) = BReady
        BY Zenon, <1>1 DEF BReady
      <3> QED BY <1>1, <3>1 DEF StreamIn, Starts
    <2>3. B!Inputs(FALSE, g, av) =
            [start |-> FALSE, readReady |-> av, writeValid |-> FALSE, writeVec |-> COut,
             granted |-> g, rsp |-> rsp["B"]]
      <3> HIDE DEF s, g, av
      <3> QED BY Zenon, <1>1, <1>4, <2>1 DEF B!Inputs, s, j
    <2> QED BY <2>2, <2>3
  <1> HIDE DEF in, g, av
  <1>6. \A i \in Lanes : ~WriteFire(s, in, i)
    BY <1>1, NoStoreB
  <1>7. ASSUME NEW i \in Lanes, ReadFire(s, in, i) PROVE mem[ReqAddr(s, i)] = mem0[ReqAddr(s, i)]
    BY <1>7, OldWordsB
  <1>8. B!MemoryEdge(in)
    <2>1. mem0' = [a \in B!Addrs |->
            IF \E i \in B!Lanes : B!WriteFire(s, in, i) /\ B!ReqAddr(s, i) = a
            THEN Head(s.writeDataQ[CHOOSE i \in B!Lanes :
                     B!WriteFire(s, in, i) /\ B!ReqAddr(s, i) = a]).data
            ELSE mem0[a]]
      <3>1. mem0 = [a \in B!Addrs |-> mem0[a]]
        BY <1>1 DEF B!ReadInv, B!QuietInv
      <3>2. \A a : ~\E i \in B!Lanes : B!WriteFire(s, in, i) /\ B!ReqAddr(s, i) = a
        BY <1>6, SameB
      <3> HIDE DEF s
      <3> QED BY <1>2, <3>1, <3>2
    <2>2. rsp'["B"] = [i \in B!Lanes |->
            [valid |-> B!ReqFire(s, in, i),
             data |-> IF B!ReadFire(s, in, i) THEN mem0[B!ReqAddr(s, i)] ELSE NoData]]
      <3>1. ASSUME NEW i \in Lanes
            PROVE  [valid |-> B!ReqFire(s, in, i),
                    data |-> IF B!ReadFire(s, in, i) THEN mem0[B!ReqAddr(s, i)] ELSE NoData]
                   = rsp'["B"][i]
        <4>1. /\ B!ReqFire(s, in, i) = ReqFire(s, in, i)
              /\ B!ReadFire(s, in, i) <=> ReadFire(s, in, i)
              /\ B!ReqAddr(s, i) = ReqAddr(s, i)
          BY SameB, Zenon DEF B!ReqFire, ReqFire
        <4>2. (IF B!ReadFire(s, in, i) THEN mem0[B!ReqAddr(s, i)] ELSE NoData)
              = IF ReadFire(s, in, i) THEN mem[ReqAddr(s, i)] ELSE NoData
          BY <1>7, <4>1, Zenon
        <4> QED BY <1>2, <4>1, <4>2, Zenon
      <3>2. rsp'["B"] = [i \in B!Lanes |-> rsp'["B"][i]]
        BY <1>2, SameB
      <3> QED BY <3>1, <3>2, SameB, Zenon
    <2> QED BY <2>1, <2>2 DEF B!MemoryEdge
  <1>9. moved' = IF B!Moves(in) THEN moved + 1 ELSE moved
    <2>1. in.readReady = av
      <3>1. (BReady /\ ~ReadWriteMode) = BReady
        BY Zenon, <1>1 DEF BReady
      <3> QED BY <3>1 DEF in, av, StreamIn
    <2>2. B!Moves(in) <=> ReadValid(s, j) /\ av
      BY <1>1, <2>1, SameB DEF B!Moves
    <2>3. ReadValid(s, j) /\ av <=> AValid /\ BValid /\ CanProcess
      BY RunningJob DEF av, BReady, AValid
    <2> QED BY <1>2, <2>2, <2>3
  <1>10. B!ReadCycle(in, g, av)
    <2>1. s' = B!StreamerNext(s, j, in)
      BY <1>2, EdgeB
    <2>2. in = B!Inputs(FALSE, g, av)
      BY <1>5 DEF in, g, av
    <2>3. UNCHANGED <<ReadJobs, StreamJob("B"), 1, mem0>>
      BY <1>2, <1>3
    <2> QED BY <1>1, <1>4, <1>8, <1>9, <2>1, <2>2, <2>3 DEF B!ReadCycle
  <1>11. B!ReadInv'
    BY <1>10, B!CycleKeeps, GivenB
  <1>12. B!InUse'
    BY <1>1, <1>10, B!UseKept, GivenB
  <1> QED BY <1>11, <1>12

(***************************************************************************)
(* The memory: only C writes, on distinct banks in a cycle.                *)
(***************************************************************************)
Stores(in, i, x) == WriteFire(st["C"], in, i) /\ ReqAddr(st["C"], i) = x

LEMMA StoredByC ==
  ASSUME NEW granted, NEW issue, Clock(granted, issue), NEW start,
         start = CsrStart(Access(issue), AccDone),
         \A i \in Lanes : /\ ~WriteFire(st["A"], StreamIn("A", start, granted), i)
                          /\ ~WriteFire(st["B"], StreamIn("B", start, granted), i),
         NEW in, in = StreamIn("C", start, granted)
  PROVE  mem' = [x \in Addrs |->
           IF \E i \in Lanes : Stores(in, i, x)
           THEN Head(st["C"].writeDataQ[CHOOSE i \in Lanes : Stores(in, i, x)]).data
           ELSE mem[x]]
  <1> DEFINE ins == [p \in Streams |-> StreamIn(p, start, granted)]
             Writes(y, x) == /\ WriteFire(st[y[1]], ins[y[1]], y[2])
                             /\ ReqAddr(st[y[1]], y[2]) = x
             Written(y) == Head(st[y[1]].writeDataQ[y[2]]).data
  <1>1. /\ granted \in Grants
        /\ mem' = [x \in Addrs |-> IF \E y \in granted : Writes(y, x)
                                   THEN Written(CHOOSE y \in granted : Writes(y, x))
                                   ELSE mem[x]]
    BY DEF Clock
  <1>2. /\ \A y \in granted : y = <<y[1], y[2]>> /\ y[1] \in Streams /\ y[2] \in Lanes
        /\ \A y, z \in granted : y # z => Bank(y) # Bank(z)
    <2>1. \A y \in granted : y \in Streams \X Lanes
      BY <1>1 DEF Grants, Offering, Ports
    <2>2. \A y \in Streams \X Lanes : y = <<y[1], y[2]>> /\ y[1] \in Streams /\ y[2] \in Lanes
      OBVIOUS
    <2>3. \A y, z \in granted : y # z => Bank(y) # Bank(z)
      BY <1>1 DEF Grants
    <2> QED BY <2>1, <2>2, <2>3
  <1>3. /\ ins["A"] = StreamIn("A", start, granted) /\ ins["B"] = StreamIn("B", start, granted)
        /\ ins["C"] = in
    BY DEF Streams
  <1> HIDE DEF ins
  <1>4. ASSUME NEW x, NEW y \in granted, Writes(y, x)
        PROVE  y[1] = "C" /\ y[2] \in Lanes /\ y = <<"C", y[2]>> /\ Stores(in, y[2], x)
    <2>1. y[1] # "A" /\ y[1] # "B"
      BY <1>2, <1>3, <1>4
    <2>2. y[1] = "C" /\ y[2] \in Lanes /\ y = <<"C", y[2]>>
      BY <1>2, <2>1 DEF Streams
    <2> QED BY <1>3, <1>4, <2>2 DEF Stores
  <1>5. ASSUME NEW x, NEW i \in Lanes, Stores(in, i, x)
        PROVE  <<"C", i>> \in granted /\ Writes(<<"C", i>>, x)
    <2>1. i \in in.granted
      BY <1>5 DEF Stores, WriteFire, ReqFire
    <2>2. <<"C", i>> \in granted
      BY <2>1 DEF StreamIn
    <2> QED BY <1>3, <1>5, <2>2 DEF Stores
  <1>6. ASSUME NEW x, NEW y \in granted, NEW z \in granted, Writes(y, x), Writes(z, x)
        PROVE  y = z
    <2>1. Bank(y) = Bank(z)
      BY <1>6 DEF Bank
    <2> QED BY <1>2, <2>1
  <1>7. ASSUME NEW x \in Addrs
        PROVE  mem'[x] = IF \E i \in Lanes : Stores(in, i, x)
                         THEN Head(st["C"].writeDataQ[CHOOSE i \in Lanes : Stores(in, i, x)]).data
                         ELSE mem[x]
    <2>1. mem'[x] = IF \E y \in granted : Writes(y, x)
                    THEN Written(CHOOSE y \in granted : Writes(y, x))
                    ELSE mem[x]
      BY <1>1
    <2>2. CASE \E i \in Lanes : Stores(in, i, x)
      <3> DEFINE i == CHOOSE k \in Lanes : Stores(in, k, x)
                 y == CHOOSE z \in granted : Writes(z, x)
      <3>1. i \in Lanes /\ Stores(in, i, x)
        BY <2>2
      <3>2. <<"C", i>> \in granted /\ Writes(<<"C", i>>, x)
        BY <1>5, <3>1
      <3>3. y \in granted /\ Writes(y, x)
        <4> HIDE DEF i, Writes
        <4> QED BY <3>2
      <3> HIDE DEF i, y
      <3>4. y = <<"C", i>>
        <4> HIDE DEF Writes
        <4> QED BY <1>6, <3>2, <3>3
      <3>5. mem'[x] = Written(y)
        <4> HIDE DEF Writes, Written
        <4> QED BY <2>1, <3>2 DEF y
      <3> QED BY <2>2, <3>4, <3>5 DEF i
    <2>3. CASE ~\E i \in Lanes : Stores(in, i, x)
      <3>1. ~\E y \in granted : Writes(y, x)
        <4> HIDE DEF Writes
        <4> QED BY <1>4, <2>3
      <3> HIDE DEF Writes, Written
      <3> QED BY <2>1, <2>3, <3>1
    <2> QED BY <2>2, <2>3
  <1>8. mem' = [x \in Addrs |-> mem'[x]]
    <2> HIDE DEF Writes, Written
    <2> QED BY <1>1
  <1> HIDE DEF Writes, Written
  <1> QED BY <1>7, <1>8, Zenon

(* What the ALUs offer to C *)
LEMMA Results ==
  ASSUME WorkInv, Regular, started, AValid, BValid
  PROVE  /\ moved < Length("C") /\ C!AddressAhead
         /\ \A i \in On : COut[i] = Output(moved)[i]
  <1>1. /\ ReadValid(st["A"], StreamJob("A")) /\ ReadValid(st["B"], StreamJob("B"))
        /\ BVec = ReadVec(st["B"]) /\ C!OnlyWrites
    BY RunningJob DEF AValid
  <1>2. /\ moved < Length("C") /\ A!Taken # 0
        /\ \A i \in On : /\ ReadVec(st["A"])[i] = mem0[At("A", moved, i)]
                         /\ BVec[i] = mem0[At("B", moved, i)]
    BY <1>1, VectorA, VectorB
  <1>3. C!AddressAhead
    <2>1. C!WriteInv /\ C!AheadInv /\ C!Generated # 0
      BY <1>2 DEF WorkInv
    <2>2. C!Iterations(StreamJob("C").agu) = Length("C") /\ moved \in Nat
      BY <2>1, SameC DEF Length, StreamJob, C!WriteInv, C!JobInv
    <2>3. moved < C!Generated
      BY <1>2, <2>1, <2>2 DEF C!AheadInv
    <2> QED BY <1>1, <2>1, <2>3, C!Addressed, GivenC
  <1>4. ASSUME NEW i \in On PROVE COut[i] = Output(moved)[i]
    <2>1. i \in Lanes /\ LaneEnabled(StreamJob("C"), i)
      BY DEF On
    <2>2. COut[i] = Alu(csr.vals["select"] % 4, ReadVec(st["A"])[i], BVec[i])
      BY <2>1 DEF COut
    <2> QED BY <1>2, <2>1, <2>2 DEF Output
  <1> QED BY <1>2, <1>3, <1>4

(* C goes on as a writing streamer does. *)
LEMMA CycleC ==
  ASSUME WorkInv, Regular, started,
         NEW granted, NEW issue, Clock(granted, issue), ~CsrStart(Access(issue), AccDone),
         StoresTogether
  PROVE  C!WriteInv' /\ C!AheadInv' /\ C!Generated' > 0
  <1> DEFINE in  == StreamIn("C", FALSE, granted)
             g   == {i \in Lanes : <<"C", i>> \in granted}
             av  == AValid /\ BValid
             in2 == C!Inputs(FALSE, g, av)
             s   == st["C"]
             j   == StreamJob("C")
  <1>1. /\ "A" \in Streams /\ "B" \in Streams /\ "C" \in Streams
        /\ A!ReadInv /\ B!ReadInv /\ C!WriteInv /\ C!AheadInv /\ C!OnlyWrites
        /\ j.dir = "write" /\ ~ReadWriteMode /\ C!Enabled = On
    BY RunningJob DEF WorkInv, Streams
  <1>2. /\ s' = StreamerNext(s, j, in) /\ granted \in Grants
        /\ rsp'["C"] = [i \in Lanes |->
                 [valid |-> ReqFire(s, in, i),
                  data |-> IF ReadFire(s, in, i) THEN mem[ReqAddr(s, i)] ELSE NoData]]
        /\ csr'.vals = csr.vals /\ mem0' = mem0
        /\ moved' = IF AValid /\ BValid /\ CanProcess THEN moved + 1 ELSE moved
    <2>1. granted \in Grants
      BY RunStep
    <2>2. s' = StreamerNext(s, j, in)
      BY <1>1, RunStep
    <2>3. rsp'["C"] = [i \in Lanes |->
                 [valid |-> ReqFire(s, in, i),
                  data |-> IF ReadFire(s, in, i) THEN mem[ReqAddr(s, i)] ELSE NoData]]
      <3>1. \A p \in Streams :
              rsp'[p] = [i \in Lanes |->
                   [valid |-> ReqFire(st[p], StreamIn(p, FALSE, granted), i),
                    data |-> IF ReadFire(st[p], StreamIn(p, FALSE, granted), i)
                             THEN mem[ReqAddr(st[p], i)] ELSE NoData]]
        BY RunStep
      <3> QED BY Zenon, <1>1, <3>1
    <2>4. /\ csr'.vals = csr.vals /\ mem0' = mem0
          /\ moved' = IF AValid /\ BValid /\ CanProcess THEN moved + 1 ELSE moved
      BY RunStep
    <2> QED BY <2>1, <2>2, <2>3, <2>4
  <1>3. j' = j /\ [m \in Nat |-> Output(m)]' = [m \in Nat |-> Output(m)]
    BY <1>2 DEF StreamJob, ReadWriteMode, Output, At
  (* What C is offered is what a streamer alone would be. *)
  <1>4. /\ in.start = FALSE /\ in.readReady = FALSE /\ in.writeValid = av
        /\ in.granted = g /\ in.rsp = rsp["C"] /\ in.writeVec = COut
    <2>1. (BReady /\ ReadWriteMode) = FALSE
      BY Zenon, <1>1
    <2> QED BY <1>1, <2>1 DEF StreamIn, Starts
  <1>5. /\ in2.start = FALSE /\ in2.readReady = FALSE /\ in2.writeValid = av
        /\ in2.granted = g /\ in2.rsp = rsp["C"]
        /\ in2.writeVec = [i \in Lanes |-> [m \in Nat |-> Output(m)][moved][i]]
    <2>1. av => moved < Length("C") /\ C!AddressAhead
      BY Results
    <2>2. Length("C") = C!Iterations(j.agu)
      BY SameC DEF Length, StreamJob
    <2>3. (av /\ moved < C!Iterations(j.agu) /\ C!AddressAhead) = av
      <3> HIDE DEF j
      <3> QED BY <2>1, <2>2, Zenon
    <2>4. C!Result(C!ReadVec(s)) = [i \in Lanes |-> [m \in Nat |-> Output(m)][moved][i]]
      BY <1>1, SameC DEF C!Result
    <2>5. (av /\ FALSE) = FALSE
      BY Zenon
    <2>6. in2 = [start |-> FALSE, readReady |-> FALSE, writeValid |-> av,
                 writeVec |-> [i \in Lanes |-> [m \in Nat |-> Output(m)][moved][i]],
                 granted |-> g, rsp |-> rsp["C"]]
      <3> HIDE DEF s, g, av
      <3> QED BY Zenon, <1>1, <2>3, <2>4, <2>5 DEF C!Inputs, s, j
    <2> HIDE DEF in2, s, g, av
    <2> QED BY <2>6
  <1>6. ~BypassFire(s, in) /\ moved \in Nat
    <2>1. ~C!BypassAhead(s) /\ moved \in Nat
      BY <1>1, C!NoBypass, GivenC DEF C!WriteInv, C!JobInv
    <2> QED BY <2>1 DEF C!BypassAhead, BypassAhead, BypassFire, BypassValid
  <1>7. av => \A i \in Lanes : LaneEnabled(j, i) => in2.writeVec[i] = in.writeVec[i]
    <2> SUFFICES ASSUME av, NEW i \in Lanes, LaneEnabled(j, i)
                 PROVE  Output(moved)[i] = COut[i]
      <3> HIDE DEF in, in2, av
      <3> QED BY <1>4, <1>5, <1>6
    <2>1. i \in On
      BY DEF On
    <2> QED BY <2>1, Results
  <1> HIDE DEF in, in2, g
  <1>8. /\ StreamerNext(s, j, in2) = StreamerNext(s, j, in)
        /\ \A i : /\ ReqFire(s, in2, i) <=> ReqFire(s, in, i)
                  /\ ReadFire(s, in2, i) <=> ReadFire(s, in, i)
                  /\ WriteFire(s, in2, i) <=> WriteFire(s, in, i)
    <2> HIDE DEF s, j, av
    <2> QED BY <1>4, <1>5, <1>6, <1>7, SameVector
  <1>9. s' = C!StreamerNext(s, j, in2)
    BY <1>2, <1>8, EdgeC
  <1>10. g \in C!Grants /\ C!AllOrNone(g)
    <2>1. g \subseteq {i \in Lanes : Offers(s, i) # {}}
      BY <1>2 DEF g, Grants, Offering
    <2>2. \A i, k \in g : i # k => C!Bank(ReqAddr(s, i)) # C!Bank(ReqAddr(s, k))
      <3> SUFFICES ASSUME NEW i \in g, NEW k \in g, i # k
                   PROVE  C!Bank(ReqAddr(s, i)) # C!Bank(ReqAddr(s, k))
        OBVIOUS
      <3>1. <<"C", i>> \in granted /\ <<"C", k>> \in granted /\ <<"C", i>> # <<"C", k>>
        BY DEF g
      <3>2. Bank(<<"C", i>>) # Bank(<<"C", k>>)
        BY <1>2, <3>1 DEF Grants
      <3> QED BY <3>2 DEF Bank, C!Bank
    <2>3. {i \in Lanes : rsp'["C"][i].valid} = g
      <3>1. \A i \in Lanes : rsp'["C"][i].valid = ReqFire(s, in, i)
        BY <1>2
      <3>2. \A i \in Lanes : ReqFire(s, in, i) <=> i \in g
        BY <1>4, <2>1 DEF ReqFire
      <3> QED BY <2>1, <3>1, <3>2
    <2>4. g \in {{}, {i \in Lanes : Offers(s, i) # {}}}
      BY <2>3 DEF StoresTogether
    <2> QED BY <2>1, <2>2, <2>4, SameC DEF C!Grants, C!AllOrNone
  <1>11. C!MemoryEdge(in2)
    <2>1. \A i \in Lanes : /\ ~WriteFire(st["A"], StreamIn("A", FALSE, granted), i)
                           /\ ~WriteFire(st["B"], StreamIn("B", FALSE, granted), i)
      BY <1>1, NoStoreA, NoStoreB
    <2>2. FALSE = CsrStart(Access(issue), AccDone)
      BY Zenon DEF CsrStart, SyncAccess
    <2>3. mem' = [x \in Addrs |->
            IF \E i \in Lanes : Stores(in, i, x)
            THEN Head(s.writeDataQ[CHOOSE i \in Lanes : Stores(in, i, x)]).data
            ELSE mem[x]]
      BY <2>1, <2>2, StoredByC DEF in
    <2>4. \A i, x : Stores(in, i, x) <=> C!WriteFire(s, in2, i) /\ C!ReqAddr(s, i) = x
      BY <1>8, SameC DEF Stores
    <2>5. ASSUME NEW x
          PROVE  (CHOOSE i \in Lanes : Stores(in, i, x))
                 = CHOOSE i \in C!Lanes : C!WriteFire(s, in2, i) /\ C!ReqAddr(s, i) = x
      <3> HIDE DEF s
      <3> QED BY <2>4, SameC
    <2>6. mem' = [x \in C!Addrs |->
            IF \E i \in C!Lanes : C!WriteFire(s, in2, i) /\ C!ReqAddr(s, i) = x
            THEN Head(s.writeDataQ[CHOOSE i \in C!Lanes :
                     C!WriteFire(s, in2, i) /\ C!ReqAddr(s, i) = x]).data
            ELSE mem[x]]
      <3>1. C!Addrs = Addrs
        BY SameC DEF Addrs, C!Addrs
      <3> HIDE DEF s
      <3> QED BY <2>3, <2>4, <2>5, <3>1, SameC
    <2>7. rsp'["C"] = [i \in C!Lanes |->
            [valid |-> C!ReqFire(s, in2, i),
             data |-> IF C!ReadFire(s, in2, i) THEN mem[C!ReqAddr(s, i)] ELSE NoData]]
      <3>1. ASSUME NEW i \in Lanes
            PROVE  [valid |-> C!ReqFire(s, in2, i),
                    data |-> IF C!ReadFire(s, in2, i) THEN mem[C!ReqAddr(s, i)] ELSE NoData]
                   = rsp'["C"][i]
        <4>1. /\ C!ReqFire(s, in2, i) = ReqFire(s, in, i)
              /\ C!ReadFire(s, in2, i) <=> ReadFire(s, in, i)
              /\ C!ReqAddr(s, i) = ReqAddr(s, i)
          <5>1. C!ReqFire(s, in2, i) <=> ReqFire(s, in, i)
            BY <1>8, SameC
          <5>2. C!ReqFire(s, in2, i) = ReqFire(s, in, i)
            BY <5>1, Zenon DEF C!ReqFire, ReqFire
          <5> QED BY <1>8, <5>2, SameC
        <4>2. (IF C!ReadFire(s, in2, i) THEN mem[C!ReqAddr(s, i)] ELSE NoData)
              = IF ReadFire(s, in, i) THEN mem[ReqAddr(s, i)] ELSE NoData
          BY <4>1, Zenon
        <4> QED BY <1>2, <4>1, <4>2, Zenon
      <3>2. rsp'["C"] = [i \in C!Lanes |-> rsp'["C"][i]]
        BY <1>2, SameC
      <3> QED BY <3>1, <3>2, SameC, Zenon
    <2> QED BY <2>6, <2>7 DEF C!MemoryEdge
  <1>12. moved' = IF C!Moves(in2) THEN moved + 1 ELSE moved
    <2>1. C!Moves(in2) <=> AValid /\ BValid /\ CanProcess
      BY <1>1, <1>5, SameC DEF C!Moves, CanProcess
    <2> QED BY <1>2, <2>1
  <1>13. C!WriteCycle(in2, g, av)
    <2>1. in2 = C!Inputs(FALSE, g, av)
      BY DEF in2, g
    <2>2. UNCHANGED <<WriteJobs, StreamJob("C"), 1, [m \in Nat |-> Output(m)], mem0>>
      BY <1>2, <1>3
    <2> QED BY <1>1, <1>9, <1>10, <1>11, <1>12, <2>1, <2>2 DEF C!WriteCycle
  <1>14. C!WriteInv'
    BY <1>13, C!WriteCycleKeeps, GivenC
  <1>15. C!AheadInv' /\ C!Generated' > 0
    <2>1. 1 > 0
      OBVIOUS
    <2> QED BY <1>1, <1>13, <2>1, C!AheadKept, GivenC
  <1> QED BY <1>14, <1>15

------------------------------------------------------------------------------
(* The start of a job *)
LEMMA StartStep ==
  ASSUME SystemInv, Regular, Regular',
         NEW granted, NEW issue, Clock(granted, issue), CsrStart(Access(issue), AccDone)
  PROVE  SystemInv'
  <1> DEFINE in(p) == StreamIn(p, TRUE, granted)
  <1>1. /\ \A p \in Streams : st'[p] = StreamerNext(st[p], StreamJob(p), in(p))
        /\ started' = TRUE /\ mem0' = mem /\ moved' = 0
        /\ AccDone /\ TRUE = CsrStart(Access(issue), AccDone)
    <2>0. PICK start : start = CsrStart(Access(issue), AccDone)
      OBVIOUS
    <2>1. start = TRUE
      BY Zenon, <2>0 DEF CsrStart, SyncAccess
    <2>2. /\ \A p \in Streams :
               st'[p] = StreamerNext(st[p], StreamJob(p), StreamIn(p, start, granted))
          /\ started' = (started \/ start)
          /\ mem0' = IF start THEN mem ELSE mem0
          /\ moved' = IF start THEN 0
                      ELSE IF AValid /\ BValid /\ CanProcess THEN moved + 1 ELSE moved
          /\ start => AccDone
      BY <2>0, ClockStep
    <2> QED BY <2>0, <2>1, <2>2
  (* Nothing is left of the job before. *)
  <1>2. /\ \A p \in Streams : Idle(st[p]) /\ ~BypassAhead(st[p])
        /\ st["A"].isLastQ = <<>> /\ st["B"].isLastQ = <<>>
        /\ C!IsSeq(st["C"].isLastQ) /\ C!Holds(st["C"].isLastQ, C!AlwaysLast, 0)
        /\ st["C"].isLastQ # <<>> => StreamJob("C").dir = "write"
    <2>1. CASE started
      <3>1. /\ A!ReadInv /\ B!ReadInv /\ C!WriteInv /\ C!OnlyWrites
            /\ StreamJob("C").dir = "write"
            /\ Length("A") = Length("C") /\ Length("B") = Length("C")
        BY <2>1, RunningJob DEF SystemInv, WorkInv
      <3>2. /\ moved = Length("C") /\ Idle(st["C"])
            /\ C!IsSeq(st["C"].isLastQ) /\ C!Holds(st["C"].isLastQ, C!AlwaysLast, 0)
        BY <1>1, <3>1, RestC DEF AccDone
      <3>3. Quiet("A") /\ Quiet("B")
        BY <3>1, <3>2, RestA, RestB
      <3>4. ~BypassAhead(st["C"])
        <4>1. ~C!BypassAhead(st["C"])
          BY <3>1, C!NoBypass, GivenC DEF C!WriteInv
        <4> QED BY <4>1 DEF C!BypassAhead, BypassAhead
      <3> QED BY <3>1, <3>2, <3>3, <3>4 DEF Quiet, BypassAhead, Streams
    <2>2. CASE ~started
      <3>1. \A p \in Streams : Idle(st[p]) /\ st[p].isLastQ = <<>>
        BY <2>2 DEF SystemInv, Quiet
      <3>2. C!IsSeq(<<>>) /\ C!Holds(<<>>, C!AlwaysLast, 0)
        BY DEF C!IsSeq, C!Holds
      <3> QED BY <3>1, <3>2 DEF BypassAhead, Streams
    <2> QED BY <2>1, <2>2
  <1>3. ASSUME NEW p \in Streams, NEW i \in Lanes, NEW x PROVE ~WriteFire(st[p], x, i)
    BY <1>2, IdleOffers
  <1>4. mem' = mem
    <2>1. mem' = [x \in Addrs |->
            IF \E i \in Lanes : Stores(in("C"), i, x)
            THEN Head(st["C"].writeDataQ[CHOOSE i \in Lanes : Stores(in("C"), i, x)]).data
            ELSE mem[x]]
      <3>1. \A i \in Lanes : ~WriteFire(st["A"], in("A"), i) /\ ~WriteFire(st["B"], in("B"), i)
        BY <1>3 DEF Streams
      <3> QED BY <1>1, <3>1, StoredByC
    <2>2. \A i \in Lanes : \A x : ~Stores(in("C"), i, x)
      BY <1>3 DEF Stores, Streams
    <2>3. mem = [x \in Addrs |-> mem[x]]
      BY DEF SystemInv
    <2> HIDE DEF in
    <2> QED BY <2>1, <2>2, <2>3
  <1>5. ASSUME NEW p \in Streams
        PROVE  /\ st'[p].agu = [busy |-> TRUE, counters |-> AguReset.counters]
               /\ st'[p].bypass = <<>>
               /\ \A i \in Lanes : /\ st'[p].readReqQ[i] = <<>> /\ st'[p].rspQ[i] = <<>>
                                   /\ st'[p].writeReqQ[i] = <<>> /\ st'[p].writeDataQ[i] = <<>>
                                   /\ ~st'[p].readPending[i]
               /\ st[p].isLastQ = <<>> => st'[p].isLastQ = <<>>
               /\ StreamJob(p).dir = "write" => st'[p].isLastQ = st[p].isLastQ
    <2>1. in(p).start = TRUE /\ ~BypassFire(st[p], in(p))
      BY <1>2 DEF StreamIn, Starts, BypassFire, BypassValid
    <2>2. st'[p] = StreamerNext(st[p], StreamJob(p), in(p)) /\ Idle(st[p])
      BY <1>1, <1>2
    <2> HIDE DEF in
    <2>4. st'[p].agu = [busy |-> TRUE, counters |-> AguReset.counters]
      <3>1. st'[p].agu = [busy |-> in(p).start, counters |-> AguReset.counters]
        BY <2>2, IdleAgu
      <3> QED BY Zenon, <2>1, <3>1
    <2>5. /\ st'[p].bypass = <<>>
          /\ \A i \in Lanes : /\ st'[p].readReqQ[i] = <<>> /\ st'[p].rspQ[i] = <<>>
                              /\ st'[p].writeReqQ[i] = <<>> /\ st'[p].writeDataQ[i] = <<>>
                              /\ ~st'[p].readPending[i]
      BY <2>1, <2>2, IdleEdge
    <2>6. /\ st[p].isLastQ = <<>> => st'[p].isLastQ = <<>>
          /\ StreamJob(p).dir = "write" => st'[p].isLastQ = st[p].isLastQ
      BY <2>1, <2>2, IdleEdge
    <2> QED BY <2>4, <2>5, <2>6
  <1>6. /\ StreamJob("A")' \in ReadJobs /\ StreamJob("B")' \in ReadJobs
        /\ StreamJob("C")' \in WriteJobs
    BY <1>1 DEF Regular
  <1> HIDE DEF in
  <1>7. A!FreshInv'
    <2>0. "A" \in Streams
      BY DEF Streams
    <2>1. A!JobInv'
      BY <1>1, <1>6 DEF A!JobInv
    <2>2. A!QuietInv'
      <3>1. \A i \in A!Lanes : st'["A"].writeReqQ[i] = <<>> /\ st'["A"].writeDataQ[i] = <<>>
        BY <2>0, <1>5, SameA
      <3>2. mem0' = [x \in A!Addrs |-> mem0'[x]]
        BY <1>1, SameA DEF SystemInv, Addrs, A!Addrs
      <3> QED BY <2>0, <1>5, <3>1, <3>2 DEF A!QuietInv
    <2>3. \A i \in A!Lanes : A!UnusedLane(i)'
      BY <2>0, <1>5, SameA DEF A!UnusedLane
    <2>4. /\ st'["A"].agu = [busy |-> st'["A"].agu.busy, counters |-> A!AguReset.counters]
          /\ st'["A"].agu.busy = TRUE
      BY <2>0, <1>5, SameA
    <2>5. st'["A"].isLastQ = <<>>
      BY <2>0, <1>2, <1>5
    <2>6. st'["A"].agu.busy \in BOOLEAN /\ (st'["A"].agu.busy <=> 1 # 0)
      <3>1. 1 # 0
        OBVIOUS
      <3> QED BY Zenon, <2>4, <3>1
    <2> QED BY Zenon, <1>1, <2>1, <2>2, <2>3, <2>4, <2>5, <2>6 DEF A!FreshInv
  <1>8. B!FreshInv'
    <2>0. "B" \in Streams
      BY DEF Streams
    <2>1. B!JobInv'
      BY <1>1, <1>6 DEF B!JobInv
    <2>2. B!QuietInv'
      <3>1. \A i \in B!Lanes : st'["B"].writeReqQ[i] = <<>> /\ st'["B"].writeDataQ[i] = <<>>
        BY <2>0, <1>5, SameB
      <3>2. mem0' = [x \in B!Addrs |-> mem0'[x]]
        BY <1>1, SameB DEF SystemInv, Addrs, B!Addrs
      <3> QED BY <2>0, <1>5, <3>1, <3>2 DEF B!QuietInv
    <2>3. \A i \in B!Lanes : B!UnusedLane(i)'
      BY <2>0, <1>5, SameB DEF B!UnusedLane
    <2>4. /\ st'["B"].agu = [busy |-> st'["B"].agu.busy, counters |-> B!AguReset.counters]
          /\ st'["B"].agu.busy = TRUE
      BY <2>0, <1>5, SameB
    <2>5. st'["B"].isLastQ = <<>>
      BY <2>0, <1>2, <1>5
    <2>6. st'["B"].agu.busy \in BOOLEAN /\ (st'["B"].agu.busy <=> 1 # 0)
      <3>1. 1 # 0
        OBVIOUS
      <3> QED BY Zenon, <2>4, <3>1
    <2> QED BY Zenon, <1>1, <2>1, <2>2, <2>3, <2>4, <2>5, <2>6 DEF B!FreshInv
  <1>9. C!EmptyInv'
    <2>1. C!JobInv'
      BY <1>1, <1>6 DEF C!JobInv
    <2>2. C!NoReads' /\ \A i \in C!Lanes : C!IdleLane(i)'
      BY <1>5, SameC DEF C!NoReads, C!UnusedLane, C!IdleLane, Streams
    <2>3. mem' = [x \in C!Addrs |-> mem'[x]] /\ mem0' = mem'
      BY <1>1, <1>4, SameC DEF SystemInv, Addrs, C!Addrs
    <2>4. /\ st'["C"].agu = [busy |-> st'["C"].agu.busy, counters |-> C!AguReset.counters]
          /\ st'["C"].agu.busy = TRUE
      BY <1>5, SameC DEF Streams
    <2>5. st'["C"].isLastQ = st["C"].isLastQ
      <3>1. "C" \in Streams
        BY DEF Streams
      <3> QED BY <1>2, <1>5, <3>1
    <2>6. C!IsSeq(st'["C"].isLastQ) /\ C!Holds(st'["C"].isLastQ, C!AlwaysLast', 0)
      BY <1>2, <2>5 DEF C!AlwaysLast
    <2>7. st'["C"].agu.busy \in BOOLEAN /\ (st'["C"].agu.busy <=> 1 # 0)
      <3>1. 1 # 0
        OBVIOUS
      <3> QED BY Zenon, <2>4, <3>1
    <2> QED BY Zenon, <1>1, <2>1, <2>2, <2>3, <2>4, <2>6, <2>7 DEF C!EmptyInv
  <1>10. (A!ReadInv /\ A!InUse /\ A!Taken = 0)'
    BY <1>7, FreshA, PTL
  <1>11. (B!ReadInv /\ B!InUse /\ B!Taken = 0)'
    BY <1>8, FreshB, PTL
  <1>12. C!WriteInv' /\ C!AheadInv'
    BY <1>9, FreshC, PTL
  <1>13. mem' = [x \in Addrs |-> mem'[x]]
    BY <1>4 DEF SystemInv
  <1> QED BY <1>1, <1>10, <1>11, <1>12, <1>13 DEF SystemInv, WorkInv

(* Before the first job nothing happens. *)
LEMMA WaitStep ==
  ASSUME SystemInv, ~started,
         NEW granted, NEW issue, Clock(granted, issue), ~CsrStart(Access(issue), AccDone)
  PROVE  SystemInv'
  <1> DEFINE in(p) == StreamIn(p, FALSE, granted)
  <1>1. /\ \A p \in Streams : st'[p] = StreamerNext(st[p], StreamJob(p), in(p))
        /\ started' = FALSE
    BY RunStep
  <1>2. \A p \in Streams : Idle(st[p]) /\ st[p].isLastQ = <<>>
    BY DEF SystemInv, Quiet
  <1>3. ASSUME NEW p \in Streams, NEW i \in Lanes, NEW x PROVE ~WriteFire(st[p], x, i)
    BY <1>2, IdleOffers
  <1>4. mem' = mem
    <2>1. mem' = [x \in Addrs |->
            IF \E i \in Lanes : Stores(in("C"), i, x)
            THEN Head(st["C"].writeDataQ[CHOOSE i \in Lanes : Stores(in("C"), i, x)]).data
            ELSE mem[x]]
      <3>1. \A i \in Lanes : ~WriteFire(st["A"], in("A"), i) /\ ~WriteFire(st["B"], in("B"), i)
        BY <1>3 DEF Streams
      <3>2. FALSE = CsrStart(Access(issue), AccDone)
        BY Zenon DEF CsrStart, SyncAccess
      <3> QED BY <3>1, <3>2, StoredByC
    <2>2. \A i \in Lanes : \A x : ~Stores(in("C"), i, x)
      BY <1>3 DEF Stores, Streams
    <2>3. mem = [x \in Addrs |-> mem[x]]
      BY DEF SystemInv
    <2> HIDE DEF in
    <2> QED BY <2>1, <2>2, <2>3
  <1>5. ASSUME NEW p \in Streams PROVE Quiet(p)'
    <2>1. in(p).start = FALSE /\ ~BypassFire(st[p], in(p))
      BY <1>2 DEF StreamIn, Starts, BypassFire, BypassValid, BypassAhead
    <2>2. st'[p] = StreamerNext(st[p], StreamJob(p), in(p)) /\ Idle(st[p])
      BY <1>1, <1>2
    <2> HIDE DEF in
    <2>0. st'[p].agu = AguReset
      <3>1. st'[p].agu = [busy |-> in(p).start, counters |-> AguReset.counters]
        BY <2>2, IdleAgu
      <3>2. [busy |-> FALSE, counters |-> AguReset.counters] = AguReset
        BY DEF AguReset
      <3> QED BY Zenon, <2>1, <3>1, <3>2
    <2>4. /\ st'[p].bypass = <<>>
          /\ \A i \in Lanes : /\ st'[p].readReqQ[i] = <<>> /\ st'[p].rspQ[i] = <<>>
                              /\ st'[p].writeReqQ[i] = <<>> /\ st'[p].writeDataQ[i] = <<>>
                              /\ ~st'[p].readPending[i]
          /\ st'[p].isLastQ = <<>>
      BY <1>2, <2>1, <2>2, IdleEdge
    <2> QED BY <2>0, <2>4 DEF Quiet, Idle
  <1>6. mem' = [x \in Addrs |-> mem'[x]]
    BY <1>4 DEF SystemInv
  <1> QED BY <1>1, <1>5, <1>6 DEF SystemInv

(* A cycle of the job *)
LEMMA JobStep ==
  ASSUME SystemInv, started, Regular, StoresTogether,
         NEW granted, NEW issue, Clock(granted, issue), ~CsrStart(Access(issue), AccDone)
  PROVE  SystemInv'
  <1>1. WorkInv /\ (started' <=> started)
    BY RunStep DEF SystemInv
  <1>2. A!ReadInv' /\ A!InUse'
    BY <1>1, CycleA
  <1>3. B!ReadInv' /\ B!InUse'
    BY <1>1, CycleB
  <1>4. C!WriteInv' /\ C!AheadInv' /\ C!Generated' # 0
    BY <1>1, CycleC
  <1>5. mem' = [x \in Addrs |-> mem'[x]]
    BY <1>4, SameC DEF C!WriteInv, C!MemoryInv, Addrs, C!Addrs
  <1>6. started' = TRUE
    BY <1>1, Zenon DEF Clock
  <1> QED BY <1>2, <1>3, <1>4, <1>5, <1>6 DEF SystemInv, WorkInv

(* Nothing at all happens. *)
LEMMA NoStep ==
  ASSUME SystemInv, UNCHANGED vars
  PROVE  SystemInv'
  <1>1. /\ st' = st /\ csr' = csr /\ mem' = mem /\ rsp' = rsp
        /\ started' = started /\ mem0' = mem0 /\ moved' = moved
    BY DEF vars
  <1>2. /\ StreamJob("A")' = StreamJob("A") /\ StreamJob("B")' = StreamJob("B")
        /\ StreamJob("C")' = StreamJob("C")
        /\ [m \in Nat |-> Output(m)]' = [m \in Nat |-> Output(m)]
    BY <1>1 DEF StreamJob, ReadWriteMode, Output, At
  <1>3. CASE started
    <2>1. WorkInv
      BY <1>3 DEF SystemInv
    <2>2. A!ReadInv' /\ A!InUse' /\ A!Taken' = A!Taken
      BY <1>1, <1>2, <2>1, A!ReadStays, GivenA DEF WorkInv, A!InUse, A!Enabled, A!R, A!Taken
    <2>3. B!ReadInv' /\ B!InUse' /\ B!Taken' = B!Taken
      BY <1>1, <1>2, <2>1, B!ReadStays, GivenB DEF WorkInv, B!InUse, B!Enabled, B!R, B!Taken
    <2>4. C!WriteInv' /\ C!Generated' = C!Generated
      BY <1>1, <1>2, <2>1, C!WriteStays, GivenC DEF WorkInv
    <2>5. C!AheadInv'
      BY <1>1, <1>2, <2>1, <2>4 DEF WorkInv, C!AheadInv
    <2> QED BY <1>1, <1>3, <2>1, <2>2, <2>3, <2>4, <2>5 DEF SystemInv, WorkInv
  <1>4. CASE ~started
    BY <1>1, <1>4 DEF SystemInv, Quiet, Idle
  <1> QED BY <1>3, <1>4

(* In a regular job each streamer does what it does alone. *)
THEOREM AluInvariant ==
  Spec /\ []Regular /\ [][StoresTogether]_vars => []SystemInv
  <1>1. Init => SystemInv
    <2> SUFFICES ASSUME Init PROVE SystemInv
      OBVIOUS
    <2>1. PICK g \in {0, 1} : st = [p \in Streams |-> StreamerReset(g)]
      BY DEF Init
    <2>2. Idle(StreamerReset(g)) /\ StreamerReset(g).isLastQ = <<>>
      BY DEF Idle, StreamerReset
    <2>3. \A p \in Streams : Quiet(p)
      BY <2>1, <2>2 DEF Quiet
    <2>4. mem = [x \in Addrs |-> mem[x]] /\ started = FALSE
      BY DEF Init
    <2> QED BY <2>3, <2>4 DEF SystemInv
  <1>2. SystemInv /\ Regular /\ Regular' /\ [Next]_vars /\ [StoresTogether]_vars => SystemInv'
    <2> SUFFICES ASSUME SystemInv, Regular, Regular', [Next]_vars, [StoresTogether]_vars
                 PROVE  SystemInv'
      OBVIOUS
    <2>1. CASE UNCHANGED vars
      BY <2>1, NoStep
    <2>2. ASSUME NEW granted \in SUBSET Ports, NEW issue \in BOOLEAN,
                 Clock(granted, issue), StoresTogether
          PROVE  SystemInv'
      <3>1. CASE CsrStart(Access(issue), AccDone)
        BY <2>2, <3>1, StartStep
      <3>2. CASE ~CsrStart(Access(issue), AccDone) /\ started
        BY <2>2, <3>2, JobStep
      <3>3. CASE ~CsrStart(Access(issue), AccDone) /\ ~started
        BY <2>2, <3>3, WaitStep
      <3> QED BY <3>1, <3>2, <3>3
    <2> QED BY <2>1, <2>2 DEF Next
  <1> QED BY <1>1, <1>2, PTL DEF Spec

------------------------------------------------------------------------------
(* When C is done all three streamers are at rest. *)
LEMMA AtDone ==
  ASSUME SystemInv, Regular, started, AccDone
  PROVE  /\ WorkInv /\ C!OnlyWrites /\ C!Done(st["C"])
         /\ Quiet("A") /\ Quiet("B")
  <1>1. WorkInv
    BY DEF SystemInv
  <1>2. /\ C!OnlyWrites
        /\ Length("A") = Length("C") /\ Length("B") = Length("C")
    BY RunningJob
  <1>3. moved = Length("C")
    BY <1>1, <1>2, RestC DEF WorkInv, AccDone
  <1>4. Quiet("A") /\ Quiet("B")
    BY <1>1, <1>2, <1>3, RestA, RestB DEF WorkInv
  <1>5. C!Done(st["C"])
    BY SameC DEF AccDone
  <1> QED BY <1>1, <1>2, <1>4, <1>5

LEMMA IdleIsDone ==
  ASSUME NEW s, Idle(s)
  PROVE  Done(s)
  <1>1. ~s.agu.busy
    BY DEF Idle, AguReset
  <1>2. <<>> \o <<>> \o <<>> \o <<>> = <<>>
    OBVIOUS
  <1>3. AllQueuesEmpty(s)
    <2> SUFFICES ASSUME NEW i \in Lanes
                 PROVE  <<>> = s.rspQ[i] \o s.writeDataQ[i] \o s.readReqQ[i] \o s.writeReqQ[i]
      BY Zenon DEF AllQueuesEmpty
    <2>1. /\ s.readReqQ[i] = <<>> /\ s.rspQ[i] = <<>>
          /\ s.writeReqQ[i] = <<>> /\ s.writeDataQ[i] = <<>>
      BY DEF Idle
    <2> QED BY <1>2, <2>1, Zenon
  <1> QED BY <1>1, <1>3 DEF Done

(***************************************************************************)
(* "done" is that of C, which looks at its own queues only, and yet the    *)
(* operand streamers are idle then: C is not done before the last vector   *)
(* is stored, and that vector was made of the last words A and B read.     *)
(***************************************************************************)
THEOREM DrainedWhenDone ==
  Spec /\ []Regular /\ [][StoresTogether]_vars => []DoneMeansDrained
  <1>1. SystemInv /\ Regular => DoneMeansDrained
    <2> SUFFICES ASSUME SystemInv, Regular, started, AccDone
                 PROVE  Done(st["A"]) /\ Done(st["B"])
      BY DEF DoneMeansDrained
    <2> QED BY AtDone, IdleIsDone DEF Quiet
  <1> QED BY <1>1, AluInvariant, PTL

------------------------------------------------------------------------------
(* What word a holds after the first k iterations: what the last of them   *)
(* that writes it makes                                                    *)
Writers(k, a) == {m \in 0 .. k - 1 : \E i \in On : At("C", m, i) = a}
WriterLane(m, a) == CHOOSE i \in On : At("C", m, i) = a
LastOf(W) == CHOOSE x \in W : \A y \in W : y <= x
Latest(k, a) == IF Writers(k, a) = {} THEN mem0[a]
                ELSE Output(LastOf(Writers(k, a)))[WriterLane(LastOf(Writers(k, a)), a)]
After(k) == [a \in Addrs |-> Latest(k, a)]

LEMMA Greatest ==
  ASSUME NEW n \in Int, NEW W \in SUBSET (0 .. n - 1), W # {}
  PROVE  \E x \in W : \A y \in W : y <= x
  <1> DEFINE T == {k \in Nat : \E x \in W : k = n - x}
  <1>1. PICK x \in W : TRUE
    OBVIOUS
  <1>2. n - x \in T /\ T \in SUBSET Nat
    OBVIOUS
  <1>3. PICK k \in T : \A y \in T : ~(y < k)
    <2> HIDE DEF T
    <2> QED BY <1>2, Least
  <1>4. PICK z \in W : k = n - z
    OBVIOUS
  <1>5. ASSUME NEW y \in W PROVE y <= z
    <2>1. n - y \in T
      OBVIOUS
    <2>2. ~(n - y < k)
      <3> HIDE DEF T
      <3> QED BY <1>3, <2>1
    <2> QED BY <1>4, <2>2
  <1> QED BY <1>5

LEMMA LatestStep ==
  ASSUME NEW k \in Nat, NEW a
  PROVE  Latest(k + 1, a) = IF \E i \in On : At("C", k, i) = a
                            THEN Output(k)[WriterLane(k, a)] ELSE Latest(k, a)
  <1>1. CASE \E i \in On : At("C", k, i) = a
    <2> DEFINE W == Writers(k + 1, a)
    <2>1. k \in W /\ \A y \in W : y \in Int /\ y <= k
      BY <1>1 DEF Writers
    <2> HIDE DEF W
    <2>2. \A x \in W : (\A y \in W : y <= x) => x = k
      BY <2>1
    <2>3. LastOf(W) = k
      BY <2>1, <2>2 DEF LastOf
    <2>4. W # {}
      BY <2>1
    <2> QED BY <1>1, <2>3, <2>4 DEF Latest, W
  <1>2. CASE ~\E i \in On : At("C", k, i) = a
    <2>1. Writers(k + 1, a) = Writers(k, a)
      <3>1. \A m \in Int : m \in 0 .. (k + 1) - 1 <=> m \in 0 .. k - 1 \/ m = k
        OBVIOUS
      <3> QED BY <1>2, <3>1 DEF Writers
    <2> QED BY <1>2, <2>1 DEF Latest
  <1> QED BY <1>1, <1>2

(* An iteration finds its operands as they were at the start. *)
LEMMA GoldenStep ==
  ASSUME Regular, started, NEW k \in Nat, k < Length("C")
  PROVE  Step(After(k), k) = After(k + 1)
  <1>1. /\ ~ReadWriteMode /\ Length("C") \in Nat
        /\ StreamJob("A") \in ReadJobs /\ StreamJob("B") \in ReadJobs
    <2>1. A!Iterations(StreamJob("C").agu) \in Nat
      BY A!Below, SameA, GivenA DEF Regular, WriteJobs, Jobs
    <2> QED BY <2>1, SameA DEF Regular, Length, StreamJob
  <1>2. ASSUME NEW i \in On
        PROVE  /\ At("A", k, i) \in Addrs /\ At("B", k, i) \in Addrs
               /\ Writers(k, At("A", k, i)) = {} /\ Writers(k, At("B", k, i)) = {}
    <2>1. i \in Lanes
      BY DEF On
    <2>2. A!WellFormed(csr.vals["A"]) /\ B!WellFormed(csr.vals["B"])
      BY <1>1, SameA, SameB DEF ReadJobs, Jobs, StreamJob
    <2>3. A!IterAddress(csr.vals["A"], k, i) \in 0 .. A!AddrSpace - 1
      BY <2>1, <2>2, A!AddressInRange, GivenA, SameA
    <2>4. B!IterAddress(csr.vals["B"], k, i) \in 0 .. B!AddrSpace - 1
      BY <2>1, <2>2, B!AddressInRange, GivenB, SameB
    <2>5. At("A", k, i) \in Addrs /\ At("B", k, i) \in Addrs
      BY <2>3, <2>4, SameA, SameB DEF At, Addrs
    <2>6. k \in 0 .. Length("C") - 1
      BY <1>1
    <2>7. \A m \in 0 .. k - 1 : \A l \in On :
            At("C", m, l) # At("A", k, i) /\ At("C", m, l) # At("B", k, i)
      BY <2>6 DEF Regular
    <2> QED BY <2>5, <2>7 DEF Writers
  <1>3. ASSUME NEW a \in Addrs PROVE Step(After(k), k)[a] = Latest(k + 1, a)
    <2>1. CASE \E i \in On : At("C", k, i) = a
      <3> DEFINE i == WriterLane(k, a)
      <3>1. i \in On /\ i \in Lanes
        BY <2>1 DEF WriterLane, On
      <3>2. Step(After(k), k)[a] =
              Alu(csr.vals["select"] % 4, After(k)[At("A", k, i)], After(k)[At("B", k, i)])
        BY <1>1, <2>1 DEF Step, At, WriterLane
      <3> HIDE DEF i
      <3>3. /\ After(k)[At("A", k, i)] = mem0[At("A", k, i)]
            /\ After(k)[At("B", k, i)] = mem0[At("B", k, i)]
        BY <1>2, <3>1 DEF After, Latest
      <3>4. Output(k)[i] = Alu(csr.vals["select"] % 4, mem0[At("A", k, i)],
                               mem0[At("B", k, i)])
        BY <3>1 DEF Output
      <3>5. Latest(k + 1, a) = Output(k)[i]
        BY <2>1, LatestStep DEF i
      <3> QED BY <3>2, <3>3, <3>4, <3>5
    <2>2. CASE ~\E i \in On : At("C", k, i) = a
      <3>1. Step(After(k), k)[a] = After(k)[a]
        BY <2>2 DEF Step, At
      <3> QED BY <2>2, <3>1, LatestStep DEF After
    <2> QED BY <2>1, <2>2
  <1>4. Step(After(k), k) = [a \in Addrs |-> Step(After(k), k)[a]]
    BY DEF Step
  <1> QED BY <1>3, <1>4 DEF After

LEMMA GoldenIsLatest ==
  ASSUME Regular, started, WorkInv
  PROVE  Golden(mem0, Length("C")) = After(Length("C"))
  <1> DEFINE n == Length("C")
             F(g) == [k \in 0 .. n |-> IF k = 0 THEN mem0 ELSE Step(g[k - 1], k - 1)]
             h == [k \in 0 .. n |-> After(k)]
             g == CHOOSE f : f = F(f)
  <1>1. n \in Nat
    BY A!Below, SameA, GivenA DEF Regular, WriteJobs, Jobs, Length, StreamJob
  <1>2. After(0) = mem0
    <2>1. mem0 = [a \in Addrs |-> mem0[a]]
      BY SameA DEF WorkInv, A!ReadInv, A!QuietInv, Addrs, A!Addrs
    <2>2. \A a : Writers(0, a) = {}
      BY DEF Writers
    <2> QED BY <2>1, <2>2 DEF After, Latest
  <1>3. ASSUME NEW k \in Nat, k < n PROVE Step(After(k), k) = After(k + 1)
    BY <1>3, GoldenStep
  <1>4. Golden(mem0, n) = g[n]
    BY DEF Golden
  <1> HIDE DEF n
  <1>5. h = F(h)
    <2>1. ASSUME NEW k \in 0 .. n
          PROVE  After(k) = IF k = 0 THEN mem0 ELSE Step(h[k - 1], k - 1)
      <3>1. CASE k = 0
        BY <1>2, <3>1
      <3>2. CASE k # 0
        <4>1. k - 1 \in Nat /\ k - 1 < n /\ (k - 1) + 1 = k /\ k - 1 \in 0 .. n
          BY <1>1, <3>2
        <4>2. h[k - 1] = After(k - 1)
          BY <4>1
        <4>3. Step(After(k - 1), k - 1) = After(k)
          BY <1>3, <4>1
        <4> QED BY <3>2, <4>2, <4>3
      <3> QED BY <3>1, <3>2
    <2> HIDE DEF h
    <2>2. h = [k \in 0 .. n |-> IF k = 0 THEN mem0 ELSE Step(h[k - 1], k - 1)]
      BY <2>1 DEF h
    <2> QED BY <2>2
  <1>6. g = F(g)
    <2> HIDE DEF h
    <2> QED BY <1>5
  <1> HIDE DEF g
  <1>7. /\ g[0] = mem0
        /\ \A k \in 0 .. n : k # 0 => g[k] = Step(g[k - 1], k - 1)
    BY <1>1, <1>6
  <1> DEFINE S == {k \in Nat : k <= n => g[k] = After(k)}
  <1>8. 0 \in S
    BY <1>2, <1>7
  <1>9. ASSUME NEW k \in S PROVE k + 1 \in S
    <2> SUFFICES ASSUME k + 1 <= n PROVE g[k + 1] = After(k + 1)
      OBVIOUS
    <2>1. k \in Nat /\ k < n /\ k + 1 \in 0 .. n /\ k + 1 # 0 /\ (k + 1) - 1 = k /\ k <= n
      BY <1>1
    <2>2. g[k + 1] = Step(g[k], k)
      BY <1>7, <2>1
    <2>3. g[k] = After(k)
      BY <2>1
    <2> QED BY <1>3, <2>1, <2>2, <2>3
  <1>10. \A k \in Nat : k \in S
    <2>1. S \in SUBSET Nat
      OBVIOUS
    <2> HIDE DEF S
    <2> QED BY <1>8, <1>9, <2>1, Induction
  <1>11. g[n] = After(n)
    BY <1>1, <1>10
  <1> QED BY <1>4, <1>11 DEF n

(***************************************************************************)
(* At "done" memory holds what the iterations compute one after the other, *)
(* although A and B are up to a queue ahead of the ALUs and the stores are *)
(* behind them, and whatever the core writes to the registers meanwhile.   *)
(***************************************************************************)
THEOREM ResultWhenDone ==
  Spec /\ []Regular /\ [][StoresTogether]_vars => []ResultAtDone
  <1>1. SystemInv /\ Regular => ResultAtDone
    <2> SUFFICES ASSUME SystemInv, Regular, started, AccDone
                 PROVE  mem = Golden(mem0, Length("C"))
      BY DEF ResultAtDone
    <2> DEFINE n == Length("C")
    <2>1. WorkInv /\ C!OnlyWrites /\ C!Done(st["C"]) /\ mem = [x \in Addrs |-> mem[x]]
      BY AtDone DEF SystemInv
    <2>2. Golden(mem0, n) = After(n)
      BY <2>1, GoldenIsLatest
    <2>3. ASSUME NEW a \in Addrs PROVE mem[a] = Latest(n, a)
      <3>1. mem[a] = C!LastWriter(a)
        <4>1. 1 > 0 /\ a \in C!Addrs
          BY SameC DEF Addrs, C!Addrs
        <4> QED BY <2>1, <4>1, C!NestWritten, GivenC DEF WorkInv
      <3>2. C!Iterations(StreamJob("C").agu) = n /\ n \in Int
        <4>1. StreamJob("C").agu = csr.vals["C"]
          BY DEF StreamJob
        <4>2. A!Iterations(StreamJob("C").agu) \in Nat
          BY A!Below, SameA, GivenA DEF Regular, WriteJobs, Jobs
        <4> QED BY <4>1, <4>2, SameA, SameC DEF Length
      <3>3. \A m, i : C!IterAddress(StreamJob("C").agu, m, i) = At("C", m, i)
        BY SameC DEF At, StreamJob
      <3>4. C!Enabled = On
        BY RunningJob
      <3>5. \A m \in 0 .. n - 1 : [x \in Nat |-> Output(x)][m] = Output(m)
        BY <3>2
      <3> HIDE DEF n
      <3> DEFINE W == Writers(n, a)
      <3>6. W = {m \in 0 .. n - 1 : \E i \in On : At("C", m, i) = a}
        BY DEF Writers
      <3>7. C!LastWriter(a) =
              IF W = {} THEN mem0[a]
              ELSE [x \in Nat |-> Output(x)][LastOf(W)][WriterLane(LastOf(W), a)]
        <4> DEFINE V == {m \in 0 .. C!Iterations(StreamJob("C").agu) - 1 :
                           \E i \in C!Enabled :
                             C!IterAddress(StreamJob("C").agu, m, i) = a}
                   L(m) == CHOOSE x \in C!Enabled :
                             C!IterAddress(StreamJob("C").agu, m, x) = a
        <4>1. V = W
          BY <3>2, <3>3, <3>4, <3>6
        <4>2. \A m : L(m) = WriterLane(m, a)
          BY <3>3, <3>4, Zenon DEF WriterLane
        <4>3. C!LastWriter(a) = IF V = {} THEN mem0[a]
                                ELSE [x \in Nat |-> Output(x)][LastOf(V)][L(LastOf(V))]
          BY Zenon DEF C!LastWriter, LastOf
        <4> HIDE DEF V, L, W
        <4> QED BY <4>1, <4>2, <4>3
      <3>8. W # {} => LastOf(W) \in 0 .. n - 1
        <4>1. CASE W # {}
          <5>1. \E x \in W : \A y \in W : y <= x
            BY Greatest, <3>2, <3>6, <4>1
          <5> QED BY <3>6, <5>1 DEF LastOf
        <4> QED BY <4>1
      <3> QED BY <3>1, <3>5, <3>7, <3>8 DEF Latest
    <2> QED BY <2>1, <2>2, <2>3 DEF After
  <1> QED BY <1>1, AluInvariant, PTL
==============================================================================
