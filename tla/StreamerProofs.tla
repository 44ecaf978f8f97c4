--------------------------- MODULE StreamerProofs ----------------------------
(***************************************************************************)
(* One streamer, for any number of lanes, depth of queues, jobs and grants *)
(* of the memory, in four parts.                                           *)
(*   - A word that was read always finds room in the response queue.  A    *)
(*     read leaves one place more than it needs, because the response      *)
(*     before it may still be on its way (RoomInv).                        *)
(*   - A streamer that only reads hands out the vectors of its nest in     *)
(*     order (ReadInv).                                                    *)
(*   - No queue ever holds more than it can (TypeInv).                     *)
(*   - When one that writes, or updates elements in place, is done, memory *)
(*     holds the result (WriteInv, UpdateInv).                             *)
(***************************************************************************)
EXTENDS StreamerSys, AffineAguProofs, FiniteSetTheorems

IsSeq(q) == \E S : q \in Seq(S)

(* Room is kept for the response of a lane that waits for one. *)
RoomKept(q, pending) == IsSeq(q) /\ (pending => HasRoom(q))

RoomInv == \A i \in Lanes : RoomKept(s.rspQ[i], s.readPending[i])

(* What the two halves of a queue do to its length *)
LEMMA PopSeq ==
  ASSUME NEW q, IsSeq(q), NEW c
  PROVE  /\ IsSeq(PopIf(q, c))
         /\ Len(PopIf(q, c)) \in Nat /\ Len(PopIf(q, c)) <= Len(q)
  <1>1. PICK S : q \in Seq(S)
    BY DEF IsSeq
  <1>2. CASE q = <<>> \/ ~c
    BY <1>1, <1>2 DEF PopIf, IsSeq
  <1>3. CASE q # <<>> /\ c
    <2>1. /\ Tail(q) \in Seq(S) /\ Len(Tail(q)) = Len(q) - 1
          /\ Len(q) \in Nat /\ Len(Tail(q)) \in Nat
      BY <1>1, <1>3
    <2> QED BY <1>3, <2>1 DEF PopIf, IsSeq
  <1> QED BY <1>2, <1>3

LEMMA PushSeq ==
  ASSUME NEW q, IsSeq(q), NEW c, NEW x
  PROVE  /\ IsSeq(PushIf(q, c, x))
         /\ Len(PushIf(q, c, x)) \in Nat
         /\ Len(PushIf(q, c, x)) <= Len(q) + 1
  <1>1. PICK S : q \in Seq(S)
    BY DEF IsSeq
  <1>2. q \in Seq(S \cup {x}) /\ Len(q) \in Nat
    BY <1>1
  <1>3. Append(q, x) \in Seq(S \cup {x}) /\ Len(Append(q, x)) = Len(q) + 1
    BY <1>2
  <1> QED BY <1>2, <1>3 DEF PushIf, IsSeq

(* The arbiter picks a request that is offered. *)
LEMMA PickOffered ==
  ASSUME NEW i, Offers(s, i) # {}
  PROVE  Pick(s, i) \in Offers(s, i)
  <1>1. \A T \in SUBSET {0, 1} : T # {} => Min(T) \in T
    <2> SUFFICES ASSUME NEW T \in SUBSET {0, 1}, T # {}
                 PROVE  \E x \in T : \A y \in T : x <= y
      BY DEF Min
    <2>1. CASE 0 \in T
      BY <2>1
    <2>2. CASE T = {1}
      BY <2>2
    <2> QED BY <2>1, <2>2
  <1>2. Offers(s, i) \in SUBSET {0, 1}
    BY DEF Offers
  <1> QED BY <1>1, <1>2 DEF Pick, Chosen

(* A read that goes out has an address and room for its answer. *)
LEMMA Granted ==
  ASSUME NEW in, NEW i, ReadFire(s, in, i)
  PROVE  Len(s.rspQ[i]) < QueueDepth - 1 /\ s.readReqQ[i] # <<>>
  <1>1. 0 \in Offers(s, i)
    BY PickOffered DEF ReadFire, ReqFire
  <1> QED BY <1>1 DEF Offers, RoomForRsp

(* A clock edge keeps the room of a lane, whatever the inputs. *)
LEMMA EdgeKeepsRoom ==
  ASSUME NEW j, NEW in, NEW i \in Lanes, IsSeq(s.rspQ[i]), s' = StreamerNext(s, j, in)
  PROVE  RoomKept(s'.rspQ[i], s'.readPending[i])
  <1> DEFINE popped == PopIf(s.rspQ[i], DeqRsp(s, j, in))
  <1>1. /\ s'.rspQ[i] = PushIf(popped, EnqRsp(s, in, i), in.rsp[i].data)
        /\ s'.readPending[i] = ReadFire(s, in, i)
    BY DEF StreamerNext
  <1>2. IsSeq(popped) /\ Len(popped) \in Nat /\ Len(popped) <= Len(s.rspQ[i])
    BY PopSeq
  <1> HIDE DEF popped
  <1>3. /\ IsSeq(s'.rspQ[i]) /\ Len(s'.rspQ[i]) \in Nat
        /\ Len(s'.rspQ[i]) <= Len(popped) + 1
    BY <1>1, <1>2, PushSeq
  <1>4. ReadFire(s, in, i) => Len(s.rspQ[i]) < QueueDepth - 1
    BY Granted
  <1>5. Len(s.rspQ[i]) \in Nat
    BY DEF IsSeq
  <1> QED BY <1>1, <1>2, <1>3, <1>4, <1>5, DepthAssumption DEF RoomKept, HasRoom

(* So does every lane. *)
LEMMA EdgeInv ==
  ASSUME NEW j, NEW in, RoomInv, s' = StreamerNext(s, j, in)
  PROVE  RoomInv'
  <1>1. \A i \in Lanes : RoomKept(s'.rspQ[i], s'.readPending[i])
    BY EdgeKeepsRoom DEF RoomInv, RoomKept
  <1> QED BY <1>1 DEF RoomInv

(* A lane that waits for a response always has a place for it *)
(* (roomForRsp, Streamer.scala:205).                          *)
THEOREM RoomKeptAlways == Spec => []RoomInv
  <1>1. Init => RoomInv
    <2> SUFFICES ASSUME NEW g \in {0, 1}, s = StreamerReset(g), NEW i \in Lanes
                 PROVE  RoomKept(s.rspQ[i], s.readPending[i])
      BY DEF Init, RoomInv
    <2>1. s.rspQ[i] = <<>> /\ ~s.readPending[i]
      BY DEF StreamerReset
    <2> QED BY <2>1 DEF RoomKept, IsSeq
  <1>2. RoomInv /\ [Next]_vars => RoomInv'
    <2> SUFFICES ASSUME RoomInv, [Next]_vars PROVE RoomInv'
      OBVIOUS
    <2>1. ASSUME NEW k \in pool, Start(k) PROVE RoomInv'
      BY <2>1, EdgeInv DEF Start
    <2>2. ASSUME NEW granted \in SUBSET Lanes, NEW avail \in BOOLEAN, Run(granted, avail)
          PROVE  RoomInv'
      BY <2>2, EdgeInv DEF Run
    <2>3. CASE UNCHANGED vars
      BY <2>3 DEF vars, RoomInv
    <2> QED BY <2>1, <2>2, <2>3 DEF Next
  <1> QED BY <1>1, <1>2, PTL DEF Spec

(* The response queue (Streamer.scala:195) takes every word the memory     *)
(* answers a read with: nothing that was read is lost.                     *)
THEOREM NothingReadIsLost == Spec => []NoReadLost
  <1>1. RoomInv => NoReadLost
    BY DEF RoomInv, RoomKept, NoReadLost
  <1> QED BY <1>1, RoomKeptAlways, PTL

------------------------------------------------------------------------------
(***************************************************************************)
(* A streamer that only reads.  The generator has taken Taken addresses:   *)
(* those of the vectors moved and one per entry of isLastQueue.  The reads *)
(* of an element are in one of three places, in order: answered (rspQ), on *)
(* the way (readPending), or waiting for the memory (readReqQ).            *)
(***************************************************************************)
Taken == moved + Len(s.isLastQ)
R == Reuse(job.agu)
Retired == moved \div R                 \* elements the datapath is done with
FetchedBefore(m) == CeilDiv(m, R)       \* elements used before iteration m
OnTheWay(i) == IF s.readPending[i] THEN 1 ELSE 0

ElementAddr(i) == [x \in Nat |-> IterAddress(job.agu, R * x, i)]
ElementWord(i) == [x \in Nat |-> mem0[IterAddress(job.agu, R * x, i)]]
LastUse == [m \in Nat |-> (m + 1) % R = 0]

(* A queue holds a stretch of a function, from argument k on. *)
Holds(q, f, k) == \A x \in 1 .. Len(q) : q[x] = f[k + x - 1]

AguInv == /\ AtIteration(job.agu, s.agu, jobs > 0, Taken)
          /\ Taken % R # 0 => Taken > moved

FlagsInv == IsSeq(s.isLastQ) /\ Holds(s.isLastQ, LastUse, moved)

(* The reads of a lane whose first e elements have left it. *)
ReadLane(i, e) ==
  /\ IsSeq(s.readReqQ[i]) /\ IsSeq(s.rspQ[i])
  /\ Holds(s.rspQ[i], ElementWord(i), e)
  /\ s.readPending[i] =>
       rsp[i].valid /\ rsp[i].data = ElementWord(i)[e + Len(s.rspQ[i])]
  /\ Holds(s.readReqQ[i], ElementAddr(i), e + Len(s.rspQ[i]) + OnTheWay(i))
  /\ e + Len(s.rspQ[i]) + OnTheWay(i) + Len(s.readReqQ[i]) = FetchedBefore(Taken)

LaneInv(i) == /\ ReadLane(i, Retired)
              /\ Len(s.readReqQ[i]) <= QueueDepth /\ Len(s.rspQ[i]) <= QueueDepth

UnusedLane(i) ==
  s.readReqQ[i] = <<>> /\ s.rspQ[i] = <<>> /\ ~s.readPending[i]

(* Nothing is written. *)
QuietInv ==
  /\ \A i \in Lanes : s.writeReqQ[i] = <<>> /\ s.writeDataQ[i] = <<>>
  /\ s.bypass = <<>>
  /\ mem = [a \in Addrs |-> mem[a]] /\ mem0 = mem

(* The source has room for 32 flags.  They are enough for the addresses    *)
(* that can be under way, or for the whole job.                            *)
FlagsFit(j) == \/ 2 * QueueDepth * Reuse(j.agu) <= IsLastDepth
               \/ Iterations(j.agu) <= IsLastDepth
OnlyReads == \A j \in pool : j.dir = "read" /\ FlagsFit(j)

JobInv == pool \in JobSets /\ job \in pool /\ moved \in Nat /\ jobs \in Nat

ReadInv ==
  /\ JobInv /\ AguInv /\ FlagsInv /\ QuietInv /\ RoomInv
  /\ \A i \in Lanes : IF i \in Enabled THEN LaneInv(i) ELSE UnusedLane(i)

------------------------------------------------------------------------------
Count(c) == IF c THEN 1 ELSE 0

(* A queue that holds a stretch of a function holds the rest of it after *)
(* a pop, and one more after a push.                                     *)
LEMMA PopHolds ==
  ASSUME NEW q, IsSeq(q), NEW f, NEW k \in Nat, Holds(q, f, k), NEW c, c => q # <<>>
  PROVE  /\ IsSeq(PopIf(q, c)) /\ Len(PopIf(q, c)) = Len(q) - Count(c)
         /\ Len(PopIf(q, c)) \in Nat
         /\ Holds(PopIf(q, c), f, k + Count(c))
  <1>1. PICK S : q \in Seq(S)
    BY DEF IsSeq
  <1>2. CASE ~c
    BY <1>1, <1>2 DEF PopIf, Count, IsSeq, Holds
  <1>3. CASE c
    <2>1. /\ Tail(q) \in Seq(S) /\ Len(Tail(q)) = Len(q) - 1 /\ Len(q) \in Nat
          /\ \A x \in 1 .. Len(q) - 1 : Tail(q)[x] = q[x + 1]
      BY <1>1, <1>3
    <2>2. \A x \in 1 .. Len(q) - 1 : q[x + 1] = f[(k + 1) + x - 1]
      <3> SUFFICES ASSUME NEW x \in 1 .. Len(q) - 1 PROVE q[x + 1] = f[(k + 1) + x - 1]
        OBVIOUS
      <3>1. x + 1 \in 1 .. Len(q) /\ k + (x + 1) - 1 = (k + 1) + x - 1
        BY <2>1
      <3> QED BY <3>1 DEF Holds
    <2>3. PopIf(q, c) = Tail(q) /\ Count(c) = 1 /\ Len(Tail(q)) \in Nat
      BY <1>1, <1>3, <2>1 DEF PopIf, Count
    <2>4. Holds(Tail(q), f, k + 1)
      BY <2>1, <2>2 DEF Holds
    <2> QED BY <2>1, <2>3, <2>4 DEF IsSeq
  <1> QED BY <1>2, <1>3

LEMMA PushHolds ==
  ASSUME NEW q, IsSeq(q), NEW f, NEW k \in Nat, Holds(q, f, k),
         NEW c, NEW x, c => x = f[k + Len(q)]
  PROVE  /\ IsSeq(PushIf(q, c, x)) /\ Len(PushIf(q, c, x)) = Len(q) + Count(c)
         /\ Holds(PushIf(q, c, x), f, k)
  <1>1. PICK S : q \in Seq(S)
    BY DEF IsSeq
  <1>2. CASE ~c
    BY <1>1, <1>2 DEF PushIf, Count, IsSeq, Holds
  <1>3. CASE c
    <2>1. q \in Seq(S \cup {x}) /\ Len(q) \in Nat
      BY <1>1
    <2>2. /\ Append(q, x) \in Seq(S \cup {x}) /\ Len(Append(q, x)) = Len(q) + 1
          /\ \A y \in 1 .. Len(q) : Append(q, x)[y] = q[y]
          /\ Append(q, x)[Len(q) + 1] = x
      BY <2>1
    <2>3. \A y \in 1 .. Len(q) + 1 : Append(q, x)[y] = f[k + y - 1]
      <3> SUFFICES ASSUME NEW y \in 1 .. Len(q) + 1 PROVE Append(q, x)[y] = f[k + y - 1]
        OBVIOUS
      <3>1. CASE y \in 1 .. Len(q)
        BY <2>2, <3>1 DEF Holds
      <3>2. CASE y = Len(q) + 1
        <4>1. k + y - 1 = k + Len(q)
          BY <2>1, <3>2
        <4> QED BY <1>3, <2>2, <3>2, <4>1
      <3> QED BY <2>1, <3>1, <3>2
    <2>4. PushIf(q, c, x) = Append(q, x) /\ Count(c) = 1
      BY <1>3 DEF PushIf, Count
    <2>5. Holds(Append(q, x), f, k)
      BY <2>2, <2>3 DEF Holds
    <2> QED BY <2>2, <2>4, <2>5 DEF IsSeq
  <1> QED BY <1>2, <1>3

(* One clock edge of a queue: the oldest entry may leave, one may arrive. *)
LEMMA QueueStep ==
  ASSUME NEW q, IsSeq(q), NEW f, NEW k \in Nat, Holds(q, f, k),
         NEW pop, pop => q # <<>>, NEW push, NEW x, push => x = f[k + Len(q)]
  PROVE  /\ IsSeq(PushIf(PopIf(q, pop), push, x))
         /\ Len(PushIf(PopIf(q, pop), push, x)) = Len(q) - Count(pop) + Count(push)
         /\ Holds(PushIf(PopIf(q, pop), push, x), f, k + Count(pop))
  <1> DEFINE p == PopIf(q, pop)
  <1>1. /\ IsSeq(p) /\ Len(p) = Len(q) - Count(pop) /\ Len(p) \in Nat
        /\ Holds(p, f, k + Count(pop))
    BY PopHolds
  <1>2. Len(q) \in Nat /\ Count(pop) \in Nat
    BY DEF IsSeq, Count
  <1>3. k + Count(pop) \in Nat /\ (k + Count(pop)) + Len(p) = k + Len(q)
    BY <1>1, <1>2
  <1> HIDE DEF p
  <1>4. /\ IsSeq(PushIf(p, push, x)) /\ Len(PushIf(p, push, x)) = Len(p) + Count(push)
        /\ Holds(PushIf(p, push, x), f, k + Count(pop))
    BY <1>1, <1>3, PushHolds
  <1> QED BY <1>1, <1>4 DEF p

------------------------------------------------------------------------------
(* The registers of a streamer after a clock edge, one by one. *)
LEMMA Edge ==
  ASSUME NEW j, NEW in, s' = StreamerNext(s, j, in)
  PROVE  /\ s'.agu = AguNext(j.agu, s.agu, in.start, AguReady(s, j))
         /\ s'.isLastQ = PushIf(PopIf(s.isLastQ, DeqIsLast(s, j, in)),
                                EnqIsLast(s, j), IsLast(j.agu, s.agu.counters))
         /\ s'.bypass = PushIf(PopIf(s.bypass, in.readReady), BypassFire(s, in), in.writeVec)
         /\ \A i \in Lanes :
              /\ s'.readReqQ[i] = PushIf(PopIf(s.readReqQ[i], ReadFire(s, in, i)),
                                         EnqRead(s, j, i), Address(j.agu, s.agu.counters, i))
              /\ s'.writeReqQ[i] = PushIf(PopIf(s.writeReqQ[i], EnqData(s, j, in, i)),
                                          EnqWrite(s, j, i), Address(j.agu, s.agu.counters, i))
              /\ s'.writeDataQ[i] =
                   PushIf(PopIf(s.writeDataQ[i], WriteFire(s, in, i)),
                          EnqData(s, j, in, i),
                          [addr |-> Head(s.writeReqQ[i]), data |-> in.writeVec[i]])
              /\ s'.rspQ[i] = PushIf(PopIf(s.rspQ[i], DeqRsp(s, j, in)),
                                     EnqRsp(s, in, i), in.rsp[i].data)
              /\ s'.readPending[i] = ReadFire(s, in, i)
  <1>1. s'.agu = AguNext(j.agu, s.agu, in.start, AguReady(s, j))
    BY DEF StreamerNext
  <1>2. s'.isLastQ = PushIf(PopIf(s.isLastQ, DeqIsLast(s, j, in)),
                            EnqIsLast(s, j), IsLast(j.agu, s.agu.counters))
    BY DEF StreamerNext
  <1>3. s'.bypass = PushIf(PopIf(s.bypass, in.readReady), BypassFire(s, in), in.writeVec)
    BY DEF StreamerNext
  <1>4. ASSUME NEW i \in Lanes
        PROVE  /\ s'.readReqQ[i] = PushIf(PopIf(s.readReqQ[i], ReadFire(s, in, i)),
                                     EnqRead(s, j, i), Address(j.agu, s.agu.counters, i))
               /\ s'.writeReqQ[i] = PushIf(PopIf(s.writeReqQ[i], EnqData(s, j, in, i)),
                                     EnqWrite(s, j, i), Address(j.agu, s.agu.counters, i))
    BY DEF StreamerNext
  <1>5. ASSUME NEW i \in Lanes
        PROVE  /\ s'.rspQ[i] = PushIf(PopIf(s.rspQ[i], DeqRsp(s, j, in)),
                                      EnqRsp(s, in, i), in.rsp[i].data)
               /\ s'.readPending[i] = ReadFire(s, in, i)
    BY DEF StreamerNext
  <1>6. ASSUME NEW i \in Lanes
        PROVE  s'.writeDataQ[i] =
                 PushIf(PopIf(s.writeDataQ[i], WriteFire(s, in, i)),
                        EnqData(s, j, in, i),
                        [addr |-> Head(s.writeReqQ[i]), data |-> in.writeVec[i]])
    BY DEF StreamerNext, PushIf
  <1> QED BY <1>1, <1>2, <1>3, <1>4, <1>5, <1>6

(* The wires of a streamer that only reads *)
LEMMA ReadWires ==
  ASSUME QuietInv, job.dir = "read", NEW start \in BOOLEAN, NEW granted,
         NEW avail \in BOOLEAN, NEW in, in = Inputs(start, granted, avail)
  PROVE  /\ in.start = start /\ in.rsp = rsp /\ in.readReady = avail
         /\ \A i \in Lanes : /\ ~WriteFire(s, in, i) /\ ~EnqData(s, job, in, i)
                             /\ ~EnqWrite(s, job, i)
         /\ ~BypassFire(s, in)
         /\ FromRsp(s, job, in) <=> AllRspValid(s, job) /\ avail
         /\ Moves(in) <=> FromRsp(s, job, in)
         /\ ReadValid(s, job) <=> AllRspValid(s, job)
         /\ DeqIsLast(s, job, in) <=> FromRsp(s, job, in)
         /\ DeqRsp(s, job, in) <=> FromRsp(s, job, in) /\ LastAhead(s)
         /\ AguReady(s, job) <=> (ReadReq(s, job) => ReadQueuesReady(s))
         /\ ReadReq(s, job) <=> IsFirst(job.agu, s.agu.counters)
  <1>1. in.start = start /\ in.rsp = rsp /\ in.readReady = avail
    BY DEF Inputs
  <1>2. in.writeValid = FALSE
    BY DEF Inputs
  <1>3. s.bypass = <<>> /\ \A i \in Lanes : s.writeReqQ[i] = <<>> /\ s.writeDataQ[i] = <<>>
    BY DEF QuietInv
  <1>4. ASSUME NEW i \in Lanes PROVE ~WriteFire(s, in, i)
    <2>1. ~(1 \in Offers(s, i))
      BY <1>3 DEF Offers
    <2> QED BY <2>1, PickOffered DEF WriteFire, ReqFire
  <1>5. \A i \in Lanes : ~EnqData(s, job, in, i) /\ ~EnqWrite(s, job, i)
    BY <1>2 DEF EnqData, EnqWrite, WriteReq
  <1>6. ~BypassFire(s, in)
    BY <1>2 DEF BypassFire, BypassValid
  <1>7. FromRsp(s, job, in) <=> AllRspValid(s, job) /\ avail
    BY <1>1, <1>3 DEF FromRsp
  <1>8. ReadValid(s, job) <=> AllRspValid(s, job)
    BY <1>3 DEF ReadValid
  <1>9. Moves(in) <=> FromRsp(s, job, in)
    BY <1>1, <1>7, <1>8 DEF Moves
  <1>10. DeqIsLast(s, job, in) <=> FromRsp(s, job, in)
    BY DEF DeqIsLast
  <1>11. DeqRsp(s, job, in) <=> FromRsp(s, job, in) /\ LastAhead(s)
    BY DEF DeqRsp
  <1>12. AguReady(s, job) <=> (ReadReq(s, job) => ReadQueuesReady(s))
    BY DEF AguReady, WriteReq
  <1>13. ReadReq(s, job) <=> IsFirst(job.agu, s.agu.counters)
    BY DEF ReadReq
  <1> QED BY <1>1, <1>4, <1>5, <1>6, <1>7, <1>8, <1>9, <1>10, <1>11, <1>12, <1>13

(* The memory does not change, and answers the reads. *)
LEMMA ReadMemory ==
  ASSUME QuietInv, NEW in, MemoryEdge(in), \A i \in Lanes : ~WriteFire(s, in, i)
  PROVE  /\ mem' = mem
         /\ \A i \in Lanes : ReadFire(s, in, i) =>
              rsp'[i].valid /\ rsp'[i].data = mem[Head(s.readReqQ[i])]
  <1>1. mem' = [a \in Addrs |-> mem[a]]
    BY DEF MemoryEdge
  <1>2. ASSUME NEW i \in Lanes, ReadFire(s, in, i)
        PROVE  rsp'[i].valid /\ rsp'[i].data = mem[Head(s.readReqQ[i])]
    <2>1. ReqAddr(s, i) = Head(s.readReqQ[i]) /\ ReqFire(s, in, i)
      BY <1>2 DEF ReadFire, ReqAddr
    <2> QED BY <1>2, <2>1 DEF MemoryEdge
  <1> QED BY <1>1, <1>2 DEF QuietInv

------------------------------------------------------------------------------
(* The mask never switches off lane 0. *)
LEMMA LaneZero == 0 \in Enabled
  <1>1. \A x, y \in Nat \ {0} : (0 \div x) % y = 0
    OBVIOUS
  <1>2. \A k \in SDims : MaskIndex(0, k) = 0
    BY <1>1, SomeLane DEF MaskIndex
  <1> QED BY <1>2, SomeLane DEF Enabled, LaneEnabled

(* The numbers of the invariant *)
LEMMA ReadNumbers ==
  ASSUME ReadInv
  PROVE  /\ WellFormed(job.agu) /\ R \in Nat \ {0} /\ moved \in Nat
         /\ Len(s.isLastQ) \in Nat /\ Taken \in Nat /\ Retired \in Nat
         /\ FetchedBefore(Taken) \in Nat /\ Iterations(job.agu) \in Nat \ {0}
  <1>1. WellFormed(job.agu) /\ moved \in Nat
    BY JobsAssumption DEF ReadInv, JobInv
  <1>2. R \in Nat \ {0} /\ Iterations(job.agu) \in Nat \ {0}
    BY <1>1, ReusePositive, Below DEF R
  <1>3. Len(s.isLastQ) \in Nat /\ Taken \in Nat
    BY <1>1 DEF ReadInv, FlagsInv, IsSeq, Taken
  <1>4. Retired \in Nat
    BY <1>1, <1>2, DivisionTwice DEF Retired
  <1>5. FetchedBefore(Taken) \in Nat
    BY <1>2, <1>3, CeilDivision DEF FetchedBefore
  <1> QED BY <1>1, <1>2, <1>3, <1>4, <1>5

(* The numbers of an enabled lane *)
LEMMA LaneNumbers ==
  ASSUME ReadInv, NEW i \in Enabled
  PROVE  /\ i \in Lanes /\ LaneInv(i) /\ OnTheWay(i) \in {0, 1}
         /\ Len(s.rspQ[i]) \in Nat /\ Len(s.readReqQ[i]) \in Nat
         /\ Len(s.readReqQ[i]) <= QueueDepth
         /\ Len(s.rspQ[i]) + OnTheWay(i) <= QueueDepth
         /\ FetchedBefore(Taken) - Retired
              = Len(s.rspQ[i]) + OnTheWay(i) + Len(s.readReqQ[i])
  <1>1. i \in Lanes /\ LaneInv(i) /\ RoomKept(s.rspQ[i], s.readPending[i])
    BY DEF ReadInv, Enabled, RoomInv
  <1>2. OnTheWay(i) \in {0, 1}
    BY DEF OnTheWay
  <1>3. Len(s.rspQ[i]) \in Nat /\ Len(s.readReqQ[i]) \in Nat
    BY <1>1 DEF LaneInv, ReadLane, IsSeq
  <1>4. Len(s.readReqQ[i]) <= QueueDepth /\ Len(s.rspQ[i]) <= QueueDepth
    BY <1>1 DEF LaneInv
  <1>5. Len(s.rspQ[i]) + OnTheWay(i) <= QueueDepth
    <2>1. CASE s.readPending[i]
      BY <1>1, <1>3, <2>1, DepthAssumption DEF RoomKept, HasRoom, OnTheWay
    <2>2. CASE ~s.readPending[i]
      BY <1>3, <1>4, <2>2 DEF OnTheWay
    <2> QED BY <2>1, <2>2
  <1>6. Retired + Len(s.rspQ[i]) + OnTheWay(i) + Len(s.readReqQ[i]) = FetchedBefore(Taken)
    BY <1>1 DEF LaneInv, ReadLane
  <1>7. Retired \in Nat /\ FetchedBefore(Taken) \in Nat
    BY ReadNumbers
  <1>8. FetchedBefore(Taken) - Retired
          = Len(s.rspQ[i]) + OnTheWay(i) + Len(s.readReqQ[i])
    <2>1. \A a, b, c, d, e \in Nat : a + b + c + d = e => e - a = b + c + d
      OBVIOUS
    <2>2. OnTheWay(i) \in Nat
      BY <1>2
    <2> DEFINE a == Retired
               b == Len(s.rspQ[i])
               c == OnTheWay(i)
               d == Len(s.readReqQ[i])
               e == FetchedBefore(Taken)
    <2>3. a \in Nat /\ b \in Nat
      BY <1>3, <1>7
    <2>4. c \in Nat /\ d \in Nat 
      BY <1>3, <2>2
    <2>5. e \in Nat 
      BY <1>7
    <2>6. a + b + c + d = e
      BY <1>6
    <2> HIDE DEF a, b, c, d, e
    <2>7. e - a = b + c + d
      BY <2>3, <2>4, <2>5, <2>6
    <2> QED BY <2>7 DEF a, b, c, d, e
  <1> QED BY <1>1, <1>2, <1>3, <1>4, <1>5, <1>8

(* A vector is offered only when its address has been taken. *)
LEMMA OfferedIsTaken ==
  ASSUME ReadInv, AllRspValid(s, job)
  PROVE  moved < Taken /\ s.isLastQ # <<>>
  <1>1. 0 \in Enabled /\ 0 \in Lanes /\ LaneInv(0) /\ s.rspQ[0] # <<>>
    BY LaneZero, LaneNumbers DEF Enabled, AllRspValid
  <1>2. Len(s.rspQ[0]) \in Nat /\ Len(s.rspQ[0]) # 0
    BY <1>1 DEF LaneInv, ReadLane, IsSeq
  <1>3. /\ OnTheWay(0) \in Nat /\ Len(s.readReqQ[0]) \in Nat
        /\ FetchedBefore(Taken) - Retired
             = Len(s.rspQ[0]) + OnTheWay(0) + Len(s.readReqQ[0])
    BY <1>1, LaneNumbers
  <1>4. Retired < FetchedBefore(Taken)
    <2>1. \A a, b, c, d, e \in Nat : e - a = b + c + d /\ b # 0 => a < e
      OBVIOUS
    <2>2. Retired \in Nat /\ FetchedBefore(Taken) \in Nat
      BY ReadNumbers
    <2> QED BY <1>2, <1>3, <2>1, <2>2, Zenon
  <1>5. moved < Taken
    <2>1. CASE Taken % R = 0
      BY <1>4, <2>1, ReadNumbers, GroupLeft DEF Retired, FetchedBefore
    <2>2. CASE Taken % R # 0
      BY <2>2 DEF ReadInv, AguInv, AtIteration
    <2> QED BY <2>1, <2>2
  <1>6. Len(s.isLastQ) # 0
    BY <1>5, ReadNumbers DEF Taken
  <1> QED BY <1>5, <1>6

(* isLastQueue has room whenever the generator moves on. *)
LEMMA FlagsHaveRoom ==
  ASSUME ReadInv, OnlyReads, AguFire(s, job)
  PROVE  EnqIsLast(s, job)
  <1>1. /\ FlagsFit(job) /\ job.dir = "read" /\ s.agu.busy /\ Taken < Iterations(job.agu)
        /\ s.agu.counters = Digits(job.agu, Taken)
    BY DEF OnlyReads, ReadInv, JobInv, AguFire, AguInv, AtIteration
  <1>2. Len(s.isLastQ) = Taken - moved
    BY ReadNumbers DEF Taken
  <1>3. CASE Iterations(job.agu) <= IsLastDepth
    BY <1>1, <1>2, <1>3, ReadNumbers, DepthAssumption DEF EnqIsLast
  <1>4. CASE 2 * QueueDepth * Reuse(job.agu) <= IsLastDepth
    <2>1. /\ 0 \in Lanes /\ Len(s.rspQ[0]) \in Nat /\ Len(s.readReqQ[0]) \in Nat
          /\ Len(s.readReqQ[0]) <= QueueDepth /\ OnTheWay(0) \in Nat
          /\ Len(s.rspQ[0]) + OnTheWay(0) <= QueueDepth
          /\ FetchedBefore(Taken) - Retired
               = Len(s.rspQ[0]) + OnTheWay(0) + Len(s.readReqQ[0])
      BY LaneZero, LaneNumbers
    <2>2. Taken % R = 0 => Len(s.readReqQ[0]) < QueueDepth
      <3> SUFFICES ASSUME Taken % R = 0 PROVE HasRoom(s.readReqQ[0])
        BY DEF HasRoom
      <3>1. IsFirst(job.agu, s.agu.counters)
        BY <1>1, ElementFlags, ReadNumbers DEF R
      <3> QED BY <1>1, <2>1, <3>1 DEF AguFire, AguReady, ReadReq, ReadQueuesReady
    <2> DEFINE n == 2 * QueueDepth
    <2>3. /\ CeilDiv(Taken, R) - (moved \div R) + (IF Taken % R = 0 THEN 1 ELSE 0) <= n
          /\ n \in Nat
      BY SMTT(20), <2>1, <2>2, DepthAssumption DEF FetchedBefore, Retired
    <2> HIDE DEF n
    <2>4. Taken - moved < n * R
      BY <2>3, ReadNumbers, Outstanding
    <2> QED BY <1>1, <1>2, <1>4, <2>3, <2>4, ReadNumbers, DepthAssumption DEF n, R, EnqIsLast
  <1> QED BY <1>1, <1>3, <1>4 DEF FlagsFit

(* The flag at the head of isLastQueue is that of the vector being moved. *)
LEMMA HeadFlag ==
  ASSUME FlagsInv, moved \in Nat, R \in Nat \ {0}, s.isLastQ # <<>>
  PROVE  LastAhead(s) <=> (moved + 1) % R = 0
  <1>1. /\ Len(s.isLastQ) \in Nat /\ Len(s.isLastQ) # 0
        /\ Head(s.isLastQ) = s.isLastQ[1]
    BY DEF FlagsInv, IsSeq
  <1>2. s.isLastQ[1] = LastUse[moved]
    <2>1. 1 \in 1 .. Len(s.isLastQ) /\ moved + 1 - 1 = moved
      BY <1>1
    <2> QED BY <2>1 DEF FlagsInv, Holds
  <1>3. LastUse[moved] = ((moved + 1) % R = 0)
    BY DEF LastUse
  <1> QED BY <1>1, <1>2, <1>3 DEF LastAhead

(* A clock edge keeps isLastQueue right, when no flag is lost. *)
LEMMA FlagsStep ==
  ASSUME FlagsInv, moved \in Nat, R \in Nat \ {0}, WellFormed(job.agu),
         AtIteration(job.agu, s.agu, jobs > 0, Taken),
         NEW in, s' = StreamerNext(s, job, in), job' = job,
         DeqIsLast(s, job, in) => s.isLastQ # <<>>,
         moved' = moved + Count(DeqIsLast(s, job, in)),
         AguFire(s, job) => EnqIsLast(s, job)
  PROVE  FlagsInv' /\ Taken' = Taken + Count(AguFire(s, job))
  <1> DEFINE pop == DeqIsLast(s, job, in)
             push == EnqIsLast(s, job)
             x == IsLast(job.agu, s.agu.counters)
             a == Count(pop)
             b == Count(push)
             l == Len(s.isLastQ)
             l2 == Len(s'.isLastQ)
  <1>1. IsSeq(s.isLastQ) /\ Holds(s.isLastQ, LastUse, moved) /\ l \in Nat /\ Taken \in Nat
    BY DEF FlagsInv, IsSeq, Taken
  <1>2. LastUse' = LastUse
    BY DEF R, LastUse
  <1>3. push <=> AguFire(s, job)
    BY DEF EnqIsLast
  <1>4. s'.isLastQ = PushIf(PopIf(s.isLastQ, pop), push, x)
    BY Edge
  <1>5. push => x = LastUse[moved + Len(s.isLastQ)]
    <2> SUFFICES ASSUME push PROVE x = LastUse[Taken]
      BY DEF Taken
    <2>1. s.agu.counters = Digits(job.agu, Taken)
      BY DEF AtIteration, EnqIsLast, AguFire
    <2>2. x <=> (Taken + 1) % R = 0
      BY <1>1, <2>1, ElementFlags DEF R
    <2>3. LastUse[Taken] = ((Taken + 1) % R = 0)
      BY <1>1 DEF LastUse
    <2>4. x \in BOOLEAN
      BY DEF IsLast, AtBound
    <2> QED BY <2>2, <2>3, <2>4
  <1>6. (pop => s.isLastQ # <<>>) /\ moved' = moved + a
    OBVIOUS
  <1> HIDE DEF pop, push, x
  <1>7. /\ IsSeq(s'.isLastQ) /\ l2 = l - a + b
        /\ Holds(s'.isLastQ, LastUse, moved + a)
    BY <1>1, <1>4, <1>5, <1>6, QueueStep
  <1>8. FlagsInv'
    BY <1>2, <1>6, <1>7 DEF FlagsInv
  <1>9. Taken' = Taken + b
    <2>1. a \in Nat /\ b \in Nat
      BY DEF Count
    <2>2. Taken' = moved' + l2 /\ Taken = moved + l
      BY DEF Taken
    <2> HIDE DEF a, b, l, l2
    <2> QED BY <1>1, <1>6, <1>7, <2>1, <2>2
  <1>10. b = Count(AguFire(s, job))
    BY <1>3 DEF Count
  <1> QED BY <1>8, <1>9, <1>10

(* A lane: an answer that is on its way arrives, a read goes out, a word    *)
(* leaves, an address comes.  Memory answers with the word of before the    *)
(* job.                                                                     *)
LEMMA ReadLaneStep ==
  ASSUME NEW in, s' = StreamerNext(s, job, in), in.rsp = rsp, job' = job, mem0' = mem0,
         NEW i \in Lanes, NEW e \in Nat, ReadLane(i, e),
         RoomKept(s.rspQ[i], s.readPending[i]),
         WellFormed(job.agu), R \in Nat \ {0}, Taken \in Nat,
         AtIteration(job.agu, s.agu, jobs > 0, Taken),
         Taken' = Taken + Count(AguFire(s, job)),
         EnqRead(s, job, i) <=> AguFire(s, job) /\ Taken % R = 0,
         DeqRsp(s, job, in) => s.rspQ[i] # <<>>,
         ReadFire(s, in, i) =>
           rsp'[i].valid /\ rsp'[i].data = mem0[Head(s.readReqQ[i])],
         NEW e2, e2 = e + Count(DeqRsp(s, job, in))
  PROVE  /\ ReadLane(i, e2)'
         /\ Len(s'.rspQ[i]) = Len(s.rspQ[i]) - Count(DeqRsp(s, job, in)) + OnTheWay(i)
         /\ Len(s'.readReqQ[i])
              = Len(s.readReqQ[i]) - Count(ReadFire(s, in, i)) + Count(EnqRead(s, job, i))
         /\ OnTheWay(i)' = Count(ReadFire(s, in, i))
  <1> DEFINE out    == ReadFire(s, in, i)
             come   == EnqRead(s, job, i)
             answer == EnqRsp(s, in, i)
             leave  == DeqRsp(s, job, in)
             words  == ElementWord(i)
             addrs  == ElementAddr(i)
             r      == Len(s.rspQ[i])
             p      == OnTheWay(i)
             a      == Len(s.readReqQ[i])
             f      == FetchedBefore(Taken)
  <1>1. /\ IsSeq(s.rspQ[i]) /\ IsSeq(s.readReqQ[i]) /\ r \in Nat /\ a \in Nat
        /\ p \in {0, 1} /\ p \in Nat /\ f \in Nat
    <2>1. p \in {0, 1}
      BY DEF OnTheWay
    <2>2. p \in Nat
      BY <2>1
    <2>3. f \in Nat
      BY CeilDivision DEF FetchedBefore
    <2> QED BY <2>1, <2>2, <2>3 DEF ReadLane, IsSeq
  <1> DEFINE x == Address(job.agu, s.agu.counters, i)
  <1>2. s'.readReqQ[i] = PushIf(PopIf(s.readReqQ[i], out), come, x)
    BY DEF StreamerNext
  <1>3. s'.rspQ[i] = PushIf(PopIf(s.rspQ[i], leave), answer, rsp[i].data)
    <2>1. s'.rspQ[i] = PushIf(PopIf(s.rspQ[i], leave), answer, in.rsp[i].data)
      BY DEF StreamerNext
    <2> HIDE DEF leave, answer
    <2> QED BY <2>1
  <1>4. s'.readPending[i] = out
    BY Edge
  <1>5. R' = R /\ words' = words /\ addrs' = addrs
    BY DEF ElementWord, ElementAddr, R
  <1>6. answer <=> s.readPending[i]
    BY DEF EnqRsp, RoomKept, ReadLane
  <1>7. Count(answer) = p
    BY <1>6 DEF Count, OnTheWay
  <1>8. OnTheWay(i)' = Count(out)
    BY <1>4 DEF OnTheWay, Count
  (* the answers *)
  <1>9. /\ IsSeq(s'.rspQ[i]) /\ Len(s'.rspQ[i]) = r - Count(leave) + p
        /\ Holds(s'.rspQ[i], words, e + Count(leave))
    <2>1. leave => s.rspQ[i] # <<>>
      OBVIOUS
    <2>2. answer => rsp[i].data = words[e + Len(s.rspQ[i])]
      BY <1>6 DEF ReadLane
    <2>3. IsSeq(s.rspQ[i]) /\ Holds(s.rspQ[i], words, e)
      BY DEF ReadLane
    <2> DEFINE q == PushIf(PopIf(s.rspQ[i], leave), answer, rsp[i].data)
    <2> HIDE DEF leave, answer, words
    <2>4. /\ IsSeq(q) /\ Len(q) = Len(s.rspQ[i]) - Count(leave) + Count(answer)
          /\ Holds(q, words, e + Count(leave))
      BY <2>1, <2>2, <2>3, QueueStep
    <2> QED BY <1>3, <1>7, <2>4
  (* the addresses *)
  <1> DEFINE k == e + r + p
  <1>10. k \in Nat /\ k + a = f
    <2>1. k + a = f
      BY DEF ReadLane
    <2>2. \A b, c, d \in Nat : b + c + d \in Nat
      OBVIOUS
    <2> HIDE DEF r, p, a, f
    <2> QED BY <1>1, <2>1, <2>2
  <1>11. come => x = addrs[k + a]
    <2> SUFFICES ASSUME come PROVE x = addrs[f]
      BY <1>10
    <2>1. s.agu.counters = Digits(job.agu, Taken) /\ Taken % R = 0
      BY DEF AtIteration, AguFire
    <2>2. Taken = R * f
      BY <2>1, CeilDivision DEF FetchedBefore
    <2>3. addrs[f] = IterAddress(job.agu, R * f, i)
      BY <1>1 DEF ElementAddr
    <2> QED BY <2>1, <2>2, <2>3 DEF IterAddress
  <1>12. /\ IsSeq(s'.readReqQ[i]) /\ Len(s'.readReqQ[i]) = a - Count(out) + Count(come)
         /\ Holds(s'.readReqQ[i], addrs, k + Count(out))
    <2>1. out => s.readReqQ[i] # <<>>
      BY Granted
    <2>2. IsSeq(s.readReqQ[i]) /\ Holds(s.readReqQ[i], addrs, k)
      BY DEF ReadLane
    <2> HIDE DEF out, come, addrs, k, x
    <2> QED BY <1>2, <1>10, <1>11, <2>1, <2>2, QueueStep
  (* the read that goes out *)
  <1>13. out => rsp'[i].valid /\ rsp'[i].data = words[k]
    <2> SUFFICES ASSUME out PROVE rsp'[i].valid /\ rsp'[i].data = words[k]
      OBVIOUS
    <2>1. s.readReqQ[i] # <<>> /\ IsSeq(s.readReqQ[i]) /\ Holds(s.readReqQ[i], addrs, k)
      BY Granted DEF ReadLane
    <2>2. Head(s.readReqQ[i]) = addrs[k]
      <3> HIDE DEF addrs, k
      <3>1. 1 \in 1 .. Len(s.readReqQ[i]) /\ Head(s.readReqQ[i]) = s.readReqQ[i][1]
        BY <2>1 DEF IsSeq
      <3>2. k + 1 - 1 = k
        BY <1>10
      <3> QED BY <2>1, <3>1, <3>2 DEF Holds
    <2>3. words[k] = mem0[addrs[k]]
      BY <1>10 DEF ElementWord, ElementAddr
    <2> QED BY <2>2, <2>3
  (* together *)
  <1>14. FetchedBefore(Taken)' = f + Count(come)
    <2>1. FetchedBefore(Taken)' = CeilDiv(Taken', R)
      BY <1>5 DEF FetchedBefore
    <2>2. CeilDiv(Taken + 1, R) = IF Taken % R = 0 THEN CeilDiv(Taken, R) + 1
                                  ELSE CeilDiv(Taken, R)
      BY CeilDivision
    <2>3. CASE AguFire(s, job)
      <3>1. Taken' = Taken + 1 /\ (come <=> Taken % R = 0)
        BY <2>3 DEF Count
      <3> HIDE DEF come
      <3> QED BY <1>1, <2>1, <2>2, <3>1 DEF Count, FetchedBefore
    <2>4. CASE ~AguFire(s, job)
      <3>1. Taken' = Taken /\ ~come
        BY <2>4 DEF Count
      <3> HIDE DEF come
      <3> QED BY <1>1, <2>1, <3>1 DEF Count, FetchedBefore
    <2> QED BY <2>3, <2>4
  <1> DEFINE lv == Count(leave)
             ou == Count(out)
             co == Count(come)
             r2 == Len(s'.rspQ[i])
             a2 == Len(s'.readReqQ[i])
  <1>15. e2 + r2 = k /\ e2 + r2 + ou + a2 = f + co
    <2>1. lv \in Nat /\ ou \in Nat /\ co \in Nat
      BY DEF Count
    <2>2. r2 = r - lv + p /\ a2 = a - ou + co /\ k + a = f /\ e2 = e + lv /\ k = e + r + p
      BY <1>9, <1>10, <1>12
    <2> HIDE DEF r, p, a, f, lv, ou, co, r2, a2, k
    <2> QED BY SMTT(20), <1>1, <1>10, <2>1, <2>2
  <1>16. s'.readPending[i] => rsp'[i].valid /\ rsp'[i].data = words[e2 + r2]
    BY <1>4, <1>13, <1>15
  <1>17. Holds(s'.readReqQ[i], addrs, e2 + r2 + OnTheWay(i)')
    BY <1>8, <1>12, <1>15
  <1>18. Holds(s'.rspQ[i], words, e2)
    BY <1>9
  <1>19. e2 + r2 + OnTheWay(i)' + a2 = FetchedBefore(Taken)'
    BY <1>8, <1>14, <1>15
  <1> HIDE DEF words, addrs
  <1>20. ReadLane(i, e2)'
    BY <1>5, <1>9, <1>12, <1>16, <1>17, <1>18, <1>19 DEF ReadLane, words, addrs
  <1> QED BY <1>8, <1>9, <1>12, <1>20

------------------------------------------------------------------------------
(* A cycle of a streamer that only reads *)
ReadCycle(in, granted, avail) ==
  /\ ReadInv /\ OnlyReads /\ avail \in BOOLEAN
  /\ in = Inputs(FALSE, granted, avail)
  /\ s' = StreamerNext(s, job, in) /\ MemoryEdge(in)
  /\ moved' = IF Moves(in) THEN moved + 1 ELSE moved
  /\ UNCHANGED <<pool, job, jobs, mem0>>

(* The wires of a reading streamer: nothing is written or bypassed. *)
LEMMA CycleWires ==
  ASSUME NEW in, NEW granted, NEW avail, ReadCycle(in, granted, avail)
  PROVE  /\ in.start = FALSE /\ in.rsp = rsp
         /\ \A i \in Lanes : /\ ~WriteFire(s, in, i) /\ ~EnqData(s, job, in, i)
                             /\ ~EnqWrite(s, job, i)
         /\ ~BypassFire(s, in)
         /\ FromRsp(s, job, in) => AllRspValid(s, job)
         /\ Moves(in) <=> FromRsp(s, job, in)
         /\ DeqIsLast(s, job, in) <=> FromRsp(s, job, in)
         /\ DeqRsp(s, job, in) <=> FromRsp(s, job, in) /\ LastAhead(s)
         /\ AguReady(s, job) <=> (ReadReq(s, job) => ReadQueuesReady(s))
         /\ ReadReq(s, job) <=> IsFirst(job.agu, s.agu.counters)
         /\ job \in pool /\ job.dir = "read" /\ QuietInv
         /\ UNCHANGED <<pool, job, jobs, mem0>>
  <1>1. /\ QuietInv /\ job.dir = "read" /\ avail \in BOOLEAN /\ FALSE \in BOOLEAN
        /\ in = Inputs(FALSE, granted, avail) /\ job \in pool
        /\ UNCHANGED <<pool, job, jobs, mem0>>
    BY DEF ReadCycle, ReadInv, JobInv, OnlyReads
  <1> QED BY <1>1, ReadWires

(* Vectors moved, addresses taken and elements retired go on together. *)
LEMMA CycleCounts ==
  ASSUME NEW in, NEW granted, NEW avail, ReadCycle(in, granted, avail)
  PROVE  /\ moved' = moved + Count(FromRsp(s, job, in))
         /\ Taken' = Taken + Count(AguFire(s, job))
         /\ FlagsInv'
         /\ Retired' = Retired + Count(DeqRsp(s, job, in))
         /\ R' = R
  <1> DEFINE from == FromRsp(s, job, in)
             fire == AguFire(s, job)
  <1>1. ReadInv /\ OnlyReads /\ s' = StreamerNext(s, job, in) /\ job' = job
    BY DEF ReadCycle
  <1>2. moved' = moved + Count(from)
    <2>1. moved' = IF Moves(in) THEN moved + 1 ELSE moved
      BY DEF ReadCycle
    <2>2. moved \in Nat /\ (Moves(in) <=> from)
      BY <1>1, CycleWires, ReadNumbers
    <2> HIDE DEF from
    <2> QED BY <2>1, <2>2 DEF Count
  <1>3. R' = R /\ LastUse' = LastUse
    BY <1>1 DEF R, LastUse
  <1>12. FlagsInv' /\ Taken' = Taken + Count(fire)
    <2>1. DeqIsLast(s, job, in) <=> from
      BY CycleWires
    <2>2. DeqIsLast(s, job, in) => s.isLastQ # <<>>
      BY <1>1, CycleWires, OfferedIsTaken
    <2>3. moved' = moved + Count(DeqIsLast(s, job, in))
      BY <1>2, <2>1 DEF Count
    <2>4. fire => EnqIsLast(s, job)
      BY <1>1, FlagsHaveRoom
    <2>5. /\ FlagsInv /\ moved \in Nat /\ R \in Nat \ {0} /\ WellFormed(job.agu)
          /\ AtIteration(job.agu, s.agu, jobs > 0, Taken)
      BY <1>1, ReadNumbers DEF ReadInv, AguInv
    <2> QED BY <1>1, <2>2, <2>3, <2>4, <2>5, FlagsStep
  <1>13. Retired' = Retired + Count(DeqRsp(s, job, in))
    <2>1. /\ (moved + 1) % R = IF moved % R = R - 1 THEN 0 ELSE (moved % R) + 1
          /\ (moved + 1) \div R = IF moved % R = R - 1 THEN (moved \div R) + 1 ELSE moved \div R
          /\ moved % R \in 0 .. R - 1 /\ moved \div R \in Nat
      BY <1>1, ReadNumbers, NextNumber, Division DEF Retired
    <2>2. Retired' = moved' \div R
      BY <1>3 DEF Retired
    <2>3. CASE from
      <3>1. DeqRsp(s, job, in) <=> (moved + 1) % R = 0
        BY <1>1, <2>3, CycleWires, OfferedIsTaken, HeadFlag, ReadNumbers DEF ReadInv
      <3> QED BY SMTT(20), <1>1, <1>2, <2>1, <2>2, <2>3, <3>1, ReadNumbers DEF Count, Retired
    <2>4. CASE ~from
      <3>1. ~DeqRsp(s, job, in)
        BY <2>4, CycleWires
      <3>2. moved' = moved
        <4>1. moved \in Nat
          BY <1>1, ReadNumbers
        <4> HIDE DEF from
        <4> QED BY <1>2, <2>4, <4>1 DEF Count
      <3> QED BY <1>1, <2>2, <3>1, <3>2, ReadNumbers DEF Count, Retired
    <2> QED BY <2>3, <2>4
  <1> QED BY <1>2, <1>3, <1>12, <1>13

(* The generator, the quiet parts and each lane after the cycle *)
LEMMA CycleAgu ==
  ASSUME NEW in, NEW granted, NEW avail, ReadCycle(in, granted, avail)
  PROVE  AguInv'
  <1> DEFINE fire == AguFire(s, job)
             from == FromRsp(s, job, in)
             c == job.agu
  <1>1. /\ ReadInv /\ OnlyReads /\ s' = StreamerNext(s, job, in) /\ job' = job /\ jobs' = jobs
        /\ s'.agu = AguNext(c, s.agu, FALSE, AguReady(s, job)) /\ AguInv
    <2>1. s'.agu = AguNext(c, s.agu, in.start, AguReady(s, job)) /\ in.start = FALSE
      BY CycleWires, Edge DEF ReadCycle
    <2> QED BY <2>1 DEF ReadCycle, ReadInv
  <1>2. Taken' = Taken + Count(fire) /\ R' = R /\ moved' = moved + Count(from)
    BY CycleCounts
  <1>3. /\ Taken \in Nat /\ WellFormed(c) /\ R \in Nat \ {0} /\ moved \in Nat
        /\ Iterations(c) \in Nat \ {0} /\ Len(s.isLastQ) \in Nat
    BY <1>1, ReadNumbers
  <1>4. AtIteration(c, s'.agu, jobs > 0, Taken')
    <2>1. AtIteration(c, s'.agu, jobs > 0,
                      IF s.agu.busy /\ AguReady(s, job) THEN Taken + 1 ELSE Taken)
      BY <1>1, <1>3, GeneratorStep DEF AguInv
    <2>2. Taken' = IF s.agu.busy /\ AguReady(s, job) THEN Taken + 1 ELSE Taken
      BY <1>2, <1>3 DEF AguFire, Count
    <2> QED BY <2>1, <2>2
  <1>5. Taken' % R # 0 => Taken' > moved'
    <2> SUFFICES ASSUME Taken' % R # 0 PROVE Taken' > moved'
      OBVIOUS
    <2>1. moved <= Taken
      BY <1>3 DEF Taken
    <2>2. CASE fire
      <3>1. Taken' = Taken + 1
        BY <1>2, <2>2 DEF Count
      <3>2. from => moved < Taken
        BY <1>1, CycleWires, OfferedIsTaken
      <3>3. CASE from
        <4>1. moved' = moved + 1
          BY <1>2, <3>3 DEF Count
        <4> QED BY <1>3, <3>1, <3>2, <3>3, <4>1
      <3>4. CASE ~from
        <4>1. moved' = moved
          BY <1>2, <1>3, <3>4 DEF Count
        <4> QED BY <1>3, <2>1, <3>1, <4>1
      <3> QED BY <3>3, <3>4
    <2>3. CASE ~fire
      <3>1. Taken' = Taken
        BY <1>2, <1>3, <2>3 DEF Count
      <3>2. ~s.agu.busy
        <4> SUFFICES ASSUME s.agu.busy PROVE FALSE
          OBVIOUS
        <4>1. IsFirst(c, s.agu.counters)
          BY <2>3, CycleWires DEF AguFire
        <4>2. s.agu.counters = Digits(c, Taken)
          BY <1>1 DEF AguInv, AtIteration
        <4>3. Taken % R = 0
          BY <1>3, <4>1, <4>2, ElementFlags DEF R
        <4> QED BY <3>1, <4>3
      <3>3. Taken = 0 \/ Taken = Iterations(c)
        BY <1>1, <3>2 DEF AguInv, AtIteration
      <3>4. 0 % R = 0 /\ Iterations(c) % R = 0
        BY <1>3, EndsWithElement DEF R
      <3> QED BY <3>1, <3>3, <3>4
    <2> QED BY <2>2, <2>3
  <1> QED BY <1>1, <1>2, <1>4, <1>5 DEF AguInv, AtIteration

LEMMA CycleQuiet ==
  ASSUME NEW in, NEW granted, NEW avail, ReadCycle(in, granted, avail)
  PROVE  QuietInv' /\ mem' = mem
  <1>1. QuietInv /\ s' = StreamerNext(s, job, in) /\ MemoryEdge(in) /\ mem0' = mem0
    BY DEF ReadCycle, ReadInv
  <1>2. mem' = mem
    BY <1>1, CycleWires, ReadMemory
  <1>3. ASSUME NEW i \in Lanes
        PROVE  s'.writeReqQ[i] = <<>> /\ s'.writeDataQ[i] = <<>>
    <2>1. /\ s.writeReqQ[i] = <<>> /\ s.writeDataQ[i] = <<>>
          /\ ~EnqData(s, job, in, i) /\ ~EnqWrite(s, job, i)
      BY <1>1, CycleWires DEF QuietInv
    <2> QED BY <1>1, <2>1, Edge DEF PushIf, PopIf
  <1>4. s'.bypass = <<>>
    <2>1. s.bypass = <<>> /\ ~BypassFire(s, in)
      BY <1>1, CycleWires DEF QuietInv
    <2> QED BY <1>1, <2>1, Edge DEF PushIf, PopIf
  <1> QED BY <1>1, <1>2, <1>3, <1>4 DEF QuietInv

LEMMA CycleLane ==
  ASSUME NEW in, NEW granted, NEW avail, ReadCycle(in, granted, avail), NEW i \in Enabled
  PROVE  LaneInv(i)'
  <1> DEFINE out    == ReadFire(s, in, i)
             come   == EnqRead(s, job, i)
             leave  == DeqRsp(s, job, in)
  <1>1. /\ ReadInv /\ OnlyReads /\ s' = StreamerNext(s, job, in) /\ MemoryEdge(in)
        /\ job' = job /\ mem0' = mem0 /\ in.rsp = rsp
    BY DEF ReadCycle, Inputs
  <1>2. /\ i \in Lanes /\ LaneInv(i) /\ ReadLane(i, Retired)
        /\ RoomKept(s.rspQ[i], s.readPending[i])
    BY <1>1, LaneNumbers DEF ReadInv, RoomInv, LaneInv
  <1>3. /\ WellFormed(job.agu) /\ R \in Nat \ {0} /\ Taken \in Nat /\ Retired \in Nat
        /\ AtIteration(job.agu, s.agu, jobs > 0, Taken)
    BY <1>1, ReadNumbers DEF ReadInv, AguInv
  <1>4. /\ Taken' = Taken + Count(AguFire(s, job))
        /\ Retired' = Retired + Count(leave)
    BY CycleCounts
  <1>5. come <=> AguFire(s, job) /\ Taken % R = 0
    <2>1. AguFire(s, job) => s.agu.counters = Digits(job.agu, Taken)
      BY <1>3 DEF AtIteration, AguFire
    <2>2. AguFire(s, job) => (ReadReq(s, job) <=> Taken % R = 0)
      BY <1>3, <2>1, CycleWires, ElementFlags DEF R
    <2> QED BY <2>2 DEF EnqRead, Enabled
  <1>6. leave => s.rspQ[i] # <<>>
    BY <1>2, CycleWires DEF AllRspValid, Enabled
  <1>7. out => rsp'[i].valid /\ rsp'[i].data = mem0[Head(s.readReqQ[i])]
    BY <1>1, <1>2, CycleWires, ReadMemory DEF QuietInv
  <1>8. /\ ReadLane(i, Retired)'
        /\ Len(s'.rspQ[i]) = Len(s.rspQ[i]) - Count(leave) + OnTheWay(i)
        /\ Len(s'.readReqQ[i]) = Len(s.readReqQ[i]) - Count(out) + Count(come)
    <2>1. PICK e2 : e2 = Retired'
      OBVIOUS
    <2>2. e2 = Retired + Count(leave)
      BY <1>4, <2>1
    <2> HIDE DEF leave, out, come
    <2>3. /\ ReadLane(i, e2)'
          /\ Len(s'.rspQ[i]) = Len(s.rspQ[i]) - Count(leave) + OnTheWay(i)
          /\ Len(s'.readReqQ[i]) = Len(s.readReqQ[i]) - Count(out) + Count(come)
      BY <1>1, <1>2, <1>3, <1>4, <1>5, <1>6, <1>7, <2>2, ReadLaneStep DEF leave, out, come
    <2>4. ReadLane(i, Retired)'
      BY <2>1, <2>3 DEF ReadLane
    <2> QED BY <2>3, <2>4
  <1> DEFINE lv == Count(leave)
             ou == Count(out)
             co == Count(come)
             r  == Len(s.rspQ[i])
             a  == Len(s.readReqQ[i])
             p  == OnTheWay(i)
             r2 == Len(s'.rspQ[i])
             a2 == Len(s'.readReqQ[i])
  <1>9. /\ r \in Nat /\ a \in Nat /\ a <= QueueDepth /\ r + p <= QueueDepth /\ p \in {0, 1}
        /\ lv \in {0, 1} /\ ou \in {0, 1} /\ co \in {0, 1}
    BY <1>1, LaneNumbers DEF Count
  <1>10. r2 = r - lv + p /\ a2 = a - ou + co
    BY <1>8
  <1>11. co = 1 => a < QueueDepth
    <2> SUFFICES ASSUME come PROVE HasRoom(s.readReqQ[i])
      BY DEF HasRoom, Count
    <2>1. AguFire(s, job) /\ ReadReq(s, job)
      BY DEF EnqRead
    <2> QED BY <1>2, <2>1 DEF AguFire, AguReady, ReadQueuesReady
  <1> HIDE DEF lv, ou, co, r, a, p, r2, a2
  <1>12. r2 <= QueueDepth /\ a2 <= QueueDepth
    BY <1>9, <1>10, <1>11, DepthAssumption
  <1> QED BY <1>8, <1>12 DEF LaneInv, r2, a2

(* A disabled lane stays empty. *)
LEMMA CycleUnused ==
  ASSUME NEW in, NEW granted, NEW avail, ReadCycle(in, granted, avail),
         NEW i \in Lanes \ Enabled
  PROVE  UnusedLane(i)'
  <1>1. s' = StreamerNext(s, job, in) /\ UnusedLane(i)
    BY DEF ReadCycle, ReadInv
  <1>2. ~EnqRead(s, job, i)
    BY DEF Enabled, EnqRead
  <1>3. ~ReadFire(s, in, i)
    BY <1>1, Granted DEF UnusedLane
  <1>4. ~EnqRsp(s, in, i)
    BY <1>1 DEF UnusedLane, EnqRsp
  <1>5. s'.readReqQ[i] = <<>>
    BY <1>1, <1>2, <1>3, Edge DEF UnusedLane, PopIf, PushIf
  <1>7. ~s'.readPending[i]
    BY <1>1, <1>3, Edge
  <1>6. s'.rspQ[i] = <<>>
    <2>1. s'.rspQ[i] = PushIf(PopIf(s.rspQ[i], DeqRsp(s, job, in)),
                              EnqRsp(s, in, i), in.rsp[i].data)
      BY <1>1 DEF StreamerNext
    <2> QED BY <1>1, <1>4, <2>1 DEF UnusedLane, PopIf, PushIf
  <1> QED BY <1>5, <1>6, <1>7 DEF UnusedLane

(* A cycle keeps the invariant. *)
LEMMA CycleKeeps ==
  ASSUME NEW in, NEW granted, NEW avail, ReadCycle(in, granted, avail)
  PROVE  ReadInv'
  <1>1. ReadInv /\ s' = StreamerNext(s, job, in) /\ UNCHANGED <<pool, job, jobs, mem0>>
    BY DEF ReadCycle
  <1>2. Enabled' = Enabled
    BY <1>1 DEF Enabled
  <1>3. JobInv'
    <2>1. moved' = IF Moves(in) THEN moved + 1 ELSE moved
      BY DEF ReadCycle
    <2> QED BY <1>1, <2>1 DEF JobInv, ReadInv
  <1>4. AguInv' /\ QuietInv'
    BY CycleAgu, CycleQuiet
  <1>5. FlagsInv'
    BY CycleCounts
  <1>6. RoomInv'
    BY <1>1, EdgeInv DEF ReadInv
  <1>7. ASSUME NEW i \in Lanes
        PROVE  IF i \in Enabled' THEN LaneInv(i)' ELSE UnusedLane(i)'
    <2>1. CASE i \in Enabled
      BY <1>2, <2>1, CycleLane
    <2>2. CASE i \notin Enabled
      BY <1>2, <2>2, CycleUnused
    <2> QED BY <2>1, <2>2
  <1> QED BY <1>3, <1>4, <1>5, <1>6, <1>7 DEF ReadInv

------------------------------------------------------------------------------
(* A reading streamer that has handed out every vector of its job, or has   *)
(* no job yet: its queues are empty, the generator has been through the     *)
(* whole nest.                                                              *)
LEMMA Rest ==
  ASSUME ReadInv, jobs = 0 \/ moved = Iterations(job.agu)
  PROVE  /\ Taken = moved /\ s.isLastQ = <<>> /\ ~s.agu.busy
         /\ \A i \in Lanes : UnusedLane(i)
  <1>2. /\ moved \in Nat /\ R \in Nat \ {0} /\ Len(s.isLastQ) \in Nat
        /\ Iterations(job.agu) \in Nat \ {0} /\ WellFormed(job.agu)
    BY ReadNumbers
  <1>0. /\ Taken = moved + Len(s.isLastQ) /\ jobs \in Nat
        /\ AtIteration(job.agu, s.agu, jobs > 0, Taken)
    BY DEF ReadInv, AguInv, JobInv, Taken
  <1>1. ~s.agu.busy
    <2> SUFFICES ASSUME s.agu.busy PROVE FALSE
      OBVIOUS
    <2>1. jobs > 0 /\ Taken < Iterations(job.agu)
      BY <1>0 DEF AtIteration
    <2> QED BY <1>0, <1>2, <2>1
  <1>3. Taken = (IF jobs = 0 THEN 0 ELSE Iterations(job.agu)) /\ Taken = moved + Len(s.isLastQ)
    BY <1>0, <1>1 DEF AtIteration
  <1>4. Taken = moved /\ Len(s.isLastQ) = 0
    BY <1>2, <1>3
  <1>5. s.isLastQ = <<>>
    BY <1>4 DEF ReadInv, FlagsInv, IsSeq
  <1>6. Taken % R = 0
    <2>1. 0 % R = 0 /\ Iterations(job.agu) % R = 0
      BY <1>2, EndsWithElement DEF R
    <2> QED BY <1>3, <2>1
  <1>7. FetchedBefore(Taken) = Retired
    BY <1>2, <1>4, <1>6, CeilDivision DEF FetchedBefore, Retired
  <1>8. ASSUME NEW i \in Lanes PROVE UnusedLane(i)
    <2>1. CASE i \notin Enabled
      BY <2>1 DEF ReadInv
    <2>2. CASE i \in Enabled
      <3>1. /\ Len(s.rspQ[i]) \in Nat /\ Len(s.readReqQ[i]) \in Nat
            /\ OnTheWay(i) \in {0, 1}
            /\ FetchedBefore(Taken) - Retired
                 = Len(s.rspQ[i]) + OnTheWay(i) + Len(s.readReqQ[i])
            /\ IsSeq(s.rspQ[i]) /\ IsSeq(s.readReqQ[i])
        BY <2>2, LaneNumbers DEF LaneInv, ReadLane
      <3>2. FetchedBefore(Taken) - Retired = 0
        BY <1>7, ReadNumbers
      <3>3. Len(s.rspQ[i]) = 0 /\ Len(s.readReqQ[i]) = 0 /\ OnTheWay(i) = 0
        <4>1. \A x, y, z \in Nat : x + y + z = 0 => x = 0 /\ y = 0 /\ z = 0
          OBVIOUS
        <4>2. OnTheWay(i) \in Nat
          BY <3>1
        <4>3. Len(s.rspQ[i]) + OnTheWay(i) + Len(s.readReqQ[i]) = 0
          BY <3>1, <3>2, Zenon
        <4> QED BY <3>1, <4>1, <4>2, <4>3, Zenon
      <3> QED BY <3>1, <3>3 DEF UnusedLane, OnTheWay, IsSeq
    <2> QED BY <2>1, <2>2
  <1> QED BY <1>1, <1>4, <1>5, <1>8

(* A streamer all of whose queues are empty satisfies the invariant. *)
FreshInv ==
  /\ JobInv /\ QuietInv /\ moved = 0 /\ s.isLastQ = <<>>
  /\ s.agu = [busy |-> s.agu.busy, counters |-> AguReset.counters]
  /\ s.agu.busy \in BOOLEAN /\ (s.agu.busy <=> jobs # 0)
  /\ \A i \in Lanes : UnusedLane(i)

(* A streamer with empty queues that has not moved anything yet is in *)
(* order,                                                             *)
LEMMA Fresh == FreshInv => ReadInv
  <1> SUFFICES ASSUME FreshInv PROVE ReadInv
    OBVIOUS
  <1>0. /\ JobInv /\ QuietInv /\ WellFormed(job.agu) /\ moved = 0 /\ s.isLastQ = <<>>
        /\ s.agu = [busy |-> s.agu.busy, counters |-> AguReset.counters]
        /\ s.agu.busy \in BOOLEAN /\ (s.agu.busy <=> jobs # 0)
        /\ \A i \in Lanes : UnusedLane(i)
    BY JobsAssumption DEF FreshInv, JobInv
  <1>1. R \in Nat \ {0} /\ Iterations(job.agu) \in Nat \ {0} /\ jobs \in Nat
    BY <1>0, ReusePositive, Below DEF R, JobInv
  <1>2. Taken = 0
    BY <1>0 DEF Taken
  <1>3. 0 % R = 0 /\ 0 \div R = 0
    BY <1>1
  <1>4. AguInv
    <2>1. s.agu.counters = AguReset.counters /\ Digits(job.agu, 0) = AguReset.counters
      BY <1>0, FirstDigits
    <2> QED BY <1>0, <1>1, <1>2, <1>3, <2>1 DEF AguInv, AtIteration
  <1>5. FlagsInv
    BY <1>0 DEF FlagsInv, IsSeq, Holds
  <1>6. RoomInv
    <2> SUFFICES ASSUME NEW i \in Lanes PROVE RoomKept(s.rspQ[i], s.readPending[i])
      BY DEF RoomInv
    <2>1. s.rspQ[i] = <<>> /\ ~s.readPending[i]
      BY <1>0 DEF UnusedLane
    <2> QED BY <2>1 DEF RoomKept, IsSeq
  <1>7. FetchedBefore(Taken) = 0 /\ Retired = 0
    <2>1. CeilDiv(0, R) = 0 \div R
      BY <1>1, <1>3, CeilDivision
    <2> QED BY <1>0, <1>2, <1>3, <2>1 DEF FetchedBefore, Retired
  <1>8. ASSUME NEW i \in Lanes PROVE LaneInv(i)
    <2>1. s.readReqQ[i] = <<>> /\ s.rspQ[i] = <<>> /\ ~s.readPending[i]
      BY <1>0 DEF UnusedLane
    <2>2. OnTheWay(i) = 0 /\ Len(s.rspQ[i]) = 0 /\ Len(s.readReqQ[i]) = 0
      BY <2>1 DEF OnTheWay
    <2>3. Retired + Len(s.rspQ[i]) + OnTheWay(i) + Len(s.readReqQ[i]) = FetchedBefore(Taken)
      BY <1>7, <2>2
    <2> QED BY <2>1, <2>2, <2>3, DepthAssumption DEF LaneInv, ReadLane, IsSeq, Holds
  <1> QED BY <1>0, <1>4, <1>5, <1>6, <1>8 DEF ReadInv

(* and so is one after the start of the next job. *)
LEMMA StartKeeps ==
  ASSUME ReadInv, OnlyReads, NEW j \in pool, Start(j)
  PROVE  ReadInv'
  <1> DEFINE in == Inputs(TRUE, {}, FALSE)
  <1>1. /\ jobs < MaxJobs /\ Done(s) /\ AllRead
        /\ s' = StreamerNext(s, job, in) /\ MemoryEdge(in)
        /\ job' = j /\ jobs' = jobs + 1 /\ mem0' = mem /\ moved' = 0 /\ pool' = pool
    BY DEF Start
  <1>2. job.dir = "read" /\ QuietInv /\ JobInv
    BY DEF OnlyReads, ReadInv, JobInv
  <1>3. /\ Taken = moved /\ s.isLastQ = <<>> /\ ~s.agu.busy
        /\ \A i \in Lanes : UnusedLane(i)
    BY <1>1, <1>2, Rest DEF AllRead
  <1>4. /\ in.start = TRUE
        /\ \A i \in Lanes : /\ ~WriteFire(s, in, i) /\ ~EnqData(s, job, in, i)
                            /\ ~EnqWrite(s, job, i)
        /\ ~BypassFire(s, in)
        /\ ~FromRsp(s, job, in)
    <2>1. TRUE \in BOOLEAN /\ FALSE \in BOOLEAN
      OBVIOUS
    <2>2. in = Inputs(TRUE, {}, FALSE)
      OBVIOUS
    <2> HIDE DEF in
    <2> QED BY <1>2, <2>1, <2>2, ReadWires
  <1> HIDE DEF in
  <1>5. mem' = mem
    BY <1>1, <1>2, <1>4, ReadMemory
  <1>6. s'.agu = [busy |-> TRUE, counters |-> AguReset.counters]
    <2>1. s'.agu = AguNext(job.agu, s.agu, in.start, AguReady(s, job)) /\ in.start = TRUE
      BY <1>1, <1>4, Edge
    <2>2. s'.agu = [s.agu EXCEPT !.busy = TRUE]
      BY <1>3, <2>1 DEF AguNext
    <2>3. /\ s.agu = [busy |-> s.agu.busy, counters |-> s.agu.counters]
          /\ s.agu.counters = AguReset.counters
      BY <1>3 DEF ReadInv, AguInv, AtIteration
    <2> QED BY <2>2, <2>3
  <1>7. s'.isLastQ = <<>>
    <2>1. s'.isLastQ = PushIf(PopIf(s.isLastQ, DeqIsLast(s, job, in)),
                              EnqIsLast(s, job), IsLast(job.agu, s.agu.counters))
      BY <1>1, Edge
    <2>2. ~EnqIsLast(s, job)
      BY <1>3 DEF EnqIsLast, AguFire
    <2> QED BY <1>3, <2>1, <2>2 DEF PushIf, PopIf
  <1>8. ASSUME NEW i \in Lanes PROVE UnusedLane(i)'
    <2>1. UnusedLane(i) /\ ~EnqRead(s, job, i)
      BY <1>3 DEF EnqRead, AguFire
    <2>2. ~ReadFire(s, in, i) /\ ~EnqRsp(s, in, i)
      BY <2>1, Granted DEF UnusedLane, EnqRsp
    <2>3. s'.readReqQ[i] = <<>>
      BY <1>1, <2>1, <2>2, Edge DEF UnusedLane, PopIf, PushIf
    <2>6. ~s'.readPending[i]
      BY <1>1, <2>2, Edge
    <2>4. s'.rspQ[i] = PushIf(PopIf(s.rspQ[i], DeqRsp(s, job, in)),
                              EnqRsp(s, in, i), in.rsp[i].data)
      BY <1>1 DEF StreamerNext
    <2>5. s'.rspQ[i] = <<>>
      BY <2>1, <2>2, <2>4 DEF UnusedLane, PopIf, PushIf
    <2> QED BY <2>3, <2>5, <2>6 DEF UnusedLane
  <1>9. QuietInv'
    <2>1. ASSUME NEW i \in Lanes
          PROVE  s'.writeReqQ[i] = <<>> /\ s'.writeDataQ[i] = <<>>
      <3>1. /\ s.writeReqQ[i] = <<>> /\ s.writeDataQ[i] = <<>>
            /\ ~EnqData(s, job, in, i) /\ ~EnqWrite(s, job, i)
        BY <1>2, <1>4 DEF QuietInv
      <3> QED BY <1>1, <3>1, Edge DEF PushIf, PopIf
    <2>2. s'.bypass = <<>>
      <3>1. s.bypass = <<>> /\ ~BypassFire(s, in)
        BY <1>2, <1>4 DEF QuietInv
      <3> QED BY <1>1, <3>1, Edge DEF PushIf, PopIf
    <2> QED BY <1>1, <1>2, <1>5, <2>1, <2>2 DEF QuietInv
  <1>10. JobInv'
    BY <1>1, <1>2 DEF JobInv
  <1>11. /\ s'.agu = [busy |-> s'.agu.busy, counters |-> AguReset.counters]
         /\ s'.agu.busy \in BOOLEAN /\ (s'.agu.busy <=> jobs' # 0)
    BY <1>1, <1>2, <1>6 DEF JobInv
  <1>12. FreshInv'
    BY <1>1, <1>7, <1>8, <1>9, <1>10, <1>11 DEF FreshInv
  <1> QED BY <1>12, Fresh, PTL

(* A step of others *)
LEMMA ReadStays ==
  ASSUME ReadInv, UNCHANGED <<pool, s, job, mem, rsp, jobs, mem0, moved>>
  PROVE  ReadInv'
  BY DEF ReadInv, JobInv, AguInv, FlagsInv, QuietInv, RoomInv, Enabled, LaneInv, ReadLane,
         AtIteration, UnusedLane, Taken, R, Retired, FetchedBefore, OnTheWay, ElementAddr,
         ElementWord, LastUse

(* The counts and contents of the queues of a streamer that only reads *)
THEOREM ReadInvariant == Spec => [](OnlyReads => ReadInv)
  <1>1. Init => (OnlyReads => ReadInv)
    <2> SUFFICES ASSUME Init, OnlyReads PROVE FreshInv
      BY Fresh
    <2>1. PICK g \in {0, 1} : s = StreamerReset(g)
      BY DEF Init
    <2>2. \A i \in Lanes : /\ s.readReqQ[i] = <<>> /\ s.rspQ[i] = <<>> /\ ~s.readPending[i]
                           /\ s.writeReqQ[i] = <<>> /\ s.writeDataQ[i] = <<>>
      BY <2>1 DEF StreamerReset
    <2>3. s.agu = AguReset /\ s.isLastQ = <<>> /\ s.bypass = <<>>
      BY <2>1 DEF StreamerReset
    <2>4. /\ s.agu = [busy |-> s.agu.busy, counters |-> AguReset.counters]
          /\ s.agu.busy = FALSE
      BY <2>3 DEF AguReset
    <2>5. QuietInv
      BY <2>2, <2>3 DEF QuietInv, Init
    <2>6. JobInv /\ moved = 0 /\ jobs = 0
      BY DEF JobInv, Init
    <2> QED BY <2>2, <2>3, <2>4, <2>5, <2>6 DEF FreshInv, UnusedLane
  <1>2. (OnlyReads => ReadInv) /\ [Next]_vars => (OnlyReads => ReadInv)'
    <2> SUFFICES ASSUME OnlyReads => ReadInv, [Next]_vars, OnlyReads' PROVE ReadInv'
      OBVIOUS
    <2>1. CASE UNCHANGED vars
      BY <2>1, ReadStays DEF vars, OnlyReads
    <2>2. ASSUME NEW j \in pool, Start(j) PROVE ReadInv'
      <3>1. OnlyReads
        BY <2>2 DEF Start, OnlyReads
      <3> QED BY <2>2, <3>1, StartKeeps
    <2>3. ASSUME NEW granted \in SUBSET Lanes, NEW avail \in BOOLEAN, Run(granted, avail)
          PROVE  ReadInv'
      <3>1. OnlyReads
        BY <2>3 DEF Run, OnlyReads
      <3>2. ReadCycle(Inputs(FALSE, granted, avail), granted, avail)
        BY <2>3, <3>1 DEF Run, ReadCycle
      <3> QED BY <3>2, CycleKeeps
    <2> QED BY <2>1, <2>2, <2>3 DEF Next
  <1> QED BY <1>1, <1>2, PTL DEF Spec

(* The words at the heads of the response queues are those of the vector    *)
(* that is due.                                                             *)
LEMMA InOrder ==
  ASSUME OnlyReads, ReadInv
  PROVE  ReadsInOrder
  <1> SUFFICES ASSUME jobs > 0, ReadValid(s, job)
               PROVE  /\ moved < Iterations(job.agu)
                      /\ \A i \in Enabled :
                           ReadVec(s)[i] = mem0[IterAddress(job.agu, moved, i)]
    BY DEF ReadsInOrder, OnlyReads, ReadInv, JobInv
  <1>1. s.bypass = <<>> /\ AllRspValid(s, job)
    BY DEF ReadInv, QuietInv, ReadValid
  <1>2. moved < Taken
    BY <1>1, OfferedIsTaken
  <1>3. Taken <= Iterations(job.agu)
    BY ReadNumbers DEF ReadInv, AguInv, AtIteration
  <1>4. moved < Iterations(job.agu)
    BY <1>2, <1>3, ReadNumbers
  <1>5. ASSUME NEW i \in Enabled
        PROVE  ReadVec(s)[i] = mem0[IterAddress(job.agu, moved, i)]
    <2>1. i \in Lanes /\ s.rspQ[i] # <<>> /\ LaneInv(i)
      BY <1>1, LaneNumbers DEF AllRspValid, Enabled
    <2>2. ReadVec(s)[i] = Head(s.rspQ[i])
      BY <1>1, <2>1 DEF ReadVec
    <2>3. 1 \in 1 .. Len(s.rspQ[i]) /\ Head(s.rspQ[i]) = s.rspQ[i][1]
      BY <2>1 DEF LaneInv, ReadLane, IsSeq
    <2>4. s.rspQ[i][1] = ElementWord(i)[Retired]
      <3>1. Retired + 1 - 1 = Retired
        BY ReadNumbers
      <3> QED BY <2>1, <2>3, <3>1 DEF LaneInv, ReadLane, Holds
    <2>5. ElementWord(i)[Retired] = mem0[IterAddress(job.agu, R * Retired, i)]
      BY ReadNumbers DEF ElementWord
    <2>6. IterAddress(job.agu, R * Retired, i) = IterAddress(job.agu, moved, i)
      BY ReadNumbers, ElementAddress DEF R, Retired
    <2> QED BY <2>2, <2>3, <2>4, <2>5, <2>6
  <1> QED BY <1>4, <1>5

(* A streamer that only reads has no data to couple. *)
LEMMA ReaderNeverTears == Spec => [](OnlyReads => ~torn)
  <1>1. Init => (OnlyReads => ~torn)
    BY DEF Init
  <1>2. (OnlyReads => ReadInv) /\ (OnlyReads => ~torn) /\ [Next]_vars => (OnlyReads => ~torn)'
    <2> SUFFICES ASSUME OnlyReads => ReadInv, OnlyReads => ~torn, [Next]_vars, OnlyReads'
                 PROVE  ~torn'
      OBVIOUS
    <2>1. CASE UNCHANGED vars
      BY <2>1 DEF vars, OnlyReads
    <2>2. ASSUME NEW j \in pool, Start(j) PROVE ~torn'
      BY <2>2 DEF Start, OnlyReads
    <2>3. ASSUME NEW granted \in SUBSET Lanes, NEW avail \in BOOLEAN, Run(granted, avail)
          PROVE  ~torn'
      <3>1. OnlyReads /\ job.dir = "read" /\ ~torn
        BY <2>3 DEF Run, OnlyReads, ReadInv, JobInv
      <3>2. ~Inputs(FALSE, granted, avail).writeValid
        BY <3>1 DEF Inputs
      <3> QED BY <2>3, <3>1, <3>2 DEF Run, Tears, EnqData
    <2> QED BY <2>1, <2>2, <2>3 DEF Next
  <1> QED BY <1>1, <1>2, ReadInvariant, PTL DEF Spec

(* A streamer that only reads hands out the vectors of the loop nest in     *)
(* order, every word from the address of its lane, and none after the last  *)
(* one, whatever memory grants its lanes and however long the datapath      *)
(* waits (Streamer.scala:158-241).                                          *)
THEOREM ReaderReadsInOrder == Spec => [](OnlyReads => ~torn /\ ReadsInOrder)
  BY InOrder, ReadInvariant, ReaderNeverTears, PTL

(***************************************************************************)
(* Reads run ahead of the datapath, never behind it: the element in use    *)
(* has been read when its first vector is handed out, and a lane that      *)
(* reads fetches one that the datapath has not begun with.                 *)
(***************************************************************************)
InUse == moved % R # 0 => \A i \in Enabled : s.rspQ[i] # <<>>

LEMMA FreshUse ==
  ASSUME FreshInv
  PROVE  InUse
  <1>1. moved = 0 /\ R \in Nat \ {0}
    BY Fresh, ReadNumbers DEF FreshInv
  <1> QED BY <1>1 DEF InUse

LEMMA UseKept ==
  ASSUME NEW in, NEW granted, NEW avail, ReadCycle(in, granted, avail), InUse
  PROVE  InUse'
  <1> DEFINE from == FromRsp(s, job, in)
  <1> SUFFICES ASSUME moved' % R # 0, NEW i \in Enabled PROVE s'.rspQ[i] # <<>>
    <2>1. R' = R /\ Enabled' = Enabled
      BY DEF ReadCycle, R, Enabled
    <2> QED BY <2>1 DEF InUse
  <1>1. /\ ReadInv /\ s' = StreamerNext(s, job, in) /\ moved' = moved + Count(from)
        /\ moved \in Nat /\ i \in Lanes /\ IsSeq(s.rspQ[i])
    BY CycleCounts, ReadNumbers, LaneNumbers DEF ReadCycle, LaneInv, ReadLane
  <1>2. s.rspQ[i] # <<>> /\ ~DeqRsp(s, job, in)
    <2>1. CASE from
      <3>1. moved' = moved + 1 /\ AllRspValid(s, job)
        BY <1>1, <2>1, CycleWires DEF Count
      <3>2. s.rspQ[i] # <<>>
        BY <3>1 DEF AllRspValid, Enabled
      <3>3. s.isLastQ # <<>> /\ FlagsInv /\ R \in Nat \ {0}
        BY <1>1, <3>1, OfferedIsTaken, ReadNumbers DEF ReadInv
      <3>4. ~LastAhead(s)
        BY <1>1, <3>1, <3>3, HeadFlag
      <3> QED BY <3>2, <3>4, CycleWires
    <2>2. CASE ~from
      <3>1. ~DeqRsp(s, job, in)
        BY <2>2, CycleWires
      <3>2. moved' = moved
        <4>1. Count(from) = 0
          BY <2>2 DEF Count
        <4> HIDE DEF from
        <4> QED BY <1>1, <4>1
      <3> QED BY <3>1, <3>2 DEF InUse
    <2> QED BY <2>1, <2>2
  <1>3. s'.rspQ[i] = PushIf(s.rspQ[i], EnqRsp(s, in, i), in.rsp[i].data)
    <2>1. s'.rspQ[i] = PushIf(PopIf(s.rspQ[i], DeqRsp(s, job, in)),
                              EnqRsp(s, in, i), in.rsp[i].data)
      BY <1>1 DEF StreamerNext
    <2> QED BY <1>2, <2>1 DEF PopIf
  <1>4. ASSUME NEW q, IsSeq(q), NEW x PROVE Append(q, x) # <<>>
    <2>1. PICK S : q \in Seq(S)
      BY <1>4 DEF IsSeq
    <2>2. q \in Seq(S \cup {x})
      BY <2>1
    <2>3. Len(Append(q, x)) = Len(q) + 1 /\ Len(q) \in Nat
      BY <2>2
    <2>4. Len(Append(q, x)) # 0
      BY <2>3
    <2> QED BY <2>4
  <1> QED BY <1>1, <1>2, <1>3, <1>4 DEF PushIf

LEMMA FetchAhead ==
  ASSUME ReadInv, InUse, NEW in, NEW i \in Lanes, ReadFire(s, in, i)
  PROVE  /\ i \in Enabled
         /\ \E x \in Nat : /\ ReqAddr(s, i) = IterAddress(job.agu, R * x, i)
                          /\ moved <= R * x /\ R * x < Iterations(job.agu)
  <1>1. i \in Enabled /\ s.readReqQ[i] # <<>>
    BY Granted DEF ReadInv, UnusedLane
  <1> DEFINE l == Len(s.rspQ[i])
             o == OnTheWay(i)
             a == Len(s.readReqQ[i])
             x == Retired + l + o
  <1>2. /\ R \in Nat \ {0} /\ moved \in Nat /\ Retired \in Nat /\ Taken \in Nat
        /\ l \in Nat /\ a \in Nat /\ o \in {0, 1} /\ LaneInv(i) /\ ReadLane(i, Retired)
        /\ Iterations(job.agu) \in Nat \ {0}
    BY <1>1, ReadNumbers, LaneNumbers DEF LaneInv
  <1>3. x \in Nat
    BY <1>2
  <1>4. a # 0 /\ 1 \in 1 .. a /\ Head(s.readReqQ[i]) = s.readReqQ[i][1]
    BY <1>1, <1>2 DEF ReadLane, IsSeq
  <1>5. x + a = FetchedBefore(Taken)
    BY <1>2 DEF ReadLane
  <1>6. ReqAddr(s, i) = IterAddress(job.agu, R * x, i)
    <2>1. ReqAddr(s, i) = s.readReqQ[i][1]
      BY <1>4 DEF ReadFire, ReqAddr
    <2>2. s.readReqQ[i][1] = ElementAddr(i)[x + 1 - 1]
      BY <1>2, <1>4 DEF ReadLane, Holds
    <2>3. x + 1 - 1 = x
      BY <1>3
    <2> HIDE DEF x
    <2> QED BY <1>3, <2>1, <2>2, <2>3 DEF ElementAddr
  <1>7. R * x < Iterations(job.agu)
    <2>1. x < CeilDiv(Taken, R)
      <3>1. FetchedBefore(Taken) = x + a
        BY <1>5
      <3> HIDE DEF x, a
      <3> QED BY <1>2, <1>3, <1>4, <3>1 DEF FetchedBefore
    <2> HIDE DEF x
    <2>2. R * x < Taken
      BY <1>2, <1>3, <2>1, FirstOfGroup
    <2>3. Taken <= Iterations(job.agu)
      BY <1>2 DEF ReadInv, AguInv, AtIteration
    <2>4. R * x \in Nat
      BY <1>2, <1>3
    <2> QED BY <1>2, <2>2, <2>3, <2>4
  <1>8. moved <= R * x
    <2>1. /\ moved = R * Retired + (moved % R) /\ moved % R \in 0 .. R - 1
      BY <1>2, Division DEF Retired
    <2>2. CASE moved % R = 0
      <3>1. moved = R * Retired /\ Retired <= x
        BY <1>2, <2>1, <2>2
      <3> HIDE DEF x
      <3> QED BY <1>2, <1>3, <3>1, Monotone
    <2>3. CASE moved % R # 0
      <3>1. s.rspQ[i] # <<>> /\ IsSeq(s.rspQ[i])
        BY <1>1, <1>2, <2>3 DEF InUse, ReadLane
      <3>2. l # 0
        BY <3>1 DEF IsSeq
      <3>3. Retired + 1 <= x /\ Retired + 1 \in Nat
        BY <1>2, <3>2
      <3> HIDE DEF x
      <3>4. R * (Retired + 1) <= R * x
        BY <1>2, <1>3, <3>3, Monotone
      <3>5. R * (Retired + 1) = R * Retired + R /\ R * Retired \in Nat
        BY <1>2
      <3>6. R * x \in Nat
        BY <1>2, <1>3
      <3> QED BY <1>2, <2>1, <3>4, <3>5, <3>6
    <2> QED BY <2>2, <2>3
  <1> HIDE DEF x
  <1> QED BY <1>1, <1>3, <1>6, <1>7, <1>8

(* Reading leaves the memory as it is (Streamer.scala:180: only the words   *)
(* of the write queues are written).                                        *)
THEOREM ReaderWritesNothing == Spec => [](OnlyReads => ~torn /\ DoneMeansWritten)
  <1>1. OnlyReads /\ ReadInv => DoneMeansWritten
    BY DEF OnlyReads, ReadInv, JobInv, QuietInv, DoneMeansWritten, ResultInMemory, Expected
  <1> QED BY <1>1, ReadInvariant, ReaderNeverTears, PTL

------------------------------------------------------------------------------
(***************************************************************************)
(* The queues never hold more than they can, whatever the jobs, the grants *)
(* of the memory and the pace of the datapath.  Every queue is filled only *)
(* when it has room; the addresses in them are the memory's because the    *)
(* counters of the generator stay within the bounds of the job.            *)
(***************************************************************************)
CountersFit == IF s.agu.busy THEN InRange(job.agu, s.agu.counters)
                             ELSE s.agu.counters = AguReset.counters

TypeInv ==
  /\ TypeOK /\ pool \in JobSets /\ CountersFit
  /\ IsSeq(s.isLastQ) /\ IsSeq(s.bypass)
  /\ \A i \in Lanes : IsSeq(s.writeDataQ[i]) /\ IsSeq(s.rspQ[i])

(* A queue that takes something only when it has room stays in its depth. *)
LEMMA DepthKept ==
  ASSUME NEW q, IsSeq(q), NEW d \in Nat, Len(q) <= d, NEW out, NEW in, NEW x,
         in => Len(q) < d
  PROVE  /\ IsSeq(PushIf(PopIf(q, out), in, x))
         /\ Len(PushIf(PopIf(q, out), in, x)) <= d
  <1> DEFINE p == PopIf(q, out)
  <1>1. IsSeq(p) /\ Len(p) \in Nat /\ Len(p) <= Len(q) /\ Len(q) \in Nat
    BY PopSeq DEF IsSeq
  <1> HIDE DEF p
  <1>2. /\ IsSeq(PushIf(p, in, x)) /\ Len(PushIf(p, in, x)) \in Nat
        /\ Len(PushIf(p, in, x)) <= Len(p) + 1
    BY <1>1, PushSeq
  <1>3. Len(PushIf(p, in, x)) <= d
    <2>1. CASE in
      <3> DEFINE l == Len(PushIf(p, in, x))
                 m == Len(p)
                 n == Len(q)
      <3>1. n < d
        BY <2>1
      <3>2. l \in Nat /\ l <= m + 1 /\ m \in Nat /\ m <= n /\ n \in Nat
        BY <1>1, <1>2
      <3> HIDE DEF l, m, n
      <3>3. l <= d
        BY <3>1, <3>2
      <3> QED BY <3>3 DEF l
    <2>2. CASE ~in
      <3>1. PushIf(p, in, x) = p
        BY <2>2 DEF PushIf
      <3>2. Len(p) <= d
        BY <1>1
      <3> QED BY <3>1, <3>2
    <2> QED BY <2>1, <2>2
  <1> QED BY <1>2, <1>3 DEF p

(* It keeps its type when what it takes has it. *)
LEMMA QueueType ==
  ASSUME NEW S, NEW q \in Seq(S), NEW out, NEW in, NEW x, in => x \in S
  PROVE  PushIf(PopIf(q, out), in, x) \in Seq(S)
  <1>1. PopIf(q, out) \in Seq(S)
    BY DEF PopIf
  <1> QED BY <1>1 DEF PushIf

(* The registers and queues after a clock edge *)
LEMMA TypeEdge ==
  ASSUME TypeInv, NEW in, s' = StreamerNext(s, job, in)
  PROVE  /\ \A i \in Lanes :
              /\ s'.readReqQ[i] \in Seq(Addrs) /\ Len(s'.readReqQ[i]) <= QueueDepth
              /\ s'.writeReqQ[i] \in Seq(Addrs) /\ Len(s'.writeReqQ[i]) <= QueueDepth
              /\ IsSeq(s'.writeDataQ[i]) /\ Len(s'.writeDataQ[i]) <= QueueDepth
              /\ IsSeq(s'.rspQ[i]) /\ Len(s'.rspQ[i]) <= QueueDepth
         /\ IsSeq(s'.isLastQ) /\ Len(s'.isLastQ) <= IsLastDepth
         /\ IsSeq(s'.bypass) /\ Len(s'.bypass) <= 1
         /\ s'.readPending \in [Lanes -> BOOLEAN] /\ s'.lastGrant \in [Lanes -> {0, 1}]
  <1>1. QueueDepth \in Nat /\ IsLastDepth \in Nat /\ 1 \in Nat
    BY DepthAssumption
  <1>2. WellFormed(job.agu)
    BY JobsAssumption DEF TypeInv, TypeOK
  <1>3. AguFire(s, job) => \A i \in Lanes : Address(job.agu, s.agu.counters, i) \in Addrs
    <2> SUFFICES ASSUME s.agu.busy, NEW i \in Lanes
                 PROVE  Address(job.agu, s.agu.counters, i) \in Addrs
      BY DEF AguFire
    <2>1. s.agu.counters \in [Dims -> Int]
      BY DEF TypeInv, CountersFit, InRange
    <2> QED BY <1>2, <2>1, AddressType DEF Addrs
  <1>4. ASSUME NEW i \in Lanes
        PROVE  /\ s'.readReqQ[i] \in Seq(Addrs) /\ Len(s'.readReqQ[i]) <= QueueDepth
               /\ s'.writeReqQ[i] \in Seq(Addrs) /\ Len(s'.writeReqQ[i]) <= QueueDepth
               /\ IsSeq(s'.writeDataQ[i]) /\ Len(s'.writeDataQ[i]) <= QueueDepth
               /\ IsSeq(s'.rspQ[i]) /\ Len(s'.rspQ[i]) <= QueueDepth
    <2>1. /\ s.readReqQ[i] \in Seq(Addrs) /\ Len(s.readReqQ[i]) <= QueueDepth
          /\ s.writeReqQ[i] \in Seq(Addrs) /\ Len(s.writeReqQ[i]) <= QueueDepth
          /\ IsSeq(s.writeDataQ[i]) /\ Len(s.writeDataQ[i]) <= QueueDepth
          /\ IsSeq(s.rspQ[i]) /\ Len(s.rspQ[i]) <= QueueDepth
          /\ IsSeq(s.readReqQ[i]) /\ IsSeq(s.writeReqQ[i])
      BY DEF TypeInv, TypeOK, IsSeq
    <2>2. EnqRead(s, job, i) => /\ Len(s.readReqQ[i]) < QueueDepth
                                /\ Address(job.agu, s.agu.counters, i) \in Addrs
      BY <1>3 DEF EnqRead, AguFire, AguReady, ReadQueuesReady, HasRoom
    <2>3. EnqWrite(s, job, i) => /\ Len(s.writeReqQ[i]) < QueueDepth
                                 /\ Address(job.agu, s.agu.counters, i) \in Addrs
      BY <1>3 DEF EnqWrite, AguFire, AguReady, WriteQueuesReady, HasRoom
    <2>4. EnqData(s, job, in, i) => Len(s.writeDataQ[i]) < QueueDepth
      BY DEF EnqData, HasRoom
    <2>5. EnqRsp(s, in, i) => Len(s.rspQ[i]) < QueueDepth
      BY DEF EnqRsp, HasRoom
    <2>6. s'.readReqQ[i] \in Seq(Addrs) /\ Len(s'.readReqQ[i]) <= QueueDepth
      <3>1. s'.readReqQ[i] = PushIf(PopIf(s.readReqQ[i], ReadFire(s, in, i)),
                               EnqRead(s, job, i), Address(job.agu, s.agu.counters, i))
        BY DEF StreamerNext
      <3>2. PushIf(PopIf(s.readReqQ[i], ReadFire(s, in, i)), EnqRead(s, job, i),
                   Address(job.agu, s.agu.counters, i)) \in Seq(Addrs)
        BY <2>1, <2>2, QueueType
      <3>3. Len(PushIf(PopIf(s.readReqQ[i], ReadFire(s, in, i)), EnqRead(s, job, i),
                       Address(job.agu, s.agu.counters, i))) <= QueueDepth
        BY <1>1, <2>1, <2>2, DepthKept
      <3> QED BY <3>1, <3>2, <3>3
    <2>7. s'.writeReqQ[i] \in Seq(Addrs) /\ Len(s'.writeReqQ[i]) <= QueueDepth
      <3>1. s'.writeReqQ[i] = PushIf(PopIf(s.writeReqQ[i], EnqData(s, job, in, i)),
                                EnqWrite(s, job, i), Address(job.agu, s.agu.counters, i))
        BY DEF StreamerNext
      <3>2. PushIf(PopIf(s.writeReqQ[i], EnqData(s, job, in, i)), EnqWrite(s, job, i),
                   Address(job.agu, s.agu.counters, i)) \in Seq(Addrs)
        BY <2>1, <2>3, QueueType
      <3>3. Len(PushIf(PopIf(s.writeReqQ[i], EnqData(s, job, in, i)), EnqWrite(s, job, i),
                       Address(job.agu, s.agu.counters, i))) <= QueueDepth
        BY <1>1, <2>1, <2>3, DepthKept
      <3> QED BY <3>1, <3>2, <3>3
    <2>8. IsSeq(s'.writeDataQ[i]) /\ Len(s'.writeDataQ[i]) <= QueueDepth
      <3> DEFINE x == [addr |-> Head(s.writeReqQ[i]), data |-> in.writeVec[i]]
      <3>1. s'.writeDataQ[i] = PushIf(PopIf(s.writeDataQ[i], WriteFire(s, in, i)),
                                      EnqData(s, job, in, i), x)
        BY Edge
      <3> HIDE DEF x
      <3>2. /\ IsSeq(PushIf(PopIf(s.writeDataQ[i], WriteFire(s, in, i)),
                            EnqData(s, job, in, i), x))
            /\ Len(PushIf(PopIf(s.writeDataQ[i], WriteFire(s, in, i)),
                          EnqData(s, job, in, i), x)) <= QueueDepth
        BY <1>1, <2>1, <2>4, DepthKept
      <3> QED BY <3>1, <3>2
    <2>9. IsSeq(s'.rspQ[i]) /\ Len(s'.rspQ[i]) <= QueueDepth
      <3>1. s'.rspQ[i] = PushIf(PopIf(s.rspQ[i], DeqRsp(s, job, in)),
                                EnqRsp(s, in, i), in.rsp[i].data)
        BY DEF StreamerNext
      <3>2. /\ IsSeq(PushIf(PopIf(s.rspQ[i], DeqRsp(s, job, in)),
                            EnqRsp(s, in, i), in.rsp[i].data))
            /\ Len(PushIf(PopIf(s.rspQ[i], DeqRsp(s, job, in)),
                          EnqRsp(s, in, i), in.rsp[i].data)) <= QueueDepth
        BY <1>1, <2>1, <2>5, DepthKept
      <3> QED BY <3>1, <3>2
    <2> QED BY <2>6, <2>7, <2>8, <2>9
  <1>5. IsSeq(s'.isLastQ) /\ Len(s'.isLastQ) <= IsLastDepth
    <2>1. s'.isLastQ = PushIf(PopIf(s.isLastQ, DeqIsLast(s, job, in)),
                              EnqIsLast(s, job), IsLast(job.agu, s.agu.counters))
      BY Edge
    <2>2. EnqIsLast(s, job) => Len(s.isLastQ) < IsLastDepth
      BY DEF EnqIsLast
    <2>3. IsSeq(s.isLastQ) /\ Len(s.isLastQ) <= IsLastDepth
      BY DEF TypeInv, TypeOK
    <2>4. /\ IsSeq(PushIf(PopIf(s.isLastQ, DeqIsLast(s, job, in)), EnqIsLast(s, job),
                          IsLast(job.agu, s.agu.counters)))
          /\ Len(PushIf(PopIf(s.isLastQ, DeqIsLast(s, job, in)), EnqIsLast(s, job),
                        IsLast(job.agu, s.agu.counters))) <= IsLastDepth
      BY <1>1, <2>2, <2>3, DepthKept
    <2> QED BY <2>1, <2>4
  <1>6. IsSeq(s'.bypass) /\ Len(s'.bypass) <= 1
    <2> DEFINE p == PopIf(s.bypass, in.readReady)
    <2>1. s'.bypass = PushIf(p, BypassFire(s, in), in.writeVec)
      BY Edge
    <2>2. IsSeq(s.bypass) /\ Len(s.bypass) <= 1
      BY DEF TypeInv, TypeOK
    <2>3. IsSeq(p) /\ Len(p) \in Nat /\ Len(p) <= 1
      BY <2>2, PopSeq DEF IsSeq
    <2>4. BypassFire(s, in) => Len(p) < 1
      <3>1. CASE s.bypass = <<>>
        <4>1. Len(<<>>) < 1
          OBVIOUS
        <4> QED BY <3>1, <4>1 DEF PopIf
      <3>2. CASE s.bypass # <<>> /\ in.readReady
        <4>1. PICK S : s.bypass \in Seq(S)
          BY <2>2 DEF IsSeq
        <4>2. Len(Tail(s.bypass)) = Len(s.bypass) - 1 /\ Len(s.bypass) \in Nat
          BY <3>2, <4>1
        <4>3. p = Tail(s.bypass)
          BY <3>2 DEF PopIf
        <4>4. Len(p) = Len(s.bypass) - 1
          BY <4>2, <4>3
        <4> HIDE DEF p
        <4> QED BY <2>2, <4>2, <4>4
      <3> QED BY <3>1, <3>2 DEF BypassFire, BypassReady
    <2>5. p = PopIf(p, FALSE)
      BY DEF PopIf
    <2> HIDE DEF p
    <2>6. /\ IsSeq(PushIf(PopIf(p, FALSE), BypassFire(s, in), in.writeVec))
          /\ Len(PushIf(PopIf(p, FALSE), BypassFire(s, in), in.writeVec)) <= 1
      BY <1>1, <2>3, <2>4, DepthKept
    <2> QED BY <2>1, <2>5, <2>6
  <1>7. s'.readPending \in [Lanes -> BOOLEAN]
    <2>1. \A i \in Lanes : ReadFire(s, in, i) \in BOOLEAN
      BY DEF ReadFire
    <2>2. s'.readPending = [i \in Lanes |-> ReadFire(s, in, i)]
      BY DEF StreamerNext
    <2> QED BY <2>1, <2>2
  <1>8. s'.lastGrant \in [Lanes -> {0, 1}]
    <2>1. s'.lastGrant = [i \in Lanes |-> LastGrant(s.lastGrant[i], Pick(s, i), ReqFire(s, in, i))]
      BY DEF StreamerNext
    <2>2. ASSUME NEW i \in Lanes
          PROVE  LastGrant(s.lastGrant[i], Pick(s, i), ReqFire(s, in, i)) \in {0, 1}
      <3>1. ReqFire(s, in, i) => Pick(s, i) \in {0, 1}
        <4> SUFFICES ASSUME Offers(s, i) # {} PROVE Pick(s, i) \in {0, 1}
          BY DEF ReqFire
        <4> QED BY PickOffered DEF Offers
      <3>2. s.lastGrant[i] \in {0, 1}
        BY DEF TypeInv, TypeOK
      <3> QED BY <3>1, <3>2 DEF LastGrant
    <2> QED BY <2>1, <2>2
  <1> QED BY <1>4, <1>5, <1>6, <1>7, <1>8

(* The counters: a start leaves them at 0, a step keeps them in range, the *)
(* last one brings them back to 0.                                         *)
LEMMA CountersEdge ==
  ASSUME TypeInv, NEW ready, NEW start \in BOOLEAN,
         NEW next, next = AguNext(job.agu, s.agu, start, ready)
  PROVE  /\ next \in [busy : BOOLEAN, counters : [Dims -> Addrs]]
         /\ ~start => IF next.busy THEN InRange(job.agu, next.counters)
                                   ELSE next.counters = AguReset.counters
         /\ start /\ ~s.agu.busy => next.busy /\ next.counters = AguReset.counters
  <1>1. WellFormed(job.agu) /\ s.agu \in [busy : BOOLEAN, counters : [Dims -> Addrs]]
    BY JobsAssumption DEF TypeInv, TypeOK
  <1>2. CASE s.agu.busy /\ ready
    <2> DEFINE c == IncrementCounters(job.agu, s.agu.counters)
    <2>1. next = [busy |-> ~AllDone(job.agu, s.agu.counters), counters |-> c]
      BY <1>2 DEF AguNext
    <2>2. InRange(job.agu, c)
      BY <1>1, <1>2, StepInRange DEF TypeInv, CountersFit
    <2>3. c \in [Dims -> Addrs]
      <3>1. ASSUME NEW d \in Dims PROVE c[d] \in Addrs
        <4>1. Radix(job.agu, d) <= AddrSpace /\ Radix(job.agu, d) \in Nat
          BY <1>1, RadixPositive, AddrSpaceAssumption DEF Radix
        <4>2. c[d] \in Nat /\ c[d] < Radix(job.agu, d)
          BY <2>2 DEF InRange
        <4> HIDE DEF c
        <4> QED BY <4>1, <4>2, AddrSpaceAssumption DEF Addrs
      <3> QED BY <3>1 DEF IncrementCounters
    <2>4. ~next.busy => c = AguReset.counters
      <3>1. next.busy = ~AllDone(job.agu, s.agu.counters)
        BY <2>1
      <3>2. next.busy <=> ~AllDone(job.agu, s.agu.counters)
        BY <3>1, Zenon
      <3> QED BY <1>1, <3>2, LastStep
    <2>5. (~AllDone(job.agu, s.agu.counters)) \in BOOLEAN
      BY Zenon
    <2>6. next.counters = c
      BY <2>1
    <2> HIDE DEF c
    <2>7. next \in [busy : BOOLEAN, counters : [Dims -> Addrs]]
      BY <2>1, <2>3, <2>5
    <2> QED BY <1>2, <2>2, <2>4, <2>6, <2>7
  <1>3. CASE s.agu.busy /\ ~ready
    BY <1>1, <1>3 DEF AguNext, TypeInv, CountersFit
  <1>4. CASE ~s.agu.busy
    <2>1. next = [s.agu EXCEPT !.busy = start]
      BY <1>4 DEF AguNext
    <2>2. s.agu.counters = AguReset.counters
      BY <1>4 DEF TypeInv, CountersFit
    <2> QED BY <1>1, <2>1, <2>2
  <1> QED BY <1>2, <1>3, <1>4

(* The inductive invariant of the types *)
LEMMA TypeInvariant == Spec => []TypeInv
  <1>1. Init => TypeInv
    <2> SUFFICES ASSUME Init PROVE TypeInv
      OBVIOUS
    <2>1. PICK g \in {0, 1} : s = StreamerReset(g)
      BY DEF Init
    <2>2. Len(<<>>) = 0 /\ IsSeq(<<>>) /\ <<>> \in Seq(Addrs)
      BY DEF IsSeq
    <2>3. ASSUME NEW i \in Lanes
          PROVE  /\ s.readReqQ[i] = <<>> /\ s.writeReqQ[i] = <<>>
                 /\ s.writeDataQ[i] = <<>> /\ s.rspQ[i] = <<>>
      BY <2>1 DEF StreamerReset
    <2>4. /\ s.isLastQ = <<>> /\ s.bypass = <<>> /\ s.agu = AguReset
          /\ s.readPending = [i \in Lanes |-> FALSE] /\ s.lastGrant = [i \in Lanes |-> g]
      BY <2>1 DEF StreamerReset
    <2>5. s.agu \in [busy : BOOLEAN, counters : [Dims -> Addrs]] /\ CountersFit
      <3>1. 0 \in Addrs
        BY AddrSpaceAssumption DEF Addrs
      <3> QED BY <2>4, <3>1 DEF AguReset, CountersFit
    <2>6. pool \in JobSets /\ job \in pool /\ jobs \in 0 .. MaxJobs
      BY MaxJobsAssumption DEF Init
    <2>7. 0 <= QueueDepth /\ 0 <= IsLastDepth
      BY DepthAssumption
    <2>8. s.readPending \in [Lanes -> BOOLEAN] /\ s.lastGrant \in [Lanes -> {0, 1}]
      BY <2>4
    <2>9. TypeOK
      <3>1. \A i \in Lanes :
              /\ s.readReqQ[i] \in Seq(Addrs) /\ Len(s.readReqQ[i]) <= QueueDepth
              /\ s.writeReqQ[i] \in Seq(Addrs) /\ Len(s.writeReqQ[i]) <= QueueDepth
              /\ Len(s.writeDataQ[i]) <= QueueDepth /\ Len(s.rspQ[i]) <= QueueDepth
        BY <2>2, <2>3, <2>7
      <3>2. Len(s.isLastQ) <= IsLastDepth /\ Len(s.bypass) <= 1
        BY <2>2, <2>4, <2>7
      <3> QED BY <2>5, <2>6, <2>8, <3>1, <3>2 DEF TypeOK
    <2> QED BY <2>2, <2>3, <2>4, <2>5, <2>6, <2>9 DEF TypeInv
  <1>2. TypeInv /\ [Next]_vars => TypeInv'
    <2> SUFFICES ASSUME TypeInv, [Next]_vars PROVE TypeInv'
      OBVIOUS
    <2>1. CASE UNCHANGED vars
      BY <2>1 DEF vars, TypeInv, TypeOK, CountersFit
    <2>2. ASSUME NEW j \in pool, Start(j) PROVE TypeInv'
      <3> DEFINE in == Inputs(TRUE, {}, FALSE)
      <3>1. /\ s' = StreamerNext(s, job, in) /\ job' = j /\ pool' = pool /\ ~s.agu.busy
            /\ jobs' = jobs + 1 /\ jobs < MaxJobs /\ WellFormed(j.agu)
        BY <2>2, JobsAssumption DEF Start, Done, TypeInv
      <3>2. in.start = TRUE
        BY DEF Inputs
      <3> HIDE DEF in
      <3>3. s'.agu = AguNext(job.agu, s.agu, TRUE, AguReady(s, job))
        <4>1. s'.agu = AguNext(job.agu, s.agu, in.start, AguReady(s, job))
          BY <3>1, Edge
        <4> QED BY <3>2, <4>1
      <3>4. /\ s'.agu \in [busy : BOOLEAN, counters : [Dims -> Addrs]]
            /\ s'.agu.busy /\ s'.agu.counters = AguReset.counters
        BY <3>1, <3>3, CountersEdge
      <3>5. InRange(j.agu, AguReset.counters)
        <4>1. \A d \in Dims : Radix(j.agu, d) \in Nat /\ 0 < Radix(j.agu, d)
          BY <3>1, RadixPositive
        <4> QED BY <4>1 DEF InRange, AguReset
      <3>6. jobs' \in 0 .. MaxJobs
        BY <3>1, MaxJobsAssumption DEF TypeInv, TypeOK
      <3>7. CountersFit'
        BY <3>1, <3>4, <3>5 DEF CountersFit
      <3>8. TypeOK'
        BY <3>1, <3>4, <3>6, TypeEdge DEF TypeOK, Addrs
      <3> QED BY <3>1, <3>7, <3>8, TypeEdge DEF TypeInv
    <2>3. ASSUME NEW granted \in SUBSET Lanes, NEW avail \in BOOLEAN, Run(granted, avail)
          PROVE  TypeInv'
      <3> DEFINE in == Inputs(FALSE, granted, avail)
      <3>1. /\ s' = StreamerNext(s, job, in) /\ job' = job /\ pool' = pool /\ jobs' = jobs
        BY <2>3 DEF Run
      <3>2. in.start = FALSE
        BY DEF Inputs
      <3> HIDE DEF in
      <3>3. s'.agu = AguNext(job.agu, s.agu, FALSE, AguReady(s, job))
        <4>1. s'.agu = AguNext(job.agu, s.agu, in.start, AguReady(s, job))
          BY <3>1, Edge
        <4> QED BY <3>2, <4>1
      <3>4. /\ s'.agu \in [busy : BOOLEAN, counters : [Dims -> Addrs]]
            /\ IF s'.agu.busy THEN InRange(job.agu, s'.agu.counters)
                              ELSE s'.agu.counters = AguReset.counters
        BY <3>3, CountersEdge
      <3>5. CountersFit'
        BY <3>1, <3>4 DEF CountersFit
      <3>6. TypeOK'
        BY <3>1, <3>4, TypeEdge DEF TypeInv, TypeOK, Addrs
      <3> QED BY <3>1, <3>5, <3>6, TypeEdge DEF TypeInv
    <2> QED BY <2>1, <2>2, <2>3 DEF Next
  <1> QED BY <1>1, <1>2, PTL DEF Spec

(* No queue of a streamer overflows, its generator's counters stay within  *)
(* the nest, and its registers hold what they are for                      *)
(* (Streamer.scala:62-92).                                                 *)
THEOREM StreamerTyped == Spec => []TypeOK
  <1>1. TypeInv => TypeOK
    BY DEF TypeInv
  <1> QED BY <1>1, TypeInvariant, PTL

------------------------------------------------------------------------------
(***************************************************************************)
(* Writing.  What follows about memory's contents is for behaviours in     *)
(* which memory grants all the lanes that ask, or none: they run in step.  *)
(* The arbiters of the banks do not promise that.  It is the hypothesis    *)
(* [][LanesTogether]_vars of the theorems below.                           *)
(***************************************************************************)
AllOrNone(granted) == granted \in {{}, {i \in Lanes : Offers(s, i) # {}}}
LanesTogether == AllOrNone({i \in Lanes : rsp'[i].valid})

(* The lanes granted are those that get a response. *)
LEMMA GrantedTogether ==
  ASSUME NEW granted, NEW avail, Run(granted, avail), LanesTogether
  PROVE  AllOrNone(granted)
  <1> DEFINE in == Inputs(FALSE, granted, avail)
  <1>1. granted \subseteq {i \in Lanes : Offers(s, i) # {}}
    BY DEF Run, Grants
  <1>2. \A i \in Lanes : rsp'[i].valid = ReqFire(s, in, i)
    BY DEF Run, MemoryEdge
  <1>3. in.granted = granted
    BY DEF Inputs
  <1> HIDE DEF in
  <1>4. \A i \in Lanes : ReqFire(s, in, i) <=> i \in granted
    BY <1>1, <1>3 DEF ReqFire
  <1>5. {i \in Lanes : rsp'[i].valid} = granted
    BY <1>1, <1>2, <1>4
  <1> QED BY <1>5 DEF LanesTogether

(***************************************************************************)
(* First a streamer that only writes, without reuse.  The generator is     *)
(* Generated vectors into the nest, the datapath moved, the memory         *)
(* Written: the addresses between the first two wait in writeReqQ, the     *)
(* words between the last two in writeDataQ.                               *)
(***************************************************************************)
Generated == moved + Len(s.writeReqQ[0])
Written   == moved - Len(s.writeDataQ[0])

VectorAddr(i) == [m \in Nat |-> IterAddress(job.agu, m, i)]
VectorWord(i) == [m \in Nat |-> [addr |-> IterAddress(job.agu, m, i),
                                 data |-> made[m][i]]]
AlwaysLast == [m \in Nat |-> TRUE]

GeneratorInv == AtIteration(job.agu, s.agu, jobs > 0, Generated)

(* isLastQueue is never popped: it says "last" from the first address on. *)
AllLastInv == /\ IsSeq(s.isLastQ) /\ Holds(s.isLastQ, AlwaysLast, 0)
              /\ Generated > 0 => s.isLastQ # <<>>

WriteLane(i) ==
  /\ IsSeq(s.writeReqQ[i]) /\ Len(s.writeReqQ[i]) = Len(s.writeReqQ[0])
  /\ IsSeq(s.writeDataQ[i]) /\ Len(s.writeDataQ[i]) = Len(s.writeDataQ[0])
  /\ Holds(s.writeReqQ[i], VectorAddr(i), moved)
  /\ Holds(s.writeDataQ[i], VectorWord(i), Written)

IdleLane(i) == s.writeReqQ[i] = <<>> /\ s.writeDataQ[i] = <<>>

NoReads == s.bypass = <<>> /\ \A i \in Lanes : UnusedLane(i)

(* Vectors before the n-th leave word a alone. *)
Untouched(from, n, a) ==
  \A m \in from .. n - 1 : \A i \in Enabled : IterAddress(job.agu, m, i) # a

(* Memory after n vectors: a word holds what it held before the job, or    *)
(* what the last vector for it brought.                                    *)
MemoryAfter(n, a) ==
  \/ mem[a] = mem0[a] /\ Untouched(0, n, a)
  \/ \E m \in 0 .. n - 1 : \E i \in Enabled :
       /\ mem[a] = made[m][i] /\ IterAddress(job.agu, m, i) = a
       /\ Untouched(m + 1, n, a)

(* The lanes of a vector that was written have addresses of their own. *)
Apart(m) == \A i, k \in Enabled :
  IterAddress(job.agu, m, i) = IterAddress(job.agu, m, k) => i = k

MemoryInv == /\ Written \in Nat /\ mem = [a \in Addrs |-> mem[a]]
             /\ \A m \in 0 .. Written - 1 : Apart(m)
             /\ \A a \in Addrs : MemoryAfter(Written, a)

OnlyWrites == \A j \in pool : j.dir = "write" /\ Reuse(j.agu) = 1

WriteInv ==
  /\ JobInv /\ GeneratorInv /\ AllLastInv /\ NoReads /\ MemoryInv
  /\ \A i \in Lanes : IF i \in Enabled THEN WriteLane(i) ELSE IdleLane(i)

------------------------------------------------------------------------------
(* The numbers of the invariant *)
LEMMA WriteNumbers ==
  ASSUME WriteInv, OnlyWrites
  PROVE  /\ WellFormed(job.agu) /\ job.dir = "write" /\ Reuse(job.agu) = 1
         /\ Iterations(job.agu) \in Nat \ {0} /\ jobs \in Nat
         /\ 0 \in Lanes /\ 0 \in Enabled /\ WriteLane(0)
         /\ Len(s.writeReqQ[0]) \in Nat /\ Len(s.writeDataQ[0]) \in Nat
         /\ moved \in Nat /\ Generated \in Nat /\ Written \in Nat
         /\ Written + Len(s.writeDataQ[0]) = moved
         /\ Generated <= Iterations(job.agu)
  <1>1. WellFormed(job.agu) /\ job.dir = "write" /\ Reuse(job.agu) = 1
    BY JobsAssumption DEF WriteInv, JobInv, OnlyWrites
  <1>2. Iterations(job.agu) \in Nat \ {0}
    BY <1>1, Below
  <1>3. 0 \in Lanes /\ 0 \in Enabled /\ WriteLane(0)
    BY LaneZero, SomeLane DEF WriteInv
  <1>4. Len(s.writeReqQ[0]) \in Nat /\ Len(s.writeDataQ[0]) \in Nat
    BY <1>3 DEF WriteLane, IsSeq
  <1>5. moved \in Nat /\ jobs \in Nat /\ Written \in Nat
    BY DEF WriteInv, JobInv, MemoryInv
  <1>6. Generated \in Nat /\ Written + Len(s.writeDataQ[0]) = moved
    BY <1>4, <1>5 DEF Generated, Written
  <1>7. Generated <= Iterations(job.agu)
    BY <1>2, <1>6 DEF WriteInv, GeneratorInv, AtIteration
  <1> QED BY <1>1, <1>2, <1>3, <1>4, <1>5, <1>6, <1>7

(* No entry of isLastQueue asks for the bypass buffer. *)
LEMMA NoBypass ==
  ASSUME AllLastInv
  PROVE  ~BypassAhead(s) /\ (LastAhead(s) <=> s.isLastQ # <<>>)
  <1> SUFFICES ASSUME s.isLastQ # <<>> PROVE Head(s.isLastQ) = TRUE
    BY DEF BypassAhead, LastAhead
  <1>1. 1 \in 1 .. Len(s.isLastQ) /\ Head(s.isLastQ) = s.isLastQ[1]
    BY DEF AllLastInv, IsSeq
  <1>2. s.isLastQ[1] = AlwaysLast[0 + 1 - 1]
    BY <1>1 DEF AllLastInv, Holds
  <1>3. 0 + 1 - 1 = 0 /\ AlwaysLast[0] = TRUE
    BY DEF AlwaysLast
  <1> QED BY <1>1, <1>2, <1>3

(* Nothing is read. *)
LEMMA StaysWithoutReads ==
  ASSUME NoReads, job.dir = "write", NEW in, ~BypassFire(s, in), s' = StreamerNext(s, job, in)
  PROVE  NoReads'
  <1>1. s'.bypass = <<>>
    BY Edge DEF NoReads, PopIf, PushIf
  <1>2. ASSUME NEW i \in Lanes PROVE UnusedLane(i)'
    <2>1. UnusedLane(i) /\ ~EnqRead(s, job, i)
      BY DEF NoReads, EnqRead, ReadReq
    <2>2. ~ReadFire(s, in, i) /\ ~EnqRsp(s, in, i)
      BY <2>1, Granted DEF UnusedLane, EnqRsp
    <2>3. s'.readReqQ[i] = <<>>
      BY <2>1, <2>2, Edge DEF UnusedLane, PopIf, PushIf
    <2>4. ~s'.readPending[i]
      BY <2>2, Edge
    <2>5. s'.rspQ[i] = PushIf(PopIf(s.rspQ[i], DeqRsp(s, job, in)),
                              EnqRsp(s, in, i), in.rsp[i].data)
      BY DEF StreamerNext
    <2>6. s'.rspQ[i] = <<>>
      BY <2>1, <2>2, <2>5 DEF UnusedLane, PopIf, PushIf
    <2> QED BY <2>3, <2>4, <2>6 DEF UnusedLane
  <1> QED BY <1>1, <1>2 DEF NoReads

------------------------------------------------------------------------------
(* A cycle of a streamer that only writes *)
WriteCycle(in, granted, avail) ==
  /\ WriteInv /\ OnlyWrites /\ granted \in Grants /\ AllOrNone(granted)
  /\ in = Inputs(FALSE, granted, avail)
  /\ s' = StreamerNext(s, job, in) /\ MemoryEdge(in)
  /\ moved' = IF Moves(in) THEN moved + 1 ELSE moved
  /\ UNCHANGED <<pool, job, jobs, made, mem0>>

(* A lane offers a write when it has one: it has no reads. *)
LEMMA WriteOffers ==
  ASSUME NoReads, NEW i \in Lanes
  PROVE  /\ Offers(s, i) = IF s.writeDataQ[i] # <<>> THEN {1} ELSE {}
         /\ Offers(s, i) # {} => Pick(s, i) = 1 /\ ReqAddr(s, i) = Head(s.writeDataQ[i]).addr
  <1>1. Offers(s, i) = IF s.writeDataQ[i] # <<>> THEN {1} ELSE {}
    BY DEF NoReads, UnusedLane, Offers
  <1>2. ASSUME Offers(s, i) # {}
        PROVE  Pick(s, i) = 1 /\ ReqAddr(s, i) = Head(s.writeDataQ[i]).addr
    BY <1>1, <1>2, PickOffered DEF ReqAddr
  <1> QED BY <1>1, <1>2

(* The lanes take data, send it to memory and get addresses in step. *)
LEMMA InStep ==
  ASSUME NEW in, NEW granted, NEW avail, WriteCycle(in, granted, avail)
  PROVE  /\ ~BypassFire(s, in)
         /\ Moves(in) => moved < Iterations(job.agu)
         /\ \A i \in Enabled :
              /\ i \in Lanes /\ WriteLane(i)
              /\ EnqData(s, job, in, i) <=> Moves(in)
              /\ EnqWrite(s, job, i) <=> AguFire(s, job)
              /\ WriteFire(s, in, i) <=> WriteFire(s, in, 0)
              /\ Moves(in) => s.writeReqQ[i] # <<>>
              /\ in.writeVec[i] = made[moved][i]
         /\ \A i \in Lanes \ Enabled :
              ~EnqData(s, job, in, i) /\ ~EnqWrite(s, job, i) /\ ~WriteFire(s, in, i)
  <1>1. /\ WriteInv /\ OnlyWrites /\ granted \in Grants /\ job.dir = "write"
        /\ NoReads /\ AllLastInv /\ 0 \in Enabled
    BY WriteNumbers DEF WriteCycle, WriteInv
  <1>2. /\ in.writeValid = (avail /\ moved < Iterations(job.agu) /\ AddressAhead)
        /\ in.writeVec = Result(ReadVec(s)) /\ in.granted = granted
    BY <1>1 DEF WriteCycle, Inputs
  <1>3. ~BypassFire(s, in) /\ (LastAhead(s) <=> s.isLastQ # <<>>) /\ ~BypassAhead(s)
    BY <1>1, NoBypass DEF BypassFire, BypassValid
  <1>4. \A i \in Lanes \ Enabled : s.writeDataQ[i] = <<>>
    BY <1>1 DEF WriteInv, IdleLane
  <1>5. \A i \in Enabled : /\ i \in Lanes /\ WriteLane(i)
                           /\ Len(s.writeDataQ[i]) = Len(s.writeDataQ[0])
    BY <1>1 DEF WriteInv, Enabled, WriteLane
  <1>6. \A i \in Enabled : s.writeDataQ[i] = <<>> <=> s.writeDataQ[0] = <<>>
    BY <1>1, <1>5 DEF WriteLane, IsSeq
  <1>7. Moves(in) <=> in.writeValid /\ LastAhead(s) /\ HasRoom(s.writeDataQ[0])
    <2>1. WriteDataReady(s) <=> LastAhead(s) /\ HasRoom(s.writeDataQ[0])
      <3>1. \A i \in Enabled : HasRoom(s.writeDataQ[i]) <=> HasRoom(s.writeDataQ[0])
        BY <1>5 DEF HasRoom
      <3>2. \A i \in Lanes \ Enabled : HasRoom(s.writeDataQ[i])
        <4>1. Len(<<>>) < QueueDepth
          BY DepthAssumption
        <4> QED BY <1>4, <4>1 DEF HasRoom
      <3>3. 0 \in Lanes /\ Enabled \in SUBSET Lanes
        BY <1>1, <1>5
      <3> QED BY <1>1, <1>3, <3>1, <3>2, <3>3 DEF WriteDataReady
    <2> QED BY <1>1, <2>1 DEF Moves
  <1>8. ASSUME NEW i \in Enabled
        PROVE  /\ EnqData(s, job, in, i) <=> Moves(in)
               /\ EnqWrite(s, job, i) <=> AguFire(s, job)
               /\ WriteFire(s, in, i) <=> WriteFire(s, in, 0)
               /\ Moves(in) => s.writeReqQ[i] # <<>>
               /\ in.writeVec[i] = made[moved][i]
    <2>1. LaneEnabled(job, i) /\ i \in Lanes
      BY DEF Enabled
    <2>2. Moves(in) => s.writeReqQ[i] # <<>>
      BY <1>2, <1>7, <2>1 DEF AddressAhead
    <2>3. HasRoom(s.writeDataQ[i]) <=> HasRoom(s.writeDataQ[0])
      BY <1>5 DEF HasRoom
    <2>4. EnqData(s, job, in, i) <=> Moves(in)
      <3>1. in.writeValid => s.writeReqQ[i] # <<>>
        BY <1>2, <2>1 DEF AddressAhead
      <3> QED BY <1>7, <2>1, <2>3, <3>1 DEF EnqData
    <2>5. AguFire(s, job) => WriteReq(s, job)
      <3> SUFFICES ASSUME AguFire(s, job) PROVE IsLast(job.agu, s.agu.counters)
        BY <1>1 DEF WriteReq
      <3>1. s.agu.counters = Digits(job.agu, Generated)
        BY <1>1 DEF AguFire, WriteInv, GeneratorInv, AtIteration
      <3>2. Generated \in Nat /\ WellFormed(job.agu) /\ Reuse(job.agu) = 1
        BY <1>1, WriteNumbers
      <3>3. (Generated + 1) % 1 = 0
        BY <3>2
      <3> QED BY <3>1, <3>2, <3>3, ElementFlags
    <2>6. EnqWrite(s, job, i) <=> AguFire(s, job)
      BY <2>1, <2>5 DEF EnqWrite
    <2>7. WriteFire(s, in, i) <=> WriteFire(s, in, 0)
      <3>1. granted \in {{}, {k \in Lanes : Offers(s, k) # {}}}
        BY DEF WriteCycle, AllOrNone
      <3>2. Offers(s, i) # {} <=> Offers(s, 0) # {}
        BY <1>1, <1>5, <1>6, <2>1, WriteOffers
      <3>3. i \in granted <=> 0 \in granted
        BY <1>1, <1>5, <2>1, <3>1, <3>2
      <3>4. \A k \in {0, i} : WriteFire(s, in, k) <=> Offers(s, k) # {} /\ k \in granted
        BY <1>1, <1>2, <1>5, <2>1, WriteOffers DEF WriteFire, ReqFire
      <3> QED BY <3>2, <3>3, <3>4
    <2>8. in.writeVec[i] = made[moved][i]
      BY <1>1, <1>2, <2>1 DEF Result
    <2> QED BY <2>2, <2>4, <2>6, <2>7, <2>8
  <1>9. ASSUME NEW i \in Lanes \ Enabled
        PROVE  ~EnqData(s, job, in, i) /\ ~EnqWrite(s, job, i) /\ ~WriteFire(s, in, i)
    <2>1. ~LaneEnabled(job, i)
      BY DEF Enabled
    <2>2. ~WriteFire(s, in, i)
      BY <1>1, <1>4, WriteOffers DEF WriteFire, ReqFire
    <2> QED BY <2>1, <2>2 DEF EnqData, EnqWrite
  <1> QED BY <1>2, <1>3, <1>5, <1>7, <1>8, <1>9

(* The three counts of vectors *)
LEMMA WriteCounts ==
  ASSUME NEW in, NEW granted, NEW avail, WriteCycle(in, granted, avail)
  PROVE  /\ moved' = moved + Count(Moves(in))
         /\ Generated' = Generated + Count(AguFire(s, job))
         /\ Written' = Written + Count(WriteFire(s, in, 0))
         /\ Moves(in) => moved < Generated
         /\ WriteFire(s, in, 0) => Written < moved
         /\ \A i \in Enabled : WriteLane(i)'
         /\ \A i \in Lanes \ Enabled : IdleLane(i)'
  <1> DEFINE move == Moves(in)
             take == AguFire(s, job)
             fire == WriteFire(s, in, 0)
             g    == Generated
             w    == Written
             a    == Len(s.writeReqQ[0])
             d    == Len(s.writeDataQ[0])
  <1>1. /\ WriteInv /\ OnlyWrites /\ s' = StreamerNext(s, job, in) /\ job' = job /\ NoReads
    BY DEF WriteCycle, WriteInv
  <1>2. /\ a \in Nat /\ d \in Nat /\ moved \in Nat /\ g \in Nat /\ w \in Nat
        /\ w + d = moved /\ g = moved + a /\ 0 \in Enabled
    BY <1>1, WriteNumbers DEF Generated
  <1>3. moved' = moved + Count(move)
    <2>1. moved' = IF Moves(in) THEN moved + 1 ELSE moved
      BY DEF WriteCycle
    <2> QED BY <1>2, <2>1 DEF Count
  <1>4. ASSUME NEW i \in Enabled
        PROVE  /\ IsSeq(s'.writeReqQ[i]) /\ IsSeq(s'.writeDataQ[i])
               /\ Len(s'.writeReqQ[i]) = a - Count(move) + Count(take)
               /\ Len(s'.writeDataQ[i]) = d - Count(fire) + Count(move)
               /\ Holds(s'.writeReqQ[i], VectorAddr(i), moved + Count(move))
               /\ Holds(s'.writeDataQ[i], VectorWord(i), w + Count(fire))
               /\ move => a # 0
               /\ fire => d # 0
    <2>1. /\ i \in Lanes /\ WriteLane(i)
          /\ EnqData(s, job, in, i) <=> move
          /\ EnqWrite(s, job, i) <=> take
          /\ WriteFire(s, in, i) <=> fire
          /\ move => s.writeReqQ[i] # <<>>
          /\ in.writeVec[i] = made[moved][i]
      BY InStep
    <2> DEFINE x == Address(job.agu, s.agu.counters, i)
               y == [addr |-> Head(s.writeReqQ[i]), data |-> in.writeVec[i]]
               addrs == VectorAddr(i)
               words == VectorWord(i)
    <2>2. /\ IsSeq(s.writeReqQ[i]) /\ Len(s.writeReqQ[i]) = a
          /\ IsSeq(s.writeDataQ[i]) /\ Len(s.writeDataQ[i]) = d
          /\ Holds(s.writeReqQ[i], addrs, moved) /\ Holds(s.writeDataQ[i], words, w)
      BY <2>1 DEF WriteLane
    <2>3. s'.writeReqQ[i] = PushIf(PopIf(s.writeReqQ[i], move), take, x)
      <3>1. s'.writeReqQ[i] = PushIf(PopIf(s.writeReqQ[i], EnqData(s, job, in, i)),
                                     EnqWrite(s, job, i), x)
        BY <1>1, <2>1 DEF StreamerNext
      <3> HIDE DEF move, take, x
      <3> QED BY <2>1, <3>1 DEF PushIf, PopIf
    <2>4. s'.writeDataQ[i] = PushIf(PopIf(s.writeDataQ[i], fire), move, y)
      <3>1. s'.writeDataQ[i] = PushIf(PopIf(s.writeDataQ[i], WriteFire(s, in, i)),
                                      EnqData(s, job, in, i), y)
        BY <1>1, <2>1, Edge
      <3> HIDE DEF move, fire, y
      <3> QED BY <2>1, <3>1 DEF PushIf, PopIf
    <2>5. take => x = addrs[moved + Len(s.writeReqQ[i])]
      <3> SUFFICES ASSUME take PROVE x = addrs[g]
        BY <1>2, <2>2
      <3>1. s.agu.counters = Digits(job.agu, Generated)
        BY <1>1 DEF AguFire, WriteInv, GeneratorInv, AtIteration
      <3> QED BY <1>2, <3>1 DEF VectorAddr, IterAddress
    <2>6. move => y = words[w + Len(s.writeDataQ[i])]
      <3> SUFFICES ASSUME move PROVE y = words[moved]
        BY <1>2, <2>2
      <3>1. s.writeReqQ[i] # <<>>
        BY <2>1
      <3>2. 1 \in 1 .. Len(s.writeReqQ[i]) /\ Head(s.writeReqQ[i]) = s.writeReqQ[i][1]
        BY <2>2, <3>1 DEF IsSeq
      <3>3. s.writeReqQ[i][1] = addrs[moved]
        <4>1. moved + 1 - 1 = moved
          BY <1>2
        <4> QED BY <2>2, <3>2, <4>1 DEF Holds
      <3>4. addrs[moved] = IterAddress(job.agu, moved, i)
        BY <1>2 DEF VectorAddr
      <3>5. words[moved] = [addr |-> IterAddress(job.agu, moved, i),
                            data |-> made[moved][i]]
        BY <1>2 DEF VectorWord
      <3> QED BY <2>1, <3>2, <3>3, <3>4, <3>5
    <2>7. fire => s.writeDataQ[i] # <<>>
      BY <1>1, <2>1, WriteOffers DEF WriteFire, ReqFire
    <2>8. (move => a # 0) /\ (fire => d # 0)
      <3>1. \A q : IsSeq(q) /\ q # <<>> => Len(q) # 0
        BY DEF IsSeq
      <3> HIDE DEF move, fire, a, d
      <3> QED BY <2>1, <2>2, <2>7, <3>1
    <2> HIDE DEF x, y, addrs, words, move, take, fire, a, d, w
    <2>9. /\ IsSeq(s'.writeReqQ[i]) /\ Len(s'.writeReqQ[i]) = a - Count(move) + Count(take)
          /\ Holds(s'.writeReqQ[i], addrs, moved + Count(move))
      BY SMTT(20), <1>2, <2>1, <2>2, <2>3, <2>5, QueueStep
    <2>10. /\ IsSeq(s'.writeDataQ[i])
           /\ Len(s'.writeDataQ[i]) = d - Count(fire) + Count(move)
           /\ Holds(s'.writeDataQ[i], words, w + Count(fire))
      BY SMTT(20), <1>2, <2>2, <2>4, <2>6, <2>7, QueueStep
    <2> QED BY <2>8, <2>9, <2>10 DEF addrs, words
  <1> DEFINE a2 == Len(s'.writeReqQ[0])
             d2 == Len(s'.writeDataQ[0])
             mo == Count(move)
             ta == Count(take)
             fi == Count(fire)
  <1>5. /\ a2 = a - mo + ta /\ d2 = d - fi + mo
        /\ move => a # 0
        /\ fire => d # 0
    BY <1>2, <1>4
  <1>6. mo \in Nat /\ ta \in Nat /\ fi \in Nat
    BY DEF Count
  <1>7. Generated' = moved' + a2 /\ Written' = moved' - d2
    BY DEF Generated, Written
  <1> HIDE DEF a, d, g, w, a2, d2, mo, ta, fi, move, take, fire
  <1>8. moved' + a2 = g + ta /\ moved' - d2 = w + fi
    BY <1>2, <1>3, <1>5, <1>6 DEF mo
  <1>9. (move => moved < g) /\ (fire => w < moved)
    BY <1>2, <1>5
  <1>10. Generated' = Generated + Count(take) /\ Written' = Written + Count(fire)
    BY <1>7, <1>8 DEF g, w, ta, fi
  <1>11. ASSUME NEW i \in Enabled PROVE WriteLane(i)'
    <2>1. VectorAddr(i)' = VectorAddr(i) /\ VectorWord(i)' = VectorWord(i)
      BY <1>1 DEF WriteCycle, VectorAddr, VectorWord
    <2>2. Len(s'.writeReqQ[i]) = a2 /\ Len(s'.writeDataQ[i]) = d2
      BY <1>4, <1>5 DEF mo, ta, fi
    <2> QED BY <1>3, <1>4, <1>10, <2>1, <2>2 DEF WriteLane, a2, d2, w
  <1>12. ASSUME NEW i \in Lanes \ Enabled PROVE IdleLane(i)'
    <2>1. /\ IdleLane(i) /\ ~EnqData(s, job, in, i) /\ ~EnqWrite(s, job, i)
          /\ ~WriteFire(s, in, i)
      BY <1>1, InStep DEF WriteInv
    <2> QED BY <1>1, <2>1, Edge DEF IdleLane, PopIf, PushIf
  <1> QED BY <1>3, <1>9, <1>10, <1>11, <1>12 DEF move, take, fire, g, w

(* Without writes the memory stays as it is. *)
LEMMA MemoryKept ==
  ASSUME NEW in, MemoryEdge(in), \A i \in Lanes : ~WriteFire(s, in, i),
         mem = [a \in Addrs |-> mem[a]]
  PROVE  mem' = mem
  <1>1. mem' = [a \in Addrs |-> mem[a]]
    BY DEF MemoryEdge
  <1> QED BY <1>1

(* The generator, the flags and the memory after the cycle *)
LEMMA WriteGenerator ==
  ASSUME NEW in, NEW granted, NEW avail, WriteCycle(in, granted, avail)
  PROVE  GeneratorInv'
  <1>1. /\ WriteInv /\ OnlyWrites /\ GeneratorInv /\ job' = job /\ jobs' = jobs
        /\ s'.agu = AguNext(job.agu, s.agu, FALSE, AguReady(s, job))
    <2>1. s'.agu = AguNext(job.agu, s.agu, in.start, AguReady(s, job))
      BY Edge DEF WriteCycle
    <2>2. in.start = FALSE
      BY DEF WriteCycle, Inputs
    <2> QED BY <2>1, <2>2 DEF WriteCycle, WriteInv
  <1>2. Generated \in Nat /\ WellFormed(job.agu)
    BY <1>1, WriteNumbers
  <1>3. AtIteration(job.agu, s'.agu, jobs > 0,
                    IF s.agu.busy /\ AguReady(s, job) THEN Generated + 1 ELSE Generated)
    BY <1>1, <1>2, GeneratorStep DEF GeneratorInv
  <1>4. Generated' = IF s.agu.busy /\ AguReady(s, job) THEN Generated + 1 ELSE Generated
    BY <1>2, WriteCounts DEF AguFire, Count
  <1> QED BY <1>1, <1>3, <1>4 DEF GeneratorInv

LEMMA WriteFlags ==
  ASSUME NEW in, NEW granted, NEW avail, WriteCycle(in, granted, avail)
  PROVE  AllLastInv'
  <1> DEFINE push == EnqIsLast(s, job)
             x == IsLast(job.agu, s.agu.counters)
  <1>1. /\ WriteInv /\ OnlyWrites /\ s' = StreamerNext(s, job, in) /\ AllLastInv
        /\ job.dir = "write" /\ GeneratorInv
    BY WriteNumbers DEF WriteCycle, WriteInv
  <1>2. /\ IsSeq(s.isLastQ) /\ Holds(s.isLastQ, AlwaysLast, 0) /\ Len(s.isLastQ) \in Nat
    BY <1>1 DEF AllLastInv, IsSeq
  <1>3. s'.isLastQ = PushIf(s.isLastQ, push, x)
    <2>1. ~DeqIsLast(s, job, in)
      BY <1>1 DEF DeqIsLast
    <2>2. s'.isLastQ = PushIf(PopIf(s.isLastQ, DeqIsLast(s, job, in)), push, x)
      BY <1>1, Edge
    <2> QED BY <2>1, <2>2 DEF PopIf
  <1>4. push => x = AlwaysLast[0 + Len(s.isLastQ)]
    <2>0. AlwaysLast[0 + Len(s.isLastQ)] = TRUE
      <3>1. 0 + Len(s.isLastQ) \in Nat
        BY <1>2
      <3> QED BY <3>1 DEF AlwaysLast
    <2> SUFFICES ASSUME push PROVE x = TRUE
      BY <2>0
    <2>1. s.agu.counters = Digits(job.agu, Generated)
      BY <1>1 DEF EnqIsLast, AguFire, GeneratorInv, AtIteration
    <2>2. Generated \in Nat /\ WellFormed(job.agu) /\ Reuse(job.agu) = 1
      BY <1>1, WriteNumbers
    <2>3. (Generated + 1) % 1 = 0
      BY <2>2
    <2>4. x
      BY <2>1, <2>2, <2>3, ElementFlags
    <2>5. x \in BOOLEAN
      BY DEF IsLast, AtBound
    <2> QED BY <2>4, <2>5
  <1> HIDE DEF push, x
  <1>5. /\ IsSeq(s'.isLastQ) /\ Len(s'.isLastQ) = Len(s.isLastQ) + Count(push)
        /\ Holds(s'.isLastQ, AlwaysLast, 0)
    BY <1>2, <1>3, <1>4, PushHolds
  <1>6. Generated' > 0 => push \/ Len(s.isLastQ) # 0
    <2> SUFFICES ASSUME Generated' > 0 PROVE push \/ Len(s.isLastQ) # 0
      OBVIOUS
    <2>1. Generated' = Generated + Count(AguFire(s, job)) /\ Generated \in Nat
      BY <1>1, WriteCounts, WriteNumbers
    <2>2. CASE AguFire(s, job)
      BY <2>2, <1>2, DepthAssumption DEF push, EnqIsLast
    <2>3. CASE ~AguFire(s, job)
      <3>1. Generated > 0
        BY <2>1, <2>3 DEF Count
      <3> QED BY <1>1, <1>2, <3>1 DEF AllLastInv, IsSeq
    <2> QED BY <2>2, <2>3
  <1>7. AlwaysLast' = AlwaysLast
    BY DEF AlwaysLast
  <1>8. push \/ Len(s.isLastQ) # 0 => Len(s'.isLastQ) # 0
    <2> DEFINE l == Len(s.isLastQ)
               l2 == Len(s'.isLastQ)
    <2>1. l \in Nat /\ l2 = l + Count(push)
      BY <1>2, <1>5
    <2> HIDE DEF l, l2
    <2>2. push \/ l # 0 => l2 # 0
      BY <2>1 DEF Count
    <2> QED BY <2>2 DEF l, l2
  <1>9. Generated' > 0 => s'.isLastQ # <<>>
    BY <1>6, <1>8
  <1> QED BY <1>5, <1>7, <1>9 DEF AllLastInv

(* The memory after a cycle in which the lanes write a vector: each word of *)
(* it is at the address of its lane, the others have not changed.           *)
LEMMA WriteMemory ==
  ASSUME NEW in, NEW granted, NEW avail, WriteCycle(in, granted, avail)
  PROVE  MemoryInv'
  <1> DEFINE n == Written
             A(m, i) == IterAddress(job.agu, m, i)
             fire == WriteFire(s, in, 0)
  <1>1. /\ WriteInv /\ OnlyWrites /\ NoReads /\ MemoryInv /\ MemoryEdge(in)
        /\ job' = job /\ mem0' = mem0 /\ made' = made /\ granted \in Grants /\ in.granted = granted
        /\ Enabled' = Enabled
    BY DEF WriteCycle, WriteInv, Enabled, Inputs
  <1>2. n \in Nat /\ Written' = n + Count(fire)
    BY <1>1, WriteNumbers, WriteCounts
  <1>3. mem' = [a \in Addrs |-> mem'[a]]
    <2>1. \E f : mem' = [a \in Addrs |-> f[a]]
      BY <1>1 DEF MemoryEdge, MemoryInv
    <2> QED BY <2>1
  <1>4. CASE ~fire
    <2>1. Written' = n
      BY <1>2, <1>4 DEF Count
    <2>2. \A i \in Lanes : ~WriteFire(s, in, i)
      BY <1>4, InStep
    <2>3. mem' = mem
      BY <1>1, <2>2, MemoryKept DEF MemoryInv
    <2> QED BY <1>1, <2>1, <2>3 DEF MemoryInv, MemoryAfter, Untouched, Apart
  <1>5. CASE fire
    <2>1. Written' = n + 1
      BY <1>2, <1>5 DEF Count
    <2>2. ASSUME NEW i \in Enabled
          PROVE  /\ i \in Lanes /\ i \in granted /\ WriteFire(s, in, i)
                 /\ ReqAddr(s, i) = A(n, i)
                 /\ Head(s.writeDataQ[i]).data = made[n][i]
      <3>1. i \in Lanes /\ WriteLane(i) /\ WriteFire(s, in, i)
        BY <1>5, InStep
      <3>2. i \in granted /\ Offers(s, i) # {}
        BY <1>1, <3>1 DEF WriteFire, ReqFire
      <3>3. s.writeDataQ[i] # <<>> /\ ReqAddr(s, i) = Head(s.writeDataQ[i]).addr
        BY <1>1, <3>1, <3>2, WriteOffers
      <3>4. 1 \in 1 .. Len(s.writeDataQ[i]) /\ Head(s.writeDataQ[i]) = s.writeDataQ[i][1]
        BY <3>1, <3>3 DEF WriteLane, IsSeq
      <3>5. s.writeDataQ[i][1] = VectorWord(i)[n]
        <4>1. n + 1 - 1 = n
          BY <1>2
        <4> QED BY <3>1, <3>4, <4>1 DEF WriteLane, Holds
      <3>6. VectorWord(i)[n] = [addr |-> A(n, i), data |-> made[n][i]]
        BY <1>2 DEF VectorWord
      <3> QED BY <3>1, <3>2, <3>3, <3>4, <3>5, <3>6
    <2>3. \A i \in Lanes : WriteFire(s, in, i) <=> i \in Enabled
      BY <2>2, InStep
    <2>4. Apart(n)
      <3> SUFFICES ASSUME NEW i \in Enabled, NEW k \in Enabled, A(n, i) = A(n, k), i # k
                   PROVE  FALSE
        BY DEF Apart
      <3>1. Bank(ReqAddr(s, i)) # Bank(ReqAddr(s, k))
        BY <1>1, <2>2 DEF Grants
      <3> QED BY <2>2, <3>1
    <2>5. ASSUME NEW a \in Addrs
          PROVE  \/ \E i \in Enabled : A(n, i) = a /\ mem'[a] = made[n][i]
                 \/ mem'[a] = mem[a] /\ \A i \in Enabled : A(n, i) # a
      <3> DEFINE writes(i) == WriteFire(s, in, i) /\ ReqAddr(s, i) = a
      <3>1. mem'[a] = IF \E i \in Lanes : writes(i)
                      THEN Head(s.writeDataQ[CHOOSE i \in Lanes : writes(i)]).data
                      ELSE mem[a]
        BY <1>1 DEF MemoryEdge
      <3>2. \A i \in Lanes : writes(i) <=> i \in Enabled /\ A(n, i) = a
        BY <2>2, <2>3
      <3> HIDE DEF writes
      <3>3. CASE \E i \in Lanes : writes(i)
        <4>1. PICK k \in Lanes : k = (CHOOSE i \in Lanes : writes(i)) /\ writes(k)
          BY <3>3
        <4> QED BY <2>2, <3>1, <3>2, <3>3, <4>1
      <3>4. CASE ~\E i \in Lanes : writes(i)
        BY <2>2, <3>1, <3>2, <3>4
      <3> QED BY <3>3, <3>4
    <2>6. ASSUME NEW a \in Addrs PROVE MemoryAfter(Written, a)'
      <3> SUFFICES \/ mem'[a] = mem0[a] /\ Untouched(0, n + 1, a)
                   \/ \E m \in 0 .. n : \E i \in Enabled :
                        /\ mem'[a] = made[m][i] /\ A(m, i) = a
                        /\ Untouched(m + 1, n + 1, a)
        <4>1. Written' - 1 = n
          BY <1>2, <2>1
        <4>2. \A f \in Nat : Untouched(f, n + 1, a) => Untouched(f, Written, a)'
          BY <1>1, <2>1 DEF Untouched
        <4>3. CASE mem'[a] = mem0[a] /\ Untouched(0, n + 1, a)
          BY <1>1, <4>2, <4>3 DEF MemoryAfter
        <4>4. ASSUME NEW m \in 0 .. n, NEW i \in Enabled,
                     mem'[a] = made[m][i], A(m, i) = a,
                     Untouched(m + 1, n + 1, a)
              PROVE  MemoryAfter(Written, a)'
          <5>1. m + 1 \in Nat /\ m \in 0 .. Written' - 1
            BY <1>2, <4>1
          <5>2. Untouched(m + 1, Written, a)'
            BY <4>2, <4>4, <5>1
          <5> QED BY <1>1, <4>4, <5>1, <5>2 DEF MemoryAfter
        <4> QED BY <4>3, <4>4
      <3>1. CASE \E i \in Enabled : A(n, i) = a /\ mem'[a] = made[n][i]
        <4>1. Untouched(n + 1, n + 1, a)
          BY <1>2 DEF Untouched
        <4>2. n \in 0 .. n
          BY <1>2
        <4> QED BY <3>1, <4>1, <4>2
      <3>2. CASE mem'[a] = mem[a] /\ \A i \in Enabled : A(n, i) # a
        <4>1. ASSUME NEW f \in Nat, Untouched(f, n, a) PROVE Untouched(f, n + 1, a)
          <5>1. ASSUME NEW m \in f .. n + 1 - 1, NEW i \in Enabled PROVE A(m, i) # a
            <6>1. m \in f .. n - 1 \/ m = n
              BY <1>2
            <6> QED BY <3>2, <4>1, <6>1 DEF Untouched
          <5> HIDE DEF n
          <5> QED BY <1>2, <5>1 DEF Untouched
        <4>2. MemoryAfter(n, a)
          BY <1>1 DEF MemoryInv
        <4>3. CASE mem[a] = mem0[a] /\ Untouched(0, n, a)
          BY <3>2, <4>1, <4>3
        <4>4. ASSUME NEW m \in 0 .. n - 1, NEW i \in Enabled,
                     mem[a] = made[m][i], A(m, i) = a, Untouched(m + 1, n, a)
              PROVE  \E k \in 0 .. n : \E l \in Enabled :
                        /\ mem'[a] = made[k][l] /\ A(k, l) = a
                        /\ Untouched(k + 1, n + 1, a)
          <5>1. m + 1 \in Nat /\ m \in 0 .. n
            BY <1>2
          <5>2. Untouched(m + 1, n + 1, a)
            BY <4>1, <4>4, <5>1
          <5> QED BY <3>2, <4>4, <5>1, <5>2
        <4> QED BY <4>2, <4>3, <4>4 DEF MemoryAfter
      <3> QED BY <2>5, <3>1, <3>2
    <2>7. \A m \in 0 .. Written' - 1 : Apart(m)'
      <3>1. \A m \in 0 .. n + 1 - 1 : m \in 0 .. n - 1 \/ m = n
        BY <1>2
      <3> QED BY <1>1, <2>1, <2>4, <3>1 DEF Apart, MemoryInv
    <2>8. Written' \in Nat
      BY <1>2, <2>1
    <2> QED BY <1>3, <2>6, <2>7, <2>8 DEF MemoryInv
  <1> QED BY <1>4, <1>5

(* A cycle keeps the invariant. *)
LEMMA WriteCycleKeeps ==
  ASSUME NEW in, NEW granted, NEW avail, WriteCycle(in, granted, avail)
  PROVE  WriteInv'
  <1>1. /\ WriteInv /\ OnlyWrites /\ s' = StreamerNext(s, job, in) /\ job.dir = "write"
        /\ UNCHANGED <<pool, job, jobs, mem0>>
    BY WriteNumbers DEF WriteCycle
  <1>2. Enabled' = Enabled
    BY <1>1 DEF Enabled
  <1>3. JobInv'
    <2>1. moved' = IF Moves(in) THEN moved + 1 ELSE moved
      BY DEF WriteCycle
    <2> QED BY <1>1, <2>1 DEF JobInv, WriteInv
  <1>4. NoReads'
    <2>1. ~BypassFire(s, in)
      BY InStep
    <2> QED BY <1>1, <2>1, StaysWithoutReads DEF WriteInv
  <1>5. GeneratorInv'
    BY WriteGenerator
  <1>6. AllLastInv'
    BY WriteFlags
  <1>7. MemoryInv'
    BY WriteMemory
  <1>8. ASSUME NEW i \in Lanes
        PROVE  IF i \in Enabled' THEN WriteLane(i)' ELSE IdleLane(i)'
    <2>1. CASE i \in Enabled
      BY <1>2, <2>1, WriteCounts
    <2>2. CASE i \notin Enabled
      BY <1>2, <2>2, WriteCounts
    <2> QED BY <2>1, <2>2
  <1> QED BY <1>3, <1>4, <1>5, <1>6, <1>7, <1>8 DEF WriteInv

(* From its first address on, the generator stays ahead of the datapath. *)
AheadInv == Generated = 0 \/ moved = Iterations(job.agu) \/ moved < Generated

LEMMA AheadKept ==
  ASSUME NEW in, NEW granted, NEW avail, WriteCycle(in, granted, avail),
         AheadInv, jobs > 0
  PROVE  AheadInv' /\ Generated' > 0
  <1> DEFINE move == Moves(in)
             take == AguFire(s, job)
             n    == Iterations(job.agu)
             l    == Len(s.writeReqQ[0])
  <1>1. /\ WriteInv /\ OnlyWrites /\ job' = job
        /\ Generated \in Nat /\ moved \in Nat /\ n \in Nat \ {0} /\ l \in Nat
        /\ Generated <= n /\ Generated = moved + l
    BY WriteNumbers DEF WriteCycle, Generated
  <1>2. /\ moved' = moved + Count(move) /\ Generated' = Generated + Count(take)
        /\ move => moved < Generated
    BY WriteCounts
  <1>3. Generated < n /\ l < QueueDepth => take
    <2> SUFFICES ASSUME Generated < n, l < QueueDepth PROVE take
      OBVIOUS
    <2>1. s.agu.busy
      <3>1. AtIteration(job.agu, s.agu, jobs > 0, Generated)
        BY <1>1 DEF WriteInv, GeneratorInv
      <3> QED BY <1>1, <3>1 DEF AtIteration
    <2>2. ASSUME NEW i \in Lanes PROVE HasRoom(s.writeReqQ[i])
      <3>1. CASE i \in Enabled
        <4>1. Len(s.writeReqQ[i]) = l
          BY <1>1, <3>1 DEF WriteInv, WriteLane
        <4> QED BY <4>1 DEF HasRoom
      <3>2. CASE i \notin Enabled
        <4>1. s.writeReqQ[i] = <<>>
          BY <1>1, <3>2 DEF WriteInv, IdleLane
        <4>2. Len(s.writeReqQ[i]) = 0
          BY <4>1
        <4> QED BY <4>2, DepthAssumption DEF HasRoom
      <3> QED BY <3>1, <3>2
    <2>3. job.dir = "write"
      BY <1>1, WriteNumbers
    <2> QED BY <2>1, <2>2, <2>3
         DEF AguFire, AguReady, ReadReq, WriteReq, WriteQueuesReady
  <1> DEFINE mo == Count(move)
             ta == Count(take)
  <1>4. mo \in {0, 1} /\ ta \in {0, 1} /\ (move <=> mo = 1) /\ (take <=> ta = 1)
    BY DEF Count
  <1>5. moved' = moved + mo /\ Generated' = Generated + ta
    BY <1>2
  <1>6. QueueDepth \in Nat /\ QueueDepth > 1
    BY DepthAssumption
  <1> HIDE DEF move, take, n, l, mo, ta
  <1>7. Generated' > 0
    BY <1>1, <1>3, <1>4, <1>5, <1>6
  <1>8. moved' = n \/ moved' < Generated'
    BY <1>1, <1>2, <1>3, <1>4, <1>5, <1>6 DEF AheadInv, n
  <1> QED BY <1>1, <1>7, <1>8 DEF AheadInv, n

(* A streamer whose generator is ahead has an address for every lane. *)
LEMMA Addressed ==
  ASSUME WriteInv, OnlyWrites, moved < Generated
  PROVE  AddressAhead
  <1>1. Len(s.writeReqQ[0]) \in Nat /\ moved \in Nat
    BY WriteNumbers
  <1>2. Len(s.writeReqQ[0]) # 0
    BY <1>1 DEF Generated
  <1> SUFFICES ASSUME NEW i \in Enabled PROVE s.writeReqQ[i] # <<>>
    BY DEF AddressAhead, Enabled
  <1>3. Len(s.writeReqQ[i]) # 0
    BY <1>2 DEF WriteInv, WriteLane, Enabled
  <1> QED BY <1>3

------------------------------------------------------------------------------
(* When a writing streamer is done it has written the whole nest. *)
LEMMA WriterAtRest ==
  ASSUME WriteInv, OnlyWrites, Done(s)
  PROVE  /\ ~s.agu.busy /\ \A i \in Lanes : IdleLane(i)
         /\ jobs > 0 => Written = Iterations(job.agu)
  <1>1. ~s.agu.busy /\ AllQueuesEmpty(s)
    BY DEF Done
  <1>2. ASSUME NEW i \in Lanes PROVE IdleLane(i)
    <2>1. CASE i \in Enabled
      <3>1. IsSeq(s.writeReqQ[i]) /\ IsSeq(s.writeDataQ[i])
        BY <2>1 DEF WriteInv, WriteLane
      <3>2. s.rspQ[i] = <<>> /\ s.readReqQ[i] = <<>>
        BY DEF WriteInv, NoReads, UnusedLane
      <3>3. <<>> = s.rspQ[i] \o s.writeDataQ[i] \o s.readReqQ[i] \o s.writeReqQ[i]
        BY <1>1 DEF AllQueuesEmpty
      <3>4. ASSUME NEW p, NEW q, IsSeq(p), IsSeq(q), <<>> = <<>> \o p \o <<>> \o q
            PROVE  p = <<>> /\ q = <<>>
        <4>1. PICK S, T : p \in Seq(S) /\ q \in Seq(T)
          BY <3>4 DEF IsSeq
        <4>2. p \in Seq(S \cup T) /\ q \in Seq(S \cup T)
          BY <4>1
        <4>3. /\ <<>> \o p \in Seq(S \cup T) /\ Len(<<>> \o p) = Len(p)
          BY <4>2
        <4>4. /\ <<>> \o p \o <<>> \in Seq(S \cup T) /\ Len(<<>> \o p \o <<>>) = Len(p)
          BY <4>2, <4>3
        <4>5. Len(<<>> \o p \o <<>> \o q) = Len(p) + Len(q)
          BY <4>2, <4>4
        <4>6. Len(p) \in Nat /\ Len(q) \in Nat
          BY <4>2
        <4>7. Len(<<>> \o p \o <<>> \o q) = 0
          <5>1. Len(<<>>) = 0
            OBVIOUS
          <5> QED BY <3>4, <5>1, Zenon
        <4>8. Len(p) = 0 /\ Len(q) = 0
          BY <4>5, <4>6, <4>7
        <4> QED BY <4>2, <4>8
      <3> QED BY <3>1, <3>2, <3>3, <3>4 DEF IdleLane
    <2>2. CASE i \notin Enabled
      BY <2>2 DEF WriteInv
    <2> QED BY <2>1, <2>2
  <1>3. jobs > 0 => Written = Iterations(job.agu)
    <2>1. s.writeReqQ[0] = <<>> /\ s.writeDataQ[0] = <<>> /\ Len(<<>>) = 0
      BY <1>2, SomeLane DEF IdleLane
    <2>2. Generated = moved /\ Written = moved
      BY <2>1, WriteNumbers DEF Generated, Written
    <2>3. Generated = IF jobs = 0 THEN 0 ELSE Iterations(job.agu)
      BY <1>1, WriteNumbers DEF WriteInv, GeneratorInv, AtIteration
    <2> QED BY <2>2, <2>3, WriteNumbers
  <1> QED BY <1>1, <1>2, <1>3

(* Then every word holds what the last vector for it brought. *)
LEMMA NestWritten ==
  ASSUME OnlyWrites, WriteInv, jobs > 0, Done(s), NEW a \in Addrs
  PROVE  mem[a] = LastWriter(a)
  <1> DEFINE n == Iterations(job.agu)
             W == {m \in 0 .. n - 1 :
                     \E i \in Enabled : IterAddress(job.agu, m, i) = a}
  <1>1. Written = n /\ n \in Nat
    BY WriterAtRest, WriteNumbers
  <1>2. MemoryAfter(n, a) /\ \A m \in 0 .. n - 1 : Apart(m)
    BY <1>1 DEF WriteInv, MemoryInv
  <1>3. CASE mem[a] = mem0[a] /\ Untouched(0, n, a)
    <2>1. W = {}
      BY <1>3 DEF Untouched
    <2> QED BY <1>3, <2>1 DEF LastWriter
  <1>4. ASSUME NEW m \in 0 .. n - 1, NEW i \in Enabled,
               mem[a] = made[m][i], IterAddress(job.agu, m, i) = a,
               Untouched(m + 1, n, a)
        PROVE  mem[a] = LastWriter(a)
    <2>1. m \in W
      BY <1>4
    <2>2. \A y \in W : y <= m
      <3> SUFFICES ASSUME NEW y \in W, ~(y <= m) PROVE FALSE
        OBVIOUS
      <3>1. y \in m + 1 .. n - 1
        BY <1>1
      <3> QED BY <1>4, <3>1 DEF Untouched
    <2>3. \A x \in W : (\A y \in W : y <= x) => x = m
      BY <1>1, <2>1, <2>2
    <2>4. (CHOOSE x \in W : \A y \in W : y <= x) = m
      <3> HIDE DEF W
      <3> QED BY <2>1, <2>2, <2>3
    <2>5. \A x \in Enabled : IterAddress(job.agu, m, x) = a => x = i
      BY <1>2, <1>4 DEF Apart
    <2>6. (CHOOSE x \in Enabled : IterAddress(job.agu, m, x) = a) = i
      BY <1>4, <2>5
    <2>7. W # {}
      BY <2>1
    <2> HIDE DEF W
    <2>8. LastWriter(a) = made[m][i]
      BY <2>4, <2>6, <2>7 DEF LastWriter, W
    <2> QED BY <1>4, <2>8
  <1> QED BY <1>2, <1>3, <1>4 DEF MemoryAfter

(* A streamer with empty lanes that has written nothing yet *)
EmptyInv ==
  /\ JobInv /\ NoReads /\ moved = 0 /\ mem = [a \in Addrs |-> mem[a]] /\ mem0 = mem
  /\ s.agu = [busy |-> s.agu.busy, counters |-> AguReset.counters]
  /\ s.agu.busy \in BOOLEAN /\ (s.agu.busy <=> jobs # 0)
  /\ IsSeq(s.isLastQ) /\ Holds(s.isLastQ, AlwaysLast, 0)
  /\ \A i \in Lanes : IdleLane(i)

(* A streamer with empty queues that has not written anything yet is in *)
(* order,                                                               *)
LEMMA EmptyIsGood == EmptyInv => WriteInv
  <1> SUFFICES ASSUME EmptyInv PROVE WriteInv
    OBVIOUS
  <1>1. /\ JobInv /\ WellFormed(job.agu) /\ NoReads /\ moved = 0 /\ jobs \in Nat
        /\ mem = [a \in Addrs |-> mem[a]] /\ mem0 = mem
        /\ s.agu = [busy |-> s.agu.busy, counters |-> AguReset.counters]
        /\ s.agu.busy \in BOOLEAN /\ (s.agu.busy <=> jobs # 0)
        /\ IsSeq(s.isLastQ) /\ Holds(s.isLastQ, AlwaysLast, 0)
        /\ \A i \in Lanes : IdleLane(i)
    BY JobsAssumption DEF EmptyInv, JobInv
  <1>2. Iterations(job.agu) \in Nat \ {0} /\ Digits(job.agu, 0) = AguReset.counters
    BY <1>1, Below, FirstDigits
  <1>3. Generated = 0 /\ Written = 0
    <2>1. s.writeReqQ[0] = <<>> /\ s.writeDataQ[0] = <<>>
      BY <1>1, SomeLane DEF IdleLane
    <2> DEFINE x == Len(s.writeReqQ[0])
               y == Len(s.writeDataQ[0])
    <2>2. x = 0 /\ y = 0 /\ Generated = moved + x /\ Written = moved - y
      BY <2>1 DEF Generated, Written
    <2> HIDE DEF x, y
    <2> QED BY <1>1, <2>2
  <1>4. GeneratorInv
    <2>1. s.agu.counters = AguReset.counters
      BY <1>1
    <2> QED BY <1>1, <1>2, <1>3, <2>1 DEF GeneratorInv, AtIteration
  <1>5. AllLastInv
    BY <1>1, <1>3 DEF AllLastInv
  <1>6. MemoryInv
    <2>1. \A a \in Addrs : MemoryAfter(0, a)
      BY <1>1 DEF MemoryAfter, Untouched
    <2> QED BY <1>1, <1>3, <2>1 DEF MemoryInv
  <1>7. ASSUME NEW i \in Lanes PROVE WriteLane(i)
    <2>1. /\ s.writeReqQ[i] = <<>> /\ s.writeDataQ[i] = <<>>
          /\ s.writeReqQ[0] = <<>> /\ s.writeDataQ[0] = <<>>
      BY <1>1, SomeLane DEF IdleLane
    <2> QED BY <2>1 DEF WriteLane, IsSeq, Holds
  <1> QED BY <1>1, <1>4, <1>5, <1>6, <1>7 DEF WriteInv

(* and so is one after the start of the next job. *)
LEMMA WriteStart ==
  ASSUME WriteInv, OnlyWrites, NEW j \in pool, Start(j)
  PROVE  WriteInv'
  <1> DEFINE in == Inputs(TRUE, {}, FALSE)
  <1>1. /\ jobs < MaxJobs /\ Done(s) /\ s' = StreamerNext(s, job, in) /\ MemoryEdge(in)
        /\ job' = j /\ jobs' = jobs + 1 /\ mem0' = mem /\ moved' = 0 /\ pool' = pool
    BY DEF Start
  <1>2. /\ JobInv /\ NoReads /\ AllLastInv /\ GeneratorInv /\ job.dir = "write"
        /\ mem = [a \in Addrs |-> mem[a]]
    BY WriteNumbers DEF WriteInv, MemoryInv
  <1>3. ~s.agu.busy /\ \A i \in Lanes : IdleLane(i)
    BY <1>1, WriterAtRest
  <1>4. in.start = TRUE /\ in.writeValid = FALSE
    BY <1>2 DEF Inputs
  <1> HIDE DEF in
  <1>5. \A i \in Lanes : /\ ~WriteFire(s, in, i) /\ ~EnqData(s, job, in, i)
                         /\ ~EnqWrite(s, job, i)
    BY <1>2, <1>3, <1>4, WriteOffers
       DEF IdleLane, WriteFire, ReqFire, EnqData, EnqWrite, AguFire
  <1>6. NoReads'
    BY <1>1, <1>2, <1>4, StaysWithoutReads DEF BypassFire, BypassValid
  <1>7. mem' = mem
    BY <1>1, <1>2, <1>5, MemoryKept
  <1>8. s'.agu = [busy |-> TRUE, counters |-> AguReset.counters]
    <2>1. s'.agu = AguNext(job.agu, s.agu, in.start, AguReady(s, job))
      BY <1>1, Edge
    <2>2. s'.agu = [s.agu EXCEPT !.busy = TRUE]
      BY <1>3, <1>4, <2>1 DEF AguNext
    <2>3. /\ s.agu = [busy |-> s.agu.busy, counters |-> s.agu.counters]
          /\ s.agu.counters = AguReset.counters
      BY <1>2, <1>3 DEF GeneratorInv, AtIteration
    <2> QED BY <2>2, <2>3
  <1>9. s'.isLastQ = s.isLastQ
    <2>1. s'.isLastQ = PushIf(PopIf(s.isLastQ, DeqIsLast(s, job, in)),
                              EnqIsLast(s, job), IsLast(job.agu, s.agu.counters))
      BY <1>1, Edge
    <2>2. ~DeqIsLast(s, job, in) /\ ~EnqIsLast(s, job)
      BY <1>2, <1>3 DEF DeqIsLast, EnqIsLast, AguFire
    <2> QED BY <2>1, <2>2 DEF PushIf, PopIf
  <1>10. ASSUME NEW i \in Lanes PROVE IdleLane(i)'
    BY <1>1, <1>3, <1>5, Edge DEF IdleLane, PushIf, PopIf
  <1>11. JobInv'
    BY <1>1, <1>2 DEF JobInv
  <1>12. /\ s'.agu = [busy |-> s'.agu.busy, counters |-> AguReset.counters]
         /\ s'.agu.busy \in BOOLEAN /\ (s'.agu.busy <=> jobs' # 0)
    BY <1>1, <1>2, <1>8 DEF JobInv
  <1>13. IsSeq(s'.isLastQ) /\ Holds(s'.isLastQ, AlwaysLast', 0)
    BY <1>2, <1>9 DEF AllLastInv, AlwaysLast
  <1>14. EmptyInv'
    BY <1>1, <1>2, <1>6, <1>7, <1>10, <1>11, <1>12, <1>13 DEF EmptyInv
  <1> QED BY <1>14, EmptyIsGood, PTL

(* A step of others *)
LEMMA WriteStays ==
  ASSUME WriteInv, UNCHANGED <<pool, s, job, mem, jobs, made, mem0, moved>>
  PROVE  WriteInv' /\ Generated' = Generated
  <1>1. /\ pool' = pool /\ s' = s /\ job' = job /\ mem' = mem /\ jobs' = jobs
        /\ made' = made /\ mem0' = mem0 /\ moved' = moved
    OBVIOUS
  <1>2. Generated' = Generated /\ Written' = Written /\ Enabled' = Enabled
    BY <1>1 DEF Generated, Written, Enabled
  <1>3. JobInv' /\ GeneratorInv' /\ NoReads'
    BY <1>1, <1>2 DEF WriteInv, JobInv, GeneratorInv, NoReads, UnusedLane
  <1>4. AllLastInv'
    BY <1>1, <1>2 DEF WriteInv, AllLastInv, AlwaysLast
  <1>5. MemoryInv'
    <2>1. \A m : Apart(m)' <=> Apart(m)
      BY <1>1, <1>2 DEF Apart
    <2>2. \A m, n, a : Untouched(m, n, a)' <=> Untouched(m, n, a)
      BY <1>1, <1>2 DEF Untouched
    <2>3. \A n, a : MemoryAfter(n, a)' <=> MemoryAfter(n, a)
      BY <1>1, <1>2, <2>2 DEF MemoryAfter
    <2> QED BY <1>1, <1>2, <2>1, <2>3 DEF WriteInv, MemoryInv
  <1>6. \A i \in Lanes : IF i \in Enabled' THEN WriteLane(i)' ELSE IdleLane(i)'
    <2>1. \A i : VectorAddr(i)' = VectorAddr(i) /\ VectorWord(i)' = VectorWord(i)
      BY <1>1 DEF VectorAddr, VectorWord
    <2> QED BY <1>1, <1>2, <2>1 DEF WriteInv, WriteLane, IdleLane
  <1> QED BY <1>2, <1>3, <1>4, <1>5, <1>6 DEF WriteInv

(* The counts and contents of the queues and of the memory of a streamer *)
(* that only writes                                                      *)
THEOREM WriteInvariant == Spec /\ [][LanesTogether]_vars => [](OnlyWrites => WriteInv)
  <1>1. Init => (OnlyWrites => WriteInv)
    <2> SUFFICES ASSUME Init PROVE EmptyInv
      BY EmptyIsGood
    <2>1. PICK g \in {0, 1} : s = StreamerReset(g)
      BY DEF Init
    <2>2. \A i \in Lanes : /\ s.readReqQ[i] = <<>> /\ s.rspQ[i] = <<>> /\ ~s.readPending[i]
                           /\ s.writeReqQ[i] = <<>> /\ s.writeDataQ[i] = <<>>
      BY <2>1 DEF StreamerReset
    <2>3. s.agu = AguReset /\ s.isLastQ = <<>> /\ s.bypass = <<>>
      BY <2>1 DEF StreamerReset
    <2>4. /\ s.agu = [busy |-> s.agu.busy, counters |-> AguReset.counters]
          /\ s.agu.busy = FALSE
      BY <2>3 DEF AguReset
    <2>5. NoReads /\ \A i \in Lanes : IdleLane(i)
      BY <2>2, <2>3 DEF NoReads, UnusedLane, IdleLane
    <2>6. JobInv /\ moved = 0 /\ jobs = 0 /\ mem = [a \in Addrs |-> mem[a]] /\ mem0 = mem
      BY DEF JobInv, Init
    <2>7. IsSeq(s.isLastQ) /\ Holds(s.isLastQ, AlwaysLast, 0)
      BY <2>3 DEF IsSeq, Holds
    <2> QED BY <2>4, <2>5, <2>6, <2>7 DEF EmptyInv
  <1>2. /\ OnlyWrites => WriteInv
        /\ [Next]_vars /\ [LanesTogether]_vars
        => (OnlyWrites => WriteInv)'
    <2> SUFFICES ASSUME OnlyWrites => WriteInv, [Next]_vars, [LanesTogether]_vars, OnlyWrites'
                 PROVE  WriteInv'
      OBVIOUS
    <2>1. CASE UNCHANGED vars
      BY <2>1, WriteStays DEF vars, OnlyWrites
    <2>2. ASSUME NEW j \in pool, Start(j) PROVE WriteInv'
      <3>1. OnlyWrites
        BY <2>2 DEF Start, OnlyWrites
      <3> QED BY <2>2, <3>1, WriteStart
    <2>3. ASSUME NEW granted \in SUBSET Lanes, NEW avail \in BOOLEAN, Run(granted, avail),
                 LanesTogether
          PROVE  WriteInv'
      <3>1. OnlyWrites
        BY <2>3 DEF Run, OnlyWrites
      <3>2. WriteCycle(Inputs(FALSE, granted, avail), granted, avail)
        BY <2>3, <3>1, GrantedTogether DEF Run, WriteCycle
      <3> QED BY <3>2, WriteCycleKeeps
    <2> QED BY <2>1, <2>2, <2>3 DEF Next
  <1> QED BY <1>1, <1>2, PTL DEF Spec

(* Lanes in step take a vector when it is accepted. *)
LEMMA WriterNeverTears == Spec /\ [][LanesTogether]_vars => [](OnlyWrites => ~torn)
  <1>1. Init => (OnlyWrites => ~torn)
    BY DEF Init
  <1>2. /\ OnlyWrites => WriteInv
        /\ OnlyWrites => ~torn
        /\ [Next]_vars /\ [LanesTogether]_vars
        => (OnlyWrites => ~torn)'
    <2> SUFFICES ASSUME OnlyWrites => WriteInv, OnlyWrites => ~torn,
                        [Next]_vars, [LanesTogether]_vars, OnlyWrites'
                 PROVE  ~torn'
      OBVIOUS
    <2>1. CASE UNCHANGED vars
      BY <2>1 DEF vars, OnlyWrites
    <2>2. ASSUME NEW j \in pool, Start(j) PROVE ~torn'
      BY <2>2 DEF Start, OnlyWrites
    <2>3. ASSUME NEW granted \in SUBSET Lanes, NEW avail \in BOOLEAN, Run(granted, avail),
                 LanesTogether
          PROVE  ~torn'
      <3> DEFINE in == Inputs(FALSE, granted, avail)
      <3>1. OnlyWrites /\ ~torn
        BY <2>3 DEF Run, OnlyWrites
      <3>2. WriteCycle(in, granted, avail)
        BY <2>3, <3>1, GrantedTogether DEF Run, WriteCycle
      <3>3. torn' = (torn \/ Tears(in))
        BY <2>3 DEF Run
      <3>4. job.dir = "write"
        BY <3>1, WriteNumbers
      <3> HIDE DEF in
      <3>5. \A i \in Lanes : EnqData(s, job, in, i) => Moves(in)
        BY <3>2, InStep
      <3> QED BY <3>1, <3>3, <3>4, <3>5 DEF Tears, Moves
    <2> QED BY <2>1, <2>2, <2>3 DEF Next
  <1> QED BY <1>1, <1>2, WriteInvariant, PTL DEF Spec

(* A streamer that only writes, and whose lanes are granted together, is    *)
(* done when memory holds what the nest says: on every word the last vector *)
(* for it, elsewhere what was there.  Nothing is still in a queue, no       *)
(* vector was lost, doubled or overtaken by an older one                    *)
(* (Streamer.scala:98-128, 243-248).                                        *)
THEOREM WriterWritesTheNest ==
  Spec /\ [][LanesTogether]_vars => [](OnlyWrites => ~torn /\ DoneMeansWritten)
  <1>1. OnlyWrites /\ WriteInv => DoneMeansWritten
    BY NestWritten, WriteNumbers DEF DoneMeansWritten, ResultInMemory, Expected
  <1> QED BY <1>1, WriteInvariant, WriterNeverTears, PTL

(* The flags of a writer say "last", however its lanes are granted: with no *)
(* reuse every step of the generator is the last use of its element.        *)
LastFlags == IsSeq(s.isLastQ) /\ Holds(s.isLastQ, AlwaysLast, 0)

LEMMA LastFlagsStep ==
  ASSUME TypeInv, OnlyWrites, LastFlags, NEW in, s' = StreamerNext(s, job, in)
  PROVE  LastFlags'
  <1> DEFINE push == EnqIsLast(s, job)
             x == IsLast(job.agu, s.agu.counters)
  <1>1. /\ job.dir = "write" /\ Reuse(job.agu) = 1 /\ WellFormed(job.agu)
    BY JobsAssumption DEF OnlyWrites, TypeInv, TypeOK
  <1>2. ~DeqIsLast(s, job, in)
    BY <1>1 DEF DeqIsLast
  <1>3. s'.isLastQ = PushIf(s.isLastQ, push, x)
    BY <1>2, Edge DEF PopIf
  <1>4. push => x = TRUE
    <2> SUFFICES ASSUME push PROVE x
      BY DEF IsLast, AtBound
    <2>1. CASE job.agu.strides[1] # 0
      BY <2>1 DEF IsLast
    <2>2. CASE job.agu.strides[1] = 0
      <3>1. 1 \in Dims /\ job.agu.bounds[1] \in Nat /\ Radix(job.agu, 1) = 1
        BY <1>1, <2>2, NumDimsAssumption DEF Reuse, WellFormed, Dims
      <3>2. job.agu.bounds[1] = 1
        BY <1>1, <2>2, <3>1 DEF WellFormed, Radix
      <3>3. s.agu.counters[1] = 0
        BY <3>1 DEF TypeInv, CountersFit, EnqIsLast, AguFire, InRange
      <3>4. Wrap(1 - 1) = 0
        BY AddrSpaceAssumption DEF Wrap
      <3> QED BY <3>2, <3>3, <3>4 DEF IsLast, AtBound
    <2> QED BY <2>1, <2>2
  <1>5. 0 + Len(s.isLastQ) \in Nat
    BY DEF LastFlags, IsSeq
  <1>6. push => x = AlwaysLast[0 + Len(s.isLastQ)]
    BY <1>4, <1>5 DEF AlwaysLast
  <1> HIDE DEF push, x
  <1>7. IsSeq(s'.isLastQ) /\ Holds(s'.isLastQ, AlwaysLast, 0)
    BY <1>3, <1>6, PushHolds DEF LastFlags
  <1>8. AlwaysLast' = AlwaysLast
    BY DEF AlwaysLast
  <1> QED BY <1>7, <1>8 DEF LastFlags

LEMMA WriterFlags == Spec => [](OnlyWrites => LastFlags)
  <1>1. Init => LastFlags
    <2> SUFFICES ASSUME Init PROVE LastFlags
      OBVIOUS
    <2>1. s.isLastQ = <<>>
      BY DEF Init, StreamerReset
    <2> QED BY <2>1 DEF LastFlags, IsSeq, Holds
  <1>2. TypeInv /\ (OnlyWrites => LastFlags) /\ [Next]_vars => (OnlyWrites => LastFlags)'
    <2> SUFFICES ASSUME TypeInv, OnlyWrites => LastFlags, [Next]_vars, OnlyWrites'
                 PROVE  LastFlags'
      OBVIOUS
    <2>1. CASE UNCHANGED vars
      BY <2>1 DEF vars, OnlyWrites, LastFlags, Holds, AlwaysLast
    <2>2. ASSUME NEW j \in pool, Start(j) PROVE LastFlags'
      <3>1. OnlyWrites /\ s' = StreamerNext(s, job, Inputs(TRUE, {}, FALSE))
        BY <2>2 DEF Start, OnlyWrites
      <3> QED BY <3>1, LastFlagsStep
    <2>3. ASSUME NEW granted \in SUBSET Lanes, NEW avail \in BOOLEAN, Run(granted, avail)
          PROVE  LastFlags'
      <3>1. OnlyWrites /\ s' = StreamerNext(s, job, Inputs(FALSE, granted, avail))
        BY <2>3 DEF Run, OnlyWrites
      <3> QED BY <3>1, LastFlagsStep
    <2> QED BY <2>1, <2>2, <2>3 DEF Next
  <1> QED BY <1>1, <1>2, TypeInvariant, PTL DEF Spec

LEMMA NoBypassAsked ==
  ASSUME LastFlags
  PROVE  ~BypassAhead(s)
  <1> SUFFICES ASSUME s.isLastQ # <<>> PROVE Head(s.isLastQ) = TRUE
    BY DEF BypassAhead
  <1>1. 1 \in 1 .. Len(s.isLastQ) /\ Head(s.isLastQ) = s.isLastQ[1]
    BY DEF LastFlags, IsSeq
  <1>2. s.isLastQ[1] = AlwaysLast[0 + 1 - 1]
    BY <1>1 DEF LastFlags, Holds
  <1>3. 0 + 1 - 1 = 0 /\ AlwaysLast[0] = TRUE
    BY DEF AlwaysLast
  <1> QED BY <1>1, <1>2, <1>3

(* A streamer that reads, or reads and writes *)
NoWriteJobs == \A j \in pool : j.dir # "write"

(* The simulation assertion on the bypass buffer (Streamer.scala:151) never *)
(* fires in a streamer that writes without reuse: its vectors are all for   *)
(* memory.  Nor does it in one that reads, or reads and writes: the         *)
(* datapath offers the buffer a vector only while it takes the one in it.   *)
THEOREM BypassBufferIsReady == Spec => [](OnlyWrites \/ NoWriteJobs => BypassAssertion)
  <1>1. LastFlags => BypassAssertion
    BY NoBypassAsked DEF BypassAssertion, BypassValid
  <1>2. NoWriteJobs /\ job \in pool => BypassAssertion
    <2> SUFFICES ASSUME NoWriteJobs, job \in pool, NEW avail \in BOOLEAN,
                        BypassValid(s, Inputs(FALSE, {}, avail))
                 PROVE  Inputs(FALSE, {}, avail).readReady
      BY DEF BypassAssertion, BypassReady
    <2>1. BypassAhead(s) /\ Inputs(FALSE, {}, avail).writeValid
      BY DEF BypassValid
    <2>2. job.dir = "readWrite" /\ avail
      BY <2>1 DEF Inputs, NoWriteJobs
    <2> QED BY <2>1, <2>2 DEF Inputs, WriteDataReady
  <1>3. Spec => [](job \in pool)
    <2>1. Init => job \in pool
      BY DEF Init
    <2>2. job \in pool /\ [Next]_vars => (job \in pool)'
      <3> SUFFICES ASSUME job \in pool, [Next]_vars PROVE job' \in pool'
        OBVIOUS
      <3>1. ASSUME NEW j \in pool, Start(j) PROVE job' \in pool'
        BY <3>1 DEF Start
      <3>2. ASSUME NEW granted \in SUBSET Lanes, NEW avail \in BOOLEAN, Run(granted, avail)
            PROVE  job' \in pool'
        BY <3>2 DEF Run
      <3>3. CASE UNCHANGED vars
        BY <3>3 DEF vars
      <3> QED BY <3>1, <3>2, <3>3 DEF Next
    <2> QED BY <2>1, <2>2, PTL DEF Spec
  <1> QED BY <1>1, <1>2, <1>3, WriterFlags, PTL

------------------------------------------------------------------------------
(***************************************************************************)
(* A streamer that updates elements in place: every element of the nest is *)
(* read, goes R times through the datapath and is written back.  Started   *)
(* elements have left rspQ, Retired ones are in writeDataQ or in memory,   *)
(* Stored ones in memory; Completed ones have had their last address taken *)
(* from the generator, and wait for data in writeReqQ.  Between its first  *)
(* and its last use an element is in the bypass buffer.                    *)
(***************************************************************************)
Started   == CeilDiv(moved, R)
Completed == Taken \div R
Stored    == Retired - Len(s.writeDataQ[0])

UpdatedWord(i) == [x \in Nat |-> [addr |-> ElementAddr(i)[x],
                                  data |-> ElementWord(i)[x] + Weight * R]]

(* Elements have addresses of their own. *)
InPlace(j) ==
  \A m, n \in 0 .. Iterations(j.agu) - 1 :
    \A i, k \in {l \in Lanes : LaneEnabled(j, l)} :
      IterAddress(j.agu, m, i) = IterAddress(j.agu, n, k)
        => i = k /\ m \div Reuse(j.agu) = n \div Reuse(j.agu)

(***************************************************************************)
(* The lanes of such a streamer run in step when memory grants all of them *)
(* or none.  A job with fewer lanes would leave the arbiters of the lanes  *)
(* out of step: the jobs of a streamer enable the same ones.               *)
(***************************************************************************)
OnlyUpdates ==
  \A j \in pool : /\ j.dir = "readWrite" /\ FlagsFit(j) /\ InPlace(j)
                  /\ \A k \in pool : \A i \in Lanes : LaneEnabled(j, i) <=> LaneEnabled(k, i)

BypassInv ==
  IF moved % R = 0 THEN s.bypass = <<>>
  ELSE /\ s.bypass = <<s.bypass[1]>>
       /\ \A i \in Enabled :
            s.bypass[1][i] = ElementWord(i)[Retired] + Weight * (moved % R)

WriteSide(i) ==
  /\ IsSeq(s.writeReqQ[i]) /\ IsSeq(s.writeDataQ[i])
  /\ Holds(s.writeReqQ[i], ElementAddr(i), Retired)
  /\ Retired + Len(s.writeReqQ[i]) = Completed /\ Len(s.writeReqQ[i]) <= QueueDepth
  /\ Holds(s.writeDataQ[i], UpdatedWord(i), Stored)

(* Enabled lanes are in step. *)
SameAsLaneZero(i) ==
  /\ Len(s.rspQ[i]) = Len(s.rspQ[0]) /\ Len(s.readReqQ[i]) = Len(s.readReqQ[0])
  /\ OnTheWay(i) = OnTheWay(0)
  /\ Len(s.writeDataQ[i]) = Len(s.writeDataQ[0]) /\ s.lastGrant[i] = s.lastGrant[0]

StoredAt(a) == \E x \in 0 .. Stored - 1 : \E i \in Enabled : ElementAddr(i)[x] = a

UpdateMemory ==
  /\ Stored \in Nat /\ mem = [a \in Addrs |-> mem[a]] /\ mem0 \in [Addrs -> Int]
  /\ \A a \in Addrs : mem[a] = IF StoredAt(a) THEN mem0[a] + Weight * R ELSE mem0[a]

UpdateInv ==
  /\ JobInv /\ FlagsInv /\ RoomInv /\ BypassInv /\ UpdateMemory
  /\ AtIteration(job.agu, s.agu, jobs > 0, Taken)
  /\ \A i \in Lanes :
       IF i \in Enabled THEN ReadLane(i, Started) /\ WriteSide(i) /\ SameAsLaneZero(i)
       ELSE UnusedLane(i) /\ IdleLane(i)

------------------------------------------------------------------------------
(* The first entry of a queue *)
LEMMA HeadHolds ==
  ASSUME NEW q, IsSeq(q), NEW f, NEW k \in Nat, Holds(q, f, k), q # <<>>
  PROVE  Head(q) = f[k]
  <1>1. 1 \in 1 .. Len(q) /\ Head(q) = q[1]
    BY DEF IsSeq
  <1>2. k + 1 - 1 = k
    OBVIOUS
  <1> QED BY <1>1, <1>2 DEF Holds

LEMMA EmptyQueue ==
  ASSUME NEW q, IsSeq(q)
  PROVE  Len(q) \in Nat /\ (q = <<>> <=> Len(q) = 0)
  BY DEF IsSeq

(* The numbers of the invariant, of the streamer and of an enabled lane *)
LEMMA UpdateNumbers ==
  ASSUME UpdateInv, OnlyUpdates
  PROVE  /\ job \in pool /\ WellFormed(job.agu) /\ R \in Nat \ {0}
         /\ job.dir = "readWrite" /\ InPlace(job) /\ FlagsFit(job)
         /\ moved \in Nat /\ Len(s.isLastQ) \in Nat /\ IsSeq(s.isLastQ)
         /\ Taken \in Nat /\ Taken = moved + Len(s.isLastQ)
         /\ Iterations(job.agu) \in Nat \ {0} /\ Taken <= Iterations(job.agu)
         /\ Started \in Nat /\ Retired \in Nat /\ Completed \in Nat
         /\ Retired <= Started /\ FetchedBefore(Taken) \in Nat
         /\ 0 \in Lanes /\ 0 \in Enabled
  <1>1. /\ job \in pool /\ WellFormed(job.agu) /\ moved \in Nat
        /\ job.dir = "readWrite" /\ InPlace(job) /\ FlagsFit(job)
    BY JobsAssumption DEF UpdateInv, JobInv, OnlyUpdates
  <1>2. R \in Nat \ {0} /\ Iterations(job.agu) \in Nat \ {0}
    BY <1>1, ReusePositive, Below DEF R
  <1>3. /\ IsSeq(s.isLastQ) /\ Len(s.isLastQ) \in Nat /\ Taken \in Nat
        /\ Taken = moved + Len(s.isLastQ)
    BY <1>1 DEF UpdateInv, FlagsInv, IsSeq, Taken
  <1>4. Taken <= Iterations(job.agu)
    BY <1>2, <1>3 DEF UpdateInv, AtIteration
  <1>5. Retired \in Nat /\ Completed \in Nat
    BY <1>1, <1>2, <1>3, DivisionTwice DEF Retired, Completed
  <1>6. Started \in Nat /\ FetchedBefore(Taken) \in Nat
    BY <1>1, <1>2, <1>3, CeilDivision DEF Started, FetchedBefore
  <1>7. Retired <= Started
    <2>1. Started = IF moved % R = 0 THEN Retired ELSE Retired + 1
      BY <1>1, <1>2, CeilDivision DEF Started, Retired
    <2> QED BY <1>5, <2>1
  <1> QED BY <1>1, <1>2, <1>3, <1>4, <1>5, <1>6, <1>7, LaneZero, SomeLane

LEMMA UpdateLanes ==
  ASSUME UpdateInv, NEW i \in Enabled
  PROVE  /\ i \in Lanes /\ LaneEnabled(job, i)
         /\ ReadLane(i, Started) /\ WriteSide(i) /\ SameAsLaneZero(i)
         /\ RoomKept(s.rspQ[i], s.readPending[i])
         /\ IsSeq(s.readReqQ[i]) /\ IsSeq(s.rspQ[i])
         /\ IsSeq(s.writeReqQ[i]) /\ IsSeq(s.writeDataQ[i])
         /\ OnTheWay(i) \in Nat
  <1>1. /\ i \in Lanes /\ LaneEnabled(job, i)
        /\ ReadLane(i, Started) /\ WriteSide(i) /\ SameAsLaneZero(i)
        /\ RoomKept(s.rspQ[i], s.readPending[i])
    BY DEF UpdateInv, Enabled, RoomInv
  <1> QED BY <1>1 DEF ReadLane, WriteSide, OnTheWay

(* Where an enabled lane has something, lane 0 has. *)
LEMMA LanesAgree ==
  ASSUME UpdateInv, NEW i \in Enabled
  PROVE  /\ s.rspQ[i] = <<>> <=> s.rspQ[0] = <<>>
         /\ s.readReqQ[i] = <<>> <=> s.readReqQ[0] = <<>>
         /\ s.writeDataQ[i] = <<>> <=> s.writeDataQ[0] = <<>>
         /\ HasRoom(s.writeDataQ[i]) <=> HasRoom(s.writeDataQ[0])
         /\ RoomForRsp(s, i) <=> RoomForRsp(s, 0)
  <1>1. 0 \in Enabled /\ SameAsLaneZero(i)
    BY LaneZero, UpdateLanes
  <1>2. \A k \in Enabled : IsSeq(s.readReqQ[k]) /\ IsSeq(s.rspQ[k]) /\ IsSeq(s.writeDataQ[k])
    BY UpdateLanes
  <1>3. HasRoom(s.writeDataQ[i]) <=> HasRoom(s.writeDataQ[0])
    BY <1>1 DEF SameAsLaneZero, HasRoom
  <1>4. RoomForRsp(s, i) <=> RoomForRsp(s, 0)
    BY <1>1 DEF SameAsLaneZero, RoomForRsp
  <1>5. \A q, r : IsSeq(q) /\ IsSeq(r) /\ Len(q) = Len(r) => (q = <<>> <=> r = <<>>)
    BY EmptyQueue
  <1> QED BY <1>1, <1>2, <1>3, <1>4, <1>5 DEF SameAsLaneZero

(* No vector is offered after the last one. *)
LEMMA UpdateOffered ==
  ASSUME UpdateInv, OnlyUpdates, ReadValid(s, job)
  PROVE  moved < Iterations(job.agu)
  <1>1. /\ moved \in Nat /\ R \in Nat \ {0} /\ Taken \in Nat /\ Len(s.isLastQ) \in Nat
        /\ Taken = moved + Len(s.isLastQ) /\ Taken <= Iterations(job.agu)
        /\ Iterations(job.agu) \in Nat \ {0} /\ WellFormed(job.agu)
    BY UpdateNumbers
  <1>2. CASE moved % R = 0
    <2>1. s.bypass = <<>>
      BY <1>2 DEF UpdateInv, BypassInv
    <2>2. 0 \in Enabled /\ s.rspQ[0] # <<>>
      BY <2>1, LaneZero DEF ReadValid, AllRspValid, Enabled
    <2>3. Len(s.rspQ[0]) \in Nat \ {0} /\ Len(s.readReqQ[0]) \in Nat /\ OnTheWay(0) \in Nat
      BY <2>2, UpdateLanes, EmptyQueue
    <2>4. Started + Len(s.rspQ[0]) + OnTheWay(0) + Len(s.readReqQ[0]) = FetchedBefore(Taken)
      BY <2>2, UpdateLanes DEF ReadLane
    <2>5. Started < FetchedBefore(Taken)
      <3>1. \A a, b, c, d, e \in Nat : a + b + c + d = e /\ b # 0 => a < e
        OBVIOUS
      <3>2. Started \in Nat /\ FetchedBefore(Taken) \in Nat
        BY UpdateNumbers
      <3>3. Len(s.rspQ[0]) \in Nat /\ Len(s.rspQ[0]) # 0
        BY <2>3
      <3> QED BY <2>3, <2>4, <3>1, <3>2, <3>3, Zenon
    <2>6. moved < Taken
      BY <1>1, <2>5, CeilOrder DEF Started, FetchedBefore
    <2> QED BY <1>1, <2>6
  <1>3. CASE moved % R # 0
    <2>1. Iterations(job.agu) % R = 0
      BY <1>1, EndsWithElement DEF R
    <2>2. moved # Iterations(job.agu)
      BY <1>3, <2>1
    <2> QED BY <1>1, <2>2
  <1> QED BY <1>2, <1>3

(* The word of an element is a number of the memory. *)
LEMMA ElementIsWord ==
  ASSUME UpdateInv, OnlyUpdates, NEW i \in Enabled, NEW x \in Nat
  PROVE  /\ ElementAddr(i)[x] \in Addrs
         /\ ElementWord(i)[x] = mem0[ElementAddr(i)[x]] /\ ElementWord(i)[x] \in Int
  <1>1. R * x \in Nat
    <2>1. R \in Nat
      BY UpdateNumbers
    <2> HIDE DEF R
    <2> QED BY <2>1
  <1>2. IterAddress(job.agu, R * x, i) \in Addrs
    BY <1>1, UpdateNumbers, UpdateLanes, AddressInRange DEF Addrs
  <1>3. mem0 \in [Addrs -> Int]
    BY DEF UpdateInv, UpdateMemory
  <1> QED BY <1>2, <1>3 DEF ElementAddr, ElementWord

------------------------------------------------------------------------------
(* A cycle of a streamer that updates elements *)
UpdateCycle(in, granted, avail) ==
  /\ UpdateInv /\ OnlyUpdates /\ granted \in Grants /\ AllOrNone(granted) /\ avail \in BOOLEAN
  /\ in = Inputs(FALSE, granted, avail)
  /\ s' = StreamerNext(s, job, in) /\ MemoryEdge(in)
  /\ moved' = IF Moves(in) THEN moved + 1 ELSE moved
  /\ UNCHANGED <<pool, job, jobs, mem0>>

(* The vector to be moved is used for the first or the last time. *)
FirstUse == moved % R = 0
FinalUse == (moved + 1) % R = 0

(* The wires between the streamer and the datapath *)
LEMMA UpdateReady ==
  ASSUME NEW in, NEW granted, NEW avail, UpdateCycle(in, granted, avail)
  PROVE  /\ Moves(in) <=> avail /\ ReadValid(s, job) /\ WriteDataReady(s)
         /\ in.readReady <=> avail /\ WriteDataReady(s)
         /\ in.writeValid <=> avail /\ ReadValid(s, job)
         /\ in.writeVec = Result(ReadVec(s))
         /\ WriteDataReady(s) => s.isLastQ # <<>> /\ moved < Taken
         /\ LastAhead(s) <=> s.isLastQ # <<>> /\ FinalUse
         /\ BypassAhead(s) <=> s.isLastQ # <<>> /\ ~FinalUse
         /\ s.bypass = <<>> <=> FirstUse
         /\ WriteDataReady(s) /\ FinalUse => \A i \in Lanes : HasRoom(s.writeDataQ[i])
  <1>1. /\ job.dir = "readWrite" /\ moved \in Nat /\ R \in Nat \ {0} /\ FlagsInv
        /\ Len(s.isLastQ) \in Nat /\ Taken = moved + Len(s.isLastQ) /\ IsSeq(s.isLastQ)
    BY UpdateNumbers DEF UpdateCycle, UpdateInv
  <1>2. /\ in.readReady <=> avail /\ WriteDataReady(s)
        /\ in.writeValid <=> avail /\ ReadValid(s, job)
        /\ in.writeVec = Result(ReadVec(s))
    BY <1>1 DEF UpdateCycle, Inputs
  <1>3. Moves(in) <=> avail /\ ReadValid(s, job) /\ WriteDataReady(s)
    BY <1>1, <1>2 DEF Moves
  <1>4. s.isLastQ # <<>> => (LastAhead(s) <=> FinalUse)
    BY <1>1, HeadFlag DEF FinalUse
  <1>5. /\ LastAhead(s) <=> s.isLastQ # <<>> /\ FinalUse
        /\ BypassAhead(s) <=> s.isLastQ # <<>> /\ ~FinalUse
    BY <1>4 DEF LastAhead, BypassAhead
  <1>6. WriteDataReady(s) => s.isLastQ # <<>> /\ moved < Taken
    <2> SUFFICES ASSUME WriteDataReady(s) PROVE s.isLastQ # <<>> /\ moved < Taken
      OBVIOUS
    <2>1. s.isLastQ # <<>>
      BY DEF WriteDataReady, LastAhead, BypassAhead
    <2>2. Len(s.isLastQ) # 0
      BY <1>1, <2>1, EmptyQueue
    <2> QED BY <1>1, <2>1, <2>2
  <1>7. s.bypass = <<>> <=> FirstUse
    <2>1. CASE FirstUse
      BY <2>1 DEF UpdateCycle, UpdateInv, BypassInv, FirstUse
    <2>2. CASE ~FirstUse
      <3>1. s.bypass = <<s.bypass[1]>>
        BY <2>2 DEF UpdateCycle, UpdateInv, BypassInv, FirstUse
      <3> QED BY <2>2, <3>1
    <2> QED BY <2>1, <2>2
  <1>8. WriteDataReady(s) /\ FinalUse => \A i \in Lanes : HasRoom(s.writeDataQ[i])
    BY <1>5 DEF WriteDataReady
  <1> QED BY <1>2, <1>3, <1>5, <1>6, <1>7, <1>8

(* What the datapath takes and gives in this cycle: a vector moves on all *)
(* lanes or on none.                                                      *)
LEMMA UpdateData ==
  ASSUME NEW in, NEW granted, NEW avail, UpdateCycle(in, granted, avail)
  PROVE  /\ Moves(in) => s.isLastQ # <<>>
         /\ DeqIsLast(s, job, in) <=> Moves(in)
         /\ DeqRsp(s, job, in) <=> Moves(in) /\ FirstUse
         /\ BypassFire(s, in) <=> Moves(in) /\ ~FinalUse
         /\ ~FirstUse => (in.readReady <=> Moves(in))
         /\ \A i \in Lanes \ Enabled : ~EnqData(s, job, in, i)
         /\ \A i \in Enabled : /\ EnqData(s, job, in, i) <=> Moves(in) /\ FinalUse
                               /\ Moves(in) /\ FinalUse => s.writeReqQ[i] # <<>>
                               /\ DeqRsp(s, job, in) => s.rspQ[i] # <<>>
  <1>1. /\ UpdateInv /\ OnlyUpdates /\ job.dir = "readWrite" /\ 0 \in Enabled
    BY LaneZero, UpdateNumbers DEF UpdateCycle
  <1>2. /\ Moves(in) <=> avail /\ ReadValid(s, job) /\ WriteDataReady(s)
        /\ in.readReady <=> avail /\ WriteDataReady(s)
        /\ in.writeValid <=> avail /\ ReadValid(s, job)
        /\ WriteDataReady(s) => s.isLastQ # <<>> /\ moved < Taken
        /\ LastAhead(s) <=> s.isLastQ # <<>> /\ FinalUse
        /\ BypassAhead(s) <=> s.isLastQ # <<>> /\ ~FinalUse
        /\ s.bypass = <<>> <=> FirstUse
        /\ WriteDataReady(s) /\ FinalUse => \A i \in Lanes : HasRoom(s.writeDataQ[i])
    BY UpdateReady
  <1>3. DeqRsp(s, job, in) <=> Moves(in) /\ FirstUse
    BY <1>1, <1>2 DEF DeqRsp, FromRsp, ReadValid
  <1>4. BypassFire(s, in) <=> Moves(in) /\ ~FinalUse
    BY <1>2 DEF BypassFire, BypassValid, BypassReady, WriteDataReady
  <1>5. ~FirstUse => (in.readReady <=> Moves(in))
    BY <1>2 DEF ReadValid
  <1>6. \A i \in Lanes \ Enabled : ~EnqData(s, job, in, i)
    BY DEF EnqData, Enabled
  <1>7. ASSUME NEW i \in Enabled
        PROVE  /\ EnqData(s, job, in, i) <=> Moves(in) /\ FinalUse
               /\ Moves(in) /\ FinalUse => s.writeReqQ[i] # <<>>
               /\ DeqRsp(s, job, in) => s.rspQ[i] # <<>>
    <2>1. i \in Lanes /\ LaneEnabled(job, i) /\ WriteSide(i)
      BY <1>1, UpdateLanes
    <2>2. s.isLastQ # <<>> /\ FinalUse => s.writeReqQ[i] # <<>>
      <3> SUFFICES ASSUME s.isLastQ # <<>>, FinalUse PROVE Len(s.writeReqQ[i]) # 0
        BY <2>1, EmptyQueue DEF WriteSide
      <3>1. /\ moved \in Nat /\ R \in Nat \ {0} /\ Taken \in Nat /\ Len(s.isLastQ) \in Nat
            /\ Taken = moved + Len(s.isLastQ) /\ Retired \in Nat /\ Completed \in Nat
            /\ IsSeq(s.isLastQ)
        BY <1>1, UpdateNumbers
      <3>2. moved < Taken
        <4>1. Len(s.isLastQ) # 0
          BY <3>1, EmptyQueue
        <4> QED BY <3>1, <4>1
      <3>3. Retired < Completed
        BY <3>1, <3>2, GroupComplete DEF Retired, Completed, FinalUse
      <3>4. Retired + Len(s.writeReqQ[i]) = Completed
        BY <2>1 DEF WriteSide
      <3> QED BY <3>1, <3>3, <3>4
    <2>3. EnqData(s, job, in, i) <=> Moves(in) /\ FinalUse
      <3>1. LastAhead(s) /\ HasRoom(s.writeDataQ[i]) => WriteDataReady(s)
        <4> SUFFICES ASSUME HasRoom(s.writeDataQ[i]) PROVE \A k \in Lanes : HasRoom(s.writeDataQ[k])
          BY DEF WriteDataReady
        <4>1. ASSUME NEW k \in Enabled PROVE HasRoom(s.writeDataQ[k])
          BY <1>1, LanesAgree
        <4>2. ASSUME NEW k \in Lanes \ Enabled PROVE HasRoom(s.writeDataQ[k])
          <5>1. s.writeDataQ[k] = <<>>
            BY <1>1 DEF UpdateInv, IdleLane
          <5>2. Len(<<>>) = 0
            OBVIOUS
          <5> QED BY <5>1, <5>2, DepthAssumption DEF HasRoom
        <4> QED BY <4>1, <4>2
      <3> QED BY <1>2, <2>1, <2>2, <3>1 DEF EnqData
    <2>4. DeqRsp(s, job, in) => s.rspQ[i] # <<>>
      BY <2>1 DEF DeqRsp, FromRsp, AllRspValid
    <2> QED BY <1>2, <2>2, <2>3, <2>4
  <1>8. AllLanesEnqData(s, job, in) <=> Moves(in) /\ FinalUse
    <2>1. \A i \in Lanes : i \in Enabled <=> LaneEnabled(job, i)
      BY DEF Enabled
    <2>2. Enabled \in SUBSET Lanes
      BY DEF Enabled
    <2> QED BY <1>1, <1>7, <2>1, <2>2 DEF AllLanesEnqData
  <1>9. DeqIsLast(s, job, in) <=> Moves(in)
    BY <1>1, <1>4, <1>8 DEF DeqIsLast
  <1> QED BY <1>2, <1>3, <1>4, <1>5, <1>6, <1>7, <1>9

(* The datapath adds its share to the element it is handed. *)
LEMMA UpdateVector ==
  ASSUME UpdateInv, OnlyUpdates, ReadValid(s, job), NEW i \in Enabled
  PROVE  /\ ReadVec(s)[i] = ElementWord(i)[Retired] + Weight * (moved % R)
         /\ Result(ReadVec(s))[i] = ElementWord(i)[Retired] + Weight * ((moved % R) + 1)
  <1> DEFINE w == ElementWord(i)[Retired]
             n == moved % R
             old == ReadVec(s)[i]
  <1>1. /\ i \in Lanes /\ LaneEnabled(job, i) /\ IsSeq(s.rspQ[i]) /\ ReadLane(i, Started)
        /\ Retired \in Nat /\ moved \in Nat /\ R \in Nat \ {0} /\ job.dir = "readWrite"
    BY UpdateLanes, UpdateNumbers
  <1>2. w \in Int
    BY <1>1, ElementIsWord
  <1>3. n \in Nat
    BY <1>1, Division
  <1>4. old = w + Weight * n
    <2>1. CASE n = 0
      <3>1. s.bypass = <<>> /\ s.rspQ[i] # <<>>
        BY <1>1, <2>1 DEF UpdateInv, BypassInv, ReadValid, AllRspValid
      <3>2. old = Head(s.rspQ[i])
        BY <1>1, <3>1 DEF ReadVec
      <3>3. Started = Retired
        BY <1>1, <2>1, CeilDivision DEF Started, Retired
      <3>4. Head(s.rspQ[i]) = w
        BY <1>1, <3>1, <3>3, HeadHolds DEF ReadLane
      <3> HIDE DEF w, n, old
      <3> QED BY <1>2, <2>1, <3>2, <3>4 DEF Weight
    <2>2. CASE n # 0
      <3>1. s.bypass = <<s.bypass[1]>> /\ s.bypass[1][i] = w + Weight * n
        BY <2>2 DEF UpdateInv, BypassInv
      <3>2. s.bypass # <<>> /\ Head(s.bypass) = s.bypass[1]
        BY <3>1
      <3>3. old = Head(s.bypass)[i]
        BY <1>1, <3>2 DEF ReadVec
      <3> HIDE DEF w, n, old
      <3> QED BY <3>1, <3>2, <3>3
    <2> QED BY <2>1, <2>2
  <1>5. Result(ReadVec(s))[i] = old + Weight
    BY <1>1 DEF Result
  <1> HIDE DEF w, n, old
  <1>6. old + Weight = w + Weight * (n + 1)
    BY <1>2, <1>3, <1>4 DEF Weight
  <1> QED BY <1>4, <1>5, <1>6 DEF w, n, old

------------------------------------------------------------------------------
(* The generator's addresses: a read with the first use of an element, a    *)
(* write with its last use.                                                 *)
LEMMA UpdateGenerator ==
  ASSUME UpdateInv, OnlyUpdates
  PROVE  /\ AguFire(s, job) => /\ s.agu.counters = Digits(job.agu, Taken)
                               /\ Taken < Iterations(job.agu)
         /\ \A i \in Lanes :
              /\ EnqRead(s, job, i) <=> AguFire(s, job) /\ Taken % R = 0 /\ i \in Enabled
              /\ EnqWrite(s, job, i)
                   <=> AguFire(s, job) /\ (Taken + 1) % R = 0 /\ i \in Enabled
              /\ EnqWrite(s, job, i) => HasRoom(s.writeReqQ[i])
  <1>1. WellFormed(job.agu) /\ job.dir = "readWrite" /\ Taken \in Nat
    BY UpdateNumbers
  <1>2. AguFire(s, job) => s.agu.counters = Digits(job.agu, Taken) /\ Taken < Iterations(job.agu)
    BY DEF AguFire, UpdateInv, AtIteration
  <1>3. AguFire(s, job) => /\ ReadReq(s, job) <=> Taken % R = 0
                           /\ WriteReq(s, job) <=> (Taken + 1) % R = 0
    BY <1>1, <1>2, ElementFlags DEF ReadReq, WriteReq, R
  <1>4. ASSUME NEW i \in Lanes
        PROVE  /\ EnqRead(s, job, i) <=> AguFire(s, job) /\ Taken % R = 0 /\ i \in Enabled
               /\ EnqWrite(s, job, i)
                    <=> AguFire(s, job) /\ (Taken + 1) % R = 0 /\ i \in Enabled
               /\ EnqWrite(s, job, i) => HasRoom(s.writeReqQ[i])
    <2>1. EnqWrite(s, job, i) => HasRoom(s.writeReqQ[i])
      BY DEF EnqWrite, AguFire, AguReady, WriteQueuesReady
    <2> QED BY <1>3, <2>1 DEF EnqRead, EnqWrite, Enabled
  <1> QED BY <1>2, <1>4

(* isLastQueue has room whenever the generator moves on. *)
LEMMA UpdateFlagsHaveRoom ==
  ASSUME UpdateInv, OnlyUpdates, AguFire(s, job)
  PROVE  EnqIsLast(s, job)
  <1>1. /\ FlagsFit(job) /\ Taken < Iterations(job.agu) /\ moved \in Nat /\ R \in Nat \ {0}
        /\ Len(s.isLastQ) \in Nat /\ Taken \in Nat /\ Taken = moved + Len(s.isLastQ)
        /\ Iterations(job.agu) \in Nat
    BY UpdateNumbers, UpdateGenerator
  <1>2. Len(s.isLastQ) = Taken - moved
    BY <1>1
  <1>3. CASE Iterations(job.agu) <= IsLastDepth
    BY <1>1, <1>2, <1>3, DepthAssumption DEF EnqIsLast
  <1>4. CASE 2 * QueueDepth * Reuse(job.agu) <= IsLastDepth
    <2>1. Len(s.writeReqQ[0]) \in Nat /\ WriteSide(0) /\ Retired \in Nat /\ Completed \in Nat
      BY LaneZero, UpdateNumbers, UpdateLanes, EmptyQueue
    <2>2. Completed - Retired <= QueueDepth
      <3>1. Retired + Len(s.writeReqQ[0]) = Completed /\ Len(s.writeReqQ[0]) <= QueueDepth
        BY <2>1 DEF WriteSide
      <3> QED BY <2>1, <3>1, DepthAssumption
    <2> DEFINE n == 2 * QueueDepth
    <2>3. CeilDiv(Taken, R) - (moved \div R) + (IF Taken % R = 0 THEN 1 ELSE 0) <= n
      <3>1. CeilDiv(Taken, R) = IF Taken % R = 0 THEN Completed ELSE Completed + 1
        BY <1>1, CeilDivision DEF Completed
      <3>2. moved \div R = Retired
        BY DEF Retired
      <3> DEFINE c == CeilDiv(Taken, R)
                 t == Taken % R
                 d == Completed
                 e == Retired
      <3>3. /\ c = (IF t = 0 THEN d ELSE d + 1) /\ d \in Nat /\ e \in Nat
            /\ d - e <= QueueDepth
        BY <2>1, <2>2, <3>1
      <3> HIDE DEF c, t, d, e
      <3>4. c - e + (IF t = 0 THEN 1 ELSE 0) <= n
        BY <3>3, DepthAssumption
      <3> QED BY <3>2, <3>4 DEF c, t, d, e
    <2>4. n \in Nat
      BY DepthAssumption
    <2> HIDE DEF n
    <2>5. Taken - moved < n * R
      BY <1>1, <2>3, <2>4, Outstanding
    <2> QED BY <1>1, <1>2, <1>4, <2>4, <2>5, DepthAssumption DEF n, R, EnqIsLast
  <1> QED BY <1>1, <1>3, <1>4 DEF FlagsFit

(* The lanes ask memory for the same things. *)
LEMMA UpdateOffers ==
  ASSUME UpdateInv
  PROVE  /\ \A i \in Enabled : Offers(s, i) = Offers(s, 0) /\ Pick(s, i) = Pick(s, 0)
         /\ \A i \in Lanes \ Enabled : Offers(s, i) = {}
  <1>1. ASSUME NEW i \in Enabled
        PROVE  Offers(s, i) = Offers(s, 0) /\ Pick(s, i) = Pick(s, 0)
    <2>1. Offers(s, i) = Offers(s, 0)
      BY LanesAgree DEF Offers
    <2>2. s.lastGrant[i] = s.lastGrant[0]
      BY UpdateLanes DEF SameAsLaneZero
    <2> QED BY <2>1, <2>2 DEF Pick
  <1>2. \A i \in Lanes \ Enabled : Offers(s, i) = {}
    BY DEF UpdateInv, UnusedLane, IdleLane, Offers
  <1> QED BY <1>1, <1>2

(* What the memory takes in this cycle, on all lanes or on none *)
LEMMA UpdateGrants ==
  ASSUME NEW in, NEW granted, NEW avail, UpdateCycle(in, granted, avail)
  PROVE  /\ \A i \in Enabled :
              /\ ReqFire(s, in, i)   <=> ReqFire(s, in, 0)
              /\ ReadFire(s, in, i)  <=> ReadFire(s, in, 0)
              /\ WriteFire(s, in, i) <=> WriteFire(s, in, 0)
              /\ WriteFire(s, in, i) => /\ s.writeDataQ[i] # <<>>
                                        /\ ReqAddr(s, i) = Head(s.writeDataQ[i]).addr
         /\ \A i \in Lanes \ Enabled : ~ReadFire(s, in, i) /\ ~WriteFire(s, in, i)
  <1>1. /\ UpdateInv /\ OnlyUpdates /\ granted \in Grants /\ in.granted = granted
        /\ 0 \in Enabled /\ 0 \in Lanes /\ job.dir = "readWrite"
    BY UpdateNumbers DEF UpdateCycle, Inputs
  <1>2. granted \in {{}, {k \in Lanes : Offers(s, k) # {}}}
    BY DEF UpdateCycle, AllOrNone
  <1>3. \A k \in Lanes : Offers(s, k) # {} => (k \in granted <=> granted # {})
    BY <1>2
  <1>4. ASSUME NEW i \in Enabled
        PROVE  /\ ReqFire(s, in, i)   <=> ReqFire(s, in, 0)
               /\ ReadFire(s, in, i)  <=> ReadFire(s, in, 0)
               /\ WriteFire(s, in, i) <=> WriteFire(s, in, 0)
               /\ WriteFire(s, in, i) => /\ s.writeDataQ[i] # <<>>
                                         /\ ReqAddr(s, i) = Head(s.writeDataQ[i]).addr
    <2>1. i \in Lanes /\ Offers(s, i) = Offers(s, 0) /\ Pick(s, i) = Pick(s, 0)
      BY <1>1, UpdateLanes, UpdateOffers
    <2>2. ReqFire(s, in, i) <=> ReqFire(s, in, 0)
      BY <1>1, <1>3, <2>1 DEF ReqFire
    <2>3. WriteFire(s, in, i) => /\ s.writeDataQ[i] # <<>>
                                 /\ ReqAddr(s, i) = Head(s.writeDataQ[i]).addr
      <3> SUFFICES ASSUME WriteFire(s, in, i)
                   PROVE  s.writeDataQ[i] # <<>> /\ ReqAddr(s, i) = Head(s.writeDataQ[i]).addr
        OBVIOUS
      <3>1. 1 \in Offers(s, i)
        BY PickOffered DEF WriteFire, ReqFire
      <3> QED BY <3>1 DEF Offers, WriteFire, ReqAddr
    <2> QED BY <2>1, <2>2, <2>3 DEF ReadFire, WriteFire
  <1>5. \A i \in Lanes \ Enabled : ~ReadFire(s, in, i) /\ ~WriteFire(s, in, i)
    BY <1>1, UpdateOffers DEF ReadFire, WriteFire, ReqFire
  <1> QED BY <1>4, <1>5

------------------------------------------------------------------------------
(* The counts of vectors and elements *)
LEMMA UpdateCounts ==
  ASSUME NEW in, NEW granted, NEW avail, UpdateCycle(in, granted, avail)
  PROVE  /\ moved' = moved + Count(Moves(in)) /\ R' = R
         /\ FlagsInv' /\ Taken' = Taken + Count(AguFire(s, job))
         /\ Started' = Started + Count(DeqRsp(s, job, in))
         /\ Retired' = Retired + Count(Moves(in) /\ FinalUse)
         /\ Completed' = Completed + Count(AguFire(s, job) /\ (Taken + 1) % R = 0)
  <1> DEFINE move == Moves(in)
             fire == AguFire(s, job)
  <1>1. /\ UpdateInv /\ OnlyUpdates /\ s' = StreamerNext(s, job, in) /\ job' = job /\ FlagsInv
        /\ WellFormed(job.agu) /\ moved \in Nat /\ R \in Nat \ {0} /\ Taken \in Nat
        /\ AtIteration(job.agu, s.agu, jobs > 0, Taken)
    BY UpdateNumbers DEF UpdateCycle, UpdateInv
  <1>2. R' = R
    BY <1>1 DEF R
  <1>3. moved' = moved + Count(move)
    <2>1. moved' = IF Moves(in) THEN moved + 1 ELSE moved
      BY DEF UpdateCycle
    <2> QED BY <1>1, <2>1 DEF Count
  <1>4. FlagsInv' /\ Taken' = Taken + Count(fire)
    <2>1. (DeqIsLast(s, job, in) <=> move) /\ (DeqIsLast(s, job, in) => s.isLastQ # <<>>)
      BY UpdateData
    <2>2. moved' = moved + Count(DeqIsLast(s, job, in))
      BY <1>3, <2>1 DEF Count
    <2>3. fire => EnqIsLast(s, job)
      BY <1>1, UpdateFlagsHaveRoom
    <2> QED BY <1>1, <2>1, <2>2, <2>3, FlagsStep
  <1>5. ASSUME NEW m \in Nat, NEW n, NEW c, n = m + Count(c)
        PROVE  /\ CeilDiv(n, R) = CeilDiv(m, R) + Count(c /\ m % R = 0)
               /\ n \div R = (m \div R) + Count(c /\ (m + 1) % R = 0)
    <2>1. /\ CeilDiv(m + 1, R) = IF m % R = 0 THEN CeilDiv(m, R) + 1 ELSE CeilDiv(m, R)
          /\ CeilDiv(m, R) \in Nat /\ m \div R \in Nat
          /\ (m + 1) % R = IF m % R = R - 1 THEN 0 ELSE (m % R) + 1
          /\ (m + 1) \div R = IF m % R = R - 1 THEN (m \div R) + 1 ELSE m \div R
          /\ m % R \in 0 .. R - 1
      BY <1>1, CeilDivision, NextNumber, DivisionTwice, Division
    <2>2. (m + 1) % R = 0 <=> m % R = R - 1
      <3> DEFINE u == m % R
                 v == (m + 1) % R
      <3>1. v = (IF u = R - 1 THEN 0 ELSE u + 1) /\ u \in 0 .. R - 1
        BY <2>1
      <3> HIDE DEF u, v, R
      <3>2. v = 0 <=> u = R - 1
        BY <1>1, <3>1
      <3> QED BY <3>2 DEF u, v
    <2>3. CASE c
      <3>1. n = m + 1
        BY <1>5, <2>3 DEF Count
      <3> QED BY <2>1, <2>2, <2>3, <3>1 DEF Count
    <2>4. CASE ~c
      <3>1. n = m /\ ~(c /\ m % R = 0) /\ ~(c /\ (m + 1) % R = 0)
        BY <1>5, <2>4 DEF Count
      <3> QED BY <2>1, <3>1 DEF Count
    <2> QED BY <2>3, <2>4
  <1>6. /\ Started' = Started + Count(move /\ FirstUse)
        /\ Retired' = Retired + Count(move /\ FinalUse)
    BY <1>1, <1>2, <1>3, <1>5 DEF Started, Retired, FirstUse, FinalUse
  <1>7. Completed' = Completed + Count(fire /\ (Taken + 1) % R = 0)
    BY <1>1, <1>2, <1>4, <1>5 DEF Completed
  <1>8. Count(move /\ FirstUse) = Count(DeqRsp(s, job, in))
    BY UpdateData DEF Count
  <1> QED BY <1>2, <1>3, <1>4, <1>6, <1>7, <1>8

------------------------------------------------------------------------------
(* The numbers of the lanes *)
LEMMA UpdateStored ==
  ASSUME UpdateInv, OnlyUpdates, NEW i \in Enabled
  PROVE  /\ Stored \in Nat /\ Stored + Len(s.writeDataQ[i]) = Retired
         /\ Len(s.writeDataQ[i]) \in Nat /\ Len(s.writeReqQ[i]) \in Nat
         /\ Len(s.rspQ[i]) \in Nat /\ Len(s.readReqQ[i]) \in Nat
  <1>1. /\ Len(s.writeDataQ[i]) \in Nat /\ Len(s.writeReqQ[i]) \in Nat
        /\ Len(s.rspQ[i]) \in Nat /\ Len(s.readReqQ[i]) \in Nat
        /\ Len(s.writeDataQ[i]) = Len(s.writeDataQ[0])
    BY UpdateLanes, EmptyQueue DEF SameAsLaneZero
  <1>2. Stored \in Nat /\ Retired \in Nat
    BY UpdateNumbers DEF UpdateInv, UpdateMemory
  <1>3. Stored = Retired - Len(s.writeDataQ[0])
    BY DEF Stored
  <1> DEFINE a == Stored
             b == Retired
             c == Len(s.writeDataQ[0])
  <1>4. a + c = b
    <2>1. a \in Nat /\ b \in Nat /\ c \in Nat /\ a = b - c
      BY <1>1, <1>2, <1>3
    <2> HIDE DEF a, b, c
    <2> QED BY <2>1
  <1> QED BY <1>1, <1>2, <1>4

(* An element that is not stored yet is in memory as it was before the job. *)
LEMMA NotYetChanged ==
  ASSUME UpdateInv, OnlyUpdates, NEW i \in Enabled, NEW k \in Nat,
         Stored <= k, k < FetchedBefore(Taken)
  PROVE  mem[ElementAddr(i)[k]] = mem0[ElementAddr(i)[k]]
  <1> DEFINE a == ElementAddr(i)[k]
             n == Iterations(job.agu)
  <1>1. /\ R \in Nat \ {0} /\ Taken \in Nat /\ Taken <= n /\ n \in Nat
        /\ Stored \in Nat /\ InPlace(job)
    BY UpdateNumbers, UpdateStored
  <1>2. R * k \in 0 .. n - 1
    <2>1. R * k < Taken
      BY <1>1, FirstOfGroup DEF FetchedBefore
    <2>2. R * k \in Nat
      <3> HIDE DEF R
      <3> QED BY <1>1
    <2> HIDE DEF R, n
    <2> QED BY <1>1, <2>1, <2>2
  <1>3. ~StoredAt(a)
    <2> SUFFICES ASSUME NEW x \in 0 .. Stored - 1, NEW l \in Enabled, ElementAddr(l)[x] = a
                 PROVE  FALSE
      BY DEF StoredAt
    <2>1. x \in Nat /\ x < k
      BY <1>1
    <2>2. R * x \in 0 .. n - 1
      <3>1. R * x <= R * k
        BY <1>1, <2>1, Monotone
      <3>2. R * x \in Nat /\ R * k \in Nat
        <4> HIDE DEF R
        <4> QED BY <1>1, <2>1
      <3> HIDE DEF R, n
      <3> QED BY <1>1, <1>2, <3>1, <3>2
    <2>3. IterAddress(job.agu, R * x, l) = IterAddress(job.agu, R * k, i)
      BY <2>1 DEF ElementAddr
    <2>4. (R * x) \div R = (R * k) \div R
      <3>1. Enabled = {z \in Lanes : LaneEnabled(job, z)} /\ R = Reuse(job.agu)
        BY DEF Enabled, R
      <3> HIDE DEF R, n
      <3> QED BY <1>1, <1>2, <2>2, <2>3, <3>1 DEF InPlace, n
    <2>5. \A z \in Nat : (R * z) \div R = z
      <3> SUFFICES ASSUME NEW z \in Nat PROVE (R * z) \div R = z
        OBVIOUS
      <3>1. R * z \in Nat /\ 0 \in 0 .. R - 1 /\ R * z = R * z + 0 /\ z \in Int
        <4> HIDE DEF R
        <4> QED BY <1>1
      <3> QED BY <1>1, <3>1, OneRemainder
    <2> QED BY <2>1, <2>4, <2>5
  <1>4. a \in Addrs
    BY ElementIsWord
  <1> QED BY <1>3, <1>4 DEF UpdateInv, UpdateMemory

(* The bypass buffer holds the element between its first and its last use. *)
LEMMA UpdateBypass ==
  ASSUME NEW in, NEW granted, NEW avail, UpdateCycle(in, granted, avail)
  PROVE  BypassInv'
  <1> DEFINE move == Moves(in)
             w(i) == ElementWord(i)[Retired]
             n == moved % R
  <1>1. /\ UpdateInv /\ OnlyUpdates /\ s' = StreamerNext(s, job, in) /\ job' = job
        /\ mem0' = mem0 /\ moved \in Nat /\ R \in Nat \ {0} /\ BypassInv
        /\ Enabled' = Enabled
    BY UpdateNumbers DEF UpdateCycle, UpdateInv, Enabled
  <1>2. /\ moved' = moved + Count(move) /\ R' = R
        /\ Retired' = Retired + Count(move /\ FinalUse)
    BY UpdateCounts
  <1>3. s'.bypass = PushIf(PopIf(s.bypass, in.readReady), BypassFire(s, in), in.writeVec)
    BY <1>1, Edge
  <1>4. /\ BypassFire(s, in) <=> move /\ ~FinalUse
        /\ ~FirstUse => (in.readReady <=> move)
    BY UpdateData
  <1>5. \A i : ElementWord(i)' = ElementWord(i)
    BY <1>1, <1>2 DEF ElementWord, R
  <1>6. CASE ~move
    <2>1. moved' = moved /\ Retired' = Retired
      <3>1. Count(move) = 0 /\ Count(move /\ FinalUse) = 0
        BY <1>6 DEF Count
      <3> QED BY <1>1, <1>2, <3>1, UpdateNumbers
    <2>2. s'.bypass = s.bypass
      <3>1. CASE FirstUse
        <4>1. s.bypass = <<>>
          BY <1>1, <3>1 DEF BypassInv, FirstUse
        <4> QED BY <1>3, <1>4, <1>6, <4>1 DEF PushIf, PopIf
      <3>2. CASE ~FirstUse
        BY <1>3, <1>4, <1>6, <3>2 DEF PushIf, PopIf
      <3> QED BY <3>1, <3>2
    <2>3. ElementWord(0)' = ElementWord(0)
      BY <1>5
    <2> QED BY <1>1, <1>2, <1>5, <2>1, <2>2 DEF BypassInv
  <1>7. CASE move
    <2>1. moved' = moved + 1
      BY <1>2, <1>7 DEF Count
    <2>2. PopIf(s.bypass, in.readReady) = <<>>
      <3>1. CASE FirstUse
        <4>1. s.bypass = <<>>
          BY <1>1, <3>1 DEF BypassInv, FirstUse
        <4> QED BY <4>1 DEF PopIf
      <3>2. CASE ~FirstUse
        <4>1. s.bypass = <<s.bypass[1]>> /\ in.readReady
          BY <1>1, <1>4, <1>7, <3>2 DEF BypassInv, FirstUse
        <4>2. \A v : Tail(<<v>>) = <<>>
          OBVIOUS
        <4>3. Tail(s.bypass) = <<>>
          BY <4>1, <4>2
        <4> QED BY <4>1, <4>3 DEF PopIf
      <3> QED BY <3>1, <3>2
    <2>3. CASE FinalUse
      <3>1. s'.bypass = <<>>
        BY <1>3, <1>4, <2>2, <2>3 DEF PushIf
      <3> QED BY <1>2, <2>1, <2>3, <3>1 DEF BypassInv, FinalUse
    <2>4. CASE ~FinalUse
      <3>1. s'.bypass = <<in.writeVec>>
        <4>1. \A v : Append(<<>>, v) = <<v>>
          OBVIOUS
        <4> QED BY <1>3, <1>4, <1>7, <2>2, <2>4, <4>1 DEF PushIf
      <3>2. moved' % R' = n + 1 /\ moved' % R' # 0
        <4>1. (moved + 1) % R = (IF n = R - 1 THEN 0 ELSE n + 1)
          BY <1>1, NextNumber
        <4> QED BY <1>2, <2>1, <2>4, <4>1 DEF FinalUse
      <3>3. Retired' = Retired
        <4>1. Count(move /\ FinalUse) = 0
          BY <2>4 DEF Count
        <4> QED BY <1>1, <1>2, <4>1, UpdateNumbers
      <3>4. ASSUME NEW i \in Enabled
            PROVE  in.writeVec[i] = ElementWord(i)[Retired] + Weight * (n + 1)
        BY <1>1, <1>7, UpdateReady, UpdateVector
      <3>5. s'.bypass = <<s'.bypass[1]>> /\ s'.bypass[1] = in.writeVec
        BY <3>1
      <3> HIDE DEF n
      <3> QED BY <1>1, <1>5, <3>2, <3>3, <3>4, <3>5 DEF BypassInv
    <2> QED BY <2>3, <2>4
  <1> QED BY <1>6, <1>7

------------------------------------------------------------------------------
(* A lane's reads: memory answers with words that have not been updated. *)
LEMMA UpdateReads ==
  ASSUME NEW in, NEW granted, NEW avail, UpdateCycle(in, granted, avail), NEW i \in Enabled
  PROVE  /\ ReadLane(i, Started)'
         /\ Len(s'.rspQ[i]) = Len(s.rspQ[i]) - Count(DeqRsp(s, job, in)) + OnTheWay(i)
         /\ Len(s'.readReqQ[i])
              = Len(s.readReqQ[i]) - Count(ReadFire(s, in, i)) + Count(EnqRead(s, job, i))
         /\ OnTheWay(i)' = Count(ReadFire(s, in, i))
  <1> DEFINE out   == ReadFire(s, in, i)
             come  == EnqRead(s, job, i)
             leave == DeqRsp(s, job, in)
  <1>1. /\ UpdateInv /\ OnlyUpdates /\ s' = StreamerNext(s, job, in) /\ MemoryEdge(in)
        /\ job' = job /\ mem0' = mem0 /\ in.rsp = rsp
    BY DEF UpdateCycle, Inputs
  <1>2. /\ i \in Lanes /\ ReadLane(i, Started)
        /\ RoomKept(s.rspQ[i], s.readPending[i])
    BY <1>1, UpdateLanes
  <1>3. /\ WellFormed(job.agu) /\ R \in Nat \ {0} /\ Taken \in Nat /\ Started \in Nat
        /\ AtIteration(job.agu, s.agu, jobs > 0, Taken)
    BY <1>1, UpdateNumbers DEF UpdateInv
  <1>4. /\ Taken' = Taken + Count(AguFire(s, job))
        /\ Started' = Started + Count(leave)
    BY UpdateCounts
  <1>5. come <=> AguFire(s, job) /\ Taken % R = 0
    BY <1>1, <1>2, UpdateGenerator
  <1>6. leave => s.rspQ[i] # <<>>
    BY UpdateData
  <1>7. out => rsp'[i].valid /\ rsp'[i].data = mem0[Head(s.readReqQ[i])]
    <2> SUFFICES ASSUME out PROVE rsp'[i].valid /\ rsp'[i].data = mem0[Head(s.readReqQ[i])]
      OBVIOUS
    <2>1. rsp'[i].valid /\ rsp'[i].data = mem[Head(s.readReqQ[i])]
      <3>1. ReqAddr(s, i) = Head(s.readReqQ[i]) /\ ReqFire(s, in, i) /\ ReadFire(s, in, i)
        BY DEF ReadFire, ReqAddr
      <3> QED BY <1>1, <1>2, <3>1 DEF MemoryEdge
    <2> DEFINE r == Len(s.rspQ[i])
               p == OnTheWay(i)
               a == Len(s.readReqQ[i])
               k == Started + r + p
    <2>2. s.readReqQ[i] # <<>> /\ IsSeq(s.readReqQ[i])
      BY <1>2, Granted DEF ReadLane
    <2>3. r \in Nat /\ p \in Nat /\ a \in Nat /\ a # 0
      BY <1>1, <2>2, UpdateStored, UpdateLanes, EmptyQueue
    <2>4. k + a = FetchedBefore(Taken) /\ Holds(s.readReqQ[i], ElementAddr(i), k)
      BY <1>2 DEF ReadLane
    <2> HIDE DEF r, p, a
    <2>5. k \in Nat /\ Started <= k /\ k < FetchedBefore(Taken)
      <3>1. \A x, y, z, u, v \in Nat : x + y + z + u = v /\ u # 0 =>
              x + y + z \in Nat /\ x <= x + y + z /\ x + y + z < v
        OBVIOUS
      <3>2. FetchedBefore(Taken) \in Nat
        BY <1>1, UpdateNumbers
      <3> QED BY <1>3, <2>3, <2>4, <3>1, <3>2, Zenon
    <2>6. Stored <= k
      <3>1. Stored <= Retired /\ Retired <= Started
        <4>1. \A x, y, z \in Nat : x + y = z => x <= z
          OBVIOUS
        <4>2. /\ Stored \in Nat /\ Len(s.writeDataQ[i]) \in Nat /\ Retired \in Nat
              /\ Stored + Len(s.writeDataQ[i]) = Retired /\ Retired <= Started
          BY <1>1, UpdateStored, UpdateNumbers
        <4> QED BY <4>1, <4>2, Zenon
      <3>2. Stored \in Nat /\ Retired \in Nat
        BY <1>1, UpdateNumbers, UpdateStored
      <3> HIDE DEF k
      <3> QED BY <1>3, <2>5, <3>1, <3>2
    <2> HIDE DEF k
    <2>7. Head(s.readReqQ[i]) = ElementAddr(i)[k]
      BY <2>2, <2>4, <2>5, HeadHolds
    <2>8. mem[ElementAddr(i)[k]] = mem0[ElementAddr(i)[k]]
      BY <1>1, <2>5, <2>6, NotYetChanged
    <2> QED BY <2>1, <2>7, <2>8
  <1>8. PICK e2 : e2 = Started'
    OBVIOUS
  <1>9. e2 = Started + Count(leave)
    BY <1>4, <1>8
  <1> HIDE DEF leave, out, come
  <1>10. /\ ReadLane(i, e2)'
         /\ Len(s'.rspQ[i]) = Len(s.rspQ[i]) - Count(leave) + OnTheWay(i)
         /\ Len(s'.readReqQ[i]) = Len(s.readReqQ[i]) - Count(out) + Count(come)
         /\ OnTheWay(i)' = Count(out)
    BY <1>1, <1>2, <1>3, <1>4, <1>5, <1>6, <1>7, <1>9, ReadLaneStep DEF leave, out, come
  <1>11. ReadLane(i, Started)'
    BY <1>8, <1>10 DEF ReadLane
  <1> QED BY <1>10, <1>11 DEF leave, out, come

(* A lane's writes *)
LEMMA UpdateWrites ==
  ASSUME NEW in, NEW granted, NEW avail, UpdateCycle(in, granted, avail), NEW i \in Enabled
  PROVE  /\ IsSeq(s'.writeReqQ[i]) /\ IsSeq(s'.writeDataQ[i])
         /\ Len(s'.writeReqQ[i]) = Len(s.writeReqQ[i]) - Count(Moves(in) /\ FinalUse)
                                     + Count(AguFire(s, job) /\ (Taken + 1) % R = 0)
         /\ Len(s'.writeDataQ[i]) = Len(s.writeDataQ[i]) - Count(WriteFire(s, in, 0))
                                     + Count(Moves(in) /\ FinalUse)
         /\ Holds(s'.writeReqQ[i], ElementAddr(i), Retired + Count(Moves(in) /\ FinalUse))
         /\ Holds(s'.writeDataQ[i], UpdatedWord(i), Stored + Count(WriteFire(s, in, 0)))
  <1> DEFINE data == Moves(in) /\ FinalUse
             come == AguFire(s, job) /\ (Taken + 1) % R = 0
             out  == WriteFire(s, in, 0)
             x    == Address(job.agu, s.agu.counters, i)
             y    == [addr |-> Head(s.writeReqQ[i]), data |-> in.writeVec[i]]
             addrs == ElementAddr(i)
             words == UpdatedWord(i)
  <1>1. /\ UpdateInv /\ OnlyUpdates /\ s' = StreamerNext(s, job, in)
        /\ i \in Lanes /\ WriteSide(i) /\ IsSeq(s.writeReqQ[i]) /\ IsSeq(s.writeDataQ[i])
        /\ Retired \in Nat /\ Completed \in Nat /\ Taken \in Nat /\ R \in Nat \ {0}
        /\ WellFormed(job.agu) /\ moved \in Nat
    BY UpdateNumbers, UpdateLanes DEF UpdateCycle
  <1>2. /\ EnqData(s, job, in, i) <=> data
        /\ data => s.writeReqQ[i] # <<>>
        /\ EnqWrite(s, job, i) <=> come
        /\ WriteFire(s, in, i) <=> out
        /\ out => s.writeDataQ[i] # <<>>
    <2>1. (EnqData(s, job, in, i) <=> data) /\ (data => s.writeReqQ[i] # <<>>)
      BY UpdateData
    <2>2. EnqWrite(s, job, i) <=> come
      BY <1>1, UpdateGenerator
    <2>3. (WriteFire(s, in, i) <=> out) /\ (out => s.writeDataQ[i] # <<>>)
      BY UpdateGrants
    <2> QED BY <2>1, <2>2, <2>3
  <1>3. s'.writeReqQ[i] = PushIf(PopIf(s.writeReqQ[i], data), come, x)
    <2>1. s'.writeReqQ[i] = PushIf(PopIf(s.writeReqQ[i], EnqData(s, job, in, i)),
                                   EnqWrite(s, job, i), x)
      BY <1>1 DEF StreamerNext
    <2> HIDE DEF data, come, x
    <2> QED BY <1>2, <2>1 DEF PushIf, PopIf
  <1>4. s'.writeDataQ[i] = PushIf(PopIf(s.writeDataQ[i], out), data, y)
    <2>1. s'.writeDataQ[i] = PushIf(PopIf(s.writeDataQ[i], WriteFire(s, in, i)),
                                    EnqData(s, job, in, i), y)
      BY <1>1, Edge
    <2> HIDE DEF data, out, y
    <2> QED BY <1>2, <2>1 DEF PushIf, PopIf
  <1>5. /\ Holds(s.writeReqQ[i], addrs, Retired) /\ Retired + Len(s.writeReqQ[i]) = Completed
        /\ Holds(s.writeDataQ[i], words, Stored) /\ Stored \in Nat
        /\ Stored + Len(s.writeDataQ[i]) = Retired
    BY <1>1, UpdateStored DEF WriteSide
  <1>6. come => x = addrs[Retired + Len(s.writeReqQ[i])]
    <2> SUFFICES ASSUME come PROVE x = addrs[Completed]
      BY <1>5
    <2>1. s.agu.counters = Digits(job.agu, Taken)
      BY <1>1, UpdateGenerator
    <2>2. IterAddress(job.agu, Taken, i) = IterAddress(job.agu, R * Completed, i)
      BY <1>1, ElementAddress DEF R, Completed
    <2> QED BY <1>1, <2>1, <2>2 DEF ElementAddr, IterAddress
  <1>7. data => y = words[Stored + Len(s.writeDataQ[i])]
    <2> SUFFICES ASSUME data PROVE y = words[Retired]
      BY <1>5
    <2>1. Head(s.writeReqQ[i]) = addrs[Retired]
      <3>1. s.writeReqQ[i] # <<>>
        BY <1>2
      <3> HIDE DEF addrs
      <3> QED BY <1>1, <1>5, <3>1, HeadHolds
    <2>2. in.writeVec[i] = ElementWord(i)[Retired] + Weight * ((moved % R) + 1)
      BY <1>1, UpdateReady, UpdateVector
    <2>3. (moved % R) + 1 = R
      <3>1. (moved + 1) % R = IF moved % R = R - 1 THEN 0 ELSE (moved % R) + 1
        BY <1>1, NextNumber
      <3>2. moved % R \in 0 .. R - 1
        BY <1>1, Division
      <3> DEFINE u == moved % R
                 v == (moved + 1) % R
      <3>3. v = 0 /\ v = (IF u = R - 1 THEN 0 ELSE u + 1) /\ u \in 0 .. R - 1
        BY <3>1, <3>2 DEF FinalUse
      <3> HIDE DEF u, v, R
      <3>4. u + 1 = R
        BY <1>1, <3>3
      <3> QED BY <3>4 DEF u
    <2> QED BY <1>1, <2>1, <2>2, <2>3 DEF UpdatedWord
  <1> HIDE DEF data, come, out, x, y, addrs, words
  <1>8. /\ IsSeq(s'.writeReqQ[i])
        /\ Len(s'.writeReqQ[i]) = Len(s.writeReqQ[i]) - Count(data) + Count(come)
        /\ Holds(s'.writeReqQ[i], addrs, Retired + Count(data))
    BY <1>1, <1>2, <1>3, <1>5, <1>6, QueueStep
  <1>9. /\ IsSeq(s'.writeDataQ[i])
        /\ Len(s'.writeDataQ[i]) = Len(s.writeDataQ[i]) - Count(out) + Count(data)
        /\ Holds(s'.writeDataQ[i], words, Stored + Count(out))
    BY <1>1, <1>2, <1>4, <1>5, <1>7, QueueStep
  <1> QED BY <1>8, <1>9 DEF data, come, out, addrs, words

(* The elements stored, and the write side of the lanes after the cycle *)
LEMMA UpdateWriteSide ==
  ASSUME NEW in, NEW granted, NEW avail, UpdateCycle(in, granted, avail)
  PROVE  /\ Stored' = Stored + Count(WriteFire(s, in, 0))
         /\ WriteFire(s, in, 0) => Stored < Retired
         /\ \A i \in Enabled : WriteSide(i)'
  <1> DEFINE data == Moves(in) /\ FinalUse
             come == AguFire(s, job) /\ (Taken + 1) % R = 0
             out  == WriteFire(s, in, 0)
             da   == Count(data)
             co   == Count(come)
             ou   == Count(out)
  <1>1. /\ UpdateInv /\ OnlyUpdates /\ job' = job /\ mem0' = mem0 /\ 0 \in Enabled
        /\ Retired \in Nat /\ Completed \in Nat /\ Stored \in Nat
    BY UpdateNumbers, LaneZero, UpdateStored DEF UpdateCycle
  <1>2. /\ R' = R /\ Retired' = Retired + da /\ Completed' = Completed + co
    BY UpdateCounts
  <1>3. da \in {0, 1} /\ co \in {0, 1} /\ ou \in {0, 1}
    BY DEF Count
  <1> DEFINE d  == Len(s.writeDataQ[0])
             d2 == Len(s'.writeDataQ[0])
  <1>4. d \in Nat /\ Stored + d = Retired
    BY <1>1, UpdateStored
  <1>5. d2 = d - ou + da
    BY <1>1, UpdateWrites
  <1>6. Stored' = Retired' - d2
    BY DEF Stored
  <1>7. out => d # 0
    BY <1>1, UpdateGrants, UpdateLanes, EmptyQueue
  <1> HIDE DEF data, come, out, da, co, ou, d, d2
  <1>8. Stored' = Stored + ou /\ (ou = 1 => d # 0)
    <2>1. da \in Nat /\ ou \in Nat
      BY <1>3
    <2>2. Stored' = Stored + ou
      BY <1>1, <1>2, <1>4, <1>5, <1>6, <2>1
    <2>3. ou = 1 => d # 0
      BY <1>7 DEF ou, Count
    <2> QED BY <2>2, <2>3
  <1>9. out => Stored < Retired
    BY <1>1, <1>4, <1>7
  <1>10. ASSUME NEW i \in Enabled PROVE WriteSide(i)'
    <2> DEFINE a  == Len(s.writeReqQ[i])
               a2 == Len(s'.writeReqQ[i])
    <2>1. /\ IsSeq(s'.writeReqQ[i]) /\ IsSeq(s'.writeDataQ[i])
          /\ a2 = a - da + co
          /\ Holds(s'.writeReqQ[i], ElementAddr(i), Retired + da)
          /\ Holds(s'.writeDataQ[i], UpdatedWord(i), Stored + ou)
      BY UpdateWrites DEF da, co, ou, data, come, out
    <2>2. a \in Nat /\ Retired + a = Completed /\ a <= QueueDepth
      BY <1>1, UpdateLanes, UpdateStored DEF WriteSide
    <2>3. co = 1 => a < QueueDepth
      <3>1. come => HasRoom(s.writeReqQ[i])
        BY <1>1, UpdateGenerator, UpdateLanes DEF come
      <3> QED BY <3>1 DEF co, Count, HasRoom
    <2>4. ElementAddr(i)' = ElementAddr(i) /\ UpdatedWord(i)' = UpdatedWord(i)
      BY <1>1, <1>2 DEF ElementAddr, UpdatedWord, ElementWord
    <2> HIDE DEF a, a2
    <2>5. Retired' + a2 = Completed' /\ a2 <= QueueDepth
      BY <1>1, <1>2, <1>3, <2>1, <2>2, <2>3, DepthAssumption
    <2> QED BY <1>2, <1>8, <2>1, <2>4, <2>5 DEF WriteSide, a2
  <1> QED BY <1>8, <1>9, <1>10 DEF ou, out

(* The enabled lanes stay in step. *)
LEMMA UpdateInStep ==
  ASSUME NEW in, NEW granted, NEW avail, UpdateCycle(in, granted, avail), NEW i \in Enabled
  PROVE  SameAsLaneZero(i)'
  <1>1. /\ UpdateInv /\ OnlyUpdates /\ s' = StreamerNext(s, job, in) /\ 0 \in Enabled
        /\ SameAsLaneZero(i) /\ i \in Lanes /\ 0 \in Lanes
    BY UpdateNumbers, UpdateLanes DEF UpdateCycle
  <1>2. /\ ReqFire(s, in, i)   <=> ReqFire(s, in, 0)
        /\ ReadFire(s, in, i)  <=> ReadFire(s, in, 0)
        /\ EnqRead(s, job, i)  <=> EnqRead(s, job, 0)
        /\ Pick(s, i) = Pick(s, 0)
    BY <1>1, UpdateGrants, UpdateGenerator, UpdateOffers
  <1>3. /\ Count(ReadFire(s, in, i)) = Count(ReadFire(s, in, 0))
        /\ Count(EnqRead(s, job, i)) = Count(EnqRead(s, job, 0))
    BY <1>2 DEF Count
  <1>4. /\ Len(s.rspQ[i]) = Len(s.rspQ[0]) /\ Len(s.readReqQ[i]) = Len(s.readReqQ[0])
        /\ OnTheWay(i) = OnTheWay(0) /\ Len(s.writeDataQ[i]) = Len(s.writeDataQ[0])
        /\ s.lastGrant[i] = s.lastGrant[0]
    BY <1>1 DEF SameAsLaneZero
  <1>5. /\ Len(s'.rspQ[i]) = Len(s'.rspQ[0]) /\ Len(s'.readReqQ[i]) = Len(s'.readReqQ[0])
        /\ OnTheWay(i)' = OnTheWay(0)'
    BY <1>1, <1>3, <1>4, UpdateReads
  <1>6. Len(s'.writeDataQ[i]) = Len(s'.writeDataQ[0])
    BY <1>1, <1>4, UpdateWrites
  <1>7. s'.lastGrant[i] = s'.lastGrant[0]
    <2>1. \A k \in Lanes :
            s'.lastGrant[k] = LastGrant(s.lastGrant[k], Pick(s, k), ReqFire(s, in, k))
      BY <1>1 DEF StreamerNext
    <2> QED BY <1>1, <1>2, <1>4, <2>1 DEF LastGrant
  <1> QED BY <1>5, <1>6, <1>7 DEF SameAsLaneZero

(* A lane the jobs do not enable stays empty. *)
LEMMA UpdateUnused ==
  ASSUME NEW in, NEW granted, NEW avail, UpdateCycle(in, granted, avail),
         NEW i \in Lanes \ Enabled
  PROVE  UnusedLane(i)' /\ IdleLane(i)'
  <1>1. /\ UpdateInv /\ OnlyUpdates /\ s' = StreamerNext(s, job, in)
        /\ UnusedLane(i) /\ IdleLane(i)
    BY DEF UpdateCycle, UpdateInv
  <1>2. /\ ~EnqRead(s, job, i) /\ ~EnqWrite(s, job, i) /\ ~EnqData(s, job, in, i)
        /\ ~ReadFire(s, in, i) /\ ~WriteFire(s, in, i)
    BY UpdateGrants, UpdateData DEF EnqRead, EnqWrite, Enabled
  <1>3. ~EnqRsp(s, in, i)
    BY <1>1 DEF UnusedLane, EnqRsp
  <1>4. s'.readReqQ[i] = <<>> /\ ~s'.readPending[i]
    BY <1>1, <1>2, Edge DEF UnusedLane, PopIf, PushIf
  <1>5. s'.rspQ[i] = <<>>
    <2>1. s'.rspQ[i] = PushIf(PopIf(s.rspQ[i], DeqRsp(s, job, in)),
                              EnqRsp(s, in, i), in.rsp[i].data)
      BY <1>1 DEF StreamerNext
    <2> QED BY <1>1, <1>3, <2>1 DEF UnusedLane, PopIf, PushIf
  <1>6. s'.writeReqQ[i] = <<>> /\ s'.writeDataQ[i] = <<>>
    BY <1>1, <1>2, Edge DEF IdleLane, PopIf, PushIf
  <1> QED BY <1>4, <1>5, <1>6 DEF UnusedLane, IdleLane

(* The memory after a cycle in which the lanes store an element *)
LEMMA UpdateStores ==
  ASSUME NEW in, NEW granted, NEW avail, UpdateCycle(in, granted, avail)
  PROVE  UpdateMemory'
  <1> DEFINE n == Stored
             fire == WriteFire(s, in, 0)
             add == Weight * R
  <1>1. /\ UpdateInv /\ OnlyUpdates /\ UpdateMemory /\ MemoryEdge(in)
        /\ job' = job /\ mem0' = mem0 /\ Enabled' = Enabled
        /\ n \in Nat /\ 0 \in Enabled /\ mem0 \in [Addrs -> Int]
    BY LaneZero DEF UpdateCycle, UpdateInv, UpdateMemory, Enabled
  <1>2. n' = n + Count(fire) /\ R' = R
    BY UpdateWriteSide, UpdateCounts
  <1>3. mem' = [a \in Addrs |-> mem'[a]]
    <2>1. \E f : mem' = [a \in Addrs |-> f[a]]
      BY <1>1 DEF MemoryEdge
    <2> QED BY <2>1
  <1>4. \A i : ElementAddr(i)' = ElementAddr(i)
    BY <1>1, <1>2 DEF ElementAddr
  <1>5. CASE ~fire
    <2>1. n' = n
      <3>1. Count(fire) = 0
        BY <1>5 DEF Count
      <3> QED BY <1>1, <1>2, <3>1
    <2>2. \A i \in Lanes : ~WriteFire(s, in, i)
      BY <1>5, UpdateGrants
    <2>3. mem' = mem
      BY <1>1, <2>2, MemoryKept DEF UpdateMemory
    <2>4. \A a : StoredAt(a)' <=> StoredAt(a)
      BY <1>1, <1>4, <2>1 DEF StoredAt
    <2> QED BY <1>1, <1>2, <2>1, <2>3, <2>4 DEF UpdateMemory
  <1>6. CASE fire
    <2>1. n' = n + 1
      <3>1. Count(fire) = 1
        BY <1>6 DEF Count
      <3> QED BY <1>2, <3>1
    <2>2. ASSUME NEW i \in Enabled
          PROVE  /\ i \in Lanes /\ WriteFire(s, in, i) /\ ReqAddr(s, i) = ElementAddr(i)[n]
                 /\ Head(s.writeDataQ[i]).data = mem0[ElementAddr(i)[n]] + add
      <3>1. /\ i \in Lanes /\ WriteSide(i) /\ IsSeq(s.writeDataQ[i]) /\ WriteFire(s, in, i)
            /\ s.writeDataQ[i] # <<>> /\ ReqAddr(s, i) = Head(s.writeDataQ[i]).addr
        BY <1>1, <1>6, UpdateLanes, UpdateGrants
      <3>2. Head(s.writeDataQ[i]) = UpdatedWord(i)[n]
        BY <1>1, <3>1, HeadHolds DEF WriteSide
      <3>3. UpdatedWord(i)[n] = [addr |-> ElementAddr(i)[n],
                                 data |-> ElementWord(i)[n] + add]
        BY <1>1 DEF UpdatedWord
      <3>4. ElementWord(i)[n] = mem0[ElementAddr(i)[n]]
        BY <1>1, ElementIsWord
      <3> QED BY <3>1, <3>2, <3>3, <3>4
    <2>3. \A i \in Lanes : WriteFire(s, in, i) <=> i \in Enabled
      BY <2>2, UpdateGrants
    <2>4. ASSUME NEW a \in Addrs
          PROVE  mem'[a] = IF \E i \in Enabled : ElementAddr(i)[n] = a
                           THEN mem0[a] + add ELSE mem[a]
      <3> DEFINE writes(i) == WriteFire(s, in, i) /\ ReqAddr(s, i) = a
      <3>1. mem'[a] = IF \E i \in Lanes : writes(i)
                      THEN Head(s.writeDataQ[CHOOSE i \in Lanes : writes(i)]).data
                      ELSE mem[a]
        BY <1>1 DEF MemoryEdge
      <3>2. \A i \in Lanes : writes(i) <=> i \in Enabled /\ ElementAddr(i)[n] = a
        BY <2>2, <2>3
      <3> HIDE DEF writes, add
      <3>3. CASE \E i \in Lanes : writes(i)
        <4>1. PICK k \in Lanes : k = (CHOOSE i \in Lanes : writes(i)) /\ writes(k)
          BY <3>3
        <4> QED BY <2>2, <3>1, <3>2, <3>3, <4>1
      <3>4. CASE ~\E i \in Lanes : writes(i)
        BY <2>2, <3>1, <3>2, <3>4
      <3> QED BY <3>3, <3>4
    <2>5. ASSUME NEW a \in Addrs
          PROVE  StoredAt(a)' <=> StoredAt(a) \/ \E i \in Enabled : ElementAddr(i)[n] = a
      <3>1. \A x : x \in 0 .. n' - 1 <=> x \in 0 .. n - 1 \/ x = n
        BY <1>1, <2>1
      <3> QED BY <1>1, <1>4, <3>1 DEF StoredAt
    <2>6. ASSUME NEW a \in Addrs
          PROVE  mem'[a] = IF StoredAt(a)' THEN mem0[a] + add ELSE mem0[a]
      <3>1. mem[a] = IF StoredAt(a) THEN mem0[a] + add ELSE mem0[a]
        BY <1>1 DEF UpdateMemory
      <3> HIDE DEF add
      <3> QED BY <2>4, <2>5, <3>1
    <2>7. n' \in Nat
      BY <1>1, <2>1
    <2> QED BY <1>1, <1>2, <1>3, <2>6, <2>7 DEF UpdateMemory
  <1> QED BY <1>5, <1>6

(* A cycle keeps the invariant. *)
LEMMA UpdateKeeps ==
  ASSUME NEW in, NEW granted, NEW avail, UpdateCycle(in, granted, avail)
  PROVE  UpdateInv'
  <1>1. /\ UpdateInv /\ OnlyUpdates /\ s' = StreamerNext(s, job, in)
        /\ UNCHANGED <<pool, job, jobs, mem0>>
    BY DEF UpdateCycle
  <1>2. Enabled' = Enabled
    BY <1>1 DEF Enabled
  <1>3. JobInv'
    <2>1. moved' = IF Moves(in) THEN moved + 1 ELSE moved
      BY DEF UpdateCycle
    <2> QED BY <1>1, <2>1 DEF JobInv, UpdateInv
  <1>4. RoomInv'
    BY <1>1, EdgeInv DEF UpdateInv
  <1>5. BypassInv' /\ UpdateMemory' /\ FlagsInv'
    BY UpdateBypass, UpdateStores, UpdateCounts
  <1>6. AtIteration(job.agu, s.agu, jobs > 0, Taken)'
    <2>1. in.start = FALSE
      BY DEF UpdateCycle, Inputs
    <2>2. s'.agu = AguNext(job.agu, s.agu, FALSE, AguReady(s, job))
      <3>1. s'.agu = AguNext(job.agu, s.agu, in.start, AguReady(s, job))
        BY <1>1, Edge
      <3> QED BY <2>1, <3>1
    <2>3. Taken \in Nat /\ WellFormed(job.agu)
      BY <1>1, UpdateNumbers
    <2>4. AtIteration(job.agu, s'.agu, jobs > 0,
                      IF s.agu.busy /\ AguReady(s, job) THEN Taken + 1 ELSE Taken)
      BY <1>1, <2>2, <2>3, GeneratorStep DEF UpdateInv
    <2>5. Taken' = IF s.agu.busy /\ AguReady(s, job) THEN Taken + 1 ELSE Taken
      <3>1. Taken' = Taken + Count(AguFire(s, job))
        BY UpdateCounts
      <3> QED BY <2>3, <3>1 DEF AguFire, Count
    <2> QED BY <1>1, <2>4, <2>5 DEF AtIteration
  <1>7. ASSUME NEW i \in Lanes
        PROVE  IF i \in Enabled'
               THEN ReadLane(i, Started)' /\ WriteSide(i)' /\ SameAsLaneZero(i)'
               ELSE UnusedLane(i)' /\ IdleLane(i)'
    <2>1. CASE i \in Enabled
      BY <1>2, <2>1, UpdateReads, UpdateWriteSide, UpdateInStep
    <2>2. CASE i \notin Enabled
      BY <1>2, <2>2, UpdateUnused
    <2> QED BY <2>1, <2>2
  <1> QED BY <1>3, <1>4, <1>5, <1>6, <1>7 DEF UpdateInv

(* A concatenation is empty when its parts are. *)
LEMMA AllEmpty ==
  ASSUME NEW p, NEW q, NEW u, NEW v, IsSeq(p), IsSeq(q), IsSeq(u), IsSeq(v),
         <<>> = p \o q \o u \o v
  PROVE  p = <<>> /\ q = <<>> /\ u = <<>> /\ v = <<>>
  <1>1. PICK S, T, U, V : p \in Seq(S) /\ q \in Seq(T) /\ u \in Seq(U) /\ v \in Seq(V)
    BY DEF IsSeq
  <1> DEFINE W == S \cup T \cup U \cup V
  <1>2. p \in Seq(W) /\ q \in Seq(W) /\ u \in Seq(W) /\ v \in Seq(W)
    BY <1>1
  <1> HIDE DEF W
  <1>3. p \o q \in Seq(W) /\ Len(p \o q) = Len(p) + Len(q)
    BY <1>2
  <1>4. p \o q \o u \in Seq(W) /\ Len(p \o q \o u) = Len(p \o q) + Len(u)
    BY <1>2, <1>3
  <1>5. Len(p \o q \o u \o v) = Len(p \o q \o u) + Len(v)
    BY <1>2, <1>4
  <1>6. Len(p) \in Nat /\ Len(q) \in Nat /\ Len(u) \in Nat /\ Len(v) \in Nat
    BY <1>2
  <1>7. Len(p \o q \o u \o v) = 0
    <2>1. Len(<<>>) = 0
      OBVIOUS
    <2> QED BY <2>1, Zenon
  <1> DEFINE a == Len(p)
             b == Len(q)
             c == Len(u)
             d == Len(v)
  <1>8. a + b + c + d = 0
    BY <1>3, <1>4, <1>5, <1>7
  <1> HIDE DEF a, b, c, d
  <1>9. a = 0 /\ b = 0 /\ c = 0 /\ d = 0
    <2>1. a \in Nat /\ b \in Nat /\ c \in Nat /\ d \in Nat
      BY <1>6 DEF a, b, c, d
    <2> QED BY <1>8, <2>1
  <1>10. Len(p) = 0 /\ Len(q) = 0 /\ Len(u) = 0 /\ Len(v) = 0
    BY <1>9 DEF a, b, c, d
  <1> QED BY <1>10, EmptyQueue

------------------------------------------------------------------------------
(* When an updating streamer is done it has stored every element. *)
LEMMA UpdaterAtRest ==
  ASSUME UpdateInv, OnlyUpdates, Done(s)
  PROVE  /\ ~s.agu.busy /\ s.isLastQ = <<>> /\ s.bypass = <<>> /\ Taken = moved
         /\ \A i \in Lanes : UnusedLane(i) /\ IdleLane(i)
         /\ jobs > 0 => moved = Iterations(job.agu)
         /\ Stored = moved \div R
  <1>1. /\ ~s.agu.busy /\ AllQueuesEmpty(s) /\ WellFormed(job.agu)
        /\ moved \in Nat /\ R \in Nat \ {0} /\ Taken \in Nat /\ Len(s.isLastQ) \in Nat
        /\ Taken = moved + Len(s.isLastQ) /\ IsSeq(s.isLastQ) /\ jobs \in Nat
        /\ Retired \in Nat /\ Completed \in Nat /\ Started \in Nat
        /\ Iterations(job.agu) \in Nat \ {0} /\ 0 \in Enabled
    BY UpdateNumbers DEF Done, UpdateInv, JobInv
  <1>2. Taken = IF jobs = 0 THEN 0 ELSE Iterations(job.agu)
    BY <1>1 DEF UpdateInv, AtIteration
  <1>3. Taken % R = 0
    <2>1. 0 % R = 0 /\ Iterations(job.agu) % R = 0
      BY <1>1, EndsWithElement DEF R
    <2> QED BY <1>2, <2>1
  <1>4. ASSUME NEW i \in Enabled
        PROVE  /\ s.rspQ[i] = <<>> /\ s.readReqQ[i] = <<>>
               /\ s.writeReqQ[i] = <<>> /\ s.writeDataQ[i] = <<>>
    <2>1. /\ IsSeq(s.rspQ[i]) /\ IsSeq(s.writeDataQ[i])
          /\ IsSeq(s.readReqQ[i]) /\ IsSeq(s.writeReqQ[i]) /\ i \in Lanes
      BY UpdateLanes
    <2>2. <<>> = s.rspQ[i] \o s.writeDataQ[i] \o s.readReqQ[i] \o s.writeReqQ[i]
      BY <1>1, <2>1 DEF AllQueuesEmpty
    <2> DEFINE p == s.rspQ[i]
               q == s.writeDataQ[i]
               u == s.readReqQ[i]
               v == s.writeReqQ[i]
    <2>3. /\ IsSeq(p) /\ IsSeq(q) /\ IsSeq(u) /\ IsSeq(v)
          /\ <<>> = p \o q \o u \o v
      BY <2>1, <2>2
    <2> HIDE DEF p, q, u, v
    <2>4. p = <<>> /\ q = <<>> /\ u = <<>> /\ v = <<>>
      BY <2>3, AllEmpty
    <2> QED BY <2>4 DEF p, q, u, v
  <1>5. Retired = Completed
    <2>1. WriteSide(0) /\ s.writeReqQ[0] = <<>>
      BY <1>1, <1>4, UpdateLanes
    <2>2. Len(<<>>) = 0
      OBVIOUS
    <2>3. Retired + 0 = Completed
      BY <2>1, <2>2 DEF WriteSide
    <2> QED BY <1>1, <2>3
  <1>6. Taken = moved
    <2>1. Taken = R * Completed
      BY <1>1, <1>3, CeilDivision DEF Completed
    <2>2. moved = R * Retired + (moved % R) /\ moved % R \in 0 .. R - 1
      BY <1>1, Division DEF Retired
    <2> DEFINE p == R * Retired
               u == moved % R
               l == Len(s.isLastQ)
               t == Taken
    <2>3. p \in Nat
      <3> HIDE DEF R
      <3> QED BY <1>1
    <2>4. t = p
      BY <1>5, <2>1
    <2>5. u \in Nat /\ moved = p + u
      <3> HIDE DEF R
      <3> QED BY <1>1, <2>2
    <2>6. t = moved + l /\ l \in Nat /\ moved \in Nat
      BY <1>1
    <2> HIDE DEF p, u, l, t
    <2>7. t = moved
      BY <2>3, <2>4, <2>5, <2>6
    <2> QED BY <2>7 DEF t
  <1>7. s.isLastQ = <<>>
    <2>1. Len(s.isLastQ) = 0
      BY <1>1, <1>6
    <2> QED BY <1>1, <2>1, EmptyQueue
  <1>8. s.bypass = <<>>
    BY <1>3, <1>6 DEF UpdateInv, BypassInv
  <1>9. Stored = moved \div R
    <2>1. Stored + Len(s.writeDataQ[0]) = Retired /\ Stored \in Nat
      BY <1>1, UpdateStored
    <2>2. s.writeDataQ[0] = <<>> /\ Len(<<>>) = 0
      BY <1>1, <1>4
    <2>3. Stored + 0 = Retired
      BY <2>1, <2>2
    <2>4. Stored = Retired
      BY <2>1, <2>3
    <2> QED BY <2>4 DEF Retired
  <1>10. ASSUME NEW i \in Lanes PROVE UnusedLane(i) /\ IdleLane(i)
    <2>1. CASE i \notin Enabled
      BY <2>1 DEF UpdateInv
    <2>2. CASE i \in Enabled
      <3>1. /\ s.rspQ[i] = <<>> /\ s.readReqQ[i] = <<>>
            /\ s.writeReqQ[i] = <<>> /\ s.writeDataQ[i] = <<>>
        BY <1>4, <2>2
      <3>2. FetchedBefore(Taken) = Started
        BY <1>6 DEF FetchedBefore, Started
      <3>3. Started + Len(s.rspQ[i]) + OnTheWay(i) + Len(s.readReqQ[i]) = FetchedBefore(Taken)
        BY <2>2, UpdateLanes DEF ReadLane
      <3>4. Len(<<>>) = 0
        OBVIOUS
      <3>5. Started + 0 + OnTheWay(i) + 0 = Started
        BY <3>1, <3>2, <3>3, <3>4
      <3>6. OnTheWay(i) = 0
        <4>1. OnTheWay(i) \in Nat
          BY <2>2, UpdateLanes
        <4> QED BY <1>1, <3>5, <4>1
      <3>7. ~s.readPending[i]
        BY <3>6 DEF OnTheWay
      <3> QED BY <3>1, <3>7 DEF UnusedLane, IdleLane
    <2> QED BY <2>1, <2>2
  <1>11. jobs > 0 => moved = Iterations(job.agu)
    BY <1>1, <1>2, <1>6
  <1> QED BY <1>1, <1>6, <1>7, <1>8, <1>9, <1>10, <1>11

(* A streamer with empty queues that has not moved anything yet *)
ReadyInv ==
  /\ JobInv /\ moved = 0 /\ s.isLastQ = <<>> /\ s.bypass = <<>>
  /\ mem0 \in [Addrs -> Int] /\ mem = mem0
  /\ AtIteration(job.agu, s.agu, jobs > 0, 0)
  /\ \A i \in Lanes : UnusedLane(i) /\ IdleLane(i)
  /\ \A i \in Enabled : s.lastGrant[i] = s.lastGrant[0]

(* It is in order, and so is the streamer after the start of the next *)
(* job.                                                               *)
LEMMA ReadyIsGood == ReadyInv => UpdateInv
  <1> SUFFICES ASSUME ReadyInv PROVE UpdateInv
    OBVIOUS
  <1>1. /\ JobInv /\ WellFormed(job.agu) /\ moved = 0 /\ s.isLastQ = <<>> /\ s.bypass = <<>>
        /\ mem0 \in [Addrs -> Int] /\ mem = mem0
        /\ AtIteration(job.agu, s.agu, jobs > 0, 0)
        /\ \A i \in Lanes : UnusedLane(i) /\ IdleLane(i)
        /\ \A i \in Enabled : i \in Lanes /\ s.lastGrant[i] = s.lastGrant[0]
    BY JobsAssumption DEF ReadyInv, JobInv, Enabled
  <1>2. R \in Nat \ {0}
    BY <1>1, ReusePositive DEF R
  <1>3. 0 % R = 0 /\ 0 \div R = 0
    BY <1>2
  <1>4. Taken = 0
    <2>1. Len(<<>>) = 0
      OBVIOUS
    <2> QED BY <1>1, <2>1 DEF Taken
  <1>5. CeilDiv(0, R) = 0
    BY <1>2, <1>3, CeilDivision
  <1>6. Started = 0 /\ Retired = 0 /\ Completed = 0 /\ FetchedBefore(Taken) = 0
    BY <1>1, <1>3, <1>4, <1>5 DEF Started, Retired, Completed, FetchedBefore
  <1>7. ASSUME NEW i \in Lanes
        PROVE  /\ s.readReqQ[i] = <<>> /\ s.rspQ[i] = <<>> /\ ~s.readPending[i]
               /\ s.writeReqQ[i] = <<>> /\ s.writeDataQ[i] = <<>>
               /\ OnTheWay(i) = 0
    BY <1>1 DEF UnusedLane, IdleLane, OnTheWay
  <1>8. Stored = 0
    <2> DEFINE l == Len(s.writeDataQ[0])
    <2>1. s.writeDataQ[0] = <<>> /\ Len(<<>>) = 0
      BY <1>7, SomeLane
    <2>2. Stored = Retired - l /\ l = 0
      BY <2>1 DEF Stored
    <2> HIDE DEF l
    <2> QED BY <1>6, <2>2
  <1>9. FlagsInv
    BY <1>1 DEF FlagsInv, IsSeq, Holds
  <1>10. RoomInv
    <2> SUFFICES ASSUME NEW i \in Lanes PROVE RoomKept(s.rspQ[i], s.readPending[i])
      BY DEF RoomInv
    <2>1. s.rspQ[i] = <<>> /\ ~s.readPending[i] /\ Len(<<>>) = 0 /\ IsSeq(<<>>)
      BY <1>7 DEF IsSeq
    <2> QED BY <2>1, DepthAssumption DEF RoomKept
  <1>11. BypassInv
    BY <1>1, <1>3 DEF BypassInv
  <1>12. UpdateMemory
    <2>1. \A a : ~StoredAt(a)
      BY <1>8 DEF StoredAt
    <2> QED BY <1>1, <1>8, <2>1 DEF UpdateMemory
  <1>13. ASSUME NEW i \in Enabled
         PROVE  ReadLane(i, Started) /\ WriteSide(i) /\ SameAsLaneZero(i)
    <2>1. i \in Lanes /\ 0 \in Lanes
      BY <1>1, SomeLane
    <2>2. \A f, k : Holds(<<>>, f, k)
      BY DEF Holds
    <2>3. Len(<<>>) = 0 /\ IsSeq(<<>>)
      BY DEF IsSeq
    <2>4. ReadLane(i, Started)
      BY <1>6, <1>7, <2>1, <2>2, <2>3 DEF ReadLane
    <2>5. WriteSide(i)
      BY <1>6, <1>7, <2>1, <2>2, <2>3, DepthAssumption DEF WriteSide
    <2>6. SameAsLaneZero(i)
      BY <1>1, <1>7, <2>1 DEF SameAsLaneZero
    <2> QED BY <2>4, <2>5, <2>6
  <1> QED BY <1>1, <1>4, <1>9, <1>10, <1>11, <1>12, <1>13 DEF UpdateInv

LEMMA UpdateStart ==
  ASSUME UpdateInv, OnlyUpdates, NEW j \in pool, Start(j)
  PROVE  UpdateInv'
  <1> DEFINE in == Inputs(TRUE, {}, FALSE)
  <1>1. /\ Done(s) /\ s' = StreamerNext(s, job, in) /\ MemoryEdge(in)
        /\ job' = j /\ jobs' = jobs + 1 /\ mem0' = mem /\ moved' = 0 /\ pool' = pool
    BY DEF Start
  <1>2. /\ JobInv /\ UpdateMemory /\ job \in pool /\ job.dir = "readWrite" /\ R \in Nat \ {0}
        /\ AtIteration(job.agu, s.agu, jobs > 0, Taken) /\ WellFormed(j.agu)
    BY UpdateNumbers, JobsAssumption DEF UpdateInv, JobInv
  <1>3. /\ ~s.agu.busy /\ s.isLastQ = <<>> /\ s.bypass = <<>>
        /\ \A i \in Lanes : UnusedLane(i) /\ IdleLane(i)
    BY <1>1, UpdaterAtRest
  <1>4. in.start = TRUE /\ in.writeValid = FALSE /\ in.readReady = FALSE
    BY <1>2 DEF Inputs
  <1> HIDE DEF in
  <1>5. \A i \in Lanes : Offers(s, i) = {}
    BY <1>3 DEF UnusedLane, IdleLane, Offers
  <1>6. ~AguFire(s, job)
    BY <1>3 DEF AguFire
  <1>7. ASSUME NEW i \in Lanes PROVE UnusedLane(i)' /\ IdleLane(i)'
    <2>1. UnusedLane(i) /\ IdleLane(i)
      BY <1>3
    <2>2. /\ ~ReadFire(s, in, i) /\ ~WriteFire(s, in, i) /\ ~EnqRead(s, job, i)
          /\ ~EnqWrite(s, job, i) /\ ~EnqData(s, job, in, i) /\ ~EnqRsp(s, in, i)
      BY <1>4, <1>5, <1>6, <2>1
         DEF ReadFire, WriteFire, ReqFire, EnqRead, EnqWrite, EnqData, EnqRsp, UnusedLane
    <2>3. s'.readReqQ[i] = <<>> /\ ~s'.readPending[i]
      BY <1>1, <2>1, <2>2, Edge DEF UnusedLane, PopIf, PushIf
    <2>4. s'.rspQ[i] = <<>>
      <3>1. s'.rspQ[i] = PushIf(PopIf(s.rspQ[i], DeqRsp(s, job, in)),
                                EnqRsp(s, in, i), in.rsp[i].data)
        BY <1>1 DEF StreamerNext
      <3> QED BY <2>1, <2>2, <3>1 DEF UnusedLane, PopIf, PushIf
    <2>5. s'.writeReqQ[i] = <<>> /\ s'.writeDataQ[i] = <<>>
      BY <1>1, <2>1, <2>2, Edge DEF IdleLane, PopIf, PushIf
    <2> QED BY <2>3, <2>4, <2>5 DEF UnusedLane, IdleLane
  <1>8. s'.isLastQ = <<>> /\ s'.bypass = <<>>
    <2>1. /\ s'.isLastQ = PushIf(PopIf(s.isLastQ, DeqIsLast(s, job, in)),
                                 EnqIsLast(s, job), IsLast(job.agu, s.agu.counters))
          /\ s'.bypass = PushIf(PopIf(s.bypass, in.readReady), BypassFire(s, in), in.writeVec)
      BY <1>1, Edge
    <2>2. ~EnqIsLast(s, job) /\ ~BypassFire(s, in)
      BY <1>4, <1>6 DEF EnqIsLast, BypassFire, BypassValid
    <2> QED BY <1>3, <2>1, <2>2 DEF PushIf, PopIf
  <1>9. mem' = mem /\ mem0' \in [Addrs -> Int]
    <2>1. \A i \in Lanes : ~WriteFire(s, in, i)
      BY <1>5 DEF WriteFire, ReqFire
    <2>2. mem' = mem
      BY <1>1, <1>2, <2>1, MemoryKept DEF UpdateMemory
    <2>3. \A a \in Addrs : mem[a] \in Int
      <3>1. Weight * R \in Int
        <4> HIDE DEF R
        <4> QED BY <1>2 DEF Weight
      <3> HIDE DEF R
      <3> QED BY <1>2, <3>1 DEF UpdateMemory
    <2>4. mem = [a \in Addrs |-> mem[a]]
      BY <1>2 DEF UpdateMemory
    <2>5. mem \in [Addrs -> Int]
      BY <2>3, <2>4
    <2> QED BY <1>1, <2>2, <2>5
  <1>11. AtIteration(j.agu, s'.agu, TRUE, 0)
    <2>1. s'.agu = AguNext(job.agu, s.agu, in.start, AguReady(s, job))
      BY <1>1, Edge
    <2>2. s'.agu = AguNext(job.agu, s.agu, TRUE, AguReady(s, job))
      BY <1>4, <2>1
    <2>3. AtIteration(j.agu, AguNext(job.agu, s.agu, TRUE, AguReady(s, job)), TRUE, 0)
      BY <1>2, <1>3, GeneratorStart
    <2> QED BY <2>2, <2>3
  <1>12. JobInv' /\ jobs' > 0
    BY <1>1, <1>2 DEF JobInv
  <1>13. AtIteration(job.agu, s.agu, jobs > 0, 0)'
    BY <1>1, <1>11, <1>12 DEF AtIteration
  <1>14. ASSUME NEW i \in Enabled' PROVE s'.lastGrant[i] = s'.lastGrant[0]
    <2>1. i \in Enabled /\ i \in Lanes /\ 0 \in Lanes
      BY <1>1, <1>2, SomeLane DEF Enabled, OnlyUpdates
    <2>2. s.lastGrant[i] = s.lastGrant[0]
      BY <2>1, UpdateLanes DEF SameAsLaneZero
    <2>3. \A k \in Lanes : s'.lastGrant[k] = s.lastGrant[k]
      <3>1. \A k \in Lanes :
              s'.lastGrant[k] = LastGrant(s.lastGrant[k], Pick(s, k), ReqFire(s, in, k))
        BY <1>1 DEF StreamerNext
      <3>2. \A k \in Lanes : ~ReqFire(s, in, k)
        BY <1>5 DEF ReqFire
      <3> QED BY <3>1, <3>2 DEF LastGrant
    <2> QED BY <2>1, <2>2, <2>3
  <1>15. ReadyInv'
    BY <1>1, <1>7, <1>8, <1>9, <1>12, <1>13, <1>14 DEF ReadyInv
  <1> QED BY <1>15, ReadyIsGood, PTL

(* The counts and contents of the queues and of the memory of a streamer *)
(* that updates in place                                                 *)
THEOREM UpdateInvariant == Spec /\ [][LanesTogether]_vars => [](OnlyUpdates => UpdateInv)
  <1>1. Init => (OnlyUpdates => UpdateInv)
    <2> SUFFICES ASSUME Init PROVE ReadyInv
      BY ReadyIsGood
    <2>1. PICK g \in {0, 1} : s = StreamerReset(g)
      BY DEF Init
    <2>2. \A i \in Lanes : /\ s.readReqQ[i] = <<>> /\ s.rspQ[i] = <<>> /\ ~s.readPending[i]
                           /\ s.writeReqQ[i] = <<>> /\ s.writeDataQ[i] = <<>>
                           /\ s.lastGrant[i] = g
      BY <2>1 DEF StreamerReset
    <2>3. s.agu = AguReset /\ s.isLastQ = <<>> /\ s.bypass = <<>>
      BY <2>1 DEF StreamerReset
    <2>4. /\ s.agu = [busy |-> s.agu.busy, counters |-> AguReset.counters]
          /\ s.agu.busy = FALSE
      BY <2>3 DEF AguReset
    <2>5. \A i \in Lanes : UnusedLane(i) /\ IdleLane(i)
      BY <2>2 DEF UnusedLane, IdleLane
    <2>6. JobInv /\ moved = 0 /\ jobs = 0 /\ mem0 = mem
      BY DEF JobInv, Init
    <2>7. mem0 \in [Addrs -> Int]
      <3>1. \A a \in Addrs : a \in Int
        BY AddrSpaceAssumption DEF Addrs
      <3>2. mem0 = [a \in Addrs |-> a]
        BY DEF Init
      <3> QED BY <3>1, <3>2
    <2>8. ~(jobs > 0) /\ \A i \in Enabled : s.lastGrant[i] = s.lastGrant[0]
      BY <2>2, <2>6, SomeLane DEF Enabled
    <2>9. AtIteration(job.agu, s.agu, jobs > 0, 0)
      <3>1. s.agu.counters = AguReset.counters
        BY <2>3
      <3>2. s.agu = [busy |-> s.agu.busy, counters |-> s.agu.counters]
        BY <2>4, <3>1
      <3>3. ~s.agu.busy /\ s.agu.busy \in BOOLEAN
        BY <2>4
      <3> QED BY <2>8, <3>1, <3>2, <3>3 DEF AtIteration
    <2> QED BY <2>3, <2>5, <2>6, <2>7, <2>8, <2>9 DEF ReadyInv
  <1>2. /\ OnlyUpdates => UpdateInv
        /\ [Next]_vars /\ [LanesTogether]_vars
        => (OnlyUpdates => UpdateInv)'
    <2> SUFFICES ASSUME OnlyUpdates => UpdateInv, [Next]_vars, [LanesTogether]_vars, OnlyUpdates'
                 PROVE  UpdateInv'
      OBVIOUS
    <2>1. CASE UNCHANGED vars
      <3>1. (OnlyUpdates <=> OnlyUpdates') /\ (UpdateInv <=> UpdateInv')
        BY <2>1 DEF vars, OnlyUpdates, UpdateInv, JobInv, FlagsInv, RoomInv, BypassInv,
                    UpdateMemory, StoredAt, Stored, Started, Completed, Retired, Taken, R,
                    FetchedBefore, OnTheWay, ElementAddr, ElementWord, UpdatedWord, LastUse,
                    Enabled, ReadLane, WriteSide, SameAsLaneZero, UnusedLane, IdleLane,
                    AtIteration
      <3> QED BY <2>1, <3>1
    <2>2. ASSUME NEW j \in pool, Start(j) PROVE UpdateInv'
      <3>1. OnlyUpdates
        BY <2>2 DEF Start, OnlyUpdates
      <3> QED BY <2>2, <3>1, UpdateStart
    <2>3. ASSUME NEW granted \in SUBSET Lanes, NEW avail \in BOOLEAN, Run(granted, avail),
                 LanesTogether
          PROVE  UpdateInv'
      <3>1. OnlyUpdates
        BY <2>3 DEF Run, OnlyUpdates
      <3>2. UpdateCycle(Inputs(FALSE, granted, avail), granted, avail)
        BY <2>3, <3>1, GrantedTogether DEF Run, UpdateCycle
      <3> QED BY <3>2, UpdateKeeps
    <2> QED BY <2>1, <2>2, <2>3 DEF Next
  <1> QED BY <1>1, <1>2, PTL DEF Spec

(* Lanes in step take a vector when it is accepted. *)
LEMMA UpdaterNeverTears == Spec /\ [][LanesTogether]_vars => [](OnlyUpdates => ~torn)
  <1>1. Init => (OnlyUpdates => ~torn)
    BY DEF Init
  <1>2. /\ OnlyUpdates => UpdateInv
        /\ OnlyUpdates => ~torn
        /\ [Next]_vars /\ [LanesTogether]_vars
        => (OnlyUpdates => ~torn)'
    <2> SUFFICES ASSUME OnlyUpdates => UpdateInv, OnlyUpdates => ~torn,
                        [Next]_vars, [LanesTogether]_vars, OnlyUpdates'
                 PROVE  ~torn'
      OBVIOUS
    <2>1. CASE UNCHANGED vars
      BY <2>1 DEF vars, OnlyUpdates
    <2>2. ASSUME NEW j \in pool, Start(j) PROVE ~torn'
      BY <2>2 DEF Start, OnlyUpdates
    <2>3. ASSUME NEW granted \in SUBSET Lanes, NEW avail \in BOOLEAN, Run(granted, avail),
                 LanesTogether
          PROVE  ~torn'
      <3> DEFINE in == Inputs(FALSE, granted, avail)
      <3>1. OnlyUpdates /\ ~torn
        BY <2>3 DEF Run, OnlyUpdates
      <3>2. UpdateCycle(in, granted, avail)
        BY <2>3, <3>1, GrantedTogether DEF Run, UpdateCycle
      <3>3. torn' = (torn \/ Tears(in))
        BY <2>3 DEF Run
      <3> HIDE DEF in
      <3>4. \A i \in Lanes : EnqData(s, job, in, i) => WriteDataReady(s)
        BY <3>2, UpdateData, UpdateReady
      <3> QED BY <3>1, <3>3, <3>4 DEF Tears
    <2> QED BY <2>1, <2>2, <2>3 DEF Next
  <1> QED BY <1>1, <1>2, UpdateInvariant, PTL DEF Spec

------------------------------------------------------------------------------
(* An element is visited R times, one iteration after the other. *)
LEMMA VisitsOfElement ==
  ASSUME UpdateInv, OnlyUpdates, NEW i \in Enabled, NEW x \in Nat, NEW n \in Nat,
         R * x <= n, R * x < Iterations(job.agu), n <= Iterations(job.agu)
  PROVE  Visits(n, ElementAddr(i)[x]) = IF n < R * x + R THEN n - R * x ELSE R
  <1> DEFINE a == ElementAddr(i)[x]
             f == R * x
             e == IF n < f + R THEN n ELSE f + R
             last == Iterations(job.agu)
             M == f .. e - 1
             V == {v \in (0 .. n - 1) \X Enabled : IterAddress(job.agu, v[1], v[2]) = a}
             g == [m \in M |-> <<m, i>>]
  <1>1. /\ R \in Nat \ {0} /\ InPlace(job) /\ WellFormed(job.agu) /\ last \in Nat
        /\ Enabled = {z \in Lanes : LaneEnabled(job, z)} /\ R = Reuse(job.agu)
    BY UpdateNumbers DEF Enabled, R
  <1>2. f \in Nat
    <2> HIDE DEF R
    <2> QED BY <1>1
  <1>3. /\ e \in Nat /\ f <= e /\ e <= n /\ e <= f + R /\ e - f \in Nat
        /\ e - f = IF n < f + R THEN n - f ELSE R
        /\ f \in 0 .. last - 1 /\ n <= last
    <2> HIDE DEF R, f, last
    <2>1. f < last /\ f <= n /\ n <= last
      BY DEF f, last
    <2> QED BY <1>1, <1>2, <2>1
  <1>4. a = IterAddress(job.agu, f, i)
    BY DEF ElementAddr
  <1>5. ASSUME NEW m \in Nat, f <= m, m < f + R
        PROVE  m \div R = x
    <2> DEFINE b == m - f
    <2>1. b \in 0 .. R - 1 /\ m = f + b
      <3> HIDE DEF R, f
      <3> QED BY <1>1, <1>2, <1>5
    <2> HIDE DEF b
    <2>2. m = R * x + b
      BY <2>1
    <2> HIDE DEF R
    <2>3. m \div R = x
      BY <1>1, <2>1, <2>2, OneRemainder
    <2> QED BY <2>3
  <1>6. f \div R = x
    <2>1. f <= f /\ f < f + R
      <3> HIDE DEF R, f
      <3> QED BY <1>1, <1>2
    <2> QED BY <1>2, <1>5, <2>1
  <1>7. ASSUME NEW m \in 0 .. n - 1, NEW k \in Enabled
        PROVE  IterAddress(job.agu, m, k) = a <=> m \in M /\ k = i
    <2>1. m \in Nat /\ m \in 0 .. last - 1
      <3> HIDE DEF last
      <3> QED BY <1>1, <1>3
    <2>2. ASSUME IterAddress(job.agu, m, k) = a PROVE m \in M /\ k = i
      <3>1. k = i /\ m \div R = f \div R
        BY <1>1, <1>3, <1>4, <2>1, <2>2 DEF InPlace
      <3>2. m = R * x + (m % R) /\ m % R \in 0 .. R - 1
        BY <1>1, <1>6, <2>1, <3>1, Division
      <3> DEFINE b == m % R
      <3>3. m = f + b /\ b \in 0 .. R - 1
        BY <3>2
      <3> HIDE DEF R, f, b
      <3>4. f <= m /\ m < f + R
        BY <1>1, <1>2, <3>3
      <3> QED BY <1>1, <1>2, <2>1, <3>1, <3>4
    <2>3. ASSUME m \in M, k = i PROVE IterAddress(job.agu, m, k) = a
      <3>1. f <= m /\ m < f + R
        <4> HIDE DEF R, f
        <4> QED BY <1>1, <1>2, <1>3, <2>1, <2>3
      <3>2. m \div R = x
        BY <1>5, <2>1, <3>1
      <3> QED BY <1>1, <1>4, <2>1, <2>3, <3>2, ElementAddress
    <2> QED BY <2>2, <2>3
  <1>8. V \subseteq {<<m, i>> : m \in M}
    BY <1>7
  <1>9. \A m \in M : <<m, i>> \in V
    <2> SUFFICES ASSUME NEW m \in M PROVE <<m, i>> \in V
      OBVIOUS
    <2>1. m \in 0 .. n - 1
      <3> HIDE DEF R, f, e
      <3> QED BY <1>2, <1>3
    <2> QED BY <1>7, <2>1
  <1> HIDE DEF M, V, e, f
  <1>10. g \in Bijection(M, V)
    <2>1. g \in [M -> V]
      BY <1>9
    <2>2. \A m, k \in M : g[m] = g[k] => m = k
      OBVIOUS
    <2>3. \A v \in V : \E m \in M : g[m] = v
      BY <1>8
    <2> HIDE DEF g
    <2> QED BY <2>1, <2>2, <2>3 DEF Bijection, Injection, IsInjective, Surjection
  <1>11. IsFiniteSet(M) /\ Cardinality(M) = e - f
    <2>1. f \in Int /\ e - 1 \in Int
      BY <1>2, <1>3
    <2>2. IsFiniteSet(M) /\ Cardinality(M) = IF f > e - 1 THEN 0 ELSE (e - 1) - f + 1
      BY <2>1, FS_Interval DEF M
    <2> QED BY <1>2, <1>3, <2>2
  <1>12. Cardinality(V) = e - f
    BY <1>10, <1>11, FS_Bijection DEF ExistsBijection
  <1>13. Visits(n, a) = Cardinality(V)
    BY DEF Visits, V
  <1> QED BY <1>3, <1>12, <1>13 DEF f

(* The vectors of an updating streamer, whose lanes are granted together    *)
(* and whose jobs fit its flags, return to an element in the innermost      *)
(* dimension only and enable the same lanes, are those of the loop nest in  *)
(* order: on every lane the word of memory plus what the visits before this *)
(* one added to it, whether it comes from memory or from the bypass buffer  *)
(* (Streamer.scala:131-241).                                                *)
THEOREM UpdaterReadsInOrder ==
  Spec /\ [][LanesTogether]_vars => [](OnlyUpdates => ~torn /\ ReadsInOrder)
  <1>1. OnlyUpdates /\ UpdateInv => ReadsInOrder
    <2> SUFFICES ASSUME OnlyUpdates, UpdateInv, ReadValid(s, job), NEW i \in Enabled
                 PROVE  /\ moved < Iterations(job.agu)
                        /\ ReadVec(s)[i] = mem0[IterAddress(job.agu, moved, i)]
                             + Weight * Visits(moved, IterAddress(job.agu, moved, i))
      BY LaneZero, UpdateNumbers DEF ReadsInOrder
    <2> DEFINE f == R * Retired
               u == moved % R
    <2>1. /\ moved \in Nat /\ R \in Nat \ {0} /\ Retired \in Nat /\ WellFormed(job.agu)
          /\ Iterations(job.agu) \in Nat
      BY UpdateNumbers
    <2>2. moved < Iterations(job.agu)
      BY UpdateOffered
    <2>3. moved = f + u /\ u \in 0 .. R - 1
      BY <2>1, Division DEF Retired
    <2>4. f \in Nat
      <3> HIDE DEF R
      <3> QED BY <2>1
    <2>5. f <= moved /\ moved < f + R /\ moved - f = u /\ f < Iterations(job.agu)
      <3> HIDE DEF R, f, u
      <3> QED BY <2>1, <2>2, <2>3, <2>4
    <2>6. IterAddress(job.agu, moved, i) = ElementAddr(i)[Retired]
      BY <2>1, ElementAddress DEF R, Retired, ElementAddr
    <2>7. Visits(moved, ElementAddr(i)[Retired]) = u
      <3>1. moved <= Iterations(job.agu)
        BY <2>1, <2>2
      <3>2. Visits(moved, ElementAddr(i)[Retired]) = IF moved < f + R THEN moved - f ELSE R
        BY <2>1, <2>5, <3>1, VisitsOfElement
      <3> QED BY <2>5, <3>2
    <2>8. ReadVec(s)[i] = mem0[ElementAddr(i)[Retired]] + Weight * u
      BY <2>1, UpdateVector, ElementIsWord
    <2> QED BY <2>2, <2>6, <2>7, <2>8
  <1> QED BY <1>1, UpdateInvariant, UpdaterNeverTears, PTL

(* Under the same conditions it is done when memory holds the nest's result: *)
(* every element with all its visits added, no other word changed. No update *)
(* is in a queue any more, none was lost or made twice (Streamer.scala:98-186,*)
(* 243-248).                                                                 *)
THEOREM UpdaterWritesTheNest ==
  Spec /\ [][LanesTogether]_vars => [](OnlyUpdates => ~torn /\ DoneMeansWritten)
  <1>1. OnlyUpdates /\ UpdateInv => DoneMeansWritten
    <2> SUFFICES ASSUME OnlyUpdates, UpdateInv, jobs > 0, Done(s), NEW a \in Addrs
                 PROVE  mem[a] = mem0[a] + Weight * Visits(Iterations(job.agu), a)
      BY UpdateNumbers DEF DoneMeansWritten, ResultInMemory, Expected
    <2> DEFINE n == Iterations(job.agu)
    <2>1. /\ R \in Nat \ {0} /\ n \in Nat /\ WellFormed(job.agu) /\ moved = n
          /\ Stored = n \div R /\ Stored \in Nat /\ n % R = 0
      BY UpdateNumbers, UpdaterAtRest, UpdateStored, EndsWithElement DEF R
    <2>2. n = R * Stored
      <3>1. n = R * (n \div R) + (n % R)
        BY <2>1, Division
      <3> QED BY <2>1, <3>1
    <2>3. mem[a] = IF StoredAt(a) THEN mem0[a] + Weight * R ELSE mem0[a]
      BY DEF UpdateInv, UpdateMemory
    <2>4. ASSUME StoredAt(a) PROVE Visits(n, a) = R
      <3>1. PICK x \in 0 .. Stored - 1 : \E i \in Enabled : ElementAddr(i)[x] = a
        BY <2>4 DEF StoredAt
      <3>2. PICK i \in Enabled : ElementAddr(i)[x] = a
        BY <3>1
      <3>3. R * x + R <= n /\ R * x < n /\ R * x <= n /\ x \in Nat
        <4>1. R * (x + 1) <= n
          BY <2>1, <2>2, Monotone
        <4>2. R * (x + 1) = R * x + R /\ R * x \in Nat /\ x \in Nat
          <5> HIDE DEF R
          <5> QED BY <2>1
        <4> HIDE DEF R, n
        <4> QED BY <2>1, <4>1, <4>2
      <3>4. Visits(n, ElementAddr(i)[x]) = IF n < R * x + R THEN n - R * x ELSE R
        BY <2>1, <3>3, VisitsOfElement
      <3>5. ~(n < R * x + R)
        <4>1. R * x \in Nat
          <5> HIDE DEF R
          <5> QED BY <2>1
        <4> HIDE DEF R, n
        <4> QED BY <2>1, <3>3, <4>1
      <3> QED BY <3>2, <3>4, <3>5
    <2>5. ASSUME ~StoredAt(a) PROVE Visits(n, a) = 0
      <3> DEFINE V == {v \in (0 .. n - 1) \X Enabled : IterAddress(job.agu, v[1], v[2]) = a}
      <3>1. ASSUME NEW m \in 0 .. n - 1, NEW i \in Enabled PROVE IterAddress(job.agu, m, i) # a
        <4>1. m \in Nat /\ m < n
          BY <2>1
        <4>2. m \div R \in 0 .. Stored - 1
          <5> DEFINE x == m \div R
                     b == m % R
          <5>1. m = R * x + b /\ b \in 0 .. R - 1 /\ x \in Nat
            <6>1. x \in Nat
              <7> HIDE DEF R
              <7> QED BY <2>1, <4>1
            <6>2. m = R * (m \div R) + (m % R) /\ m % R \in 0 .. R - 1
              BY <2>1, <4>1, Division
            <6> QED BY <6>1, <6>2
          <5>2. x < Stored
            <6> SUFFICES ASSUME ~(x < Stored) PROVE FALSE
              OBVIOUS
            <6>1. Stored <= x
              <7> HIDE DEF x
              <7> QED BY <2>1, <5>1
            <6>2. R * Stored <= R * x
              <7> HIDE DEF x
              <7> QED BY <2>1, <5>1, <6>1, Monotone
            <6>3. R * x \in Nat
              <7> HIDE DEF R, x
              <7> QED BY <2>1, <5>1
            <6> DEFINE y == R * x
            <6> HIDE DEF R, n, x, b, y
            <6>4. n <= y /\ m = y + b /\ y \in Nat
              BY <2>2, <5>1, <6>2, <6>3 DEF y
            <6> QED BY <2>1, <4>1, <5>1, <6>4
          <5> HIDE DEF x
          <5>3. x \in 0 .. Stored - 1
            BY <2>1, <5>1, <5>2
          <5> QED BY <5>3 DEF x
        <4>3. IterAddress(job.agu, m, i) = ElementAddr(i)[m \div R]
          BY <2>1, <4>1, <4>2, ElementAddress DEF R, ElementAddr
        <4> QED BY <2>5, <4>2, <4>3 DEF StoredAt
      <3>2. V = {}
        BY <3>1
      <3> QED BY <3>2, FS_EmptySet DEF Visits
    <2>6. R \in Int /\ mem0[a] \in Int
      BY <2>1 DEF UpdateInv, UpdateMemory
    <2>7. CASE StoredAt(a)
      BY <2>3, <2>4, <2>7
    <2>8. CASE ~StoredAt(a)
      <3>1. mem[a] = mem0[a] /\ Visits(n, a) = 0
        BY <2>3, <2>5, <2>8
      <3>2. mem0[a] = mem0[a] + Weight * 0
        BY <2>6 DEF Weight
      <3> QED BY <3>1, <3>2
    <2> QED BY <2>7, <2>8
  <1> QED BY <1>1, UpdateInvariant, UpdaterNeverTears, PTL

------------------------------------------------------------------------------
(* A streamer with one lane has nothing to fall out of step. *)
LEMMA OneLaneTogether ==
  ASSUME \A i, k \in Lanes : i = k
  PROVE  Spec => [][LanesTogether]_vars
  <1>1. [Next]_vars => [LanesTogether]_vars
    <2> SUFFICES ASSUME Next PROVE LanesTogether
      OBVIOUS
    <2> DEFINE V == {i \in Lanes : rsp'[i].valid}
               O == {i \in Lanes : Offers(s, i) # {}}
    <2>1. V \subseteq O
      <3>1. ASSUME NEW in, MemoryEdge(in) PROVE V \subseteq O
        <4>1. \A i \in Lanes : rsp'[i].valid = ReqFire(s, in, i)
          BY <3>1 DEF MemoryEdge
        <4> QED BY <4>1 DEF ReqFire
      <3> QED BY <3>1 DEF Next, Start, Run
    <2> HIDE DEF V, O
    <2>2. V \subseteq Lanes /\ O \subseteq Lanes
      BY DEF V, O
    <2>3. V \in {{}, O}
      BY <2>1, <2>2
    <2> QED BY <2>3 DEF LanesTogether, AllOrNone, V, O
  <1> QED BY <1>1, PTL DEF Spec

(* So a store or an update by one lane leaves its result in memory whenever *)
(* memory grants it, without any condition on the arbiters                  *)
(* (Streamer.scala:98-186, 243-248).                                        *)
THEOREM OneLaneWritesTheNest ==
  ASSUME \A i, k \in Lanes : i = k
  PROVE  Spec => [](OnlyWrites \/ OnlyUpdates => ResultInMemory)
  <1>1. ~torn /\ DoneMeansWritten => ResultInMemory
    BY DEF DoneMeansWritten
  <1>2. Spec => [][LanesTogether]_vars
    BY OneLaneTogether
  <1> QED BY <1>1, <1>2, WriterWritesTheNest, UpdaterWritesTheNest, PTL
==============================================================================
