----------------------------- MODULE StreamerSys -----------------------------
(***************************************************************************)
(* One streamer between a datapath and a banked memory, running jobs one   *)
(* after the other.  The memory (interconnect and SRAM banks) grants any   *)
(* set of requests to distinct banks in a cycle and answers each of them,  *)
(* reads and writes, in the next one.  The datapath is ready whenever its  *)
(* other operands are ("avail"): a reading job consumes vectors, a writing *)
(* job produces them, and in readWrite mode it consumes the old vector and *)
(* produces the new one in the same cycle, as every accelerator does.      *)
(***************************************************************************)
EXTENDS Streamer, FiniteSets

CONSTANTS
  JobSets,   \* sets of jobs; a streamer runs the jobs of one of them
  MaxJobs,   \* bound: jobs started in a behaviour
  Outputs,   \* what a datapath may make: functions from the number of a
             \* vector and its lane to words
  NumBanks   \* SRAM banks; word a lives in bank a % NumBanks

ASSUME JobsAssumption == \A P \in JobSets : \A j \in P : WellFormed(j.agu)
ASSUME MaxJobsAssumption == MaxJobs \in Nat

VARIABLES
  pool,   \* the jobs this streamer is used for
  s,      \* the streamer
  job,    \* the committed configuration
  mem,    \* memory
  rsp,    \* the memory's responses of this cycle
  jobs,   \* history: jobs started
  made,   \* what the datapath makes of its other operands in this job
  mem0,   \* history: memory when the job was started
  moved,  \* history: vectors exchanged with the datapath in this job
  torn    \* history: a lane has run ahead of the others

vars == <<pool, s, job, mem, rsp, jobs, made, mem0, moved, torn>>

Addrs == 0 .. AddrSpace - 1
NoRsp == [valid |-> FALSE, data |-> NoData]

Init ==
  /\ pool \in JobSets
  /\ \E g \in {0, 1} : s = StreamerReset(g)
  /\ job \in pool
  /\ mem = [a \in Addrs |-> a]
  /\ rsp = [i \in Lanes |-> NoRsp]
  /\ jobs = 0
  /\ made \in Outputs
  /\ mem0 = mem
  /\ moved = 0
  /\ torn = FALSE

(* What the datapath makes: in write mode anything, in readWrite mode the  *)
(* old element plus Weight.                                                *)
Weight == 16
Result(old) ==
  [i \in Lanes |-> IF job.dir # "readWrite" THEN made[moved][i]
                   ELSE IF ReadValid(s, job) /\ LaneEnabled(job, i)
                        THEN old[i] + Weight ELSE NoData]

(***************************************************************************)
(* Operands come from memory or over AXI, two cycles or more after the     *)
(* start: the generator's addresses are there first.  The streamer needs   *)
(* this from its second writing job on, when entries of the first job left *)
(* in isLastQueue make it ready for data before it has an address.         *)
(***************************************************************************)
AddressAhead == \A i \in Lanes : s.writeReqQ[i] # <<>> \/ ~LaneEnabled(job, i)

Inputs(start, granted, avail) ==
  [start |-> start,
   readReady |-> avail /\ CASE job.dir = "read" -> TRUE
                            [] job.dir = "readWrite" -> WriteDataReady(s)
                            [] OTHER -> FALSE,
   writeValid |-> avail /\ CASE job.dir = "write" -> moved < Iterations(job.agu) /\ AddressAhead
                             [] job.dir = "readWrite" -> ReadValid(s, job)
                             [] OTHER -> FALSE,
   writeVec |-> Result(ReadVec(s)),
   granted |-> granted,
   rsp |-> rsp]

Moves(in) == \/ job.dir = "read" /\ ReadValid(s, job) /\ in.readReady
             \/ job.dir # "read" /\ in.writeValid /\ WriteDataReady(s)

(* writeData.ready waits for room on all lanes, the lanes do not wait for  *)
(* it: one that has room takes a vector that is not accepted and that it   *)
(* will be offered again.                                                  *)
Tears(in) == \E i \in Lanes : EnqData(s, job, in, i) /\ ~WriteDataReady(s)

Bank(a) == a % NumBanks
Grants ==
  {G \in SUBSET {i \in Lanes : Offers(s, i) # {}} :
     \A i, k \in G : i # k => Bank(ReqAddr(s, i)) # Bank(ReqAddr(s, k))}

(* The memory at a clock edge: reads see the words before the edge. *)
MemoryEdge(in) ==
  /\ mem' = [a \in Addrs |->
       IF \E i \in Lanes : WriteFire(s, in, i) /\ ReqAddr(s, i) = a
       THEN Head(s.writeDataQ[CHOOSE i \in Lanes :
                     WriteFire(s, in, i) /\ ReqAddr(s, i) = a]).data
       ELSE mem[a]]
  /\ rsp' = [i \in Lanes |->
       [valid |-> ReqFire(s, in, i),
        data |-> IF ReadFire(s, in, i) THEN mem[ReqAddr(s, i)] ELSE NoData]]

(***************************************************************************)
(* The control interface starts a job only when the accelerator is done.   *)
(* A reading streamer's own done is no proof of that: it is high while the *)
(* last response is on its way.  The accelerator's done comes from the     *)
(* streamer or AXI port that has to receive all the vectors read.          *)
(***************************************************************************)
AllRead == job.dir = "read" => jobs = 0 \/ moved = Iterations(job.agu)

Start(j) ==
  /\ jobs < MaxJobs
  /\ Done(s) /\ AllRead
  /\ LET in == Inputs(TRUE, {}, FALSE)
     IN  s' = StreamerNext(s, job, in) /\ MemoryEdge(in)
  /\ job' = j
  /\ jobs' = jobs + 1
  /\ made' \in Outputs
  /\ mem0' = mem
  /\ moved' = 0
  /\ UNCHANGED <<pool, torn>>

Run(granted, avail) ==
  /\ granted \in Grants
  /\ LET in == Inputs(FALSE, granted, avail)
     IN  /\ s' = StreamerNext(s, job, in)
         /\ MemoryEdge(in)
         /\ moved' = IF Moves(in) THEN moved + 1 ELSE moved
         /\ torn' = (torn \/ Tears(in))
  /\ UNCHANGED <<pool, job, jobs, made, mem0>>

Next == \/ \E j \in pool : Start(j)
        \/ \E granted \in SUBSET Lanes, avail \in BOOLEAN : Run(granted, avail)

Spec == Init /\ [][Next]_vars

(***************************************************************************)
(* The round-robin arbiters of the banks grant every lane again and again, *)
(* and the datapath's other operands keep arriving.                        *)
(***************************************************************************)
GrantLane(i) ==
  \E granted \in SUBSET Lanes :
    (i \in granted \/ Offers(s, i) = {}) /\ Run(granted, TRUE)
FairSpec == Spec /\ \A i \in Lanes : WF_vars(GrantLane(i))

------------------------------------------------------------------------------
TypeOK ==
  /\ s.agu \in [busy : BOOLEAN, counters : [Dims -> Addrs]]
  /\ \A i \in Lanes :
       /\ s.readReqQ[i] \in Seq(Addrs) /\ Len(s.readReqQ[i]) <= QueueDepth
       /\ s.writeReqQ[i] \in Seq(Addrs) /\ Len(s.writeReqQ[i]) <= QueueDepth
       /\ Len(s.writeDataQ[i]) <= QueueDepth /\ Len(s.rspQ[i]) <= QueueDepth
  /\ Len(s.isLastQ) <= IsLastDepth /\ Len(s.bypass) <= 1
  /\ s.readPending \in [Lanes -> BOOLEAN] /\ s.lastGrant \in [Lanes -> {0, 1}]
  /\ job \in pool /\ jobs \in 0 .. MaxJobs

Enabled == {i \in Lanes : LaneEnabled(job, i)}

(* Vectors of the job that add to word a before iteration n. *)
Visits(n, a) ==
  Cardinality({v \in (0 .. n - 1) \X Enabled : IterAddress(job.agu, v[1], v[2]) = a})

(***************************************************************************)
(* Until a lane runs ahead, the n-th vector handed to the datapath holds,  *)
(* on every enabled lane, the word the loop nest names: the memory's word  *)
(* in read mode, the partial result of the iterations before n in          *)
(* readWrite mode.  No vector is offered after the last iteration.         *)
(***************************************************************************)
ReadsInOrder ==
  ~torn /\ job.dir # "write" /\ jobs > 0 /\ ReadValid(s, job) =>
    /\ moved < Iterations(job.agu)
    /\ \A i \in Enabled :
         LET a == IterAddress(job.agu, moved, i)
         IN  ReadVec(s)[i] = IF job.dir = "read" THEN mem0[a]
                             ELSE mem0[a] + Weight * Visits(moved, a)

(***************************************************************************)
(* When a job is done memory holds its result: every word the nest writes  *)
(* holds the last vector for it, or all its updates, and no other word has *)
(* changed.  So the drivers of the accelerators take it; a lane that runs  *)
(* ahead breaks it.                                                        *)
(***************************************************************************)
LastWriter(a) ==
  LET W == {m \in 0 .. Iterations(job.agu) - 1 :
              \E i \in Enabled : IterAddress(job.agu, m, i) = a}
      m == CHOOSE x \in W : \A y \in W : y <= x
      i == CHOOSE x \in Enabled : IterAddress(job.agu, m, x) = a
  IN  IF W = {} THEN mem0[a] ELSE made[m][i]

Expected(a) ==
  CASE job.dir = "read" -> mem0[a]
    [] job.dir = "write" -> LastWriter(a)
    [] OTHER -> mem0[a] + Weight * Visits(Iterations(job.agu), a)

ResultInMemory == jobs > 0 /\ Done(s) => \A a \in Addrs : mem[a] = Expected(a)

(* It is so until then, at whatever pace the banks drain the lanes. *)
DoneMeansWritten == ~torn => ResultInMemory

(* A word that was read always finds room in the response queue. *)
NoReadLost ==
  \A i \in Lanes : rsp[i].valid /\ s.readPending[i] => HasRoom(s.rspQ[i])

(***************************************************************************)
(* The simulation assertion "bypass buffer is not ready for new data!", in *)
(* every cycle that can follow.                                            *)
(***************************************************************************)
BypassAssertion ==
  \A avail \in BOOLEAN :
    LET in == Inputs(FALSE, {}, avail)
    IN  BypassValid(s, in) => BypassReady(s, in)

(* Every started job ends, unless a lane runs ahead. *)
JobsEnd == ~(Done(s) /\ AllRead) ~> (Done(s) /\ AllRead) \/ torn
==============================================================================
