--------------------------- MODULE AluAccelerator ----------------------------
(***************************************************************************)
(* The ALU accelerator (src/main/scala/accelerator/AluAccelerator.scala):  *)
(* streamers A and B feed an array of ALUs, streamer C takes its results.  *)
(* In readWrite mode the second operand is the old value of C.  A core     *)
(* programs it through the control interface, access by access, also while *)
(* it works, and the banked memory serves the ports of all streamers.      *)
(*                                                                         *)
(* The generators of A and B have one temporal dimension, that of C has    *)
(* two; a second dimension with bound 0 stands for the one A and B lack.   *)
(* One step is one clock edge.                                             *)
(***************************************************************************)
EXTENDS Streamer, CsrInterface

CONSTANTS
  Programs,  \* sequences of accesses [addr, wdata] a core may execute
  DataBits,  \* dataWidth
  NumBanks   \* SRAM banks; word x lives in bank x % NumBanks

VARIABLES
  st,      \* st["A"], st["B"], st["C"]: the streamers
  csr,     \* shadow and value registers
  todo,    \* the accesses the core has not done yet
  mem,     \* memory
  rsp,     \* the memory's responses of this cycle, by streamer and lane
  started, \* history: a job has been started
  mem0,    \* history: memory when it was started
  moved    \* history: vectors the ALUs have taken since

vars == <<st, csr, todo, mem, rsp, started, mem0, moved>>

Streams == {"A", "B", "C"}
Ports == Streams \X Lanes
Addrs == 0 .. AddrSpace - 1
Datas == 0 .. 2 ^ DataBits - 1
NoRsp == [valid |-> FALSE, data |-> NoData]

Zeros == [d \in Dims |-> 0]
ZeroAgu == [base |-> 0, strides |-> Zeros, bounds |-> Zeros,
            spatial |-> [k \in SDims |-> 0]]
ZeroRegs == [r \in Regs |-> CASE r \in Streams -> ZeroAgu
                              [] r = "mask" -> [k \in SDims |-> FALSE]
                              [] OTHER -> 0]

Init ==
  /\ \E g \in {0, 1} : st = [p \in Streams |-> StreamerReset(g)]
  /\ csr = CsrReset(ZeroRegs)
  /\ todo \in Programs
  /\ mem = [x \in Addrs |-> x]
  /\ rsp = [p \in Streams |-> [i \in Lanes |-> NoRsp]]
  /\ started = FALSE
  /\ mem0 = mem
  /\ moved = 0

------------------------------------------------------------------------------
(* AluPE: what one ALU computes, in DataBits bits. *)
Bit(x, k) == (x \div 2 ^ k) % 2
AluXor(x, y) ==
  Sum([k \in 1 .. DataBits |-> ((Bit(x, k - 1) + Bit(y, k - 1)) % 2) * 2 ^ (k - 1)])
AluWide(sel, x, y) ==
  CASE sel = 0 -> x + y [] sel = 1 -> x - y [] sel = 2 -> x * y
    [] OTHER -> AluXor(x, y)

Alu(sel, x, y) == AluWide(sel, x, y) % 2 ^ DataBits

ReadWriteMode == csr.vals["mode"] % 2 = 1
StreamJob(p) ==
  [dir |-> CASE p # "C" -> "read"
             [] p = "C" /\ ReadWriteMode -> "readWrite"
             [] OTHER -> "write",
   mask |-> csr.vals["mask"], agu |-> csr.vals[p]]

(* Mutant: "done" is that of the address generator. *)
GeneratorDone == ~st["C"].agu.busy

(* The accelerator tells the control interface that it is done. *)
AccDone == Done(st["C"])

(* AluArray: an input is taken only when the other one is valid. *)
AValid == ReadValid(st["A"], StreamJob("A"))
BValid == LET p == IF ReadWriteMode THEN "C" ELSE "B"
          IN  ReadValid(st[p], StreamJob(p))
BVec == ReadVec(st[IF ReadWriteMode THEN "C" ELSE "B"])
CanProcess == WriteDataReady(st["C"])

AReady == CanProcess /\ BValid
BReady == CanProcess /\ AValid
COut == [i \in Lanes |->
           IF AValid /\ BValid /\ LaneEnabled(StreamJob("C"), i)
           THEN Alu(csr.vals["select"] % 4, ReadVec(st["A"])[i], BVec[i])
           ELSE NoData]

(* Start signals.  That of B is assigned twice (lines 68 and 71); the last *)
(* assignment, which does not look at the mode, is the one that counts.    *)
Starts(p, start) == start

StreamIn(p, start, granted) ==
  [start |-> Starts(p, start),
   readReady |-> CASE p = "A" -> AReady
                   [] p = "B" -> BReady /\ ~ReadWriteMode
                   [] OTHER -> BReady /\ ReadWriteMode,
   writeValid |-> p = "C" /\ AValid /\ BValid,
   writeVec |-> COut,
   granted |-> {i \in Lanes : <<p, i>> \in granted},
   rsp |-> rsp[p]]

(* The access of the core in this cycle, if it makes one. *)
Access(issue) ==
  IF issue /\ todo # <<>>
  THEN [valid |-> TRUE, addr |-> Head(todo).addr, wdata |-> Head(todo).wdata]
  ELSE [valid |-> FALSE, addr |-> StartReg, wdata |-> 0]

------------------------------------------------------------------------------
Offering == {x \in Ports : Offers(st[x[1]], x[2]) # {}}
Bank(x) == ReqAddr(st[x[1]], x[2]) % NumBanks

(* One bank serves one port in a cycle. *)
Grants == {G \in SUBSET Offering : \A x, y \in G : x # y => Bank(x) # Bank(y)}

Clock(granted, issue) ==
  LET access == Access(issue)
      start == CsrStart(access, AccDone)
      in == [p \in Streams |-> StreamIn(p, start, granted)]
      Writes(x, a) == /\ WriteFire(st[x[1]], in[x[1]], x[2])
                      /\ ReqAddr(st[x[1]], x[2]) = a
      Written(x) == Head(st[x[1]].writeDataQ[x[2]]).data
  IN  /\ granted \in Grants
      /\ rsp' = [p \in Streams |-> [i \in Lanes |->
           [valid |-> ReqFire(st[p], in[p], i),
            data |-> IF ReadFire(st[p], in[p], i) THEN mem[ReqAddr(st[p], i)]
                     ELSE NoData]]]
      /\ st' = [p \in Streams |-> StreamerNext(st[p], StreamJob(p), in[p])]
      /\ csr' = CsrNext(csr, access, AccDone)
      /\ todo' = IF CsrReady(access, AccDone) THEN Tail(todo) ELSE todo
      /\ mem' = [a \in Addrs |-> IF \E x \in granted : Writes(x, a)
                                 THEN Written(CHOOSE x \in granted : Writes(x, a))
                                 ELSE mem[a]]
      /\ started' = (started \/ start)
      /\ mem0' = IF start THEN mem ELSE mem0
      /\ moved' = IF start THEN 0
                  ELSE IF AValid /\ BValid /\ CanProcess THEN moved + 1 ELSE moved

Next == \E granted \in SUBSET Ports, issue \in BOOLEAN : Clock(granted, issue)

Spec == Init /\ [][Next]_vars

(* The banks' round-robin arbiters serve every port again and again; the   *)
(* core goes on with its program.                                          *)
ServePort(x) ==
  \E granted \in SUBSET Ports :
    (x \in granted \/ x \notin Offering) /\ Clock(granted, TRUE)
FairSpec == Spec /\ \A x \in Ports : WF_vars(ServePort(x))

------------------------------------------------------------------------------
Length(p) == Iterations(csr.vals[p])
On == {i \in Lanes : LaneEnabled(StreamJob("C"), i)}

(***************************************************************************)
(* What the running job computes: the iterations in order, each reading    *)
(* its operands and writing its result.                                    *)
(***************************************************************************)
Step(m, n) ==
  LET At(p, i) == IterAddress(csr.vals[p], n, i)
  IN  [a \in Addrs |->
         IF \E i \in On : At("C", i) = a
         THEN LET i == CHOOSE x \in On : At("C", x) = a
              IN  Alu(csr.vals["select"] % 4, m[At("A", i)],
                      IF ReadWriteMode THEN m[a] ELSE m[At("B", i)])
         ELSE m[a]]
Golden(m, n) ==
  LET g[k \in 0 .. n] == IF k = 0 THEN m ELSE Step(g[k - 1], k - 1)
  IN  g[n]

(***************************************************************************)
(* When the control interface sees "done", memory holds what the iterations*)
(* of the job compute in order on the memory the job started from, although*)
(* reads run ahead of writes and the core already writes the next job's    *)
(* registers.                                                              *)
(***************************************************************************)
ResultAtDone == started /\ AccDone => mem = Golden(mem0, Length("C"))

(***************************************************************************)
(* "done" comes from streamer C alone; the operand streamers have nothing  *)
(* left either then, so the next start finds all of them idle.             *)
(***************************************************************************)
DoneMeansDrained ==
  started /\ AccDone => Done(st["A"]) /\ (ReadWriteMode \/ Done(st["B"]))

(* The core's program ends: no access stalls for ever. *)
ProgramEnds == <>(todo = <<>>)
==============================================================================
