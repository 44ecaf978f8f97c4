---------------------------- MODULE ICacheProofs -----------------------------
(***************************************************************************)
(* For every number of cores, every geometry of the cache and every        *)
(* content of the memory: the instruction cache is type correct, its valid *)
(* lines are coherent, its single prevChoice / cacheMiss pair routes every *)
(* answer, and it implements the instruction port of InstrPort.            *)
(***************************************************************************)
EXTENDS ICache, TLAPS

(* The registered lookup shows the line of cacheMiss, and only in serve. *)
LookInv ==
  look.fired =>
    /\ state = "serve"
    /\ look.valid = valids[cacheMiss.line]
    /\ look.tag = tags[cacheMiss.line]
    /\ look.word = data[cacheMiss.line][cacheMiss.instr]

IInv == LinesCoherent /\ OneOwner /\ AxiOwner /\ LookInv

(* The fields of an address, and the line it names. *)
LEMMA AddrFields ==
  ASSUME NEW a \in Addr
  PROVE  /\ a.tag \in Tags /\ a.line \in Lines /\ a.instr \in Instrs
         /\ LineOf(a) \in LineAddr
         /\ LineOf(a) = <<a.tag, a.line>>
         /\ Mem[LineOf(a)] \in Data
         /\ Word(a) = Mem[LineOf(a)][a.instr]
         /\ Word(a) \in Words
<1>1. /\ a.tag \in Tags /\ a.line \in Lines /\ a.instr \in Instrs
  BY DEF Addr
<1>2. LineOf(a) \in LineAddr /\ LineOf(a) = <<a.tag, a.line>>
  BY <1>1 DEF LineOf, LineAddr
<1>3. Mem[LineOf(a)] \in Data
  BY <1>2, MemAssumption
<1> QED  BY <1>1, <1>2, <1>3 DEF Word, Data

(* Dropping the oldest request of a queue leaves a queue. *)
LEMMA DropType ==
  ASSUME NEW s \in Seq(Addr)
  PROVE  Drop(s) \in Seq(Addr)
BY DEF Drop

(* Types of a pending access and of an answer *)
LEMMA PendingType ==
  ASSUME TypeOK, NEW c \in Cores
  PROVE  Pending(c) \in Seq(Addr)
<1>1. inflight[c] \in Seq(Addr)
  BY DEF TypeOK
<1> QED  BY <1>1, DropType DEF Pending

LEMMA RespondType ==
  ASSUME TypeOK, Respond
  PROVE  got' \in [Cores -> Words \cup {NoAddr}]
<1>1. look.word \in Words /\ prevChoice \in Cores
  BY DEF TypeOK
<1> QED  BY <1>1 DEF TypeOK, Respond, Answer

(* The registers and histories keep their types through every step. *)
LEMMA TypeStep ==
  ASSUME TypeOK, [Next]_vars
  PROVE  TypeOK'
<1>1. ASSUME NEW c \in Cores, NEW a \in Addr, Fetch(c, a)
      PROVE  TypeOK'
  BY <1>1 DEF TypeOK, Fetch, regs
<1>2. ASSUME NEW c \in Cores, Accept(c)
      PROVE  TypeOK'
  <2>1. req[c] \in Addr
    BY <1>2 DEF Accept, TypeOK
  <2>2. Lookup(req[c]) \in [fired : BOOLEAN, valid : BOOLEAN, tag : Tags, word : Words]
    <3>1. /\ valids[req[c].line] \in BOOLEAN
          /\ tags[req[c].line] \in Tags
          /\ data[req[c].line] \in Data
      BY <2>1, AddrFields DEF TypeOK
    <3>2. data[req[c].line][req[c].instr] \in Words
      BY <2>1, <3>1, AddrFields DEF Data
    <3> QED  BY <3>1, <3>2 DEF Lookup
  <2>3. got' \in [Cores -> Words \cup {NoAddr}]
    BY <1>2, RespondType DEF Accept
  <2>4. inflight' \in [Cores -> Seq(Addr)]
    <3>1. \A d \in Cores : Pending(d) \in Seq(Addr) /\ Append(Pending(d), req[c]) \in Seq(Addr)
      BY <2>1, PendingType
    <3> QED  BY <1>2, <3>1 DEF Accept
  <2> QED  BY <1>2, <2>1, <2>2, <2>3, <2>4 DEF Accept, TypeOK, LastGrant
<1>3. ASSUME Quiet
      PROVE  TypeOK'
  <2>1. got' \in [Cores -> Words \cup {NoAddr}]
    BY <1>3, RespondType DEF Quiet
  <2>2. inflight' \in [Cores -> Seq(Addr)]
    BY <1>3, PendingType DEF Quiet
  <2> QED  BY <1>3, <2>1, <2>2 DEF Quiet, TypeOK
<1>4. ASSUME MissWait
      PROVE  TypeOK'
  BY <1>4 DEF MissWait, TypeOK
<1>5. ASSUME ArFire
      PROVE  TypeOK'
  BY <1>5, AddrFields DEF ArFire, TypeOK
<1>6. ASSUME Fill
      PROVE  TypeOK'
  <2>1. axi \in LineAddr /\ Mem[axi] \in Data
    BY <1>6, MemAssumption DEF Fill, TypeOK
  <2>2. /\ cacheMiss.line \in Lines /\ cacheMiss.tag \in Tags
        /\ cacheMiss.instr \in Instrs
    BY AddrFields DEF TypeOK
  <2>3. Mem[axi][cacheMiss.instr] \in Words
    BY <2>1, <2>2 DEF Data
  <2>4. inflight' \in [Cores -> Seq(Addr)]
    BY <1>6, DropType DEF Fill, TypeOK
  <2>5. got' \in [Cores -> Words \cup {NoAddr}]
    BY <1>6, <2>3 DEF Fill, TypeOK, Answer
  <2> QED  BY <1>6, <2>1, <2>2, <2>4, <2>5 DEF Fill, TypeOK
<1>7. ASSUME UNCHANGED vars
      PROVE  TypeOK'
  BY <1>7 DEF TypeOK, vars, regs
<1> QED  BY <1>1, <1>2, <1>3, <1>4, <1>5, <1>6, <1>7 DEF Next, Clock

(* The registers have their types after reset. *)
LEMMA InitType == Init => TypeOK
<1> SUFFICES ASSUME Init PROVE TypeOK
  OBVIOUS
<1>1. look \in [fired : BOOLEAN, valid : BOOLEAN, tag : Tags, word : Words]
  BY AddrFields DEF Init
<1>2. valids \in [Lines -> BOOLEAN]
  BY DEF Init, ResetValids
<1>3. <<>> \in Seq(Addr)
  OBVIOUS
<1> QED  BY <1>1, <1>2, <1>3 DEF Init, TypeOK

(***************************************************************************)
(* Type correctness: the registers of ICache.scala keep their types.       *)
(***************************************************************************)
THEOREM TypeCorrect == Spec => []TypeOK
BY InitType, TypeStep, PTL DEF Spec

(* A request in flight has been looked up or is being fetched. *)
LEMMA BusyOwner ==
  ASSUME TypeOK, OneOwner, Busy
  PROVE  /\ inflight[prevChoice] = <<cacheMiss>>
         /\ Drop(inflight[prevChoice]) = <<>>
         /\ \A c \in Cores : c # prevChoice => inflight[c] = <<>>
<1>1. /\ inflight[prevChoice] = <<cacheMiss>>
      /\ \A c \in Cores : c # prevChoice => inflight[c] = <<>>
  BY DEF TypeOK, OneOwner
<1>2. <<cacheMiss>> # <<>> /\ Tail(<<cacheMiss>>) = <<>>
  OBVIOUS
<1> QED  BY <1>1, <1>2 DEF Drop

(* In a cycle that can accept, the hit of the cycle leaves nothing owed. *)
LEMMA ReadyOwesNothing ==
  ASSUME TypeOK, OneOwner, LookInv, Ready, NEW c \in Cores
  PROVE  Pending(c) = <<>>
<1>1. CASE look.fired
  <2>1. Hit /\ Busy
    BY <1>1 DEF TagHit, Hit, Miss, Ready, Busy, TypeOK
  <2> QED  BY <2>1, BusyOwner DEF Pending
<1>2. CASE ~look.fired
  <2>1. ~Hit /\ ~Busy
    BY <1>2 DEF TagHit, Hit, Ready, Busy
  <2> QED  BY <2>1 DEF Pending, OneOwner
<1> QED  BY <1>1, <1>2

(* Each kind of cycle keeps the invariant: an access, a quiet one, a *)
(* refill.                                                           *)
LEMMA AcceptInv ==
  ASSUME TypeOK, IInv, NEW c \in Cores, Accept(c)
  PROVE  IInv'
<1>1. LinesCoherent'
  BY DEF Accept, IInv, LinesCoherent
<1>2. AxiOwner'
  <2>1. state = "serve" /\ axi = NoAddr
    BY DEF Accept, Ready, IInv, AxiOwner
  <2> QED  BY <2>1 DEF Accept, AxiOwner
<1>3. LookInv'
  BY DEF Accept, LookInv, Lookup, Ready
<1>4. OneOwner'
  <2>1. Busy' /\ prevChoice' = c /\ cacheMiss' = req[c]
    BY DEF Accept, Lookup, Busy
  <2>2. \A d \in Cores : Pending(d) = <<>>
    BY ReadyOwesNothing DEF Accept, IInv
  <2>3. \A d \in Cores : inflight'[d] = IF d = c THEN <<req[c]>> ELSE <<>>
    <3>1. Append(<<>>, req[c]) = <<req[c]>>
      OBVIOUS
    <3> QED  BY <2>2, <3>1, Zenon DEF Accept
  <2> QED  BY <2>1, <2>3 DEF OneOwner
<1> QED  BY <1>1, <1>2, <1>3, <1>4 DEF IInv

LEMMA QuietInv ==
  ASSUME TypeOK, IInv, Quiet
  PROVE  IInv'
<1>1. ~Busy'
  BY DEF Quiet, Busy, Ready, TypeOK
<1>2. \A d \in Cores : inflight'[d] = <<>>
  BY ReadyOwesNothing DEF Quiet, IInv
<1>3. OneOwner'
  BY <1>1, <1>2 DEF OneOwner
<1>4. ~look.fired'
  BY DEF Quiet, TypeOK
<1>5. LinesCoherent' /\ AxiOwner'
  BY DEF Quiet, IInv, LinesCoherent, AxiOwner
<1> QED  BY <1>3, <1>4, <1>5 DEF IInv, LookInv

(* The two ways out of a miss: the line address is taken, or not yet. *)
LEMMA MissInv ==
  ASSUME TypeOK, IInv, MissWait \/ ArFire
  PROVE  IInv'
<1>1. Busy
  BY DEF MissWait, ArFire, Miss, Busy
<1>2. Busy' /\ ~look.fired'
  BY DEF MissWait, ArFire, Busy, TypeOK
<1>3. UNCHANGED <<inflight, prevChoice, cacheMiss, valids, tags, data>>
  BY DEF MissWait, ArFire
<1>4. OneOwner'
  BY <1>1, <1>2, <1>3 DEF IInv, OneOwner
<1>5. LinesCoherent'
  BY <1>3 DEF IInv, LinesCoherent
<1>6. AxiOwner'
  <2>1. CASE MissWait
    BY <2>1 DEF MissWait, IInv, AxiOwner
  <2>2. CASE ArFire
    BY <2>2, <1>3 DEF ArFire, AxiOwner, LineOf
  <2> QED  BY <2>1, <2>2
<1> QED  BY <1>2, <1>4, <1>5, <1>6 DEF IInv, LookInv

LEMMA FillInv ==
  ASSUME TypeOK, IInv, Fill
  PROVE  IInv'
<1>1. /\ axi = <<cacheMiss.tag, cacheMiss.line>>
      /\ cacheMiss.line \in Lines /\ cacheMiss.tag \in Tags
  BY AddrFields DEF Fill, IInv, AxiOwner, LineOf, TypeOK
<1>2. LinesCoherent'
  BY <1>1 DEF Fill, IInv, LinesCoherent, TypeOK
<1>3. ~look.fired' /\ ~Busy'
  BY DEF Fill, IInv, LookInv, Busy
<1>4. OneOwner'
  <2>1. Busy
    BY DEF Fill, Busy
  <2>2. \A c \in Cores : inflight'[c] = <<>>
    BY <2>1, BusyOwner DEF Fill, IInv, TypeOK
  <2> QED  BY <1>3, <2>2 DEF OneOwner
<1>5. AxiOwner'
  BY DEF Fill, AxiOwner
<1> QED  BY <1>2, <1>3, <1>4, <1>5 DEF IInv, LookInv

(* So does every step. *)
LEMMA InvStep ==
  ASSUME TypeOK, IInv, [Next]_vars
  PROVE  IInv'
<1>1. ASSUME NEW c \in Cores, NEW a \in Addr, Fetch(c, a)
      PROVE  IInv'
  BY <1>1 DEF Fetch, regs, IInv, LinesCoherent, OneOwner, AxiOwner, LookInv,
              Busy, LineOf
<1>2. ASSUME UNCHANGED vars
      PROVE  IInv'
  BY <1>2 DEF vars, regs, IInv, LinesCoherent, OneOwner, AxiOwner, LookInv,
              Busy, LineOf
<1> QED  BY <1>1, <1>2, AcceptInv, QuietInv, MissInv, FillInv DEF Next, Clock

(* After reset nothing is valid, looked up or outstanding. *)
LEMMA InitInv == Init => IInv
<1> SUFFICES ASSUME Init PROVE IInv
  OBVIOUS
<1>1. valids = [l \in Lines |-> FALSE]
  BY DEF Init, ResetValids
<1>2. LinesCoherent
  BY <1>1 DEF LinesCoherent
<1> QED  BY <1>2 DEF Init, IInv, OneOwner, AxiOwner, LookInv, Busy

(***************************************************************************)
(* The strengthened invariant of the cache, which the next theorems use.   *)
(***************************************************************************)
THEOREM Invariance == Spec => [](TypeOK /\ IInv)
<1>1. Init => TypeOK /\ IInv
  BY InitType, InitInv
<1>2. TypeOK /\ IInv /\ [Next]_vars => (TypeOK /\ IInv)'
  BY TypeStep, InvStep
<1> QED  BY <1>1, <1>2, PTL DEF Spec

(***************************************************************************)
(* No valid line ever holds words of another address.                      *)
(***************************************************************************)
THEOREM Coherence == Spec => []LinesCoherent
<1>1. IInv => LinesCoherent
  BY DEF IInv
<1> QED  BY <1>1, Invariance, PTL

(***************************************************************************)
(* One prevChoice and one cacheMiss register are enough for all cores.     *)
(***************************************************************************)
THEOREM SingleOwner == Spec => []OneOwner
<1>1. IInv => OneOwner
  BY DEF IInv
<1> QED  BY <1>1, Invariance, PTL

------------------------------------------------------------------------------
(* A hit shows the word the memory holds at the address of cacheMiss. *)
LEMMA HitWord ==
  ASSUME TypeOK, IInv, Hit
  PROVE  /\ look.word = Word(cacheMiss)
         /\ inflight[prevChoice] = <<cacheMiss>>
<1>1. /\ valids[cacheMiss.line] /\ tags[cacheMiss.line] = cacheMiss.tag
      /\ look.word = data[cacheMiss.line][cacheMiss.instr]
  BY DEF TagHit, Hit, IInv, LookInv
<1>2. cacheMiss \in Addr
  BY DEF TypeOK
<1>3. look.word = Word(cacheMiss)
  BY <1>1, <1>2, AddrFields DEF IInv, LinesCoherent
<1>4. Busy
  BY DEF TagHit, Hit, Busy
<1> QED  BY <1>3, <1>4, BusyOwner DEF IInv

(* Answering the only request in flight, in the form of the port. *)
LEMMA AnswerWord ==
  ASSUME TypeOK, NEW p \in Cores, NEW a \in Addr, inflight[p] = <<a>>,
         got' = [got EXCEPT ![p] = Word(a)]
  PROVE  got' = [c \in Cores |->
                   IF c \in {p} THEN [b \in Addr |-> Word(b)][Head(inflight[c])]
                               ELSE got[c]]
<1> DEFINE V == [b \in Addr |-> Word(b)]
<1>1. Head(inflight[p]) = a
  OBVIOUS
<1>2. V[a] = Word(a)
  OBVIOUS
<1>3. DOMAIN got = Cores
  BY DEF TypeOK
<1>4. got' = [c \in Cores |-> IF c = p THEN Word(a) ELSE got[c]]
  BY <1>3
<1> HIDE DEF V
<1>5. \A c \in Cores : (IF c = p THEN Word(a) ELSE got[c])
                        = (IF c \in {p} THEN V[Head(inflight[c])] ELSE got[c])
  BY <1>1, <1>2
<1>6. got' = [c \in Cores |-> IF c \in {p} THEN V[Head(inflight[c])] ELSE got[c]]
  BY <1>4, <1>5
<1> QED  BY <1>6 DEF V

(* The cores whose oldest request is answered by the hit of this cycle. *)
HitSet == IF Hit THEN {prevChoice} ELSE {}

(* An answer on a hit goes to cores that wait for it. *)
LEMMA HitServes ==
  ASSUME TypeOK, IInv, Respond
  PROVE  /\ HitSet \in SUBSET Cores
         /\ \A c \in HitSet : inflight[c] # <<>>
         /\ got' = [c \in Cores |->
                     IF c \in HitSet THEN [a \in Addr |-> Word(a)][Head(inflight[c])]
                                    ELSE got[c]]
         /\ \A c \in Cores : Pending(c) = Port!Answered(HitSet, c)
<1>1. CASE Hit
  <2>1. HitSet = {prevChoice} /\ prevChoice \in Cores /\ cacheMiss \in Addr
    BY <1>1 DEF HitSet, TypeOK
  <2>2. inflight[prevChoice] = <<cacheMiss>> /\ look.word = Word(cacheMiss)
    BY <1>1, HitWord
  <2>3. got' = [got EXCEPT ![prevChoice] = Word(cacheMiss)]
    BY <1>1, <2>2 DEF Respond, Answer
  <2>4. \A c \in Cores : Pending(c) = Port!Answered(HitSet, c)
    BY SMTT(20), <1>1, <2>1, <2>2 DEF Pending, Drop, Port!Answered
  <2>5. got' = [c \in Cores |->
                  IF c \in HitSet THEN [a \in Addr |-> Word(a)][Head(inflight[c])]
                                 ELSE got[c]]
    BY <2>1, <2>2, <2>3, AnswerWord
  <2>6. <<cacheMiss>> # <<>>
    OBVIOUS
  <2> QED  BY <2>1, <2>2, <2>4, <2>5, <2>6
<1>2. CASE ~Hit
  BY <1>2 DEF HitSet, Respond, TypeOK, Pending, Port!Answered
<1> QED  BY <1>1, <1>2

(* Every step of the cache is a step of the port, or leaves it alone. *)
LEMMA StepImplementsPort ==
  ASSUME TypeOK, IInv, [Next]_vars
  PROVE  [Port!Next]_(Port!vars)
<1> DEFINE V == [a \in Addr |-> Word(a)]
<1>1. ASSUME NEW c \in Cores, NEW a \in Addr, Fetch(c, a)
      PROVE  Port!Next
  <2>1. Port!Raise(c, a)
    BY <1>1 DEF Fetch, Port!Raise
  <2> QED  BY <2>1 DEF Port!Next
<1>2. ASSUME NEW c \in Cores, Accept(c)
      PROVE  Port!Next
  <2>1. Respond /\ req[c] # NoAddr /\ {c} \in SUBSET Cores
    BY <1>2 DEF Accept
  <2>2. req' = [d \in Cores |-> IF d \in {c} THEN NoAddr ELSE req[d]]
    BY <1>2 DEF Accept, TypeOK
  <2>3. inflight' = [d \in Cores |->
                       IF d \in {c} THEN Append(Port!Answered(HitSet, d), req[d])
                                    ELSE Port!Answered(HitSet, d)]
    BY <1>2, <2>1, HitServes DEF Accept
  <2>4. Port!Serve(HitSet, {c})
    BY <2>1, <2>2, <2>3, HitServes DEF Port!Serve
  <2> QED  BY <2>1, <2>4, HitServes DEF Port!Next
<1>3. ASSUME Quiet
      PROVE  Port!Next
  <2>1. Respond /\ req' = [d \in Cores |-> IF d \in {} THEN NoAddr ELSE req[d]]
    BY <1>3 DEF Quiet, TypeOK
  <2>2. inflight' = [d \in Cores |->
                       IF d \in {} THEN Append(Port!Answered(HitSet, d), req[d])
                                   ELSE Port!Answered(HitSet, d)]
    BY <1>3, <2>1, HitServes DEF Quiet
  <2>3. Port!Serve(HitSet, {})
    BY <2>1, <2>2, HitServes DEF Port!Serve
  <2> QED  BY <2>1, <2>3, HitServes DEF Port!Next
<1>4. ASSUME MissWait \/ ArFire
      PROVE  UNCHANGED Port!vars
  BY <1>4 DEF MissWait, ArFire, Port!vars
<1>5. ASSUME Fill
      PROVE  Port!Next
  <2>1. prevChoice \in Cores /\ cacheMiss \in Addr /\ Busy
    BY <1>5 DEF Fill, TypeOK, Busy
  <2>2. inflight[prevChoice] = <<cacheMiss>> /\ Drop(inflight[prevChoice]) = <<>>
    BY <2>1, BusyOwner DEF IInv
  <2>3. axi = LineOf(cacheMiss)
    BY <1>5 DEF Fill, IInv, AxiOwner
  <2>4. got' = [got EXCEPT ![prevChoice] = Word(cacheMiss)]
    BY <1>5, <2>1, <2>3, AddrFields DEF Fill, Answer
  <2>5. got' = [c \in Cores |-> IF c \in {prevChoice} THEN V[Head(inflight[c])] ELSE got[c]]
    BY <2>1, <2>2, <2>4, AnswerWord
  <2>6. inflight' = [d \in Cores |->
                       IF d \in {} THEN Append(Port!Answered({prevChoice}, d), req[d])
                                   ELSE Port!Answered({prevChoice}, d)]
    <3>1. Tail(inflight[prevChoice]) = Drop(inflight[prevChoice])
      BY <2>2 DEF Drop
    <3>2. inflight' = [d \in Cores |-> IF d = prevChoice THEN Drop(inflight[d])
                                                        ELSE inflight[d]]
      BY <1>5 DEF Fill, TypeOK
    <3> QED  BY <3>1, <3>2 DEF Port!Answered
  <2>7. req' = [d \in Cores |-> IF d \in {} THEN NoAddr ELSE req[d]]
    BY <1>5 DEF Fill, TypeOK
  <2>8. Port!Serve({prevChoice}, {})
    BY <2>1, <2>2, <2>5, <2>6, <2>7 DEF Port!Serve
  <2>9. {prevChoice} \in SUBSET Cores /\ {} \in SUBSET Cores
    BY <2>1
  <2> QED  BY <2>8, <2>9 DEF Port!Next
<1>6. ASSUME UNCHANGED vars
      PROVE  UNCHANGED Port!vars
  BY <1>6 DEF vars, Port!vars
<1> QED  BY <1>1, <1>2, <1>3, <1>4, <1>5, <1>6 DEF Next, Clock

(***************************************************************************)
(* The cache implements the instruction port: seen from the cores it is    *)
(* the memory, answering each accepted request once and in order.          *)
(***************************************************************************)
THEOREM CacheImplementsPort == Spec => PortSpec
<1>1. Init => Port!Init
  BY DEF Init, Port!Init
<1> QED  BY <1>1, Invariance, StepImplementsPort, PTL DEF Spec, PortSpec, Port!Spec
==============================================================================
