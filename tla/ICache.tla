------------------------------- MODULE ICache --------------------------------
(***************************************************************************)
(* The instruction cache shared by the cores of a cluster                  *)
(* (src/main/scala/icache/ICache.scala): direct mapped, blocking, one      *)
(* synchronous lookup per cycle.  A request accepted at one clock edge is  *)
(* looked up in the next cycle; a hit answers in that cycle, while another *)
(* request may be accepted; a miss closes the request port, fetches the    *)
(* whole line over AXI and answers from the returning line.                *)
(*                                                                         *)
(* A step is either a core raising a request or one clock edge.  In a      *)
(* clock edge every register takes its next value from the wires of the    *)
(* cycle that ends.                                                        *)
(***************************************************************************)
EXTENDS RRArbiter, Sequences

CONSTANTS
  NumInp,   \* number of cores (numInp)
  Tags,     \* values of the address field "tag"
  Lines,    \* values of the address field "line" (cacheLines of them)
  Instrs,   \* values of the address field "instr" (instrsPerLine of them)
  Words,    \* instruction words
  Mem,      \* Mem[t, l][i]: the instruction at tag t, line l, word i
  NoAddr    \* "no request", "no line requested"

Cores == 0 .. NumInp - 1

(* ICacheRead: the fields of a requested address (the byte field is unused) *)
Addr == [tag : Tags, line : Lines, instr : Instrs]
LineAddr == Tags \X Lines
Data == [Instrs -> Words]

Word(a) == Mem[<<a.tag, a.line>>][a.instr]

(* Mutant: the address is put together in the wrong order. *)
LineOfSwapped(a) == <<a.line, a.tag>>
LineOf(a) == <<a.tag, a.line>>

ASSUME NumInpAssumption == NumInp \in Nat \ {0}
ASSUME MemAssumption == Mem \in [LineAddr -> Data]
ASSUME NoAddrAssumption == NoAddr \notin Addr /\ NoAddr \notin LineAddr
ASSUME FieldsAssumption == Tags # {} /\ Lines # {} /\ Instrs # {}

VARIABLES
  state,      \* "serve", "req" or "axi"
  lastGrant,  \* the arbiter's last winner
  prevChoice, \* the core of the last accepted request
  valids,     \* valids[l]: line l holds something
  tags,       \* tags_sram
  data,       \* data_sram, one line of words per cache line
  look,       \* the lookup of this cycle: registers feeding cacheRsp
  cacheMiss,  \* the last accepted address
  axi,        \* outside: the line requested over AXI and not returned
  req,        \* outside: req[c] is the address core c is requesting
  inflight,   \* history: addresses accepted for each core, unanswered
  got         \* history: the last word driven to each core

(* Mutant: a plain register, without reset value. *)
NoReset == [Lines -> BOOLEAN]

(* The valid bits "are registers such that they can be reset". *)
ResetValids == {[l \in Lines |-> FALSE]}

regs == <<state, lastGrant, prevChoice, valids, tags, data, look, cacheMiss>>
vars == <<regs, axi, req, inflight, got>>

(***************************************************************************)
(* Reset clears state and valids.  The arbiter's last winner, prevChoice,  *)
(* cacheMiss and the SRAMs have no reset: they start anywhere.  The core   *)
(* inputs are quiet during reset, so no lookup is under way after it.      *)
(***************************************************************************)
Init ==
  /\ state = "serve"
  /\ lastGrant \in Cores
  /\ prevChoice \in Cores
  /\ valids \in ResetValids
  /\ tags \in [Lines -> Tags]
  /\ data \in [Lines -> Data]
  /\ cacheMiss \in Addr
  /\ look = [fired |-> FALSE, valid |-> FALSE, tag |-> cacheMiss.tag,
             word |-> Word(cacheMiss)]
  /\ axi = NoAddr
  /\ req = [c \in Cores |-> NoAddr]
  /\ inflight = [c \in Cores |-> <<>>]
  /\ got = [c \in Cores |-> NoAddr]

(***************************************************************************)
(* The wires of cacheRsp.  tag_target and instr_target are registered with *)
(* the request, exactly when cacheMiss is.                                 *)
(***************************************************************************)
(* Mutant: a valid line hits whatever its tag. *)
ValidHit == look.valid

TagHit == look.valid /\ look.tag = cacheMiss.tag
Hit == look.fired /\ TagHit
Miss == look.fired /\ ~TagHit

(* The synchronous read of valid bit, tag and word of an accepted address. *)
Lookup(a) == [fired |-> TRUE, valid |-> valids[a.line], tag |-> tags[a.line],
              word |-> data[a.line][a.instr]]

(* History: core c receives word w, which answers its oldest request. *)
Drop(s) == IF s = <<>> THEN s ELSE Tail(s)
Answer(c, w) == [got EXCEPT ![c] = w]

(* The core raises a request and holds it until it is accepted. *)
Fetch(c, a) ==
  /\ req[c] = NoAddr
  /\ req' = [req EXCEPT ![c] = a]
  /\ UNCHANGED <<regs, axi, inflight, got>>

(* Mutant: the core with the lowest number goes first (a plain Arbiter). *)
ChoiceByNumber == Chosen(NumInp, {c \in Cores : req[c] # NoAddr}, NumInp - 1)

Choice == Chosen(NumInp, {c \in Cores : req[c] # NoAddr}, lastGrant)

(* Mutant: the miss of this cycle does not close the port. *)
ReadyInServe == state = "serve"

(* req.ready: serving, and the lookup of this cycle does not miss. *)
Ready == state = "serve" /\ ~Miss

(* The hit of this cycle drives the response of the core it belongs to. *)
Respond ==
  /\ got' = IF Hit THEN Answer(prevChoice, look.word) ELSE got

Pending(c) == IF Hit /\ c = prevChoice THEN Drop(inflight[c]) ELSE inflight[c]

(* Clock edge: the arbiter's choice is accepted (req.fire). *)
Accept(c) ==
  /\ Ready
  /\ c = Choice
  /\ req[c] # NoAddr
  /\ look' = Lookup(req[c])
  /\ cacheMiss' = req[c]
  /\ prevChoice' = c
  /\ lastGrant' = LastGrant(lastGrant, c, TRUE)
  /\ req' = [req EXCEPT ![c] = NoAddr]
  /\ Respond
  /\ inflight' = [d \in Cores |-> IF d = c THEN Append(Pending(d), req[c])
                                           ELSE Pending(d)]
  /\ UNCHANGED <<state, valids, tags, data, axi>>

(* Clock edge: nothing to accept; a hit is still answered. *)
Quiet ==
  /\ Ready
  /\ look.fired
  /\ req[Choice] = NoAddr
  /\ look' = [look EXCEPT !.fired = FALSE]
  /\ Respond
  /\ inflight' = [d \in Cores |-> Pending(d)]
  /\ UNCHANGED <<state, lastGrant, prevChoice, valids, tags, data, cacheMiss,
                 axi, req>>

(* Clock edge: the lookup misses and the AXI address port is not ready. *)
MissWait ==
  /\ state = "serve" /\ Miss
  /\ state' = "req"
  /\ look' = [look EXCEPT !.fired = FALSE]
  /\ UNCHANGED <<lastGrant, prevChoice, valids, tags, data, cacheMiss,
                 axi, req, inflight, got>>

(* Clock edge: the line address is taken (ar.fire), in the cycle of the    *)
(* miss or in a later one.                                                 *)
ArFire ==
  /\ (state = "serve" /\ Miss) \/ state = "req"
  /\ state' = "axi"
  /\ axi' = LineOf(cacheMiss)
  /\ look' = [look EXCEPT !.fired = FALSE]
  /\ UNCHANGED <<lastGrant, prevChoice, valids, tags, data, cacheMiss,
                 req, inflight, got>>

(* Clock edge: the line returns (r.fire), is written and answers the core. *)
Fill ==
  /\ state = "axi"
  /\ axi # NoAddr
  /\ valids' = [valids EXCEPT ![cacheMiss.line] = TRUE]
  /\ tags' = [tags EXCEPT ![cacheMiss.line] = cacheMiss.tag]
  /\ data' = [data EXCEPT ![cacheMiss.line] = Mem[axi]]
  /\ got' = Answer(prevChoice, Mem[axi][cacheMiss.instr])
  /\ inflight' = [inflight EXCEPT ![prevChoice] = Drop(@)]
  /\ state' = "serve"
  /\ axi' = NoAddr
  /\ UNCHANGED <<lastGrant, prevChoice, look, cacheMiss, req>>

Clock == (\E c \in Cores : Accept(c)) \/ Quiet \/ MissWait \/ ArFire \/ Fill

Next == (\E c \in Cores, a \in Addr : Fetch(c, a)) \/ Clock

Spec == Init /\ [][Next]_vars

(***************************************************************************)
(* The clock never stops; outside, the AXI slave takes an address it is    *)
(* offered and answers every address it took.                              *)
(***************************************************************************)
Fairness ==
  /\ WF_vars((\E c \in Cores : Accept(c)) \/ Quiet \/ MissWait)
  /\ WF_vars(ArFire)
  /\ WF_vars(Fill)

FairSpec == Spec /\ Fairness

------------------------------------------------------------------------------
TypeOK ==
  /\ state \in {"serve", "req", "axi"}
  /\ lastGrant \in Cores /\ prevChoice \in Cores
  /\ valids \in [Lines -> BOOLEAN]
  /\ tags \in [Lines -> Tags]
  /\ data \in [Lines -> Data]
  /\ look \in [fired : BOOLEAN, valid : BOOLEAN, tag : Tags, word : Words]
  /\ cacheMiss \in Addr
  /\ axi \in LineAddr \cup {NoAddr}
  /\ req \in [Cores -> Addr \cup {NoAddr}]
  /\ inflight \in [Cores -> Seq(Addr)]
  /\ got \in [Cores -> Words \cup {NoAddr}]

(* The cache owes an answer: a lookup is under way or a miss is handled. *)
Busy == look.fired \/ state # "serve"

(***************************************************************************)
(* No valid line ever holds words of another address: what a line holds is *)
(* what the memory holds under the line's tag.                             *)
(***************************************************************************)
LinesCoherent ==
  \A l \in Lines : valids[l] => data[l] = Mem[<<tags[l], l>>]

(***************************************************************************)
(* The single prevChoice / cacheMiss pair is enough to route every answer: *)
(* exactly the last accepted request is unanswered while the cache is      *)
(* busy, it belongs to prevChoice and is the address in cacheMiss.         *)
(***************************************************************************)
OneOwner ==
  \A c \in Cores :
    inflight[c] = IF Busy /\ c = prevChoice THEN <<cacheMiss>> ELSE <<>>

(***************************************************************************)
(* The line that returns over AXI is the line that missed: an address is   *)
(* outstanding exactly in state axi, and it is the one of cacheMiss.       *)
(***************************************************************************)
AxiOwner == axi = IF state = "axi" THEN LineOf(cacheMiss) ELSE NoAddr

(***************************************************************************)
(* Seen from the cores the cache is the memory itself: every accepted      *)
(* request is answered once, in order, with the word at its address.       *)
(***************************************************************************)
Port == INSTANCE InstrPort WITH
          Value <- [a \in Addr |-> Word(a)], NoWord <- NoAddr

PortSpec == Port!Spec

(***************************************************************************)
(* A core never starves: what it requests is accepted, whatever the other  *)
(* cores request and however slow the memory is, and a miss always ends.   *)
(***************************************************************************)
EveryFetchAccepted ==
  /\ \A c \in Cores : (req[c] # NoAddr) ~> (req[c] = NoAddr)
  /\ (state # "serve") ~> (state = "serve")
==============================================================================
