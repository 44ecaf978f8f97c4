---------------------------- MODULE CsrInterface -----------------------------
(***************************************************************************)
(* The control interface between a core and an accelerator                 *)
(* (src/main/scala/csr/CsrInterface.scala).  No variables: "c" is the      *)
(* record [shadow, vals] of both register sets, "req" the access the core  *)
(* presents in a cycle, a record [valid, addr, wdata].  The operation of   *)
(* the access (read, write, set, clear) is not looked at by the code.      *)
(***************************************************************************)
CONSTANTS
  Regs,     \* configuration registers; one may stand for a group of them
  StartReg  \* the address after the last register

ASSUME StartRegAssumption == StartReg \notin Regs

CsrReset(zero) == [shadow |-> zero, vals |-> zero]

(* An access to the start register waits until the accelerator is done. *)
SyncAccess(req, done) == done /\ req.valid /\ req.addr = StartReg
RegAccess(req) == req.valid /\ req.addr \in Regs

(* Only the value 1 starts; any other access is a wait for completion. *)
CsrStart(req, done) == SyncAccess(req, done) /\ req.wdata = 1

(* Mutant: only a start goes on when the accelerator is done. *)
ReadyOnStartOnly(req, done) == CsrStart(req, done) \/ RegAccess(req)

CsrReady(req, done) == SyncAccess(req, done) \/ RegAccess(req)

(* Mutant: one set of registers, written while the accelerator reads it. *)
WrittenAtOnce(c, req, done) ==
  IF RegAccess(req) THEN [c.vals EXCEPT ![req.addr] = req.wdata] ELSE c.vals

(* At a start the shadow registers become the values. *)
ValsNext(c, req, done) == IF CsrStart(req, done) THEN c.shadow ELSE c.vals

CsrNext(c, req, done) ==
  [shadow |-> IF RegAccess(req) THEN [c.shadow EXCEPT ![req.addr] = req.wdata]
                                ELSE c.shadow,
   vals |-> ValsNext(c, req, done)]
==============================================================================
