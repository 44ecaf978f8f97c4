----------------------------- MODULE ClusterSync -----------------------------
(***************************************************************************)
(* How the cores of a cluster and the manager core meet.  A device core    *)
(* synchronises by reading a control register: CsrDemux sends the access   *)
(* to HWBarrier (cluster_sync), through CsrCombiner to GlobalBarrier       *)
(* (global_sync), or to the core's accelerator.  The manager synchronises  *)
(* by a store that reaches GlobalBarrier over AXI.                         *)
(*                                                                         *)
(* One step is one clock edge.  "issue" is the set of cores that raise     *)
(* their next access, "accReady" that of the accelerators that are ready,  *)
(* "store" tells whether the manager raises its next store and "bReady"    *)
(* whether it takes a write response in this cycle.                        *)
(***************************************************************************)
EXTENDS ClusterCores, Naturals, Sequences

CONSTANTS
  Manager,       \* the manager core
  Programs,      \* functions from Cores to sequences of accesses
  ManagerSyncs,  \* bound: stores the manager makes
  ManagerWaits   \* do the cores tell the manager that they left a global sync?

Accesses == [addr : Nat, op : {"read", "write"}]

ASSUME SyncAssumption ==
  /\ Cores # {} /\ Manager \notin Cores
  /\ ManagerSyncs \in Nat /\ ManagerWaits \in BOOLEAN
  /\ Programs \subseteq [Cores -> Seq(Accesses)]

VARIABLES
  todo,               \* todo[c]: the accesses core c has not done yet
  held,               \* held[c]: core c waits with its access raised
  storeHeld,          \* the manager's store waits to be accepted
  managerValid,       \* the manager has asked for a synchronisation
  managerRespPending, \* its store has not been answered
  stores,             \* history: stores accepted
  local,              \* history: local[c], cluster_syncs core c has left
  global              \* history: global[c], global_syncs core c has left

coreVars == <<todo, held, local, global>>
managerVars == <<storeHeld, managerValid, managerRespPending, stores>>
syncVars == <<coreVars, managerVars>>

Zero == [c \in Cores |-> 0]
SyncInit ==
  /\ todo \in Programs
  /\ held = [c \in Cores |-> FALSE]
  /\ storeHeld = FALSE
  /\ managerValid = FALSE /\ managerRespPending = FALSE
  /\ stores = 0 /\ local = Zero /\ global = Zero

------------------------------------------------------------------------------
(* CsrDemux, with the ranges CoreSubsystem gives it. *)
GlobalBase == 2048   \* 0x800
LocalBase == 2064    \* 0x810
RangeSize == 16
Decode(addr) ==
  IF GlobalBase <= addr /\ addr < GlobalBase + RangeSize THEN "global"
  ELSE IF LocalBase <= addr /\ addr < LocalBase + RangeSize THEN "local"
  ELSE "accelerator"
Base(port) == CASE port = "global" -> GlobalBase [] port = "local" -> LocalBase
                [] OTHER -> 0

Access(c) == Head(todo[c])
Port(c) == Decode(Access(c).addr)

(* Mutant: the address is forwarded as it is. *)
WholeAddr(c) == Access(c).addr
PortAddr(c) == Access(c).addr - Base(Port(c))

(* A core holds an access until it is accepted. *)
Valid(c, issue) == todo[c] # <<>> /\ (held[c] \/ c \in issue)
ValidAt(c, issue, port) == Valid(c, issue) /\ Port(c) = port

(* Mutant: one core at the barrier opens it. *)
LocalSyncAny(issue) == \E c \in Cores : ValidAt(c, issue, "local") /\ PortAddr(c) = 0

(* HWBarrier *)
LocalSync(issue) == \A c \in Cores : ValidAt(c, issue, "local") /\ PortAddr(c) = 0

(* CsrCombiner *)
Combined(issue) ==
  /\ \A c \in Cores : ValidAt(c, issue, "global")
  /\ \A c \in Cores : Access(c).op = "read"
  /\ \A c, d \in Cores : PortAddr(c) = PortAddr(d)

(* Mutant: the cluster does not wait for the manager. *)
SyncAlone(issue) == Combined(issue) /\ \A c \in Cores : PortAddr(c) = 0

(* GlobalBarrier *)
Sync(issue) == managerValid /\ Combined(issue) /\ \A c \in Cores : PortAddr(c) = 0

Ready(c, issue, accReady) ==
  CASE Port(c) = "global" -> Sync(issue)
    [] Port(c) = "local" -> LocalSync(issue)
    [] OTHER -> c \in accReady

Passes(c, issue, accReady) == Valid(c, issue) /\ Ready(c, issue, accReady)

(* Mutant: an accepted access stays raised. *)
HoldsAlways(c, issue, accReady) == Valid(c, issue)
Holds(c, issue, accReady) == Valid(c, issue) /\ ~Passes(c, issue, accReady)

------------------------------------------------------------------------------
CoresEdge(issue, accReady) ==
  LET Left(c, port) == IF Passes(c, issue, accReady) /\ Port(c) = port THEN 1 ELSE 0
  IN  /\ todo' = [c \in Cores |-> IF Passes(c, issue, accReady) THEN Tail(todo[c])
                                  ELSE todo[c]]
      /\ held' = [c \in Cores |-> Holds(c, issue, accReady)]
      /\ local' = [c \in Cores |-> local[c] + Left(c, "local")]
      /\ global' = [c \in Cores |-> global[c] + Left(c, "global")]

(***************************************************************************)
(* The manager raises a store.  It never reads managerValid; a manager     *)
(* that waits has been told by the cores that they left the last           *)
(* global_sync.                                                            *)
(***************************************************************************)
MayStore ==
  /\ stores < ManagerSyncs
  /\ ManagerWaits => \A c \in Cores : global[c] = stores
StoreValid(store) == storeHeld \/ (store /\ MayStore)
StoreFire(store) == StoreValid(store) /\ ~managerRespPending

RspFire(bReady) == managerRespPending /\ bReady

(* When a store arrives in the cycle of a synchronisation, the latter's    *)
(* assignment to managerValid is the last one and counts.                  *)
ManagerEdge(issue, store, bReady) ==
  /\ storeHeld' = (StoreValid(store) /\ ~StoreFire(store))
  /\ managerValid' = (~Sync(issue) /\ (managerValid \/ StoreFire(store)))
  /\ managerRespPending' = (StoreFire(store) \/ (managerRespPending /\ ~RspFire(bReady)))
  /\ stores' = IF StoreFire(store) THEN stores + 1 ELSE stores

Clock(issue, accReady, store, bReady) ==
  CoresEdge(issue, accReady) /\ ManagerEdge(issue, store, bReady)

SyncNext == \E issue, accReady \in SUBSET Cores, store, bReady \in BOOLEAN :
          Clock(issue, accReady, store, bReady)

SyncSpec == SyncInit /\ [][SyncNext]_syncVars

------------------------------------------------------------------------------
SyncTypeOK ==
  /\ todo \in [Cores -> Seq(Accesses)]
  /\ held \in [Cores -> BOOLEAN]
  /\ \A c \in Cores : held[c] => todo[c] # <<>>
  /\ storeHeld \in BOOLEAN /\ managerValid \in BOOLEAN
  /\ managerRespPending \in BOOLEAN
  /\ stores \in Nat
  /\ local \in [Cores -> Nat] /\ global \in [Cores -> Nat]

Waiting(port) == {c \in Cores : held[c] /\ Port(c) = port}

(***************************************************************************)
(* cluster_sync is a barrier of the cores, whatever they do in between.    *)
(***************************************************************************)
LocalBarrier == INSTANCE Barrier WITH
  Parties <- Cores, arrived <- Waiting("local"), rounds <- local
LocalSpec == LocalBarrier!Spec

(***************************************************************************)
(* global_sync is a barrier of the cores and the manager, whose arrival is *)
(* its store: no store is lost, and no core leaves before the store of its *)
(* round.                                                                  *)
(***************************************************************************)
GlobalBarrier == INSTANCE Barrier WITH
  Parties <- Cores \cup {Manager},
  arrived <- Waiting("global") \cup (IF managerValid THEN {Manager} ELSE {}),
  rounds <- [p \in Cores \cup {Manager} |->
               IF p = Manager THEN stores - (IF managerValid THEN 1 ELSE 0)
               ELSE global[p]]
GlobalSpec == GlobalBarrier!Spec

(* Cores whose programs synchronise in the same order all finish. *)
ProgramsEnd == <>(\A c \in Cores : todo[c] = <<>>)
==============================================================================
