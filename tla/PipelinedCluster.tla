-------------------------- MODULE PipelinedCluster ---------------------------
(***************************************************************************)
(* The pipelined program on the cores of a cluster: each cluster_sync that *)
(* ends a phase of Pipeline is an access to the control register of        *)
(* ClusterSync.  Before the kernel a core does other accesses, its         *)
(* prologue (start-up, accelerator registers, global syncs).               *)
(***************************************************************************)
EXTENDS Pipeline, ClusterSync

SyncAccess == [addr |-> LocalBase, op |-> "read"]

(* A core's program ends with the kernel, a sync for each of its phases. *)
ASSUME KernelAssumption ==
  \A p \in Programs, c \in Cores :
    /\ Len(p[c]) >= NumPhases
    /\ \A k \in 1 .. NumPhases : p[c][Len(p[c]) - NumPhases + k] = SyncAccess

sysVars == <<vars, syncVars>>

SysInit == Init /\ SyncInit

(* Nothing but the kernel is left of the core's program. *)
InKernel(c) == Len(todo[c]) <= NumPhases

(* In the kernel a core comes to a sync after the stages of the phase. *)
MayIssue(c) == InKernel(c) => AtSync(c)

(* Between two accesses a core runs the stages of its phase. *)
Work(c) ==
  /\ InKernel(c)
  /\ Skip(c) \/ Begin(c) \/ End(c)
  /\ UNCHANGED syncVars

Issuing == {c \in Cores : todo[c] # <<>> /\ MayIssue(c)}
Accessed == {c \in Cores : todo[c] # <<>> /\ Port(c) = "accelerator"}

(* A clock edge; the one at which all cores leave a sync ends the phase. *)
Edge(issue, accReady, store, bReady) ==
  /\ Clock(issue, accReady, store, bReady)
  /\ IF LocalSync(issue) /\ \A c \in Cores : InKernel(c)
     THEN ClusterSync ELSE UNCHANGED vars

SysNext ==
  \/ \E c \in Cores : Work(c)
  \/ \E issue \in SUBSET Issuing, accReady \in SUBSET Accessed, store, bReady \in BOOLEAN :
       Edge(issue, accReady, store, bReady)

SysSpec == SysInit /\ [][SysNext]_sysVars

(***************************************************************************)
(* No core stops in the middle of a phase or before an access, each        *)
(* accelerator is ready again and again, the manager goes on and takes its *)
(* responses.                                                              *)
(***************************************************************************)
CoreGoesOn(c) ==
  /\ c \in Issuing
  /\ \E issue \in SUBSET Issuing, accReady \in SUBSET Accessed, store, bReady \in BOOLEAN :
       /\ c \in issue /\ (c \in Accessed => c \in accReady)
       /\ Edge(issue, accReady, store, bReady)
ManagerGoesOn ==
  \E issue \in SUBSET Issuing, accReady \in SUBSET Accessed :
    Edge(issue, accReady, TRUE, TRUE)
SysFairSpec ==
  /\ SysSpec /\ WF_sysVars(ManagerGoesOn)
  /\ \A c \in Cores : WF_sysVars(Work(c)) /\ WF_sysVars(CoreGoesOn(c))
==============================================================================
