---------------------------- MODULE LxcFreezer -----------------------------
(***************************************************************************)
(* freezer/lxc.go and fdtracker.go: one Freeze and one Thaw call of the    *)
(* LXCFreezer on a container: FIFREEZE on its mountpoint, else sync and    *)
(* the cgroup freezer.  None of the commands has a timeout.                *)
(***************************************************************************)
EXTENDS Naturals

CONSTANT CT   \* the containers of the job

VARIABLES
  ctSteps,   \* "freeze", "zfs" or "foreign": what the chain holds for a container
  ctFs,      \* the container's filesystem, frozen by FIFREEZE
  cgroup,    \* the container's processes, frozen through cgroup.freeze
  fd,        \* freezeHandles: the containers with an open descriptor
  ctAt,      \* program counter of the Freezer's call
  ctRet      \* what the call returns

lxcVars == <<ctSteps, ctFs, cgroup, fd, ctAt, ctRet>>

LxcInit ==
  /\ ctSteps \in [CT -> {"freeze", "zfs", "foreign"}]
  /\ ctFs = [c \in CT |-> "running"]
  /\ cgroup = [c \in CT |-> "running"]
  /\ fd = {}
  /\ ctAt = [c \in CT |-> "idle"]
  /\ ctRet = [c \in CT |-> "pending"]

CtReturning(c, r) ==
  /\ ctRet' = [ctRet EXCEPT ![c] = r]
  /\ ctAt' = [ctAt EXCEPT ![c] = "returned"]

\* A chain without the freeze step, or a dataset without a usable mountpoint,
\* ends the call; otherwise FIFREEZE is tried.
LxcFreezeBegin(c) ==
  /\ ctAt[c] = "idle"
  /\ \/ ctSteps[c] = "zfs" /\ CtReturning(c, "zfs-only")
     \/ ctSteps[c] # "zfs" /\ CtReturning(c, "error")
     \/ /\ ctSteps[c] = "freeze"
        /\ ctAt' = [ctAt EXCEPT ![c] = "fsfreeze"]
        /\ UNCHANGED ctRet
  /\ UNCHANGED <<ctSteps, ctFs, cgroup, fd>>

\* FIFREEZE works and the descriptor is kept, or the cgroup is next.
Fsfreeze(c) ==
  /\ ctAt[c] = "fsfreeze"
  /\ \/ /\ ctFs' = [ctFs EXCEPT ![c] = "frozen"]
        /\ fd' = fd \cup {c}
        /\ CtReturning(c, "held")
     \/ /\ ctAt' = [ctAt EXCEPT ![c] = "sync"]
        /\ UNCHANGED <<ctFs, fd, ctRet>>
  /\ UNCHANGED <<ctSteps, cgroup>>

\* sync of the mountpoint; its error ends the call.
Sync(c) ==
  /\ ctAt[c] = "sync"
  /\ \/ ctAt' = [ctAt EXCEPT ![c] = "cgroup"] /\ UNCHANGED ctRet
     \/ CtReturning(c, "error")
  /\ UNCHANGED <<ctSteps, ctFs, cgroup, fd>>

CgroupFreeze(c) ==
  /\ ctAt[c] = "cgroup"
  /\ \/ cgroup' = [cgroup EXCEPT ![c] = "frozen"] /\ CtReturning(c, "held")
     \/ CtReturning(c, "error") /\ UNCHANGED cgroup
  /\ UNCHANGED <<ctSteps, ctFs, fd>>

\* Thaw: with a descriptor FITHAW, after which the descriptor is gone whatever
\* came of it; without one the cgroup is thawed.
LxcThaw(c) ==
  /\ ctAt[c] = "idle"
  /\ \/ /\ c \in fd
        /\ fd' = fd \ {c}
        /\ \/ ctFs' = [ctFs EXCEPT ![c] = "running"] /\ CtReturning(c, "ok")
           \/ CtReturning(c, "failed") /\ UNCHANGED ctFs
        /\ UNCHANGED cgroup
     \/ /\ c \notin fd
        /\ \/ cgroup' = [cgroup EXCEPT ![c] = "running"] /\ CtReturning(c, "ok")
           \/ CtReturning(c, "failed") /\ UNCHANGED cgroup
        /\ UNCHANGED <<ctFs, fd>>
  /\ UNCHANGED ctSteps

LxcTypeOK ==
  /\ ctSteps \in [CT -> {"freeze", "zfs", "foreign"}]
  /\ ctFs \in [CT -> {"running", "frozen"}]
  /\ cgroup \in [CT -> {"running", "frozen"}]
  /\ fd \subseteq CT
  /\ ctAt \in [CT -> {"idle", "fsfreeze", "sync", "cgroup", "returned"}]
  /\ ctRet \in [CT -> {"pending", "held", "zfs-only", "error", "ok", "failed"}]
=============================================================================
