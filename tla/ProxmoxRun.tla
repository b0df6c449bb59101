----------------------------- MODULE ProxmoxRun -----------------------------
(***************************************************************************)
(* "snap" on a Proxmox host: SnapRun with the two Freezers it meets there. *)
(* The session's calls into a Freezer and their returns are joint actions; *)
(* in between, the Freezer and the devices run on their own, and the       *)
(* devices keep running when the run is over.                              *)
(***************************************************************************)
EXTENDS SnapRun, QemuFreezer, LxcFreezer

ASSUME GuestsAreVMsAndCTs == Guest = VM \cup CT /\ VM \cap CT = {}

proxVars == <<snapVars, qemuVars, lxcVars>>

ProxInit ==
  /\ SnapInit
  /\ registered = Guest
  /\ QemuInit
  /\ LxcInit
  /\ \A v \in VM : v \in best <=> v \notin strict
  /\ \A c \in CT : ctSteps[c] = "zfs" => c \notin strict

\* One call at a time is under way for a guest: "returned" is consumed here.
QemuReturns(v) ==
  /\ at[v] = "returned"
  /\ at' = [at EXCEPT ![v] = "idle"]
  /\ UNCHANGED <<chain, best, misread, devVars, step, strategy, ret>>

LxcReturns(c) ==
  /\ ctAt[c] = "returned"
  /\ ctAt' = [ctAt EXCEPT ![c] = "idle"]
  /\ UNCHANGED <<ctSteps, ctFs, cgroup, fd, ctRet>>

QemuSession(v) ==
  /\ \/ FreezeCall(v) /\ FreezeBegin(v)
     \/ FreezeReturn(v, ret[v]) /\ QemuReturns(v)
     \/ FreezeRecord(v) /\ UNCHANGED qemuVars
     \/ ThawCall(v) /\ ThawBegin(v)
     \/ ThawReturn(v, ret[v] = "ok") /\ QemuReturns(v)
  /\ UNCHANGED <<runVars, lxcVars>>

LxcSession(c) ==
  /\ \/ FreezeCall(c) /\ LxcFreezeBegin(c)
     \/ FreezeReturn(c, ctRet[c]) /\ LxcReturns(c)
     \/ FreezeRecord(c) /\ UNCHANGED lxcVars
     \/ ThawCall(c) /\ LxcThaw(c)
     \/ ThawReturn(c, ctRet[c] = "ok") /\ LxcReturns(c)
  /\ UNCHANGED <<runVars, qemuVars>>

Main        == MainStep /\ UNCHANGED <<qemuVars, lxcVars>>
QemuCall(v) == QemuCallStep(v) /\ UNCHANGED <<snapVars, lxcVars>>
Device(v)   == DeviceStep(v) /\ UNCHANGED <<snapVars, lxcVars>>
Switch(v)   == (VmStarts(v) \/ VmStops(v)) /\ UNCHANGED <<snapVars, lxcVars>>
LxcCall(c)  == (Fsfreeze(c) \/ CgroupFreeze(c)) /\ UNCHANGED <<snapVars, qemuVars>>
LxcSync(c)  == Sync(c) /\ UNCHANGED <<snapVars, qemuVars>>

ProxNext ==
  \/ Main
  \/ \E v \in VM : QemuSession(v) \/ QemuCall(v) \/ Device(v) \/ Switch(v)
  \/ \E c \in CT : LxcSession(c) \/ LxcCall(c) \/ LxcSync(c)

ProxSpec == ProxInit /\ [][ProxNext]_proxVars

(***************************************************************************)
(* Fairness: the process runs; a QEMU step ends because its deadline makes *)
(* QemuCall enabled whatever the devices do; the ioctl and the cgroup      *)
(* write return.  Nothing bounds sync: LxcSyncs is a separate assumption.  *)
(***************************************************************************)
ProxFairness ==
  /\ WF_proxVars(Main)
  /\ \A v \in VM : SF_proxVars(QemuSession(v)) /\ WF_proxVars(QemuCall(v))
  /\ \A c \in CT : SF_proxVars(LxcSession(c)) /\ WF_proxVars(LxcCall(c))

LxcSyncs == \A c \in CT : WF_proxVars(LxcSync(c))

ProxFairSpec      == ProxSpec /\ ProxFairness /\ LxcSyncs
ProxSyncHangsSpec == ProxSpec /\ ProxFairness

-----------------------------------------------------------------------------
\* Type invariant: the session, the run and both Freezers.
ProxTypeOK == SnapTypeOK /\ QemuTypeOK /\ LxcTypeOK

\* The Freezers keep to the interface the session relies on: their calls return
\* one of Returns, zfs-only never for a strict chain, and they act within the
\* session's calls only, so that all that holds of SnapRun holds here.
ImplementsRun == SnapSpec

\* What the strategy a result stands for means at the device; a VM that is off
\* is quiet in any case, and of one whose stop was taken for done on account of an
\* event nothing is known (PauseStopsCpu, which the code does not keep, is about it).
Quiet(g) ==
  IF g \in CT THEN ctFs[g] = "frozen" \/ cgroup[g] = "frozen"
  ELSE \/ ~on[g]
       \/ strategy[g] = "qga" /\ fs[g] = "frozen"
       \/ strategy[g] = "qmp-pause" /\ (cpu[g] = "paused" \/ <<g, "stop">> \in misread)
       \/ strategy[g] = "qm-mem" /\ mem[g]

\* The ZFS snapshot is taken while every guest reported frozen by a step really
\* is quiet: no late answer, fallback, stop of the VM or other guest's failure has
\* let it go.  A stop that an event was taken for the answer to is left out.
QuietAtSnapshot ==
  [][zfs' # zfs =>
       \A g \in Guest : result[g].frozen /\ (g \in VM => strategy[g] # "stopped")
                          => Quiet(g)]_proxVars

\* qemu.go:141-142 "a VM that is not running has nothing to freeze and is
\* consistent as it stands": still true when the snapshot is taken.
StoppedIsQuietAtSnapshot ==
  [][zfs' # zfs =>
       \A v \in VM : result[v].frozen /\ strategy[v] = "stopped" => Quiet(v)]_proxVars

\* qemu.go:41-44 "pauses ALL vCPU execution ... works universally": the CPUs of a
\* VM reported frozen by qmp-pause are stopped when the snapshot is taken.
PauseStopsCpu ==
  [][zfs' # zfs =>
       \A v \in VM : result[v].frozen /\ strategy[v] = "qmp-pause" /\ on[v]
                       => cpu[v] = "paused"]_proxVars

\* A thaw that is reported as done was done: what the remembered strategy had
\* stopped runs again, for as long as the run lasts; unless an event was taken for
\* the answer to cont before it was carried out (ThawedCpuRuns is about that).
ThawedMeansRunning ==
  \A g \in Guest : result[g].thawed =>
    IF g \in CT THEN ctFs[g] = "running" /\ cgroup[g] = "running"
    ELSE /\ strategy[g] = "qga" => fs[g] = "running"
         /\ strategy[g] = "qmp-pause" /\ <<g, "cont">> \notin misread
              => cpu[g] = "running"

\* freezer.go:83 "Thaw resumes guest I/O": a VM that is reported thawed has its CPUs
\* running again.
ThawedCpuRuns ==
  \A v \in VM : result[v].thawed /\ strategy[v] = "qmp-pause" => cpu[v] = "running"

\* A container is frozen in one way only, and as long as Thaw has not failed on
\* it the Freezer knows in which.
CtThawKnowsHow ==
  \A c \in CT : /\ ~(ctFs[c] = "frozen" /\ cgroup[c] = "frozen")
                /\ ctFs[c] = "frozen" => c \in fd \/ ctRet[c] = "failed"

\* main.go:2-4 "freezes their I/O ..., takes the ZFS snapshot, and thaws them
\* again - guaranteed": when the run is over and no thaw was reported to have
\* failed, no VM's filesystem or CPU is left stopped, even if no event was ever
\* taken for an answer.
NobodyLeftFrozen ==
  pc = "exit" /\ misread = {} /\ (\A g \in Guest : result[g].warning # "thaw") =>
    \A v \in VM : fs[v] = "running" /\ cpu[v] = "running"

\* README.md:187 "A failed or timed-out qm snapshot is removed again": a memory
\* snapshot in the config belongs to a guest reported as qm-mem.
NoMemLeftover ==
  pc = "exit" => \A v \in VM : mem[v] => strategy[v] = "qm-mem"

\* README.md:136 "A step that runs out of time counts as failed and the next
\* step starts": the freeze phase ends.
FreezePhaseEnds == phase = "freezing" ~> phase = "open"
=============================================================================
