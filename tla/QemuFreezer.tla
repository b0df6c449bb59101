---------------------------- MODULE QemuFreezer ----------------------------
(***************************************************************************)
(* freezer/qemu.go: how one Freeze and one Thaw call of the QEMUFreezer    *)
(* act on a Proxmox VM, together with what they act on: the guest agent,   *)
(* QEMU's monitor and a qm worker, each of which carries out a command in  *)
(* its own time, also when the caller has stopped waiting for it.          *)
(* Retention of memory snapshots (pruneMem) is in MemSnaps.                *)
(***************************************************************************)
EXTENDS Naturals, Sequences

CONSTANTS VM,        \* the Proxmox VMs of the job
          QemuChains,\* the chains a VM may have: sequences of step kinds
          Switched   \* VMs that somebody starts or stops, once, while the job runs

\* Step kinds of a chain; the terminating zfs is a separate flag in the code.
StepKind == {"freeze", "memory", "plain", "pause"}

ASSUME QemuConstants == QemuChains \subseteq Seq(StepKind) /\ Switched \subseteq VM

VARIABLES
  chain,    \* the chain that applies to the VM
  best,     \* the VMs whose chain ends with zfs
  on,       \* the VM runs, i.e. its QMP socket exists
  settled,  \* the VMs that are not switched any more
  fs,       \* the guest's filesystems, frozen through the agent
  cpu,      \* the VM's CPUs, stopped through QMP
  mem,      \* the memory snapshot of this run is in the VM's config
  agent,    \* the agent's command: waiting to be carried out, or answered
  monitor,  \* the same for QEMU's monitor
  worker,   \* the qm worker that writes the memory snapshot
  at,       \* program counter of the Freezer's call for the VM
  step,     \* index of the chain step being tried
  strategy, \* q.strategies, by VM
  ret,      \* what the call returns
  misread   \* history: VMs with the commands of theirs that an event was taken for
            \* the answer to before they had been carried out

devVars  == <<on, settled, fs, cpu, mem, agent, monitor, worker>>
callVars == <<at, step, strategy, ret>>
qemuVars == <<chain, best, devVars, callVars, misread>>

\* Chain.StepsFor: the steps that exist for a Proxmox VM.
Steps(v) ==
  LET c == chain[v]
      upto[i \in 0..Len(c)] ==
        IF i = 0 THEN <<>>
        ELSE IF c[i] \in {"freeze", "pause", "memory"} THEN Append(upto[i - 1], c[i])
        ELSE upto[i - 1]
  IN  upto[Len(c)]

Foreign(v) == Len(Steps(v)) < Len(chain[v])
Trying(v, kind) == at[v] = "step" /\ step[v] <= Len(Steps(v)) /\ Steps(v)[step[v]] = kind

QemuInit ==
  /\ chain \in [VM -> QemuChains]
  /\ best \in SUBSET VM
  /\ \A v \in VM : chain[v] = <<>> => v \in best
  /\ on \in [VM -> BOOLEAN]
  /\ settled = VM \ Switched
  /\ fs = [v \in VM |-> "running"]
  /\ cpu = [v \in VM |-> "running"]
  /\ mem = [v \in VM |-> FALSE]
  /\ agent = [v \in VM |-> "idle"]
  /\ monitor = [v \in VM |-> "idle"]
  /\ worker = [v \in VM |-> "idle"]
  /\ at = [v \in VM |-> "idle"]
  /\ step = [v \in VM |-> 1]
  /\ strategy = [v \in VM |-> "unset"]
  /\ ret = [v \in VM |-> "pending"]
  /\ misread = {}

-----------------------------------------------------------------------------
(* The devices. *)

QgaPoint == {"qga", "qga 0", "thaw qga"}
QmpPoint == {"qmp", "thaw qmp"}

\* An answer that comes when nobody waits for it is dropped.
Heard(v, points, answer) == IF at[v] \in points THEN answer ELSE "idle"

\* The agent carries out guest-fsfreeze-freeze: it freezes something, or
\* nothing (answer 0), or refuses.  A paused VM's agent does not run.
AgentFreezes(v) ==
  /\ agent[v] = "freeze" /\ cpu[v] = "running"
  /\ \E answer \in {"froze", "froze 0", "refused"} :
       /\ fs' = IF answer = "froze" THEN [fs EXCEPT ![v] = "frozen"] ELSE fs
       /\ agent' = [agent EXCEPT ![v] = Heard(v, QgaPoint, answer)]
  /\ UNCHANGED <<chain, best, misread, on, settled, cpu, mem, monitor, worker,
                 callVars>>

AgentThaws(v) ==
  /\ agent[v] = "thaw" /\ cpu[v] = "running"
  /\ \E answer \in {"thawed", "refused"} :
       /\ fs' = IF answer = "thawed" THEN [fs EXCEPT ![v] = "running"] ELSE fs
       /\ agent' = [agent EXCEPT ![v] = Heard(v, QgaPoint, answer)]
  /\ UNCHANGED <<chain, best, misread, on, settled, cpu, mem, monitor, worker,
                 callVars>>

\* QEMU carries out stop or cont.
MonitorActs(v) ==
  /\ monitor[v] \in {"stop", "cont"}
  /\ \/ /\ cpu' = [cpu EXCEPT ![v] = IF monitor[v] = "stop" THEN "paused" ELSE "running"]
        /\ monitor' = [monitor EXCEPT ![v] = Heard(v, QmpPoint, "done")]
     \/ /\ monitor' = [monitor EXCEPT ![v] = Heard(v, QmpPoint, "refused")]
        /\ UNCHANGED cpu
  /\ UNCHANGED <<chain, best, misread, on, settled, fs, mem, agent, worker,
                 callVars>>

\* The qm worker writes the snapshot, or fails with or without leaving one; a
\* worker that a killed qm left behind goes on just the same.
WorkerEnds(v) ==
  /\ worker[v] \in {"running", "detached"}
  /\ \E end \in {"done", "failed"} :
       /\ worker' = [worker EXCEPT ![v] = IF @ = "detached" THEN "idle" ELSE end]
       /\ \/ mem' = [mem EXCEPT ![v] = TRUE]
          \/ end = "failed" /\ UNCHANGED mem
  /\ UNCHANGED <<chain, best, misread, on, settled, fs, cpu, agent, monitor,
                 callVars>>

\* Somebody starts a VM that was off, or stops one: its disks are then at rest
\* and a command in flight is not carried out.
VmStarts(v) ==
  /\ ~on[v] /\ v \notin settled
  /\ on' = [on EXCEPT ![v] = TRUE]
  /\ settled' = settled \cup {v}
  /\ UNCHANGED <<chain, best, misread, fs, cpu, mem, agent, monitor, worker,
                 callVars>>

VmStops(v) ==
  /\ on[v] /\ v \notin settled
  /\ on' = [on EXCEPT ![v] = FALSE]
  /\ settled' = settled \cup {v}
  /\ fs' = [fs EXCEPT ![v] = "running"]
  /\ cpu' = [cpu EXCEPT ![v] = "running"]
  /\ agent' = [agent EXCEPT ![v] = IF @ \in {"freeze", "thaw"}
                                       THEN Heard(v, QgaPoint, "refused") ELSE @]
  /\ monitor' = [monitor EXCEPT ![v] = IF @ \in {"stop", "cont"}
                                           THEN Heard(v, QmpPoint, "refused") ELSE @]
  /\ UNCHANGED <<chain, best, misread, mem, worker, callVars>>

-----------------------------------------------------------------------------
(* Freeze. *)

\* The call returns r.
Returning(v, r) ==
  /\ ret' = [ret EXCEPT ![v] = r]
  /\ at' = [at EXCEPT ![v] = "returned"]

\* Faulty: an unusable chain returns an empty strategy without an error.
NoStepOutcomeEmpty(v) == IF v \in best /\ ~Foreign(v) THEN "zfs-only" ELSE ""

\* What a chain without a step for Proxmox comes to.
NoStepOutcome(v) == IF v \in best /\ ~Foreign(v) THEN "zfs-only" ELSE "error"

\* Up to the loop: prune, look at the chain, see whether the VM runs at all.
FreezeBegin(v) ==
  /\ at[v] = "idle"
  /\ UNCHANGED <<chain, best, misread, devVars, step>>
  /\ \/ /\ Steps(v) = <<>>
        /\ Returning(v, NoStepOutcome(v))
        /\ UNCHANGED strategy
     \/ /\ Steps(v) # <<>> /\ ~on[v]
        /\ Returning(v, "degraded")
        /\ strategy' = [strategy EXCEPT ![v] = "stopped"]
     \/ /\ Steps(v) # <<>> /\ on[v]
        /\ at' = [at EXCEPT ![v] = "step"]
        /\ UNCHANGED <<strategy, ret>>

\* A step failed: the next one is tried.
NextStep(v) ==
  /\ at' = [at EXCEPT ![v] = "step"]
  /\ step' = [step EXCEPT ![v] = @ + 1]
  /\ UNCHANGED <<strategy, ret>>

\* A step worked: its strategy is remembered; pause and memory add a note when
\* they are a fallback.
StepWorked(v, s) ==
  /\ strategy' = [strategy EXCEPT ![v] = s]
  /\ Returning(v, IF step[v] > 1 /\ s # "qga" THEN "degraded" ELSE "held")
  /\ UNCHANGED step

\* No step is left: strategy none, which is not an error.
StepsExhausted(v) ==
  /\ at[v] = "step" /\ step[v] > Len(Steps(v))
  /\ strategy' = [strategy EXCEPT ![v] = "none"]
  /\ Returning(v, "none")
  /\ UNCHANGED <<chain, best, misread, devVars, step>>

\* freezeViaQGA: no socket, or the agent does not answer the ping ...
QgaUnreachable(v) ==
  /\ Trying(v, "freeze")
  /\ NextStep(v)
  /\ UNCHANGED <<chain, best, misread, devVars>>

\* ... or guest-fsfreeze-freeze is sent,
QgaSend(v) ==
  /\ Trying(v, "freeze")
  /\ agent[v] = "idle"
  /\ agent' = [agent EXCEPT ![v] = "freeze"]
  /\ at' = [at EXCEPT ![v] = "qga"]
  /\ UNCHANGED <<chain, best, misread, on, settled, fs, cpu, mem, monitor,
                 worker, step, strategy, ret>>

\* Faulty: an answer of 0 frozen filesystems is taken for a freeze.
QgaAnswerAnyCount(v) ==
  /\ at[v] = "qga"
  /\ agent[v] \in {"froze", "froze 0", "refused"}
  /\ agent' = [agent EXCEPT ![v] = "idle"]
  /\ IF agent[v] # "refused" THEN StepWorked(v, "qga") ELSE NextStep(v)
  /\ UNCHANGED <<chain, best, misread, on, settled, fs, cpu, mem, monitor,
                 worker>>

\* and answered in time.  With an answer of 0 nothing is frozen, so the step has
\* failed; guest-fsfreeze-thaw is sent all the same.
QgaAnswer(v) ==
  /\ at[v] = "qga"
  /\ \/ /\ agent[v] \in {"froze", "refused"}
        /\ agent' = [agent EXCEPT ![v] = "idle"]
        /\ IF agent[v] = "froze" THEN StepWorked(v, "qga") ELSE NextStep(v)
     \/ /\ agent[v] = "froze 0"
        /\ agent' = [agent EXCEPT ![v] = "thaw"]
        /\ at' = [at EXCEPT ![v] = "qga 0"]
        /\ UNCHANGED <<step, strategy, ret>>
  /\ UNCHANGED <<chain, best, misread, on, settled, fs, cpu, mem, monitor,
                 worker>>

\* Whether that thaw works does not matter.
QgaUndo(v) ==
  /\ at[v] = "qga 0"
  /\ agent[v] \in {"thawed", "refused"}
  /\ agent' = [agent EXCEPT ![v] = "idle"]
  /\ NextStep(v)
  /\ UNCHANGED <<chain, best, misread, on, settled, fs, cpu, mem, monitor,
                 worker>>

\* Faulty: SetDeadline is missing.
QgaNoDeadline(v) == FALSE

\* Or the deadline passes: the connection is closed, and the command stays with the
\* agent if it has not been carried out.
QgaTimeout(v) ==
  /\ at[v] \in {"qga", "qga 0"}
  /\ NextStep(v)
  /\ agent' = [agent EXCEPT ![v] = IF @ \in {"freeze", "thaw"} THEN @ ELSE "idle"]
  /\ UNCHANGED <<chain, best, misread, on, settled, fs, cpu, mem, monitor,
                 worker>>

\* pauseViaQMP, in the same four parts.
QmpUnreachable(v) ==
  /\ Trying(v, "pause")
  /\ NextStep(v)
  /\ UNCHANGED <<chain, best, misread, devVars>>

QmpSend(v) ==
  /\ Trying(v, "pause")
  /\ monitor[v] = "idle"
  /\ monitor' = [monitor EXCEPT ![v] = "stop"]
  /\ at' = [at EXCEPT ![v] = "qmp"]
  /\ UNCHANGED <<chain, best, misread, on, settled, fs, cpu, mem, agent, worker,
                 step, strategy, ret>>

QmpAnswer(v) ==
  /\ at[v] = "qmp"
  /\ monitor[v] \in {"done", "refused"}
  /\ monitor' = [monitor EXCEPT ![v] = "idle"]
  /\ IF monitor[v] = "done" THEN StepWorked(v, "qmp-pause") ELSE NextStep(v)
  /\ UNCHANGED <<chain, best, misread, on, settled, fs, cpu, mem, agent,
                 worker>>

QmpTimeout(v) ==
  /\ at[v] = "qmp"
  /\ NextStep(v)
  /\ monitor' = [monitor EXCEPT ![v] = IF @ = "stop" THEN @ ELSE "idle"]
  /\ UNCHANGED <<chain, best, misread, on, settled, fs, cpu, mem, agent,
                 worker>>

\* memSnapshot: the VM has been stopped meanwhile, or qm snapshot runs (MemSnaps
\* has the leftover of the same name that is deleted first); it works, fails or
\* times out, and what it may have left is reaped.  A timeout kills qm but not
\* a worker it has detached.
MemNotRunning(v) ==
  /\ Trying(v, "memory")
  /\ ~on[v]
  /\ NextStep(v)
  /\ UNCHANGED <<chain, best, misread, devVars>>

MemStart(v) ==
  /\ Trying(v, "memory")
  /\ on[v]
  /\ worker' = [worker EXCEPT ![v] = "running"]
  /\ at' = [at EXCEPT ![v] = "qm"]
  /\ UNCHANGED <<chain, best, misread, on, settled, fs, cpu, mem, agent,
                 monitor, step, strategy, ret>>

MemEnd(v) ==
  /\ at[v] = "qm"
  /\ worker[v] \in {"done", "failed"}
  /\ worker' = [worker EXCEPT ![v] = "idle"]
  /\ IF worker[v] = "done"
     THEN StepWorked(v, "qm-mem")
     ELSE at' = [at EXCEPT ![v] = "reap"] /\ UNCHANGED <<step, strategy, ret>>
  /\ UNCHANGED <<chain, best, misread, on, settled, fs, cpu, mem, agent,
                 monitor>>

MemTimeout(v) ==
  /\ at[v] = "qm"
  /\ worker' = [worker EXCEPT ![v] = IF @ = "running" THEN "detached" ELSE "idle"]
  /\ at' = [at EXCEPT ![v] = "reap"]
  /\ UNCHANGED <<chain, best, misread, on, settled, fs, cpu, mem, agent,
                 monitor, step, strategy, ret>>

\* reapMem: delete a snapshot of the name if there is one; that may fail too.
Reap(v) ==
  /\ at[v] = "reap"
  /\ mem' \in {mem, [mem EXCEPT ![v] = FALSE]}
  /\ NextStep(v)
  /\ UNCHANGED <<chain, best, misread, on, settled, fs, cpu, agent, monitor,
                 worker>>

-----------------------------------------------------------------------------
(* Thaw: undo what the remembered strategy did. *)

ThawBegin(v) ==
  /\ at[v] = "idle"
  /\ CASE strategy[v] = "qga" ->
            \/ Returning(v, "failed") /\ UNCHANGED <<agent, monitor>>
            \/ /\ agent' = [agent EXCEPT ![v] = "thaw"]
               /\ at' = [at EXCEPT ![v] = "thaw qga"]
               /\ UNCHANGED <<monitor, ret>>
       [] strategy[v] = "qmp-pause" ->
            \/ Returning(v, "failed") /\ UNCHANGED <<agent, monitor>>
            \/ /\ monitor' = [monitor EXCEPT ![v] = "cont"]
               /\ at' = [at EXCEPT ![v] = "thaw qmp"]
               /\ UNCHANGED <<agent, ret>>
       [] strategy[v] = "qm-mem" ->   \* pruneMem; the snapshot itself stays
            /\ \E r \in {"ok", "failed"} : Returning(v, r)
            /\ UNCHANGED <<agent, monitor>>
       [] OTHER -> Returning(v, "ok") /\ UNCHANGED <<agent, monitor>>
  /\ UNCHANGED <<chain, best, misread, on, settled, fs, cpu, mem, worker, step,
                 strategy>>

\* Faulty: any answer to cont counts, errors included.
ThawAnswerUnchecked(v) ==
  /\ \/ /\ at[v] = "thaw qga" /\ agent[v] \in {"thawed", "refused"}
        /\ Returning(v, "ok")
        /\ agent' = [agent EXCEPT ![v] = "idle"]
        /\ UNCHANGED monitor
     \/ /\ at[v] = "thaw qmp" /\ monitor[v] \in {"done", "refused"}
        /\ Returning(v, "ok")
        /\ monitor' = [monitor EXCEPT ![v] = "idle"]
        /\ UNCHANGED agent
  /\ UNCHANGED <<chain, best, misread, on, settled, fs, cpu, mem, worker, step,
                 strategy>>

ThawAnswer(v) ==
  /\ \/ /\ at[v] = "thaw qga" /\ agent[v] \in {"thawed", "refused"}
        /\ Returning(v, IF agent[v] = "thawed" THEN "ok" ELSE "failed")
        /\ agent' = [agent EXCEPT ![v] = "idle"]
        /\ UNCHANGED monitor
     \/ /\ at[v] = "thaw qmp" /\ monitor[v] \in {"done", "refused"}
        /\ Returning(v, IF monitor[v] = "done" THEN "ok" ELSE "failed")
        /\ monitor' = [monitor EXCEPT ![v] = "idle"]
        /\ UNCHANGED agent
  /\ UNCHANGED <<chain, best, misread, on, settled, fs, cpu, mem, worker, step,
                 strategy>>

\* The 10 s of thawViaQGA and resumeViaQMP pass.
ThawTimeout(v) ==
  /\ \/ /\ at[v] = "thaw qga"
        /\ agent' = [agent EXCEPT ![v] = IF @ = "thaw" THEN @ ELSE "idle"]
        /\ UNCHANGED monitor
     \/ /\ at[v] = "thaw qmp"
        /\ monitor' = [monitor EXCEPT ![v] = IF @ = "cont" THEN @ ELSE "idle"]
        /\ UNCHANGED agent
  /\ Returning(v, "failed")
  /\ UNCHANGED <<chain, best, misread, on, settled, fs, cpu, mem, worker, step,
                 strategy>>

\* jsonRPCCall takes the first line it reads for the answer: an event that QEMU
\* sends on its own before it answers stop or cont ends the call as a success.
\* The connection is closed, and with it the command may be dropped unexecuted.
QmpEvent(v) ==
  /\ on[v]
  /\ \/ /\ at[v] = "qmp" /\ monitor[v] \in {"stop", "done", "refused"}
        /\ StepWorked(v, "qmp-pause")
        /\ misread' = misread \cup (IF monitor[v] = "done" THEN {} ELSE {<<v, "stop">>})
     \/ /\ at[v] = "thaw qmp" /\ monitor[v] \in {"cont", "done", "refused"}
        /\ Returning(v, "ok")
        /\ misread' = misread \cup (IF monitor[v] = "done" THEN {} ELSE {<<v, "cont">>})
        /\ UNCHANGED <<step, strategy>>
  /\ \/ monitor' = [monitor EXCEPT ![v] = "idle"]
     \/ monitor[v] \in {"stop", "cont"} /\ UNCHANGED monitor
  /\ UNCHANGED <<chain, best, on, settled, fs, cpu, mem, agent, worker>>

-----------------------------------------------------------------------------
\* The steps of a Freeze or Thaw call once it has begun.
QemuCallStep(v) ==
  \/ StepsExhausted(v)
  \/ QgaUnreachable(v) \/ QgaSend(v) \/ QgaAnswer(v) \/ QgaUndo(v) \/ QgaTimeout(v)
  \/ QmpUnreachable(v) \/ QmpSend(v) \/ QmpAnswer(v) \/ QmpTimeout(v)
  \/ MemNotRunning(v) \/ MemStart(v) \/ MemEnd(v) \/ MemTimeout(v) \/ Reap(v)
  \/ ThawAnswer(v) \/ ThawTimeout(v) \/ QmpEvent(v)

DeviceStep(v) ==
  AgentFreezes(v) \/ AgentThaws(v) \/ MonitorActs(v) \/ WorkerEnds(v)

QemuTypeOK ==
  /\ chain \in [VM -> QemuChains] /\ best \subseteq VM
  /\ on \in [VM -> BOOLEAN] /\ settled \subseteq VM /\ mem \in [VM -> BOOLEAN]
  /\ fs \in [VM -> {"running", "frozen"}]
  /\ cpu \in [VM -> {"running", "paused"}]
  /\ agent \in [VM -> {"idle", "freeze", "froze", "froze 0", "refused", "thaw", "thawed"}]
  /\ monitor \in [VM -> {"idle", "stop", "cont", "done", "refused"}]
  /\ worker \in [VM -> {"idle", "running", "done", "failed", "detached"}]
  /\ at \in [VM -> {"idle", "step", "qga", "qga 0", "qmp", "qm", "reap",
                    "thaw qga", "thaw qmp", "returned"}]
  /\ \A v \in VM : step[v] \in 1..(Len(Steps(v)) + 1)
  /\ strategy \in [VM -> {"unset", "qga", "qmp-pause", "qm-mem", "stopped", "none"}]
  /\ ret \in [VM -> {"pending", "held", "degraded", "zfs-only", "none", "error",
                     "ok", "failed"}]
  /\ misread \subseteq VM \X {"stop", "cont"}
=============================================================================
