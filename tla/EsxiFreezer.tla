---------------------------- MODULE EsxiFreezer ----------------------------
(***************************************************************************)
(* freezer/esxi.go with the snapshot calls of esxi/soap.go and esxi/ssh.go:*)
(* how one Freeze and one Thaw call of the ESXiFreezer act on a VM of an   *)
(* ESXi host.  A VM snapshot stands for the freeze, removing it for the    *)
(* thaw.  The host runs one task per VM at a time and finishes it also     *)
(* when the client has given up.  Over ssh every command goes through the  *)
(* session pool of SshPool.                                                *)
(***************************************************************************)
EXTENDS Naturals, Sequences, SequencesExt

CONSTANTS Vm,         \* the VMs of the job
          MaxSteps,   \* per VM: bound on the usable steps of its chain
          MaxSessions \* sshMaxSessions

ASSUME MaxStepsAssumption == MaxSteps \in [Vm -> Nat]
ASSUME MaxSessionsAssumption == MaxSessions \in Nat \ {0}

VARIABLES
  proto,    \* the transport: "soap" or "ssh"
  steps,    \* per VM: the number of chain steps that work on ESXi
  zfsOnly,  \* the VMs whose chain is just "zfs"
  host,     \* per VM: this run's snapshots on the host, oldest first
  task,     \* per VM: the task the host is working on
  at,       \* program counter of the Freezer's call
  step,     \* the chain step being tried
  todo,     \* reap's list: the snapshots it still has to remove
  snap,     \* f.snaps: the snapshot recorded for the VM, 0 if none
  ret,      \* what the call returns
  channel   \* the ssh sessions of the calls, see SshPool

Pool == INSTANCE SshPool WITH Caller <- Vm

hostVars == <<host, task>>
callVars == <<at, step, todo, snap, ret>>
esxiVars == <<proto, steps, zfsOnly, hostVars, callVars, channel>>

\* A snapshot is identified by the step that made it: within a run all of them
\* have the same name (vmSnapName) and a step makes at most one.
SnapId == UNION {1..MaxSteps[v] : v \in Vm}

NoTask == [op |-> "none", id |-> 0, state |-> "ended"]
Task   == {NoTask} \cup
          [op : {"create", "remove"}, id : SnapId, state : {"running", "done", "failed"}]

\* The client's call is waiting for the host's task.
Waiting(v) == at[v] \in {"creating", "reaping", "removing"}

EsxiInit ==
  /\ proto \in {"soap", "ssh"}
  /\ steps \in [Vm -> {0} \cup SnapId]
  /\ \A v \in Vm : steps[v] <= MaxSteps[v]
  /\ zfsOnly \in SUBSET {v \in Vm : steps[v] = 0}
  /\ host = [v \in Vm |-> <<>>]
  /\ task = [v \in Vm |-> NoTask]
  /\ at = [v \in Vm |-> "idle"]
  /\ step = [v \in Vm |-> 1]
  /\ todo = [v \in Vm |-> {}]
  /\ snap = [v \in Vm |-> 0]
  /\ ret = [v \in Vm |-> "pending"]
  /\ Pool!PoolInit

-----------------------------------------------------------------------------
(* The host. *)

\* A task ends in one way or the other; the answer waits for the client, or is
\* lost when the client has gone.
TaskEnds(v, state) ==
  task' = [task EXCEPT ![v] =
             IF Waiting(v) THEN [@ EXCEPT !.state = state] ELSE NoTask]

\* The snapshot is gone, the others stay in order.
Without(snapshots, id) ==
  IF id \in ToSet(snapshots)
  THEN RemoveAt(snapshots, CHOOSE i \in DOMAIN snapshots : snapshots[i] = id)
  ELSE snapshots

HostWorks(v) ==
  /\ task[v].state = "running"
  /\ \/ /\ TaskEnds(v, "done")
        /\ host' = [host EXCEPT ![v] =
                      IF task[v].op = "create" THEN Append(@, task[v].id)
                      ELSE Without(@, task[v].id)]
     \/ TaskEnds(v, "failed") /\ UNCHANGED host
  /\ UNCHANGED <<proto, steps, zfsOnly, callVars, channel>>

\* Over ssh a call with a command to send takes a session for it, and from then
\* on waits in NewSession for the host.
WantsSession(v) ==
  \/ at[v] = "step" /\ step[v] <= steps[v]
  \/ at[v] \in {"finding", "reap", "remove", "check"}
  \/ at[v] = "reap next" /\ todo[v] # {}

SessionTaken(v) ==
  /\ proto = "ssh" /\ WantsSession(v)
  /\ Pool!TakeSlot(v)
  /\ UNCHANGED <<proto, steps, zfsOnly, hostVars, callVars>>

SessionAnswered(v) ==
  /\ Pool!HostAnswers(v)
  /\ UNCHANGED <<proto, steps, zfsOnly, hostVars, callVars>>

\* The command of the call at that point goes out; or it fails without: the
\* context has ended before there was a slot, NewSession or the host refuses.
Sends(v, label) == at[v] = label /\ (proto = "soap" \/ channel[v] = "answered")
Fails(v, label) == at[v] = label /\ channel[v] # "opening"

\* The client asks for a task; a VM with a task in progress refuses.
Ask(v, op, id) ==
  /\ task[v] = NoTask
  /\ task' = [task EXCEPT ![v] = [op |-> op, id |-> id, state |-> "running"]]

\* The client takes the answer, or goes without one: a running task goes on.
Answer(v) == /\ task[v].state \in {"done", "failed"}
             /\ task' = [task EXCEPT ![v] = NoTask]
GiveUp(v) == task' = [task EXCEPT ![v] = IF @.state = "running" THEN @ ELSE NoTask]

-----------------------------------------------------------------------------
(* Freeze. *)

Returning(v, r) ==
  /\ ret' = [ret EXCEPT ![v] = r]
  /\ at' = [at EXCEPT ![v] = "returned"]

Goto(v, label) == at' = [at EXCEPT ![v] = label] /\ UNCHANGED ret

EsxiFreezeBegin(v) ==
  /\ at[v] = "idle"
  /\ IF steps[v] = 0
     THEN Returning(v, IF v \in zfsOnly THEN "zfs-only" ELSE "error")
     ELSE Goto(v, "step")
  /\ UNCHANGED <<proto, steps, zfsOnly, hostVars, step, todo, snap, channel>>

\* f.snaps[g.VMID] is set and the step's strategy returned.
Record(v, id) ==
  /\ snap' = [snap EXCEPT ![v] = id]
  /\ Returning(v, IF step[v] = 1 THEN "held" ELSE "degraded")

\* CreateSnapshot fails at once: no connection, a fault, another task running.
CreateRefused(v) ==
  /\ Fails(v, "step") /\ step[v] <= steps[v]
  /\ Goto(v, "reap")
  /\ Pool!GiveBack(v)
  /\ UNCHANGED <<proto, steps, zfsOnly, hostVars, step, todo, snap>>

CreateSend(v) ==
  /\ Sends(v, "step") /\ step[v] <= steps[v]
  /\ Ask(v, "create", step[v])
  /\ Goto(v, "creating")
  /\ UNCHANGED <<proto, steps, zfsOnly, host, step, todo, snap, channel>>

\* The task's answer: soap's carries the id (or lacks it, an error), ssh looks
\* for it afterwards.
CreateAnswer(v) ==
  /\ at[v] = "creating"
  /\ Answer(v)
  /\ Pool!GiveBack(v)
  /\ \/ /\ task[v].state = "done" /\ proto = "soap"
        /\ Record(v, task[v].id)
     \/ /\ task[v].state = "done" /\ proto = "ssh"
        /\ Goto(v, "finding")
        /\ UNCHANGED snap
     \/ /\ task[v].state = "failed" \/ proto = "soap"
        /\ Goto(v, "reap")
        /\ UNCHANGED snap
  /\ UNCHANGED <<proto, steps, zfsOnly, host, step, todo>>

\* Faulty: the step runs without a context of its own.
CreateNoDeadline(v) == FALSE

\* The step's deadline: soap cancels the task first.  An error of the connection
\* ends the step without it.
CreateTimeout(v) ==
  /\ at[v] = "creating"
  /\ GiveUp(v)
  /\ Pool!GiveBack(v)
  /\ \/ Goto(v, "reap")
     \/ proto = "soap" /\ Goto(v, "canceling")
  /\ UNCHANGED <<proto, steps, zfsOnly, host, step, todo, snap>>

\* cancelTask: the host abandons the task, or does not within 20 s.
Cancel(v) ==
  /\ at[v] = "canceling"
  /\ \/ task' = [task EXCEPT ![v] = NoTask]
     \/ UNCHANGED task
  /\ Goto(v, "reap")
  /\ UNCHANGED <<proto, steps, zfsOnly, host, step, todo, snap, channel>>

\* Faulty: the first snapshot of the name is taken for the new one.
FindFirst(v) ==
  /\ \/ Sends(v, "finding") /\ host[v] # <<>> /\ Record(v, Head(host[v]))
     \/ Fails(v, "finding") /\ Goto(v, "reap") /\ UNCHANGED snap
  /\ Pool!GiveBack(v)
  /\ UNCHANGED <<proto, steps, zfsOnly, hostVars, step, todo>>

\* ssh: the id is that of the last snapshot with the run's name.
Find(v) ==
  /\ \/ Sends(v, "finding") /\ host[v] # <<>> /\ Record(v, Last(host[v]))
     \/ Fails(v, "finding") /\ Goto(v, "reap") /\ UNCHANGED snap
  /\ Pool!GiveBack(v)
  /\ UNCHANGED <<proto, steps, zfsOnly, hostVars, step, todo>>

\* reap: without a list of the snapshots nothing is done; otherwise those of
\* the run's name are removed one by one, within 30 s.
ReapList(v) ==
  /\ \/ Sends(v, "reap") /\ todo' = [todo EXCEPT ![v] = ToSet(host[v])]
     \/ Fails(v, "reap") /\ UNCHANGED todo
  /\ Goto(v, "reap next")
  /\ Pool!GiveBack(v)
  /\ UNCHANGED <<proto, steps, zfsOnly, hostVars, step, snap>>

ReapNext(v) ==
  /\ \E id \in todo[v] :
       /\ todo' = [todo EXCEPT ![v] = @ \ {id}]
       /\ \/ /\ Fails(v, "reap next")
             /\ Pool!GiveBack(v)
             /\ UNCHANGED <<task, at>>
          \/ /\ Sends(v, "reap next")
             /\ Ask(v, "remove", id)
             /\ at' = [at EXCEPT ![v] = "reaping"]
             /\ UNCHANGED channel
  /\ UNCHANGED <<proto, steps, zfsOnly, host, step, snap, ret>>

ReapAnswer(v) ==
  /\ at[v] = "reaping"
  /\ Answer(v) \/ GiveUp(v)
  /\ Goto(v, "reap next")
  /\ Pool!GiveBack(v)
  /\ UNCHANGED <<proto, steps, zfsOnly, host, step, todo, snap>>

\* The next step, or the error that lists what failed.
StepFailed(v) ==
  /\ at[v] = "reap next"
  /\ todo[v] = {}
  /\ step' = [step EXCEPT ![v] = @ + 1]
  /\ IF step[v] < steps[v] THEN Goto(v, "step") ELSE Returning(v, "error")
  /\ UNCHANGED <<proto, steps, zfsOnly, hostVars, todo, snap, channel>>

-----------------------------------------------------------------------------
(* Thaw. *)

EsxiThawBegin(v) ==
  /\ at[v] = "idle"
  /\ IF snap[v] = 0 THEN Returning(v, "ok") ELSE Goto(v, "remove")
  /\ UNCHANGED <<proto, steps, zfsOnly, hostVars, step, todo, snap, channel>>

RemoveRefused(v) ==
  /\ Fails(v, "remove")
  /\ Goto(v, "check")
  /\ Pool!GiveBack(v)
  /\ UNCHANGED <<proto, steps, zfsOnly, hostVars, step, todo, snap>>

RemoveSend(v) ==
  /\ Sends(v, "remove")
  /\ Ask(v, "remove", snap[v])
  /\ Goto(v, "removing")
  /\ UNCHANGED <<proto, steps, zfsOnly, host, step, todo, snap, channel>>

Removed(v) == snap' = [snap EXCEPT ![v] = 0] /\ Returning(v, "ok")

RemoveAnswer(v) ==
  /\ at[v] = "removing"
  /\ Answer(v)
  /\ IF task[v].state = "done" THEN Removed(v) ELSE Goto(v, "check") /\ UNCHANGED snap
  /\ Pool!GiveBack(v)
  /\ UNCHANGED <<proto, steps, zfsOnly, host, step, todo>>

\* Faulty: the slot is only given back when the command has ended.
RemoveTimeoutKeepsSlot(v) ==
  /\ at[v] = "removing"
  /\ GiveUp(v)
  /\ Goto(v, "check") \/ Returning(v, "failed")
  /\ UNCHANGED <<proto, steps, zfsOnly, host, step, todo, snap, channel>>

\* The connection breaks, or ThawTimeout passes: then the list fails as well.
RemoveTimeout(v) ==
  /\ at[v] = "removing"
  /\ GiveUp(v)
  /\ Goto(v, "check") \/ Returning(v, "failed")
  /\ Pool!GiveBack(v)
  /\ UNCHANGED <<proto, steps, zfsOnly, host, step, todo, snap>>

\* Faulty: a list that cannot be read shows no snapshot either.
CheckUnread(v) ==
  /\ \/ Fails(v, "check") /\ Removed(v)
     \/ /\ Sends(v, "check")
        /\ snap[v] \in ToSet(host[v])
        /\ Returning(v, "failed")
        /\ UNCHANGED snap
  /\ Pool!GiveBack(v)
  /\ UNCHANGED <<proto, steps, zfsOnly, hostVars, step, todo>>

\* Is it gone already?  Only a list that was read and lacks it says so.
Check(v) ==
  /\ \/ Sends(v, "check") /\ snap[v] \notin ToSet(host[v]) /\ Removed(v)
     \/ Fails(v, "check") /\ Returning(v, "failed") /\ UNCHANGED snap
  /\ Pool!GiveBack(v)
  /\ UNCHANGED <<proto, steps, zfsOnly, hostVars, step, todo>>

-----------------------------------------------------------------------------
EsxiCallStep(v) ==
  \/ SessionTaken(v)
  \/ CreateRefused(v) \/ CreateSend(v) \/ CreateAnswer(v) \/ CreateTimeout(v)
  \/ Cancel(v) \/ Find(v)
  \/ ReapList(v) \/ ReapNext(v) \/ ReapAnswer(v) \/ StepFailed(v)
  \/ RemoveRefused(v) \/ RemoveSend(v) \/ RemoveAnswer(v) \/ RemoveTimeout(v)
  \/ Check(v)

EsxiTypeOK ==
  /\ proto \in {"soap", "ssh"}
  /\ steps \in [Vm -> {0} \cup SnapId] /\ zfsOnly \subseteq Vm
  /\ \A v \in Vm : ToSet(host[v]) \subseteq SnapId /\ IsInjective(host[v])
  /\ task \in [Vm -> Task]
  /\ at \in [Vm -> {"idle", "step", "creating", "finding", "canceling", "reap",
                    "reap next", "reaping", "remove", "removing", "check", "returned"}]
  /\ Pool!PoolTypeOK
  /\ \A v \in Vm : step[v] \in 1..(steps[v] + 1)
  /\ todo \in [Vm -> SUBSET SnapId]
  /\ snap \in [Vm -> {0} \cup SnapId]
  /\ ret \in [Vm -> {"pending", "held", "degraded", "zfs-only", "error", "ok", "failed"}]
=============================================================================
