---------------------------- MODULE ParallelRuns ----------------------------
(***************************************************************************)
(* Several "snap" processes on one Proxmox VM (README.md:181 "parallel     *)
(* jobs"): each walks down its chain, takes its ZFS snapshot and thaws by  *)
(* the strategy it remembers, knowing nothing of the others.  They share   *)
(* the VM: a second freeze is refused, a second stop is not, and a paused  *)
(* VM's agent answers nobody but finds the command when it goes on.  One   *)
(* exchange with a socket is one step (QemuFreezer has its parts), and it  *)
(* takes the first line that comes for the answer: one to a command that   *)
(* an earlier connection left behind, or an event.  QEMU's socket of the   *)
(* agent serves one connection at a time.  MemSnaps has the memory step.   *)
(***************************************************************************)
EXTENDS Naturals, Sequences

CONSTANTS Run,     \* the processes
          Chains   \* the chains they may have, of the steps "freeze" and "pause"

ASSUME ChainsAssumption == Chains \subseteq Seq({"freeze", "pause"})

VARIABLES
  fs, cpu,   \* the VM's filesystems and CPUs
  queue,     \* commands nobody waits for any more, for the agent still to see
  late,      \* history: a freeze or a stop came to that
  misread,   \* history: an event was taken for cont's answer
  chain,     \* the chain of each run
  pc,        \* where it is
  step,      \* the step it tries
  strategy,  \* q.strategies of its process
  thaw       \* what its Thaw said

callVars == <<chain, pc, step, strategy, thaw>>
parVars  == <<fs, cpu, queue, late, misread, callVars>>

ParInit ==
  /\ fs = "running" /\ cpu = "running"
  /\ queue = <<>> /\ late = FALSE /\ misread = FALSE
  /\ chain \in [Run -> Chains]
  /\ pc = [r \in Run |-> "step"]
  /\ step = [r \in Run |-> 1]
  /\ strategy = [r \in Run |-> "unset"]
  /\ thaw = [r \in Run |-> "pending"]

Trying(r, kind) ==
  pc[r] = "step" /\ step[r] <= Len(chain[r]) /\ chain[r][step[r]] = kind

NextStep(r) ==
  /\ pc' = [pc EXCEPT ![r] = "step"]
  /\ step' = [step EXCEPT ![r] = @ + 1]
  /\ UNCHANGED <<chain, strategy, thaw>>

Held(r, s) ==
  /\ pc' = [pc EXCEPT ![r] = "zfs"]
  /\ strategy' = [strategy EXCEPT ![r] = s]
  /\ UNCHANGED <<chain, step, thaw>>

\* Nobody is connected to the agent.
Free == \A r \in Run : pc[r] \notin {"freeze", "undo", "misled"}

\* The agent carries out a command and answers with a number of filesystems, or
\* otherwise ("error": an error, and all that guest-ping gets); what is frozen it
\* does not freeze again.
Answer == {"some", "none", "error"}

AgentDoes(command, answer) ==
  \/ answer = "error" /\ fs' = fs
  \/ command = "thaw" /\ answer # "error" /\ fs' = "running"
  \/ /\ command = "freeze" /\ answer # "error" /\ fs = "running"
     /\ fs' = IF answer = "some" THEN "frozen" ELSE "running"

\* guest-ping: answered, by what is left of an earlier connection if there is
\* anything, where only an error is no answer; or the step is given up, the ping
\* perhaps left behind.
Ping(r) ==
  /\ Trying(r, "freeze")
  /\ \/ /\ Free /\ cpu = "running" /\ queue = <<>>
        /\ pc' = [pc EXCEPT ![r] = "freeze"]
        /\ UNCHANGED <<fs, queue, chain, step, strategy, thaw>>
     \/ /\ Free /\ cpu = "running" /\ queue # <<>>
        /\ \E a \in Answer : /\ AgentDoes(Head(queue), a)
                             /\ a # "error" \/ Head(queue) = "ping"
        /\ queue' = Tail(queue)
        /\ pc' = [pc EXCEPT ![r] = "misled"]
        /\ UNCHANGED <<chain, step, strategy, thaw>>
     \/ NextStep(r) /\ queue' \in {queue, Append(queue, "ping")} /\ UNCHANGED fs
  /\ UNCHANGED <<cpu, late, misread>>

\* What becomes of the step with an answer to guest-fsfreeze-freeze.
FreezeAnswered(r, answer) ==
  \/ answer = "some" /\ Held(r, "qga")
  \/ /\ answer = "none" /\ pc' = [pc EXCEPT ![r] = "undo"]
     /\ UNCHANGED <<chain, step, strategy, thaw>>
  \/ answer = "error" /\ NextStep(r)

\* Faulty: an error of the agent counts as an answer.
FreezeUnchecked(r) ==
  /\ pc[r] = "freeze" /\ cpu = "running"
  /\ fs' = "frozen"
  /\ Held(r, "qga")
  /\ UNCHANGED <<cpu, queue, late, misread>>

\* guest-fsfreeze-freeze: answered, or not in time, as by the agent of a VM that
\* another run has paused since the ping: then it has been sent in vain, but is
\* not forgotten.
Freeze(r) ==
  /\ pc[r] = "freeze"
  /\ \/ /\ cpu = "running"
        /\ \E a \in Answer : AgentDoes("freeze", a) /\ FreezeAnswered(r, a)
        /\ UNCHANGED <<queue, late>>
     \/ /\ queue' = Append(queue, "freeze") /\ late' = TRUE
        /\ NextStep(r)
        /\ UNCHANGED fs
  /\ UNCHANGED <<cpu, misread>>

\* After an answer to the ping that was none, the next answer is to what else is
\* left, or it is the ping's, which is no number; the agent sees the freeze later.
FreezeMisled(r) ==
  /\ pc[r] = "misled"
  /\ \/ /\ cpu = "running" /\ queue # <<>>
        /\ \E a \in Answer : AgentDoes(Head(queue), a) /\ FreezeAnswered(r, a)
        /\ queue' = Append(Tail(queue), "freeze")
     \/ /\ queue' = Append(queue, "freeze")
        /\ NextStep(r)
        /\ UNCHANGED fs
  /\ late' = TRUE
  /\ UNCHANGED <<cpu, misread>>

\* Nothing was frozen: guest-fsfreeze-thaw is sent all the same, and its answer,
\* or that there is none, does not matter.
Undo(r) ==
  /\ pc[r] = "undo"
  /\ \/ /\ cpu = "running"
        /\ \E a \in Answer : AgentDoes("thaw", a)
        /\ UNCHANGED queue
     \/ queue' = Append(queue, "thaw") /\ UNCHANGED fs
  /\ NextStep(r)
  /\ UNCHANGED <<cpu, late, misread>>

\* QMP stop works on a paused VM too; it may fail, also by being carried out too
\* late, and an event may be taken for its answer though it is not carried out.
Pause(r) ==
  /\ Trying(r, "pause")
  /\ \/ cpu' \in {cpu, "paused"} /\ Held(r, "qmp-pause") /\ UNCHANGED late
     \/ NextStep(r) /\ UNCHANGED <<cpu, late>>
     \/ NextStep(r) /\ cpu' = "paused" /\ late' = TRUE
  /\ UNCHANGED <<fs, queue, misread>>

NoStepLeft(r) ==
  /\ pc[r] = "step" /\ step[r] > Len(chain[r])
  /\ Held(r, "none")
  /\ UNCHANGED <<fs, cpu, queue, late, misread>>

ZfsSnapshot(r) ==
  /\ pc[r] = "zfs"
  /\ pc' = [pc EXCEPT ![r] = "thaw"]
  /\ UNCHANGED <<fs, cpu, queue, late, misread, chain, step, strategy, thaw>>

Thawed(r, said) ==
  /\ pc' = [pc EXCEPT ![r] = "done"]
  /\ thaw' = [thaw EXCEPT ![r] = said]
  /\ UNCHANGED <<chain, step, strategy>>

\* Faulty: guest-fsfreeze-thaw is taken for done when it has been sent.
ThawQgaSent(r) ==
  /\ pc[r] = "thaw" /\ strategy[r] = "qga"
  /\ queue' = Append(queue, "thaw")
  /\ Thawed(r, "ok")
  /\ UNCHANGED <<fs, cpu, late, misread>>

\* thawViaQGA: the number in the answer is not looked at, nor whose answer it is;
\* without one in time the agent finds the command later.
ThawQga(r) ==
  /\ pc[r] = "thaw" /\ strategy[r] = "qga"
  /\ \/ /\ Free /\ cpu = "running"
        /\ \E a \in Answer : /\ AgentDoes(Head(Append(queue, "thaw")), a)
                             /\ Thawed(r, IF a = "error" THEN "failed" ELSE "ok")
        /\ queue' = Tail(Append(queue, "thaw"))
     \/ queue' = Append(queue, "thaw") /\ Thawed(r, "failed") /\ UNCHANGED fs
  /\ UNCHANGED <<cpu, late, misread>>

\* resumeViaQMP: cont works also if the CPUs run.  It may fail, also by being
\* carried out too late; and an event may be taken for its answer.
ThawQmp(r) ==
  /\ pc[r] = "thaw" /\ strategy[r] = "qmp-pause"
  /\ \/ cpu' = "running" /\ Thawed(r, "ok") /\ UNCHANGED misread
     \/ cpu' \in {cpu, "running"} /\ Thawed(r, "failed") /\ UNCHANGED misread
     \/ misread' = TRUE /\ Thawed(r, "ok") /\ UNCHANGED cpu
  /\ UNCHANGED <<fs, queue, late>>

NothingToThaw(r) ==
  /\ pc[r] = "thaw" /\ strategy[r] = "none"
  /\ Thawed(r, "ok")
  /\ UNCHANGED <<fs, cpu, queue, late, misread>>

\* The agent finds what was sent before.
AgentCatchesUp ==
  /\ cpu = "running" /\ queue # <<>> /\ Free
  /\ \E a \in Answer : AgentDoes(Head(queue), a)
  /\ queue' = Tail(queue)
  /\ UNCHANGED <<cpu, late, misread, callVars>>

ParNext ==
  \/ \E r \in Run : \/ Ping(r) \/ Freeze(r) \/ FreezeMisled(r) \/ Undo(r)
                    \/ Pause(r) \/ NoStepLeft(r) \/ ZfsSnapshot(r)
                    \/ ThawQga(r) \/ ThawQmp(r) \/ NothingToThaw(r)
  \/ AgentCatchesUp

ParSpec == ParInit /\ [][ParNext]_parVars

-----------------------------------------------------------------------------
\* Type invariant.
ParTypeOK ==
  /\ fs \in {"running", "frozen"} /\ cpu \in {"running", "paused"}
  /\ queue \in Seq({"ping", "freeze", "thaw"}) /\ late \in BOOLEAN /\ misread \in BOOLEAN
  /\ chain \in [Run -> Chains]
  /\ pc \in [Run -> {"step", "freeze", "misled", "undo", "zfs", "thaw", "done"}]
  /\ \A r \in Run : step[r] \in 1..(Len(chain[r]) + 1)
  /\ strategy \in [Run -> {"unset", "qga", "qmp-pause", "none"}]
  /\ thaw \in [Run -> {"pending", "ok", "failed"}]

\* A run that froze through the agent has the filesystems frozen until its own
\* Thaw, whatever the other runs freeze, undo, pause, resume or thaw, as long as no
\* freeze or stop was given up that is still carried out; after that an answer to
\* another run's thaw may be taken for a freeze: FreezeAnswerIsOwn is not kept.
QgaFreezeIsOwned ==
  ~late => \A r \in Run : strategy[r] = "qga" /\ pc[r] \in {"zfs", "thaw"} => fs = "frozen"

\* When all runs are over and none has reported a failed thaw, the VM runs, unless
\* a freeze or a stop came too late (ProxmoxRun's NobodyLeftFrozen), or an event was
\* taken for the answer to cont (its ThawedCpuRuns).
TogetherTheyThaw ==
  /\ \A r \in Run : pc[r] = "done" /\ thaw[r] = "ok"
  /\ ~late /\ ~misread
  => fs = "running" /\ cpu = "running"

\* README.md:108 "QMP stop/cont (the whole VM pauses)": a run that paused the VM
\* takes its snapshot of a paused VM.
PauseIsOwned ==
  \A r \in Run : strategy[r] = "qmp-pause" /\ pc[r] = "zfs" => cpu = "paused"

\* main.go:2-4 "freezes their I/O ..., takes the ZFS snapshot": a run that reports
\* the guest frozen by its agent takes its snapshot of frozen filesystems.
FreezeAnswerIsOwn ==
  \A r \in Run : strategy[r] = "qga" /\ pc[r] = "zfs" => fs = "frozen"
=============================================================================
