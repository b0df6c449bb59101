-------------------------- MODULE ProxmoxRun_proofs --------------------------
(***************************************************************************)
(* Proofs about "snap" on a Proxmox host.  First SnapRun, for any set of   *)
(* guests: the run is a session with a well-behaved caller, so the         *)
(* session's invariant carries over; what is added is where runSnap stands *)
(* relative to the session.  Then ProxmoxRun, for any set of VMs and       *)
(* containers, any chains and any VMs that are switched on or off while    *)
(* the job runs: the two Freezers keep to the interface SnapRun assumes,   *)
(* so what is proved of SnapRun holds here; and what they report as frozen *)
(* or thawed is what the devices are.                                      *)
(***************************************************************************)
EXTENDS ProxmoxRun, FreezeSession_proofs, SequenceTheorems, WellFoundedInduction

\* The phase of the session at each point of runSnap.
PcInv ==
  /\ pc \in {"prepare", "freeze"}                   => phase = "new"
  /\ pc = "freezing"                                => phase = "freezing"
  /\ pc \in {"judge", "presnap", "snapshot", "thaw"} => phase = "open"
  /\ pc \in {"thawing", "deferring"}                => phase = "thawing"
  /\ pc = "report"                                  => phase = "closed"
  /\ pc = "defer"                                   => phase \in {"open", "closed"}
  /\ pc \in {"return", "exit"}                      => phase \in {"new", "closed"}

\* What runSnap has decided and done by then.
DoneInv ==
  /\ pc \in {"presnap", "snapshot"} => AbortList = {}
  /\ pc \in {"prepare", "freeze", "freezing", "judge", "presnap", "snapshot"} =>
       zfs = "none" /\ report = NoReport
  /\ pc \in {"thaw", "thawing", "report"} => zfs # "none" /\ report = NoReport

RunTypeOK ==
  /\ pc \in RunPc
  /\ force \in BOOLEAN
  /\ zfs \in {"none", "taken", "failed"}
  /\ report \in {NoReport} \cup [status : {"ok", "error"}, guests : [Guest -> Result]]

\* Guests without an answer only exist before FreezeAll has returned.
AnswerInv ==
  phase = "open" => \A g \in Guest : freezeAt[g] = "done"

SnapInv ==
  /\ SessInv
  /\ RunTypeOK
  /\ PcInv
  /\ DoneInv
  /\ AnswerInv

\* Once Thaw is over, or nothing was frozen at all, nobody is on the list.
ReportInv ==
  report # NoReport /\ zfs # "none" =>
    /\ report.status = "ok" <=> zfs = "taken"
    /\ report.guests = result
    /\ frozen = {}
    /\ pc \in {"defer", "deferring", "return", "exit"}

-----------------------------------------------------------------------------
\* Each step of the run is a step of the session or leaves it alone.
LEMMA SnapStepIsSessStep == [SnapNext]_snapVars => [SessNext]_sessVars
BY DEF SnapNext, snapVars, MainStep, GuestStep, Prepare, PrepareFails, StartFreeze,
       EndFreeze, Abort, Proceed, PreSnap, ZfsSnapshot, StartThaw, EndThaw, Report,
       StartDeferredThaw, EndDeferredThaw, Return, SessNext

\* The run drives its session as the session's own specification allows.
THEOREM RunUsesSession == SnapSpec => SessSpec
<1>1. SnapInit => SessInit
  BY DEF SnapInit
<1> QED BY <1>1, SnapStepIsSessStep, PTL DEF SnapSpec, SessSpec

\* Before the run nothing is held and nothing reported.
LEMMA InitSnapInv == SnapInit => SnapInv /\ ReportInv
<1> SUFFICES ASSUME SnapInit PROVE SnapInv /\ ReportInv
  OBVIOUS
<1>1. SessInv
  BY InitSessInv DEF SnapInit
<1>2. RunTypeOK /\ PcInv /\ DoneInv /\ AnswerInv /\ ReportInv
  BY DEF SnapInit, SessInit, RunTypeOK, RunPc, PcInv, DoneInv, AnswerInv, ReportInv
<1> QED BY <1>1, <1>2 DEF SnapInv

\* A step of a guest's goroutine leaves runSnap where it is and its judgement
\* as it was.
LEMMA GuestStepSnapInv ==
  ASSUME NEW g \in Guest, SnapInv, GuestStep(g), SessInv'
  PROVE  SnapInv'
<1> USE DEF SnapInv, GuestStep, runVars
<1>1. phase' = phase
  BY DEF FreezeStep, ThawStep, FreezeUnsupported, FreezeCall, FreezeReturn,
         FreezeRecord, ThawCall, ThawReturn
<1>2. RunTypeOK' /\ PcInv'
  BY <1>1 DEF RunTypeOK, PcInv
<1>3. phase = "open" => UNCHANGED <<result, strict, freezeAt>>
  BY DEF SessInv, FreezeInv, ThawInv, FreezeStep, ThawStep, FreezeUnsupported,
         FreezeCall, FreezeReturn, FreezeRecord, ThawCall, ThawReturn
<1>4. DoneInv'
  BY <1>3 DEF DoneInv, PcInv, AbortList, StrictViolations, Answered
<1>5. AnswerInv'
  BY <1>1, <1>3 DEF AnswerInv
<1> QED BY <1>2, <1>4, <1>5

\* Each step of runSnap itself keeps where the session stands for its pc.
LEMMA MainStepSnapInv == SnapInv /\ MainStep /\ SessInv' => SnapInv'
<1> SUFFICES ASSUME SnapInv, MainStep, SessInv' PROVE SnapInv'
  OBVIOUS
<1> USE DEF SnapInv
<1>0. result \in [Guest -> Result] /\ result' \in [Guest -> Result]
  BY DEF SessInv, SessTypeOK
<1>1. RunTypeOK'
  BY <1>0 DEF RunTypeOK, RunPc, MainStep, Prepare, PrepareFails, StartFreeze,
       EndFreeze, Abort, Proceed, PreSnap, ZfsSnapshot, StartThaw, EndThaw, Report,
       StartDeferredThaw, EndDeferredThaw, Return, ReportNow
<1>2. PcInv'
  BY DEF PcInv, MainStep, Prepare, PrepareFails, StartFreeze, EndFreeze, Abort,
       Proceed, PreSnap, ZfsSnapshot, StartThaw, EndThaw, Report, StartDeferredThaw,
       EndDeferredThaw, Return, FreezeAll, FreezeAllReturn, Thaw, ThawAllReturn,
       sessVars
<1>3. DoneInv'
  BY DEF DoneInv, MainStep, Prepare, PrepareFails, StartFreeze, EndFreeze, Abort,
       Proceed, PreSnap, ZfsSnapshot, StartThaw, EndThaw, Report, StartDeferredThaw,
       EndDeferredThaw, Return, sessVars, AbortList, StrictViolations, Answered
<1>4. AnswerInv'
  BY DEF AnswerInv, MainStep, Prepare, PrepareFails, StartFreeze, EndFreeze, Abort,
       Proceed, PreSnap, ZfsSnapshot, StartThaw, EndThaw, Report, StartDeferredThaw,
       EndDeferredThaw, Return, FreezeAll, FreezeAllReturn, Thaw, ThawAllReturn,
       sessVars
<1> QED BY <1>1, <1>2, <1>3, <1>4

\* Every step of the run, its own or a goroutine's, keeps the invariant.
LEMMA NextSnapInv == SnapInv /\ [SnapNext]_snapVars => SnapInv'
<1> SUFFICES ASSUME SnapInv, [SnapNext]_snapVars PROVE SnapInv'
  OBVIOUS
<1>1. SessInv'
  BY SnapStepIsSessStep, NextSessInv DEF SnapInv
<1>2. CASE MainStep
  BY <1>1, <1>2, MainStepSnapInv
<1>3. CASE \E g \in Guest : GuestStep(g)
  BY <1>1, <1>3, GuestStepSnapInv
<1>4. CASE UNCHANGED snapVars
  BY <1>1, <1>4 DEF SnapInv, RunTypeOK, PcInv, DoneInv, AnswerInv, AbortList,
       StrictViolations, Answered, snapVars, runVars, sessVars
<1> QED BY <1>2, <1>3, <1>4 DEF SnapNext

\* runSnap and its session keep the inductive invariant.
THEOREM SnapInvariant == SnapSpec => []SnapInv
<1>1. SnapInit => SnapInv
  BY InitSnapInv
<1> QED BY <1>1, NextSnapInv, PTL DEF SnapSpec

\* Every variable of the run and of its session keeps its type.
THEOREM SnapTypeCorrect == SnapSpec => []SnapTypeOK
<1>1. SnapInv => SnapTypeOK
  BY DEF SnapInv, SessInv, RunTypeOK, SnapTypeOK
<1> QED BY <1>1, SnapInvariant, PTL

-----------------------------------------------------------------------------
\* Only ZfsSnapshot touches zfs, and there the judgement has been passed on
\* complete results of guests nobody has begun to thaw.
LEMMA SnapshotStep ==
  SnapInv /\ [SnapNext]_snapVars =>
    [zfs' # zfs =>
       /\ phase = "open" /\ report = NoReport
       /\ \A g \in Guest :
            /\ Answered(g)
            /\ \/ result[g].frozen /\ g \in frozen /\ thawCalls[g] = 0
               \/ ~result[g].frozen /\ Tolerated(g)]_snapVars
<1> SUFFICES ASSUME SnapInv, SnapNext, zfs' # zfs, NEW g \in Guest
             PROVE  /\ phase = "open" /\ report = NoReport
                    /\ Answered(g)
                    /\ \/ result[g].frozen /\ g \in frozen /\ thawCalls[g] = 0
                       \/ ~result[g].frozen /\ Tolerated(g)
  <2>1. CASE Guest # {}
    BY <2>1
  <2>2. CASE Guest = {} /\ SnapInv /\ SnapNext /\ zfs' # zfs
    <3>1. ZfsSnapshot
      BY <2>2 DEF SnapNext, MainStep, GuestStep, runVars, Prepare, PrepareFails,
         StartFreeze, EndFreeze, Abort, Proceed, PreSnap, StartThaw, EndThaw, Report,
         StartDeferredThaw, EndDeferredThaw, Return
    <3> QED BY <2>2, <3>1 DEF SnapInv, PcInv, DoneInv, ZfsSnapshot
  <2> QED BY <2>1, <2>2
<1>1. ZfsSnapshot
  BY DEF SnapNext, MainStep, GuestStep, runVars, Prepare, PrepareFails, StartFreeze,
       EndFreeze, Abort, Proceed, PreSnap, StartThaw, EndThaw, Report,
       StartDeferredThaw, EndDeferredThaw, Return
<1>2. phase = "open" /\ report = NoReport /\ AbortList = {}
  BY <1>1 DEF SnapInv, PcInv, DoneInv, ZfsSnapshot
<1>3. Answered(g)
  BY <1>2 DEF SnapInv, SessInv, AnswerInv, FreezeInv
<1>4. CASE result[g].frozen
  BY <1>2, <1>3, <1>4 DEF SnapInv, SessInv, ThawInv
<1>5. CASE ~result[g].frozen
  BY <1>2, <1>3, <1>5 DEF AbortList, StrictViolations, Tolerated
<1> QED BY <1>2, <1>3, <1>4, <1>5

\* The ZFS snapshot is only attempted inside the freeze and never against a
\* strict chain or --forcefreeze.
THEOREM SnapshotIsInsideFreeze == SnapSpec => SnapshotInsideFreeze
BY SnapInvariant, SnapshotStep, PTL DEF SnapSpec, SnapshotInsideFreeze

\* When runSnap returns, each frozen guest has had exactly one Thaw.
THEOREM ExitLeavesNobody == SnapSpec => []NothingLeftAtExit
<1>1. SnapInv => NothingLeftAtExit
  <2> SUFFICES ASSUME SnapInv, pc \in {"return", "exit"}, NEW g \in Guest
               PROVE  /\ result[g].frozen <=> thawCalls[g] = 1
                      /\ thawAt[g] # "calling"
                      /\ freezeAt[g] \in {"idle", "done"}
    BY DEF NothingLeftAtExit
  <2>1. phase \in {"new", "closed"} /\ g \notin frozen
    BY DEF SnapInv, SessInv, PcInv, ThawInv
  <2>2. freezeAt[g] \in {"idle", "done"} /\ thawAt[g] # "calling"
    BY <2>1 DEF SnapInv, SessInv, SessTypeOK, FreezeInv, ThawInv, FreezeAt
  <2>3. result[g].frozen <=> thawCalls[g] = 1
    BY <2>1 DEF SnapInv, SessInv, ThawInv
  <2> QED BY <2>2, <2>3
<1> QED BY <1>1, SnapInvariant, PTL

-----------------------------------------------------------------------------
\* The report is emitted after Thaw on every path that attempted the snapshot,
\* and nothing changes a result after that.
LEMMA NextReportInv ==
  SnapInv /\ ReportInv /\ [SnapNext]_snapVars => ReportInv'
<1> SUFFICES ASSUME SnapInv, ReportInv, [SnapNext]_snapVars PROVE ReportInv'
  OBVIOUS
<1>1. CASE UNCHANGED snapVars
  BY <1>1 DEF ReportInv, snapVars, runVars, sessVars
<1>2. ASSUME NEW g \in Guest, GuestStep(g) PROVE ReportInv'
  <2>1. CASE report # NoReport /\ zfs # "none"
    <3>1. phase \in {"open", "closed", "thawing", "new"} /\ frozen = {}
      BY <2>1 DEF SnapInv, PcInv, ReportInv
    <3>2. FALSE
      BY <1>2, <3>1 DEF SnapInv, SessInv, FreezeInv, ThawInv, GuestStep, FreezeStep,
         ThawStep, FreezeUnsupported, FreezeCall, FreezeReturn, FreezeRecord,
         ThawCall, ThawReturn
    <3> QED BY <3>2
  <2>2. CASE ~(report # NoReport /\ zfs # "none")
    BY <1>2, <2>2 DEF ReportInv, GuestStep, runVars
  <2> QED BY <2>1, <2>2
<1>3. CASE Report
  <2>1. frozen = {} /\ zfs \in {"taken", "failed"}
    BY <1>3 DEF Report, SnapInv, SessInv, SessTypeOK, PcInv, DoneInv, RunTypeOK,
       ThawInv
  <2> QED BY <1>3, <2>1 DEF Report, ReportInv, ReportNow, sessVars
<1>4. CASE MainStep /\ ~Report
  BY <1>4 DEF MainStep, SnapInv, DoneInv, ReportInv, Prepare, PrepareFails,
       StartFreeze, EndFreeze, Abort, Proceed, PreSnap, ZfsSnapshot, StartThaw,
       EndThaw, StartDeferredThaw, EndDeferredThaw, Return, Thaw, ThawAllReturn,
       FreezeAll, FreezeAllReturn, sessVars
<1> QED BY <1>1, <1>2, <1>3, <1>4 DEF SnapNext

\* Once a snapshot was attempted, the emitted result is what really happened.
THEOREM ReportIsFinal == SnapSpec => []ReportMatchesEnd
<1>1. SnapInit => ReportInv
  BY InitSnapInv
<1>2. ReportInv => ReportMatchesEnd
  BY DEF ReportInv, ReportMatchesEnd
<1> QED BY <1>1, <1>2, NextReportInv, SnapInvariant, PTL DEF SnapSpec

-----------------------------------------------------------------------------
\* Who is held changes only by FreezeRecord, which adds one guest, and by
\* ThawCall, which takes one away.
LEMMA GuestStepHeld ==
  ASSUME NEW g \in Guest, SnapInv, GuestStep(g)
  PROVE  /\ UNCHANGED <<Stage, zfs>>
         /\ \/ Held' = Held
            \/ Stage = "hold" /\ Held' = Held \cup {g}
            \/ Stage = "release" /\ g \in Held /\ Held' = Held \ {g}
<1> USE DEF GuestStep, runVars
<1>1. UNCHANGED <<Stage, zfs>>
  BY DEF Stage
<1>2. CASE UNCHANGED <<frozen, thawAt>>
  BY <1>1, <1>2 DEF Held
<1>3. CASE FreezeRecord(g)
  <2>1. Stage = "hold"
    BY <1>3 DEF SnapInv, SessInv, FreezeInv, FreezeRecord, PcInv, RunTypeOK, RunPc,
       Stage
  <2>2. thawAt[g] = "idle" /\ thawAt' = thawAt
    BY <1>3 DEF SnapInv, SessInv, FreezeInv, ThawInv, FreezeRecord
  <2>3. Held' = Held \/ Held' = Held \cup {g}
    BY <1>3, <2>2 DEF Held, FreezeRecord
  <2> QED BY <1>1, <2>1, <2>3
<1>4. CASE ThawCall(g)
  <2>1. g \in frozen /\ phase = "thawing" /\ thawAt[g] = "wait" /\ frozen' = frozen
    BY <1>4 DEF SnapInv, SessInv, ThawInv, ThawCall
  <2>2. Stage = "release"
    BY <2>1 DEF SnapInv, PcInv, RunTypeOK, RunPc, Stage
  <2>3. thawAt' = [thawAt EXCEPT ![g] = "calling"] /\ thawAt \in [Guest -> ThawAt]
    BY <1>4 DEF ThawCall, SnapInv, SessInv, SessTypeOK
  <2>4. frozen \subseteq Guest
    BY DEF SnapInv, SessInv, SessTypeOK
  <2>5. g \in Held /\ Held' = Held \ {g}
    BY <2>1, <2>3, <2>4 DEF Held
  <2> QED BY <1>1, <2>2, <2>5
<1>5. CASE \E ok \in BOOLEAN : ThawReturn(g, ok)
  <2>1. thawAt[g] = "calling" /\ frozen' = frozen /\ frozen \subseteq Guest
        /\ thawAt' = [thawAt EXCEPT ![g] = "done"] /\ thawAt \in [Guest -> ThawAt]
    BY <1>5 DEF ThawReturn, SnapInv, SessInv, SessTypeOK
  <2>2. Held' = Held
    BY <2>1 DEF Held
  <2> QED BY <1>1, <2>2
<1> QED BY <1>2, <1>3, <1>4, <1>5 DEF FreezeStep, ThawStep, FreezeUnsupported,
           FreezeCall, FreezeReturn

\* Each step of the run is a step of SnapPromise or leaves it unchanged.
LEMMA SnapStepIsPromiseStep ==
  SnapInv /\ [SnapNext]_snapVars => [Promise!Next]_(Promise!promiseVars)
<1> SUFFICES ASSUME SnapInv, [SnapNext]_snapVars
             PROVE  Promise!Next \/ UNCHANGED <<Stage, Held, zfs>>
  BY DEF Promise!promiseVars
<1> USE DEF Promise!Next
<1>1. CASE UNCHANGED snapVars
  BY <1>1 DEF snapVars, runVars, sessVars, Stage, Held
<1>2. ASSUME NEW g \in Guest, GuestStep(g)
      PROVE  Promise!Next \/ UNCHANGED <<Stage, Held, zfs>>
  BY <1>2, GuestStepHeld DEF Promise!Hold, Promise!Release
<1>3. CASE ZfsSnapshot
  BY <1>3 DEF ZfsSnapshot, Promise!TakeSnapshot, Stage, Held, sessVars
<1>4. CASE Abort \/ PrepareFails
  BY <1>4 DEF Abort, PrepareFails, Promise!GiveUp, Stage, Held, sessVars
<1>5. CASE Return
  <2>1. Held = {}
    BY <1>5 DEF Return, SnapInv, SessInv, SessTypeOK, PcInv, ThawInv, Held
  <2> QED BY <1>5, <2>1 DEF Return, Promise!End, Stage, Held, sessVars
<1>6. CASE Prepare \/ Proceed \/ PreSnap \/ Report
  BY <1>6 DEF Prepare, Proceed, PreSnap, Report, Stage, Held, sessVars
<1>7. CASE StartFreeze \/ EndFreeze
  BY <1>7 DEF StartFreeze, EndFreeze, FreezeAll, FreezeAllReturn, Stage, Held
<1>8. CASE StartThaw \/ StartDeferredThaw
  <2>1. phase \in {"open", "closed"} /\ frozen' = frozen
        /\ thawAt' = [g \in Guest |-> IF g \in frozen THEN "wait" ELSE "idle"]
    BY <1>8 DEF StartThaw, StartDeferredThaw, Thaw
  <2>2. \A g \in frozen : g \in Guest /\ thawAt[g] = "idle"
    BY <2>1 DEF SnapInv, SessInv, SessTypeOK, ThawInv
  <2>3. Held' = Held
    BY <2>1, <2>2 DEF Held
  <2>4. UNCHANGED <<Stage, zfs>>
    BY <1>8 DEF StartThaw, StartDeferredThaw, Stage
  <2> QED BY <2>3, <2>4
<1>9. CASE EndThaw \/ EndDeferredThaw
  <2>1. Held = {} /\ Held' = {}
    BY <1>9 DEF EndThaw, EndDeferredThaw, ThawAllReturn, Held
  <2>2. UNCHANGED <<Stage, zfs>>
    BY <1>9 DEF EndThaw, EndDeferredThaw, Stage
  <2> QED BY <2>1, <2>2
<1> QED BY <1>1, <1>2, <1>3, <1>4, <1>5, <1>6, <1>7, <1>8, <1>9
        DEF SnapNext, MainStep

\* runSnap implements the promise of "snap", step by step.
THEOREM RunImplementsPromise == SnapSpec => ImplementsPromise
<1>1. SnapInit => Promise!Init
  BY DEF SnapInit, SessInit, Promise!Init, Stage, Held
<1> QED BY <1>1, SnapInvariant, SnapStepIsPromiseStep, PTL
        DEF SnapSpec, ImplementsPromise, Promise!Spec

-----------------------------------------------------------------------------
(***************************************************************************)
(* The inductive invariant, by guest.  CallInv ties a Freezer's program    *)
(* counter to the session's goroutine that has called it and says which    *)
(* strategy is remembered at which point.  The rest follows a command to   *)
(* the agent, to QEMU's monitor and to the qm worker: as long as a         *)
(* strategy is remembered no other command can be on its way to the same   *)
(* device, except the one by which Thaw undoes it.                         *)
(***************************************************************************)
FreezePoint == {"step", "qga", "qga 0", "qmp", "qm", "reap"}
ThawPoint   == {"thaw qga", "thaw qmp"}

\* The strategies by which a VM counts as frozen.
Stopping == {"qga", "qmp-pause", "qm-mem"}

AgentState   == {"idle", "freeze", "froze", "froze 0", "refused", "thaw", "thawed"}
MonitorState == {"idle", "stop", "cont", "done", "refused"}
WorkerState  == {"idle", "running", "done", "failed", "detached"}
FsState      == {"running", "frozen"}
CpuState     == {"running", "paused"}
CallPoint    == FreezePoint \cup ThawPoint \cup {"idle", "returned"}
Strategy     == Stopping \cup {"unset", "stopped", "none"}
QemuReturn   == Returns \cup {"pending", "ok", "failed"}

\* QemuTypeOK without the chain and the step, which no property looks at.
VmTypes ==
  /\ best \subseteq VM
  /\ settled \subseteq VM
  /\ on \in [VM -> BOOLEAN]
  /\ mem \in [VM -> BOOLEAN]
  /\ fs \in [VM -> FsState]
  /\ cpu \in [VM -> CpuState]
  /\ agent \in [VM -> AgentState]
  /\ monitor \in [VM -> MonitorState]
  /\ worker \in [VM -> WorkerState]
  /\ at \in [VM -> CallPoint]
  /\ strategy \in [VM -> Strategy]
  /\ ret \in [VM -> QemuReturn]
  /\ misread \subseteq VM \X {"stop", "cont"}

CallInv(v) ==
  /\ at[v] = "idle" <=> freezeAt[v] # "calling" /\ thawAt[v] # "calling"
  /\ at[v] \in FreezePoint => freezeAt[v] = "calling" /\ strategy[v] = "unset"
  /\ at[v] \in ThawPoint => thawAt[v] = "calling"
  /\ at[v] = "thaw qga" => strategy[v] = "qga"
  /\ at[v] = "thaw qmp" => strategy[v] = "qmp-pause"
  /\ at[v] = "returned" /\ freezeAt[v] = "calling" => ret[v] \in Returns
  /\ at[v] = "returned" /\ thawAt[v] = "calling" => ret[v] \in {"ok", "failed"}
  /\ freezeAt[v] \in {"idle", "start"} => strategy[v] = "unset"
  /\ ret[v] \in {"ok", "failed"} => thawCalls[v] = 1
  /\ result[v].thawed => ret[v] = "ok" /\ thawAt[v] # "calling"

\* A guest that counts as frozen has a strategy.
StrategyInv(v) ==
  \/ at[v] = "returned" /\ freezeAt[v] = "calling" /\ ret[v] \in Froze
  \/ freezeAt[v] = "record" /\ outcome[v] \in Froze
  \/ result[v].frozen
  => strategy[v] \in Stopping \cup {"stopped"}

\* A VM that was on when its freeze began does not come back once it is off.
SwitchInv(v) ==
  at[v] \in FreezePoint \/ strategy[v] \in Stopping => on[v] \/ v \in settled

AgentInv(v) ==
  /\ at[v] = "qga" /\ agent[v] = "froze" => fs[v] = "frozen" \/ ~on[v]
  /\ strategy[v] = "qga" =>
       /\ agent[v] \in {"idle", "thaw", "thawed", "refused"}
       /\ thawCalls[v] = 0 => agent[v] = "idle" /\ (fs[v] = "frozen" \/ ~on[v])
       /\ agent[v] = "thawed" \/ ret[v] = "ok" => fs[v] = "running"

\* An event that was taken for an answer leaves open what became of the command.
MonitorInv(v) ==
  /\ at[v] = "qmp" => /\ monitor[v] # "cont"
                      /\ monitor[v] = "done" => cpu[v] = "paused" \/ ~on[v]
  /\ strategy[v] = "qmp-pause" =>
       /\ thawCalls[v] = 0 /\ <<v, "stop">> \notin misread =>
            monitor[v] = "idle" /\ (cpu[v] = "paused" \/ ~on[v])
       /\ at[v] = "thaw qmp" \/ ret[v] = "ok" => monitor[v] # "stop"
       /\ at[v] = "thaw qmp" /\ monitor[v] = "done" => cpu[v] = "running"
       /\ ret[v] = "ok" /\ <<v, "cont">> \notin misread => cpu[v] = "running"

WorkerInv(v) ==
  /\ at[v] = "qm" /\ worker[v] = "done" => mem[v]
  /\ strategy[v] = "qm-mem" => mem[v]

VmInv(v) ==
  /\ CallInv(v)
  /\ StrategyInv(v)
  /\ SwitchInv(v)
  /\ AgentInv(v)
  /\ MonitorInv(v)
  /\ WorkerInv(v)

CtPoint == {"fsfreeze", "sync", "cgroup"}

CtCallInv(c) ==
  /\ ctAt[c] = "idle" <=> freezeAt[c] # "calling" /\ thawAt[c] # "calling"
  /\ ctAt[c] \in CtPoint => freezeAt[c] = "calling"
  /\ ctAt[c] = "returned" /\ freezeAt[c] = "calling" => ctRet[c] \in Returns
  /\ ctAt[c] = "returned" /\ thawAt[c] = "calling" => ctRet[c] \in {"ok", "failed"}
  /\ ctRet[c] \in {"ok", "failed"} => thawCalls[c] = 1
  /\ result[c].thawed => ctRet[c] = "ok" /\ thawAt[c] # "calling"

\* The freeze that fd stands for, or the one of the cgroup.
CtFreezeInv(c) ==
  /\ freezeAt[c] \in {"idle", "start"} \/ ctAt[c] \in CtPoint =>
       ctFs[c] = "running" /\ cgroup[c] = "running" /\ c \notin fd
  /\ ~(ctFs[c] = "frozen" /\ cgroup[c] = "frozen")
  /\ c \in fd => ctFs[c] = "frozen"
  /\ ctFs[c] = "frozen" => c \in fd \/ ctRet[c] = "failed"
  /\ ctRet[c] = "ok" => ctFs[c] = "running" /\ cgroup[c] = "running"

CtHeldInv(c) ==
  \/ ctAt[c] = "returned" /\ freezeAt[c] = "calling" /\ ctRet[c] \in Froze
  \/ freezeAt[c] = "record" /\ outcome[c] \in Froze
  \/ result[c].frozen /\ thawCalls[c] = 0
  => ctFs[c] = "frozen" \/ cgroup[c] = "frozen"

CtInv(c) ==
  /\ CtCallInv(c)
  /\ CtFreezeInv(c)
  /\ CtHeldInv(c)

FreezersInv ==
  /\ VmTypes
  /\ LxcTypeOK
  /\ \A v \in VM : VmInv(v)
  /\ \A c \in CT : CtInv(c)

ProxInv == SnapInv /\ FreezersInv

-----------------------------------------------------------------------------
\* What SessInv says of a guest whose Freezer is being called.
LEMMA CalledGuest ==
  ASSUME SessInv, NEW g \in Guest
  PROVE  /\ freezeAt[g] \in {"start", "calling", "record"} =>
              thawAt[g] = "idle" /\ thawCalls[g] = 0 /\ ~result[g].frozen
         /\ thawAt[g] = "wait" => thawCalls[g] = 0
         /\ thawAt[g] = "calling" => thawCalls[g] = 1
         /\ thawAt[g] \in {"wait", "calling"} =>
              freezeAt[g] \in {"idle", "done"} /\ result[g].frozen
<1>1. freezeAt[g] \in FreezeAt /\ thawAt[g] \in ThawAt /\ phase \in Phase
  BY DEF SessInv, SessTypeOK
<1>2. FreezeInv(g) /\ ThawInv(g)
  BY DEF SessInv
<1>3. ASSUME freezeAt[g] \in {"start", "calling", "record"}
      PROVE  thawAt[g] = "idle" /\ thawCalls[g] = 0 /\ ~result[g].frozen
  <2>1. phase = "freezing" /\ result[g].outcome = "pending"
    BY <1>2, <1>3 DEF FreezeInv, Answered
  <2>2. ~result[g].frozen
    BY <1>2, <2>1 DEF FreezeInv, Froze
  <2> QED BY <1>2, <2>1, <2>2 DEF ThawInv
<1> QED BY <1>1, <1>2, <1>3 DEF FreezeInv, ThawInv, FreezeAt, ThawAt

-----------------------------------------------------------------------------
(* VMs: a step of the Freezer's call or of the devices, with the session as  *)
(* it was.                                                                   *)

\* All that VmInv and CtInv read of the session about one guest.
SessionSame(g) ==
  /\ freezeAt'[g] = freezeAt[g]
  /\ thawAt'[g] = thawAt[g]
  /\ thawCalls'[g] = thawCalls[g]
  /\ outcome'[g] = outcome[g]
  /\ result'[g] = result[g]

\* And of the VM.
VmSame(v) ==
  /\ on'[v] = on[v] /\ fs'[v] = fs[v] /\ cpu'[v] = cpu[v] /\ mem'[v] = mem[v]
  /\ agent'[v] = agent[v] /\ monitor'[v] = monitor[v] /\ worker'[v] = worker[v]
  /\ at'[v] = at[v] /\ strategy'[v] = strategy[v] /\ ret'[v] = ret[v]
  /\ v \in settled' <=> v \in settled
  /\ \A k \in {"stop", "cont"} : <<v, k>> \in misread' <=> <<v, k>> \in misread

QemuStep(v) == QemuCallStep(v) \/ DeviceStep(v) \/ VmStarts(v) \/ VmStops(v)

\* A VM about which nothing changes keeps its invariant.
LEMMA SameVmInv ==
  ASSUME NEW v \in VM, VmInv(v), SessionSame(v), VmSame(v)
  PROVE  VmInv(v)'
<1> USE DEF VmInv, SessionSame, VmSame
<1>1. CallInv(v)'
  BY DEF CallInv
<1>2. StrategyInv(v)'
  BY DEF StrategyInv
<1>3. SwitchInv(v)'
  BY DEF SwitchInv
<1>4. AgentInv(v)'
  BY DEF AgentInv
<1>5. MonitorInv(v)'
  BY DEF MonitorInv
<1>6. WorkerInv(v)'
  BY DEF WorkerInv
<1> QED BY <1>1, <1>2, <1>3, <1>4, <1>5, <1>6

\* What a call tries, it tries in the loop over the steps.
LEMMA TryingInLoop ==
  ASSUME NEW v \in VM, NEW k, Trying(v, k)
  PROVE  at[v] = "step"
BY DEF Trying

\* The function f becomes f1 by at most one assignment, at v, of a value in R.
Writes(f1, f, v, R) == f1 = f \/ \E x \in R : f1 = [f EXCEPT ![v] = x]

LEMMA WritesType ==
  ASSUME NEW D, NEW R, NEW f \in [D -> R], NEW f1, NEW v \in D, Writes(f1, f, v, R)
  PROVE  /\ f1 \in [D -> R]
         /\ \A w \in D : w # v => f1[w] = f[w]
BY DEF Writes

\* What a step of the Freezer's call or of a device may write.
LEMMA QemuStepWrites ==
  ASSUME VmTypes, NEW v \in VM, QemuStep(v)
  PROVE  /\ best' = best
         /\ settled' = settled \/ settled' = settled \cup {v}
         /\ Writes(on', on, v, BOOLEAN)
         /\ Writes(mem', mem, v, BOOLEAN)
         /\ Writes(fs', fs, v, FsState)
         /\ Writes(cpu', cpu, v, CpuState)
         /\ Writes(agent', agent, v, AgentState)
         /\ Writes(monitor', monitor, v, MonitorState)
         /\ Writes(worker', worker, v, WorkerState)
         /\ Writes(at', at, v, CallPoint)
         /\ Writes(strategy', strategy, v, Strategy)
         /\ Writes(ret', ret, v, QemuReturn)
         /\ \/ misread' = misread
            \/ \E k \in {"stop", "cont"} : misread' = misread \cup {<<v, k>>}
<1>1. agent[v] \in AgentState /\ monitor[v] \in MonitorState
  BY DEF VmTypes
<1> USE DEF QemuStep, QemuCallStep, DeviceStep, AgentFreezes, AgentThaws,
     MonitorActs, WorkerEnds, VmStarts, VmStops, StepsExhausted, QgaUnreachable,
     QgaSend, QgaAnswer, QgaUndo, QgaTimeout, QmpUnreachable, QmpSend, QmpAnswer,
     QmpTimeout, MemNotRunning, MemStart, MemEnd, MemTimeout, Reap, ThawAnswer,
     ThawTimeout, QmpEvent, NextStep, StepWorked, Heard, Writes, devVars, callVars
<1>2. best' = best /\ (settled' = settled \/ settled' = settled \cup {v})
  OBVIOUS
<1>3. Writes(on', on, v, BOOLEAN)
  OBVIOUS
<1>4. Writes(mem', mem, v, BOOLEAN)
  OBVIOUS
<1>5. Writes(fs', fs, v, FsState)
  BY DEF FsState
<1>6. Writes(cpu', cpu, v, CpuState)
  BY DEF CpuState
<1>7. Writes(agent', agent, v, AgentState)
  BY <1>1 DEF AgentState
<1>8. Writes(monitor', monitor, v, MonitorState)
  BY <1>1 DEF MonitorState
<1>9. Writes(worker', worker, v, WorkerState)
  BY DEF WorkerState
<1>10. Writes(at', at, v, CallPoint)
  BY DEF Returning, CallPoint, FreezePoint
<1>11. Writes(strategy', strategy, v, Strategy)
  BY DEF Strategy, Stopping
<1>12. Writes(ret', ret, v, QemuReturn)
  BY DEF Returning, QemuReturn, Returns, Froze
<1>13. \/ misread' = misread
       \/ \E k \in {"stop", "cont"} : misread' = misread \cup {<<v, k>>}
  OBVIOUS
<1> QED BY <1>2, <1>3, <1>4, <1>5, <1>6, <1>7, <1>8, <1>9, <1>10, <1>11, <1>12, <1>13

\* So it keeps the types and leaves every other VM alone.
LEMMA QemuStepTypes ==
  ASSUME VmTypes, NEW v \in VM, QemuStep(v)
  PROVE  VmTypes' /\ \A w \in VM : w # v => VmSame(w)
<1>1. best' = best /\ (settled' = settled \/ settled' = settled \cup {v})
  BY QemuStepWrites
<1>2. /\ best' \subseteq VM /\ settled' \subseteq VM
      /\ \A w \in VM : w # v => (w \in settled' <=> w \in settled)
  BY <1>1 DEF VmTypes
<1>3. on' \in [VM -> BOOLEAN] /\ \A w \in VM : w # v => on'[w] = on[w]
  <2> DEFINE States == BOOLEAN
  <2>1. on \in [VM -> States]
    BY DEF VmTypes
  <2>2. Writes(on', on, v, States)
    BY QemuStepWrites
  <2> HIDE DEF States
  <2>3. on' \in [VM -> States] /\ \A w \in VM : w # v => on'[w] = on[w]
    BY <2>1, <2>2 DEF Writes
  <2> QED BY <2>3 DEF States
<1>4. mem' \in [VM -> BOOLEAN] /\ \A w \in VM : w # v => mem'[w] = mem[w]
  <2> DEFINE States == BOOLEAN
  <2>1. mem \in [VM -> States]
    BY DEF VmTypes
  <2>2. Writes(mem', mem, v, States)
    BY QemuStepWrites
  <2> HIDE DEF States
  <2>3. mem' \in [VM -> States] /\ \A w \in VM : w # v => mem'[w] = mem[w]
    BY <2>1, <2>2 DEF Writes
  <2> QED BY <2>3 DEF States
<1>5. fs' \in [VM -> FsState] /\ \A w \in VM : w # v => fs'[w] = fs[w]
  <2>1. fs \in [VM -> FsState]
    BY DEF VmTypes
  <2>2. Writes(fs', fs, v, FsState)
    BY QemuStepWrites
  <2> QED BY <2>1, <2>2, WritesType
<1>6. cpu' \in [VM -> CpuState] /\ \A w \in VM : w # v => cpu'[w] = cpu[w]
  <2>1. cpu \in [VM -> CpuState]
    BY DEF VmTypes
  <2>2. Writes(cpu', cpu, v, CpuState)
    BY QemuStepWrites
  <2> QED BY <2>1, <2>2, WritesType
<1>7. agent' \in [VM -> AgentState] /\ \A w \in VM : w # v => agent'[w] = agent[w]
  <2>1. agent \in [VM -> AgentState]
    BY DEF VmTypes
  <2>2. Writes(agent', agent, v, AgentState)
    BY QemuStepWrites
  <2> QED BY <2>1, <2>2, WritesType
<1>8. monitor' \in [VM -> MonitorState] /\ \A w \in VM : w # v => monitor'[w] = monitor[w]
  <2>1. monitor \in [VM -> MonitorState]
    BY DEF VmTypes
  <2>2. Writes(monitor', monitor, v, MonitorState)
    BY QemuStepWrites
  <2> QED BY <2>1, <2>2, WritesType
<1>9. worker' \in [VM -> WorkerState] /\ \A w \in VM : w # v => worker'[w] = worker[w]
  <2>1. worker \in [VM -> WorkerState]
    BY DEF VmTypes
  <2>2. Writes(worker', worker, v, WorkerState)
    BY QemuStepWrites
  <2> QED BY <2>1, <2>2, WritesType
<1>10. at' \in [VM -> CallPoint] /\ \A w \in VM : w # v => at'[w] = at[w]
  <2>1. at \in [VM -> CallPoint]
    BY DEF VmTypes
  <2>2. Writes(at', at, v, CallPoint)
    BY QemuStepWrites
  <2> QED BY <2>1, <2>2, WritesType
<1>11. strategy' \in [VM -> Strategy] /\ \A w \in VM : w # v => strategy'[w] = strategy[w]
  <2>1. strategy \in [VM -> Strategy]
    BY DEF VmTypes
  <2>2. Writes(strategy', strategy, v, Strategy)
    BY QemuStepWrites
  <2> QED BY <2>1, <2>2, WritesType
<1>12. ret' \in [VM -> QemuReturn] /\ \A w \in VM : w # v => ret'[w] = ret[w]
  <2>1. ret \in [VM -> QemuReturn]
    BY DEF VmTypes
  <2>2. Writes(ret', ret, v, QemuReturn)
    BY QemuStepWrites
  <2> QED BY <2>1, <2>2, WritesType
<1>13. /\ misread' \subseteq VM \X {"stop", "cont"}
       /\ \A w \in VM : w # v =>
            \A k \in {"stop", "cont"} : <<w, k>> \in misread' <=> <<w, k>> \in misread
  BY QemuStepWrites DEF VmTypes
<1> QED BY <1>2, <1>3, <1>4, <1>5, <1>6, <1>7, <1>8, <1>9, <1>10, <1>11, <1>12, <1>13
        DEF VmTypes, VmSame

\* What a step of the call does to its own variables: it goes on within the
\* loop, a step of the chain worked, none did, or a thaw returns.
GoesOn(v) ==
  /\ at[v] \in FreezePoint
  /\ \E p \in FreezePoint : at' = [at EXCEPT ![v] = p]
  /\ UNCHANGED <<strategy, ret>>

Works(v) ==
  /\ at[v] \in FreezePoint
  /\ at' = [at EXCEPT ![v] = "returned"]
  /\ \E s \in Stopping : strategy' = [strategy EXCEPT ![v] = s]
  /\ \E r \in Froze : ret' = [ret EXCEPT ![v] = r]

ThawEnds(v) ==
  /\ at[v] \in ThawPoint
  /\ at' = [at EXCEPT ![v] = "returned"]
  /\ \E r \in {"ok", "failed"} : ret' = [ret EXCEPT ![v] = r]
  /\ UNCHANGED strategy

LEMMA CallStepKinds ==
  ASSUME NEW v \in VM, QemuCallStep(v)
  PROVE  GoesOn(v) \/ Works(v) \/ StepsExhausted(v) \/ ThawEnds(v)
<1> USE DEF GoesOn, Works, ThawEnds, FreezePoint, ThawPoint, Stopping, Froze,
        NextStep, StepWorked, Returning
<1>0. \A k : Trying(v, k) => at[v] = "step"
  BY TryingInLoop
<1>1. CASE QgaUnreachable(v) \/ QgaSend(v) \/ QgaAnswer(v) \/ QgaUndo(v) \/ QgaTimeout(v)
  BY <1>0, <1>1 DEF QgaUnreachable, QgaSend, QgaAnswer, QgaUndo, QgaTimeout
<1>2. CASE QmpUnreachable(v) \/ QmpSend(v) \/ QmpAnswer(v) \/ QmpTimeout(v)
  BY <1>0, <1>2 DEF QmpUnreachable, QmpSend, QmpAnswer, QmpTimeout
<1>3. CASE MemNotRunning(v) \/ MemStart(v) \/ MemEnd(v) \/ MemTimeout(v) \/ Reap(v)
  BY <1>0, <1>3 DEF MemNotRunning, MemStart, MemEnd, MemTimeout, Reap
<1>4. CASE ThawAnswer(v) \/ ThawTimeout(v) \/ QmpEvent(v)
  BY <1>4 DEF ThawAnswer, ThawTimeout, QmpEvent
<1> QED BY <1>1, <1>2, <1>3, <1>4 DEF QemuCallStep

\* A step of the call or of a device keeps where the call is and what it has
\* remembered,
LEMMA QemuStepCallInv ==
  ASSUME SessInv, VmTypes, NEW v \in VM, v \in Guest, VmInv(v), QemuStep(v),
         SessionSame(v)
  PROVE  CallInv(v)' /\ StrategyInv(v)'
<1> USE DEF SessionSame, FreezePoint, ThawPoint, Stopping, Froze, Returns
<1>0. /\ freezeAt[v] = "calling" =>
           thawAt[v] = "idle" /\ thawCalls[v] = 0 /\ ~result[v].frozen
      /\ thawAt[v] = "calling" => thawCalls[v] = 1 /\ freezeAt[v] # "calling"
  BY CalledGuest
<1>1. at \in [VM -> CallPoint] /\ strategy \in [VM -> Strategy]
      /\ ret \in [VM -> QemuReturn]
  BY DEF VmTypes
<1>2. CallInv(v) /\ StrategyInv(v)
  BY DEF VmInv
<1>3. CASE DeviceStep(v) \/ VmStarts(v) \/ VmStops(v)
  <2>1. UNCHANGED callVars
    BY <1>3 DEF DeviceStep, AgentFreezes, AgentThaws, MonitorActs, WorkerEnds,
       VmStarts, VmStops, callVars
  <2> QED BY <1>2, <2>1 DEF callVars, CallInv, StrategyInv
<1>4. CASE GoesOn(v)
  BY <1>0, <1>1, <1>2, <1>4 DEF GoesOn, CallInv, StrategyInv
<1>5. CASE Works(v)
  <2>1. at'[v] = "returned" /\ strategy'[v] \in Stopping /\ ret'[v] \in Froze
    BY <1>1, <1>5 DEF Works
  <2>2. freezeAt[v] = "calling" /\ ~result[v].thawed
    <3>1. freezeAt[v] = "calling"
      BY <1>2, <1>5 DEF Works, CallInv
    <3>2. thawCalls[v] # 1
      BY <1>0, <3>1
    <3>3. result[v].thawed => thawCalls[v] = 1
      BY <1>2 DEF CallInv
    <3> QED BY <3>1, <3>2, <3>3
  <2>3. /\ freezeAt'[v] = "calling" /\ thawAt'[v] = "idle" /\ ~result'[v].thawed
        /\ ret'[v] \in Returns /\ ret'[v] \notin {"ok", "failed"}
    BY <1>0, <2>1, <2>2
  <2>4. CallInv(v)'
    BY <2>1, <2>3 DEF CallInv
  <2> QED BY <2>1, <2>4 DEF StrategyInv
<1>6. CASE StepsExhausted(v)
  BY <1>0, <1>1, <1>2, <1>6 DEF StepsExhausted, Returning, CallInv, StrategyInv
<1>7. CASE ThawEnds(v)
  BY <1>0, <1>1, <1>2, <1>7 DEF ThawEnds, CallInv, StrategyInv
<1> QED BY <1>3, <1>4, <1>5, <1>6, <1>7, CallStepKinds DEF QemuStep

\* whether it may still be switched on,
LEMMA QemuStepSwitchInv ==
  ASSUME VmTypes, NEW v \in VM, VmInv(v), QemuStep(v)
  PROVE  SwitchInv(v)'
<1>1. /\ at \in [VM -> CallPoint] /\ strategy \in [VM -> Strategy]
      /\ on \in [VM -> BOOLEAN]
  BY DEF VmTypes
<1>2. SwitchInv(v)
  BY DEF VmInv
<1>3. CASE DeviceStep(v) \/ VmStarts(v) \/ VmStops(v)
  BY <1>1, <1>2, <1>3 DEF SwitchInv, DeviceStep, AgentFreezes, AgentThaws,
     MonitorActs, WorkerEnds, VmStarts, VmStops, callVars
<1>4. CASE QemuCallStep(v)
  <2>1. UNCHANGED <<on, settled>>
    BY <1>4 DEF QemuCallStep, StepsExhausted, QgaUnreachable, QgaSend, QgaAnswer,
       QgaUndo, QgaTimeout, QmpUnreachable, QmpSend, QmpAnswer, QmpTimeout,
       MemNotRunning, MemStart, MemEnd, MemTimeout, Reap, ThawAnswer, ThawTimeout,
       QmpEvent, devVars
  <2>2. at'[v] \in FreezePoint \/ strategy'[v] \in Stopping =>
          at[v] \in FreezePoint \/ strategy[v] \in Stopping
    BY <1>1, <1>4, CallStepKinds DEF GoesOn, Works, StepsExhausted, ThawEnds,
       Returning, FreezePoint, ThawPoint, Stopping
  <2> QED BY <1>2, <2>1, <2>2 DEF SwitchInv
<1> QED BY <1>3, <1>4 DEF QemuStep

\* what became of the command that is with the agent,
LEMMA QemuStepAgentInv ==
  ASSUME SessInv, VmTypes, NEW v \in VM, v \in Guest, VmInv(v), QemuStep(v),
         SessionSame(v)
  PROVE  AgentInv(v)'
<1>1. /\ at \in [VM -> CallPoint] /\ strategy \in [VM -> Strategy]
      /\ ret \in [VM -> QemuReturn] /\ agent \in [VM -> AgentState]
      /\ fs \in [VM -> FsState] /\ on \in [VM -> BOOLEAN]
  BY DEF VmTypes
<1>2. CallInv(v) /\ AgentInv(v) /\ SwitchInv(v) /\ thawCalls'[v] = thawCalls[v]
  BY DEF VmInv, SessionSame
<1>3. thawAt[v] = "calling" => thawCalls[v] = 1
  BY CalledGuest
<1> USE DEF AgentInv
<1>4. CASE AgentFreezes(v)
  BY <1>1, <1>2, <1>4 DEF AgentFreezes, Heard, QgaPoint, callVars
<1>5. CASE AgentThaws(v)
  BY <1>1, <1>2, <1>5 DEF AgentThaws, Heard, QgaPoint, callVars
<1>6. CASE MonitorActs(v) \/ WorkerEnds(v)
  BY <1>1, <1>2, <1>6 DEF MonitorActs, WorkerEnds, callVars
<1>7. CASE VmStarts(v)
  BY <1>1, <1>2, <1>7 DEF VmStarts, SwitchInv, FreezePoint, Stopping, callVars
<1>8. CASE VmStops(v)
  BY <1>1, <1>2, <1>8 DEF VmStops, Heard, callVars
<1>9. CASE QgaSend(v)
  BY <1>1, <1>2, <1>9, TryingInLoop DEF QgaSend, CallInv, FreezePoint
<1>10. CASE QgaAnswer(v)
  BY <1>1, <1>2, <1>10 DEF QgaAnswer, CallInv, FreezePoint, StepWorked, NextStep,
     Returning
<1>11. CASE QgaUndo(v) \/ QgaTimeout(v)
  BY <1>1, <1>2, <1>11 DEF QgaUndo, QgaTimeout, CallInv, FreezePoint, NextStep
<1>12. CASE ThawAnswer(v)
  BY <1>1, <1>2, <1>3, <1>12 DEF ThawAnswer, CallInv, ThawPoint, Returning
<1>13. CASE ThawTimeout(v)
  BY <1>1, <1>2, <1>3, <1>13 DEF ThawTimeout, CallInv, ThawPoint, Returning
<1>14. CASE QmpEvent(v)
  BY <1>1, <1>2, <1>14 DEF QmpEvent, CallInv, ThawPoint, StepWorked, Returning
<1>15. CASE QemuCallStep(v) /\ ~(QgaSend(v) \/ QgaAnswer(v) \/ QgaUndo(v) \/ QgaTimeout(v)
              \/ ThawAnswer(v) \/ ThawTimeout(v) \/ QmpEvent(v))
  <2>1. UNCHANGED <<agent, fs, on>>
    BY <1>15 DEF QemuCallStep, StepsExhausted, QgaUnreachable, QmpUnreachable,
       QmpSend, QmpAnswer, QmpTimeout, MemNotRunning, MemStart, MemEnd, MemTimeout,
       Reap, devVars
  <2>2. at'[v] # "qga"
    BY <1>1, <1>15, TryingInLoop DEF QemuCallStep, StepsExhausted, QgaUnreachable,
       QmpUnreachable, QmpSend, QmpAnswer, QmpTimeout, MemNotRunning, MemStart,
       MemEnd, MemTimeout, Reap, NextStep, StepWorked, Returning
  <2>3. strategy'[v] # "qga" \/ UNCHANGED <<strategy, ret>>
    BY <1>1, <1>15 DEF QemuCallStep, StepsExhausted, QgaUnreachable,
       QmpUnreachable, QmpSend, QmpAnswer, QmpTimeout, MemNotRunning, MemStart,
       MemEnd, MemTimeout, Reap, NextStep, StepWorked, Returning
  <2> QED BY <1>2, <2>1, <2>2, <2>3
<1> QED BY <1>4, <1>5, <1>6, <1>7, <1>8, <1>9, <1>10, <1>11, <1>12, <1>13, <1>14, <1>15
        DEF QemuStep, DeviceStep

\* or with QEMU's monitor,
LEMMA QemuStepMonitorInv ==
  ASSUME SessInv, VmTypes, NEW v \in VM, v \in Guest, VmInv(v), QemuStep(v),
         SessionSame(v)
  PROVE  MonitorInv(v)'
<1>1. /\ at \in [VM -> CallPoint] /\ strategy \in [VM -> Strategy]
      /\ ret \in [VM -> QemuReturn] /\ monitor \in [VM -> MonitorState]
      /\ cpu \in [VM -> CpuState] /\ on \in [VM -> BOOLEAN]
  BY DEF VmTypes
<1>2. CallInv(v) /\ MonitorInv(v) /\ SwitchInv(v) /\ thawCalls'[v] = thawCalls[v]
  BY DEF VmInv, SessionSame
<1>3. thawAt[v] = "calling" => thawCalls[v] = 1
  BY CalledGuest
<1> USE DEF MonitorInv
<1>4. CASE MonitorActs(v)
  <2>1. /\ at'[v] = at[v] /\ strategy'[v] = strategy[v] /\ misread' = misread
        /\ ret'[v] = ret[v] /\ on'[v] = on[v]
    BY <1>4 DEF MonitorActs, callVars
  <2>2. CASE monitor[v] = "stop" /\ cpu'[v] = "paused" /\ monitor'[v] \in {"done", "idle"}
    BY <1>2, <2>1, <2>2
  <2>3. CASE monitor[v] = "cont" /\ cpu'[v] = "running" /\ monitor'[v] \in {"done", "idle"}
    BY <1>2, <2>1, <2>3
  <2>4. CASE /\ monitor[v] \in {"stop", "cont"} /\ UNCHANGED cpu
             /\ monitor'[v] \in {"refused", "idle"}
    BY <1>2, <2>1, <2>4
  <2> QED BY <1>1, <1>4, <2>2, <2>3, <2>4 DEF MonitorActs, Heard
<1>5. CASE AgentFreezes(v) \/ AgentThaws(v) \/ WorkerEnds(v)
  <2>1. UNCHANGED <<at, strategy, ret, on, cpu, monitor, misread>>
    BY <1>5 DEF AgentFreezes, AgentThaws, WorkerEnds, callVars
  <2> QED BY <1>2, <2>1
<1>6. CASE VmStarts(v)
  BY <1>1, <1>2, <1>6 DEF VmStarts, SwitchInv, FreezePoint, Stopping, callVars
<1>7. CASE VmStops(v)
  BY <1>1, <1>2, <1>7 DEF VmStops, Heard, callVars
<1>8. CASE QmpSend(v)
  BY <1>1, <1>2, <1>8, TryingInLoop DEF QmpSend, CallInv, FreezePoint
<1>9. CASE QmpAnswer(v)
  BY <1>1, <1>2, <1>9 DEF QmpAnswer, CallInv, FreezePoint, StepWorked, NextStep,
     Returning
<1>10. CASE QmpTimeout(v)
  BY <1>1, <1>2, <1>10 DEF QmpTimeout, CallInv, FreezePoint, NextStep
<1>11. CASE ThawAnswer(v)
  BY <1>1, <1>2, <1>3, <1>11 DEF ThawAnswer, CallInv, ThawPoint, Returning
<1>12. CASE ThawTimeout(v)
  BY <1>1, <1>2, <1>3, <1>12 DEF ThawTimeout, CallInv, ThawPoint, Returning
<1>13. CASE QmpEvent(v)
  <2>1. UNCHANGED <<cpu, on>> /\ monitor'[v] \in {monitor[v], "idle"}
    BY <1>1, <1>13 DEF QmpEvent
  <2>2. CASE at[v] = "qmp"
    <3>1. /\ at'[v] = "returned" /\ strategy'[v] = "qmp-pause"
          /\ <<v, "stop">> \notin misread' => monitor[v] = "done" /\ monitor'[v] = "idle"
          /\ monitor[v] \in {"stop", "done", "refused"}
          /\ ret'[v] \notin {"ok", "failed"}
      BY <1>1, <1>13, <2>2 DEF QmpEvent, StepWorked, Returning
    <3> QED BY <1>2, <2>1, <2>2, <3>1
  <2>3. CASE at[v] = "thaw qmp"
    <3>1. /\ at'[v] = "returned" /\ strategy' = strategy /\ monitor[v] # "stop"
          /\ <<v, "cont">> \notin misread' => monitor[v] = "done"
      BY <1>1, <1>13, <2>3 DEF QmpEvent, Returning
    <3>2. strategy[v] = "qmp-pause" /\ thawCalls[v] = 1
      BY <1>2, <1>3, <2>3 DEF CallInv, ThawPoint
    <3>3. monitor[v] = "done" => cpu[v] = "running"
      BY <1>2, <2>3, <3>2
    <3>4. /\ at'[v] = "returned" /\ strategy'[v] = "qmp-pause" /\ thawCalls'[v] = 1
          /\ cpu'[v] = cpu[v] /\ monitor'[v] # "stop"
          /\ <<v, "cont">> \notin misread' => cpu[v] = "running"
      BY <1>2, <2>1, <3>1, <3>2, <3>3
    <3> QED BY <3>4
  <2> QED BY <1>13, <2>2, <2>3 DEF QmpEvent
<1>14. CASE QemuCallStep(v) /\ ~(QmpSend(v) \/ QmpAnswer(v) \/ QmpTimeout(v)
              \/ ThawAnswer(v) \/ ThawTimeout(v) \/ QmpEvent(v))
  <2>1. UNCHANGED <<monitor, cpu, on, misread>>
    BY <1>14 DEF QemuCallStep, StepsExhausted, QgaUnreachable, QgaSend, QgaAnswer,
       QgaUndo, QgaTimeout, QmpUnreachable, MemNotRunning, MemStart, MemEnd,
       MemTimeout, Reap, devVars
  <2>2. at'[v] # "qmp" /\ at'[v] # "thaw qmp"
    BY <1>1, <1>14, TryingInLoop DEF QemuCallStep, StepsExhausted, QgaUnreachable,
       QgaSend, QgaAnswer, QgaUndo, QgaTimeout, QmpUnreachable, MemNotRunning,
       MemStart, MemEnd, MemTimeout, Reap, NextStep, StepWorked, Returning
  <2>3. strategy'[v] # "qmp-pause" \/ UNCHANGED <<strategy, ret>>
    BY <1>1, <1>14 DEF QemuCallStep, StepsExhausted, QgaUnreachable, QgaSend,
       QgaAnswer, QgaUndo, QgaTimeout, QmpUnreachable, MemNotRunning, MemStart,
       MemEnd, MemTimeout, Reap, NextStep, StepWorked, Returning
  <2> QED BY <1>2, <2>1, <2>2, <2>3
<1> QED BY <1>4, <1>5, <1>6, <1>7, <1>8, <1>9, <1>10, <1>11, <1>12, <1>13, <1>14
        DEF QemuStep, DeviceStep

\* and that the memory snapshot of a call that worked is there.
LEMMA QemuStepWorkerInv ==
  ASSUME VmTypes, NEW v \in VM, VmInv(v), QemuStep(v)
  PROVE  WorkerInv(v)'
<1>1. /\ at \in [VM -> CallPoint] /\ strategy \in [VM -> Strategy]
      /\ worker \in [VM -> WorkerState] /\ mem \in [VM -> BOOLEAN]
  BY DEF VmTypes
<1>2. CallInv(v) /\ WorkerInv(v)
  BY DEF VmInv
<1> USE DEF WorkerInv
<1>3. CASE WorkerEnds(v)
  BY <1>1, <1>2, <1>3 DEF WorkerEnds, callVars
<1>4. CASE AgentFreezes(v) \/ AgentThaws(v) \/ MonitorActs(v)
           \/ VmStarts(v) \/ VmStops(v)
  BY <1>1, <1>2, <1>4 DEF AgentFreezes, AgentThaws, MonitorActs,
     VmStarts, VmStops, callVars
<1>5. CASE MemStart(v)
  BY <1>1, <1>2, <1>5, TryingInLoop DEF MemStart, CallInv, FreezePoint
<1>6. CASE MemEnd(v)
  BY <1>1, <1>2, <1>6 DEF MemEnd, CallInv, FreezePoint, StepWorked, Returning
<1>7. CASE MemTimeout(v)
  BY <1>1, <1>2, <1>7 DEF MemTimeout, CallInv, FreezePoint
<1>8. CASE Reap(v)
  BY <1>1, <1>2, <1>8 DEF Reap, CallInv, FreezePoint, NextStep
<1>9. CASE QemuCallStep(v)
           /\ ~(MemStart(v) \/ MemEnd(v) \/ MemTimeout(v) \/ Reap(v))
  <2>1. UNCHANGED <<worker, mem>>
    BY <1>9 DEF QemuCallStep, StepsExhausted, QgaUnreachable, QgaSend, QgaAnswer,
       QgaUndo, QgaTimeout, QmpUnreachable, QmpSend, QmpAnswer, QmpTimeout,
       MemNotRunning, ThawAnswer, ThawTimeout, QmpEvent, devVars
  <2>2. at'[v] # "qm"
    BY <1>1, <1>9, TryingInLoop DEF QemuCallStep, StepsExhausted, QgaUnreachable,
       QgaSend, QgaAnswer, QgaUndo, QgaTimeout, QmpUnreachable, QmpSend, QmpAnswer,
       QmpTimeout, MemNotRunning, ThawAnswer, ThawTimeout, QmpEvent, NextStep, StepWorked,
       Returning
  <2>3. strategy'[v] # "qm-mem" \/ UNCHANGED strategy
    BY <1>1, <1>9 DEF QemuCallStep, StepsExhausted, QgaUnreachable, QgaSend,
       QgaAnswer, QgaUndo, QgaTimeout, QmpUnreachable, QmpSend, QmpAnswer, QmpTimeout,
       MemNotRunning, ThawAnswer, ThawTimeout, QmpEvent, NextStep, StepWorked, Returning
  <2> QED BY <1>2, <2>1, <2>2, <2>3
<1> QED BY <1>3, <1>4, <1>5, <1>6, <1>7, <1>8, <1>9 DEF QemuStep, DeviceStep

\* Together: no step of a call or of a device breaks the invariant of any VM.
LEMMA QemuStepInv ==
  ASSUME SessInv, VmTypes, NEW v \in VM, v \in Guest, VmInv(v), QemuStep(v),
         SessionSame(v)
  PROVE  VmInv(v)'
BY QemuStepCallInv, QemuStepSwitchInv, QemuStepAgentInv, QemuStepMonitorInv,
   QemuStepWorkerInv DEF VmInv

-----------------------------------------------------------------------------
(* VMs: the session calls the Freezer and takes what it returns.             *)

\* A step of one guest's goroutine leaves the other guests' alone.
LEMMA SessionOthers ==
  ASSUME SessInv, NEW g \in Guest, FreezeStep(g) \/ ThawStep(g),
         NEW h \in Guest, h # g
  PROVE  SessionSame(h)
<1> USE DEF FreezeStep, ThawStep, FreezeUnsupported, FreezeCall, FreezeReturn,
        FreezeRecord, ThawCall, ThawReturn
<1>0. /\ freezeAt \in [Guest -> FreezeAt] /\ thawAt \in [Guest -> ThawAt]
      /\ outcome \in [Guest -> Outcome] /\ result \in [Guest -> Result]
      /\ thawCalls \in [Guest -> Nat]
  BY DEF SessInv, SessTypeOK
<1>1. freezeAt'[h] = freezeAt[h]
  BY <1>0
<1>2. thawAt'[h] = thawAt[h]
  BY <1>0
<1>3. thawCalls'[h] = thawCalls[h]
  BY <1>0
<1>4. outcome'[h] = outcome[h]
  BY <1>0
<1>5. result'[h] = result[h]
  BY <1>0
<1> QED BY <1>1, <1>2, <1>3, <1>4, <1>5 DEF SessionSame

\* What each of the steps does to the guest's own goroutine.
LEMMA SessionStepOf ==
  ASSUME SessInv, NEW g \in Guest
  PROVE  /\ FreezeCall(g) =>
              /\ freezeAt[g] = "start" /\ freezeAt'[g] = "calling"
              /\ UNCHANGED <<thawAt, thawCalls, outcome, result>>
         /\ \A o : FreezeReturn(g, o) =>
              /\ freezeAt[g] = "calling" /\ freezeAt'[g] = "record"
              /\ outcome'[g] = o
              /\ UNCHANGED <<thawAt, thawCalls, result>>
         /\ FreezeRecord(g) =>
              /\ freezeAt[g] = "record" /\ freezeAt'[g] = "done"
              /\ result'[g] = ResultOf(outcome[g])
              /\ UNCHANGED <<thawAt, thawCalls, outcome>>
         /\ ThawCall(g) =>
              /\ thawAt[g] = "wait" /\ thawAt'[g] = "calling"
              /\ thawCalls'[g] = thawCalls[g] + 1
              /\ UNCHANGED <<freezeAt, outcome, result>>
         /\ \A ok \in BOOLEAN : ThawReturn(g, ok) =>
              /\ thawAt[g] = "calling" /\ thawAt'[g] = "done"
              /\ result'[g].frozen = result[g].frozen
              /\ ok => result'[g].thawed
              /\ ~ok => result'[g].thawed = result[g].thawed
              /\ UNCHANGED <<freezeAt, thawCalls, outcome>>
<1>0. /\ freezeAt \in [Guest -> FreezeAt] /\ thawAt \in [Guest -> ThawAt]
      /\ outcome \in [Guest -> Outcome] /\ result \in [Guest -> Result]
      /\ thawCalls \in [Guest -> Nat]
  BY DEF SessInv, SessTypeOK
<1>1. FreezeCall(g) => /\ freezeAt[g] = "start" /\ freezeAt'[g] = "calling"
                       /\ UNCHANGED <<thawAt, thawCalls, outcome, result>>
  BY <1>0 DEF FreezeCall
<1>2. \A o : FreezeReturn(g, o) => /\ freezeAt[g] = "calling"
                                   /\ freezeAt'[g] = "record" /\ outcome'[g] = o
                                   /\ UNCHANGED <<thawAt, thawCalls, result>>
  BY <1>0 DEF FreezeReturn
<1>3. FreezeRecord(g) => /\ freezeAt[g] = "record" /\ freezeAt'[g] = "done"
                         /\ result'[g] = ResultOf(outcome[g])
                         /\ UNCHANGED <<thawAt, thawCalls, outcome>>
  BY <1>0 DEF FreezeRecord
<1>4. ThawCall(g) => /\ thawAt[g] = "wait" /\ thawAt'[g] = "calling"
                     /\ thawCalls'[g] = thawCalls[g] + 1
                     /\ UNCHANGED <<freezeAt, outcome, result>>
  BY <1>0 DEF ThawCall
<1>5. ASSUME NEW ok \in BOOLEAN, ThawReturn(g, ok)
      PROVE  /\ thawAt[g] = "calling" /\ thawAt'[g] = "done"
             /\ result'[g].frozen = result[g].frozen
             /\ ok => result'[g].thawed
             /\ ~ok => result'[g].thawed = result[g].thawed
             /\ UNCHANGED <<freezeAt, thawCalls, outcome>>
  <2>1. result[g] \in Result
    BY <1>0
  <2>2. result'[g] = IF ok THEN [result[g] EXCEPT !.thawed = TRUE]
                           ELSE [result[g] EXCEPT !.warning = "thaw"]
    BY <1>0, <1>5 DEF ThawReturn
  <2>3. thawAt[g] = "calling" /\ thawAt'[g] = "done"
        /\ UNCHANGED <<freezeAt, thawCalls, outcome>>
    BY <1>0, <1>5 DEF ThawReturn
  <2> QED BY <2>1, <2>2, <2>3 DEF Result
<1> QED BY <1>1, <1>2, <1>3, <1>4, <1>5

\* Freeze is called: prune, chain, and whether the VM runs at all.
LEMMA FreezeCallVmInv ==
  ASSUME SessInv, VmTypes, NEW v \in VM, v \in Guest, VmInv(v),
         FreezeCall(v), FreezeBegin(v)
  PROVE  VmInv(v)'
<1>1. /\ at \in [VM -> CallPoint] /\ strategy \in [VM -> Strategy]
      /\ ret \in [VM -> QemuReturn]
  BY DEF VmTypes
<1>2. /\ freezeAt[v] = "start" /\ freezeAt'[v] = "calling"
      /\ UNCHANGED <<thawAt, thawCalls, outcome, result>>
  BY SessionStepOf
<1>3. thawAt[v] = "idle" /\ thawCalls[v] = 0 /\ ~result[v].frozen
  BY <1>2, CalledGuest
<1>4. strategy[v] = "unset" /\ ~result[v].thawed /\ ret[v] \notin {"ok", "failed"}
  <2>1. strategy[v] = "unset" /\ (ret[v] \in {"ok", "failed"} => thawCalls[v] = 1)
        /\ (result[v].thawed => ret[v] = "ok")
    BY <1>2 DEF VmInv, CallInv
  <2> QED BY <1>3, <2>1
<1>5. \/ /\ at'[v] = "returned"
         /\ \/ ret'[v] \in {"zfs-only", "error"} /\ strategy'[v] = "unset"
            \/ ret'[v] = "degraded" /\ strategy'[v] = "stopped"
      \/ /\ at'[v] = "step" /\ on[v]
         /\ strategy'[v] = "unset" /\ ret'[v] = ret[v]
  BY <1>1, <1>4 DEF FreezeBegin, Returning, NoStepOutcome
<1>6. UNCHANGED devVars /\ misread' = misread
  BY DEF FreezeBegin
<1>7. CallInv(v)'
  BY <1>2, <1>3, <1>4, <1>5 DEF CallInv, FreezePoint, ThawPoint, Returns, Froze
<1>8. StrategyInv(v)'
  BY <1>2, <1>3, <1>5 DEF StrategyInv, Froze
<1>9. SwitchInv(v)'
  BY <1>5, <1>6 DEF SwitchInv, FreezePoint, Stopping, devVars
<1>10. AgentInv(v)' /\ MonitorInv(v)' /\ WorkerInv(v)'
  BY <1>5 DEF AgentInv, MonitorInv, WorkerInv
<1> QED BY <1>7, <1>8, <1>9, <1>10 DEF VmInv

\* It returns, and the goroutine has its outcome.
LEMMA FreezeReturnVmInv ==
  ASSUME SessInv, VmTypes, NEW v \in VM, v \in Guest, VmInv(v),
         FreezeReturn(v, ret[v]), QemuReturns(v)
  PROVE  VmInv(v)'
<1>1. at \in [VM -> CallPoint]
  BY DEF VmTypes
<1>2. /\ freezeAt[v] = "calling" /\ freezeAt'[v] = "record" /\ outcome'[v] = ret[v]
      /\ UNCHANGED <<thawAt, thawCalls, result>>
  BY SessionStepOf
<1>3. /\ at[v] = "returned" /\ at'[v] = "idle"
      /\ UNCHANGED <<devVars, strategy, ret, misread>>
  BY <1>1 DEF QemuReturns
<1>4. thawAt[v] = "idle" /\ ~result[v].frozen
  BY <1>2, CalledGuest
<1>5. CallInv(v)'
  BY <1>2, <1>3, <1>4 DEF VmInv, CallInv, FreezePoint, ThawPoint
<1>6. StrategyInv(v)'
  BY <1>2, <1>3, <1>4 DEF VmInv, StrategyInv
<1>7. SwitchInv(v)'
  BY <1>3 DEF VmInv, SwitchInv, FreezePoint, devVars
<1>8. AgentInv(v)' /\ MonitorInv(v)' /\ WorkerInv(v)'
  BY <1>2, <1>3 DEF VmInv, AgentInv, MonitorInv, WorkerInv, devVars
<1> QED BY <1>5, <1>6, <1>7, <1>8 DEF VmInv

\* The result is appended: frozen if the outcome is.
LEMMA FreezeRecordVmInv ==
  ASSUME SessInv, VmTypes, NEW v \in VM, v \in Guest, VmInv(v),
         FreezeRecord(v), UNCHANGED qemuVars
  PROVE  VmInv(v)'
<1>1. /\ freezeAt[v] = "record" /\ freezeAt'[v] = "done"
      /\ result'[v] = ResultOf(outcome[v])
      /\ UNCHANGED <<thawAt, thawCalls, outcome>>
  BY SessionStepOf
<1>2. UNCHANGED <<on, settled, fs, cpu, mem, agent, monitor, worker, at, strategy, ret, misread>>
  BY DEF qemuVars, devVars, callVars
<1>3. outcome[v] \in Returns
  BY <1>1 DEF SessInv, FreezeInv
<1>4. (result'[v].frozen <=> outcome[v] \in Froze) /\ ~result'[v].thawed
  BY <1>1, <1>3, ResultOfFacts
<1>5. CallInv(v)'
  BY <1>1, <1>2, <1>4 DEF VmInv, CallInv
<1>6. StrategyInv(v)'
  BY <1>1, <1>2, <1>4 DEF VmInv, StrategyInv
<1>7. SwitchInv(v)' /\ WorkerInv(v)'
  BY <1>1, <1>2 DEF VmInv, SwitchInv, WorkerInv
<1>8. AgentInv(v)'
  BY <1>1, <1>2 DEF VmInv, AgentInv
<1>9. MonitorInv(v)'
  BY <1>1, <1>2 DEF VmInv, MonitorInv
<1> QED BY <1>5, <1>6, <1>7, <1>8, <1>9 DEF VmInv

\* Thaw is called and sends the command that undoes the remembered strategy.
LEMMA ThawCallVmInv ==
  ASSUME SessInv, VmTypes, NEW v \in VM, v \in Guest, VmInv(v),
         ThawCall(v), ThawBegin(v)
  PROVE  VmInv(v)'
<1>1. /\ at \in [VM -> CallPoint] /\ ret \in [VM -> QemuReturn]
      /\ agent \in [VM -> AgentState] /\ monitor \in [VM -> MonitorState]
  BY DEF VmTypes
<1>2. /\ thawAt[v] = "wait" /\ thawAt'[v] = "calling"
      /\ thawCalls'[v] = thawCalls[v] + 1
      /\ UNCHANGED <<freezeAt, outcome, result>>
  BY SessionStepOf
<1>3. thawCalls[v] = 0 /\ thawCalls'[v] = 1 /\ freezeAt[v] \in {"idle", "done"}
  BY <1>2, CalledGuest
<1>4. ~result[v].thawed
  <2>1. result[v].thawed => thawCalls[v] = 1
    BY DEF VmInv, CallInv
  <2> QED BY <1>3, <2>1
<1>5. UNCHANGED <<on, settled, fs, cpu, mem, worker, strategy, misread>>
  BY DEF ThawBegin
<1>6. \/ /\ at'[v] = "returned" /\ ret'[v] \in {"ok", "failed"}
         /\ UNCHANGED <<agent, monitor>>
         /\ ret'[v] = "ok" => strategy[v] \notin {"qga", "qmp-pause"}
      \/ /\ strategy[v] = "qga" /\ at'[v] = "thaw qga" /\ agent'[v] = "thaw"
         /\ UNCHANGED <<monitor, ret>>
      \/ /\ strategy[v] = "qmp-pause" /\ at'[v] = "thaw qmp" /\ monitor'[v] = "cont"
         /\ UNCHANGED <<agent, ret>>
  BY <1>1 DEF ThawBegin, Returning
<1>7. CallInv(v)'
  BY <1>2, <1>3, <1>4, <1>5, <1>6 DEF VmInv, CallInv, FreezePoint, ThawPoint
<1>8. StrategyInv(v)' /\ SwitchInv(v)'
  BY <1>2, <1>3, <1>5, <1>6 DEF VmInv, StrategyInv, SwitchInv, FreezePoint
<1>9. ret[v] \notin {"ok", "failed"}
  <2>1. ret[v] \in {"ok", "failed"} => thawCalls[v] = 1
    BY DEF VmInv, CallInv
  <2> QED BY <1>3, <2>1
<1>10. AgentInv(v)'
  <2>1. thawCalls[v] = 0 /\ thawCalls'[v] # 0 /\ AgentInv(v)
    BY <1>3 DEF VmInv
  <2>2. CASE at'[v] = "returned"
    BY <1>5, <1>6, <2>1, <2>2 DEF AgentInv
  <2>3. CASE at'[v] = "thaw qga" /\ strategy[v] = "qga"
    BY <1>5, <1>6, <1>9, <2>1, <2>3 DEF AgentInv
  <2>4. CASE at'[v] = "thaw qmp" /\ strategy[v] = "qmp-pause"
    BY <1>5, <1>6, <1>9, <2>1, <2>4 DEF AgentInv
  <2> QED BY <1>6, <2>2, <2>3, <2>4
<1>11. MonitorInv(v)'
  <2>1. thawCalls[v] = 0 /\ thawCalls'[v] # 0 /\ MonitorInv(v)
    BY <1>3 DEF VmInv
  <2>2. CASE at'[v] = "returned"
    BY <1>5, <1>6, <2>1, <2>2 DEF MonitorInv
  <2>3. CASE at'[v] = "thaw qga" /\ strategy[v] = "qga"
    BY <1>5, <1>6, <1>9, <2>1, <2>3 DEF MonitorInv
  <2>4. CASE at'[v] = "thaw qmp" /\ strategy[v] = "qmp-pause"
    BY <1>5, <1>6, <1>9, <2>1, <2>4 DEF MonitorInv
  <2> QED BY <1>6, <2>2, <2>3, <2>4
<1>12. WorkerInv(v)'
  BY <1>5, <1>6 DEF VmInv, WorkerInv
<1> QED BY <1>7, <1>8, <1>10, <1>11, <1>12 DEF VmInv

\* It returns, and the result says whether it was thawed.
LEMMA ThawReturnVmInv ==
  ASSUME SessInv, VmTypes, NEW v \in VM, v \in Guest, VmInv(v),
         ThawReturn(v, ret[v] = "ok"), QemuReturns(v)
  PROVE  VmInv(v)'
<1>1. at \in [VM -> CallPoint]
  BY DEF VmTypes
<1>2. /\ thawAt[v] = "calling" /\ thawAt'[v] = "done"
      /\ result'[v].frozen = result[v].frozen
      /\ ret[v] # "ok" => result'[v].thawed = result[v].thawed
      /\ UNCHANGED <<freezeAt, thawCalls, outcome>>
  BY SessionStepOf
<1>3. /\ at[v] = "returned" /\ at'[v] = "idle"
      /\ UNCHANGED <<devVars, strategy, ret, misread>>
  BY <1>1 DEF QemuReturns
<1>4. freezeAt[v] \in {"idle", "done"}
  BY <1>2, CalledGuest
<1>5. CallInv(v)'
  BY <1>2, <1>3, <1>4 DEF VmInv, CallInv, FreezePoint, ThawPoint
<1>6. StrategyInv(v)'
  BY <1>2, <1>3, <1>4 DEF VmInv, StrategyInv
<1>7. SwitchInv(v)'
  BY <1>3 DEF VmInv, SwitchInv, FreezePoint, devVars
<1>8. AgentInv(v)' /\ MonitorInv(v)' /\ WorkerInv(v)'
  BY <1>2, <1>3 DEF VmInv, AgentInv, MonitorInv, WorkerInv, devVars
<1> QED BY <1>5, <1>6, <1>7, <1>8 DEF VmInv

\* These calls and returns keep the types and leave every other VM alone.
LEMMA QemuSessionTypes ==
  ASSUME VmTypes, NEW v \in VM, FreezeBegin(v) \/ QemuReturns(v) \/ ThawBegin(v)
  PROVE  VmTypes' /\ \A w \in VM : w # v => VmSame(w)
<1>1. UNCHANGED <<best, settled, on, mem, fs, cpu, worker, misread>>
  BY DEF FreezeBegin, QemuReturns, ThawBegin, devVars
<1>2. agent' \in [VM -> AgentState] /\ \A w \in VM : w # v => agent'[w] = agent[w]
  <2>1. agent \in [VM -> AgentState]
    BY DEF VmTypes
  <2>2. Writes(agent', agent, v, AgentState)
    BY DEF FreezeBegin, QemuReturns, ThawBegin, devVars, Writes, AgentState
  <2> QED BY <2>1, <2>2, WritesType
<1>3. monitor' \in [VM -> MonitorState] /\ \A w \in VM : w # v => monitor'[w] = monitor[w]
  <2>1. monitor \in [VM -> MonitorState]
    BY DEF VmTypes
  <2>2. Writes(monitor', monitor, v, MonitorState)
    BY DEF FreezeBegin, QemuReturns, ThawBegin, devVars, Writes, MonitorState
  <2> QED BY <2>1, <2>2, WritesType
<1>4. at' \in [VM -> CallPoint] /\ \A w \in VM : w # v => at'[w] = at[w]
  <2>1. at \in [VM -> CallPoint]
    BY DEF VmTypes
  <2>2. Writes(at', at, v, CallPoint)
    BY DEF FreezeBegin, QemuReturns, ThawBegin, Returning, Writes, CallPoint,
       FreezePoint, ThawPoint
  <2> QED BY <2>1, <2>2, WritesType
<1>5. strategy' \in [VM -> Strategy] /\ \A w \in VM : w # v => strategy'[w] = strategy[w]
  <2>1. strategy \in [VM -> Strategy]
    BY DEF VmTypes
  <2>2. Writes(strategy', strategy, v, Strategy)
    BY DEF FreezeBegin, QemuReturns, ThawBegin, Writes, Strategy
  <2> QED BY <2>1, <2>2, WritesType
<1>6. ret' \in [VM -> QemuReturn] /\ \A w \in VM : w # v => ret'[w] = ret[w]
  <2>1. ret \in [VM -> QemuReturn]
    BY DEF VmTypes
  <2>2. Writes(ret', ret, v, QemuReturn)
    BY DEF FreezeBegin, QemuReturns, ThawBegin, Returning, NoStepOutcome, Writes,
       QemuReturn, Returns, Froze
  <2> QED BY <2>1, <2>2, WritesType
<1> QED BY <1>1, <1>2, <1>3, <1>4, <1>5, <1>6 DEF VmTypes, VmSame

-----------------------------------------------------------------------------
(* Containers.                                                               *)

CtSame(c) ==
  /\ ctFs'[c] = ctFs[c] /\ cgroup'[c] = cgroup[c]
  /\ ctAt'[c] = ctAt[c] /\ ctRet'[c] = ctRet[c]
  /\ c \in fd' <=> c \in fd

LxcStep(c)     == Fsfreeze(c) \/ Sync(c) \/ CgroupFreeze(c)
LxcExchange(c) == LxcFreezeBegin(c) \/ LxcReturns(c) \/ LxcThaw(c)

\* A container about which nothing changes keeps its invariant.
LEMMA SameCtInv ==
  ASSUME NEW c \in CT, CtInv(c), SessionSame(c), CtSame(c)
  PROVE  CtInv(c)'
<1> USE DEF CtInv, SessionSame, CtSame
<1>1. CtCallInv(c)'
  BY DEF CtCallInv
<1>2. CtFreezeInv(c)'
  BY DEF CtFreezeInv
<1>3. CtHeldInv(c)'
  BY DEF CtHeldInv
<1> QED BY <1>1, <1>2, <1>3

\* Every step of the LXCFreezer keeps the types and leaves every other container
\* alone.
LEMMA LxcTypes ==
  ASSUME LxcTypeOK, NEW c \in CT, LxcStep(c) \/ LxcExchange(c)
  PROVE  LxcTypeOK' /\ \A d \in CT : d # c => CtSame(d)
<1> USE DEF LxcStep, LxcExchange, Fsfreeze, Sync, CgroupFreeze, LxcFreezeBegin,
        LxcReturns, LxcThaw
<1>1. ctSteps' = ctSteps
  OBVIOUS
<1>2. ctFs' \in [CT -> {"running", "frozen"}]
      /\ \A d \in CT : d # c => ctFs'[d] = ctFs[d]
  <2>1. ctFs \in [CT -> {"running", "frozen"}]
    BY DEF LxcTypeOK
  <2>2. Writes(ctFs', ctFs, c, {"running", "frozen"})
    BY DEF Writes
  <2> QED BY <2>1, <2>2, WritesType
<1>3. cgroup' \in [CT -> {"running", "frozen"}]
      /\ \A d \in CT : d # c => cgroup'[d] = cgroup[d]
  <2>1. cgroup \in [CT -> {"running", "frozen"}]
    BY DEF LxcTypeOK
  <2>2. Writes(cgroup', cgroup, c, {"running", "frozen"})
    BY DEF Writes
  <2> QED BY <2>1, <2>2, WritesType
<1>4. fd' \subseteq CT /\ \A d \in CT : d # c => (d \in fd' <=> d \in fd)
  <2>1. fd' = fd \/ fd' = fd \cup {c} \/ fd' = fd \ {c}
    OBVIOUS
  <2>2. fd \subseteq CT
    BY DEF LxcTypeOK
  <2> QED BY <2>1, <2>2
<1>5. ctAt' \in [CT -> {"idle", "fsfreeze", "sync", "cgroup", "returned"}]
      /\ \A d \in CT : d # c => ctAt'[d] = ctAt[d]
  <2> DEFINE States == {"idle", "fsfreeze", "sync", "cgroup", "returned"}
  <2>1. ctAt \in [CT -> States]
    BY DEF LxcTypeOK
  <2>2. \/ ctAt' = ctAt
        \/ ctAt' = [ctAt EXCEPT ![c] = "idle"] \/ ctAt' = [ctAt EXCEPT ![c] = "fsfreeze"]
        \/ ctAt' = [ctAt EXCEPT ![c] = "sync"] \/ ctAt' = [ctAt EXCEPT ![c] = "cgroup"]
        \/ ctAt' = [ctAt EXCEPT ![c] = "returned"]
    BY DEF CtReturning
  <2>3. Writes(ctAt', ctAt, c, States)
    BY ONLY <2>2 DEF Writes, States
  <2> HIDE DEF States
  <2>4. ctAt' \in [CT -> States] /\ \A d \in CT : d # c => ctAt'[d] = ctAt[d]
    BY ONLY <2>1, <2>3, c \in CT, WritesType
  <2> QED BY <2>4 DEF States
<1>6. ctRet' \in [CT -> {"pending", "held", "zfs-only", "error", "ok", "failed"}]
      /\ \A d \in CT : d # c => ctRet'[d] = ctRet[d]
  <2> DEFINE States == {"pending", "held", "zfs-only", "error", "ok", "failed"}
  <2>1. ctRet \in [CT -> States]
    BY DEF LxcTypeOK
  <2>2. Writes(ctRet', ctRet, c, States)
    BY DEF Writes, CtReturning
  <2> HIDE DEF States
  <2>3. ctRet' \in [CT -> States] /\ \A d \in CT : d # c => ctRet'[d] = ctRet[d]
    BY <2>1, <2>2, WritesType
  <2> QED BY <2>3 DEF States
<1> QED BY <1>1, <1>2, <1>3, <1>4, <1>5, <1>6 DEF LxcTypeOK, CtSame

\* The steps of a freeze: FIFREEZE, or sync and the cgroup.
LEMMA LxcStepInv ==
  ASSUME SessInv, LxcTypeOK, NEW c \in CT, c \in Guest, CtInv(c), LxcStep(c),
         SessionSame(c)
  PROVE  CtInv(c)'
<1> USE DEF SessionSame
<1>1. /\ ctAt \in [CT -> {"idle", "fsfreeze", "sync", "cgroup", "returned"}]
      /\ ctRet \in [CT -> {"pending", "held", "zfs-only", "error", "ok", "failed"}]
      /\ ctFs \in [CT -> {"running", "frozen"}]
      /\ cgroup \in [CT -> {"running", "frozen"}]
  BY DEF LxcTypeOK
<1>2. ctAt[c] \in CtPoint /\ freezeAt[c] = "calling"
  BY DEF LxcStep, Fsfreeze, Sync, CgroupFreeze, CtPoint, CtInv, CtCallInv
<1>3. thawAt[c] = "idle" /\ thawCalls[c] = 0 /\ ~result[c].frozen
  BY <1>2, CalledGuest
<1>4. /\ ctRet[c] \notin {"ok", "failed"} /\ ~result[c].thawed
  <2>1. /\ ctRet[c] \in {"ok", "failed"} => thawCalls[c] = 1
        /\ result[c].thawed => ctRet[c] = "ok"
    BY DEF CtInv, CtCallInv
  <2> QED BY <1>3, <2>1
<1>5. ctFs[c] = "running" /\ cgroup[c] = "running" /\ c \notin fd
  BY <1>2 DEF CtInv, CtFreezeInv
<1>6. \/ /\ ctAt'[c] \in CtPoint /\ ctRet'[c] = ctRet[c]
         /\ UNCHANGED <<ctFs, cgroup, fd>>
      \/ /\ ctAt'[c] = "returned" /\ ctRet'[c] = "error"
         /\ UNCHANGED <<ctFs, cgroup, fd>>
      \/ /\ ctAt'[c] = "returned" /\ ctRet'[c] = "held"
         /\ ctFs'[c] = "frozen" /\ c \in fd' /\ UNCHANGED cgroup
      \/ /\ ctAt'[c] = "returned" /\ ctRet'[c] = "held"
         /\ cgroup'[c] = "frozen" /\ UNCHANGED <<ctFs, fd>>
  BY <1>1 DEF LxcStep, Fsfreeze, Sync, CgroupFreeze, CtReturning, CtPoint
<1>7. CtCallInv(c)'
  BY <1>2, <1>3, <1>4, <1>6 DEF CtCallInv, CtPoint, Returns, Froze
<1>8. CtFreezeInv(c)'
  BY <1>2, <1>4, <1>5, <1>6 DEF CtFreezeInv, CtPoint
<1>9. CtHeldInv(c)'
  BY <1>2, <1>3, <1>6 DEF CtHeldInv, CtPoint, Froze
<1> QED BY <1>7, <1>8, <1>9 DEF CtInv

\* The session's call of Freeze,
LEMMA FreezeCallCtInv ==
  ASSUME SessInv, LxcTypeOK, NEW c \in CT, c \in Guest, CtInv(c),
         FreezeCall(c), LxcFreezeBegin(c)
  PROVE  CtInv(c)'
<1>1. /\ ctAt \in [CT -> {"idle", "fsfreeze", "sync", "cgroup", "returned"}]
      /\ ctRet \in [CT -> {"pending", "held", "zfs-only", "error", "ok", "failed"}]
  BY DEF LxcTypeOK
<1>2. /\ freezeAt[c] = "start" /\ freezeAt'[c] = "calling"
      /\ UNCHANGED <<thawAt, thawCalls, outcome, result>>
  BY SessionStepOf
<1>3. thawAt[c] = "idle" /\ thawCalls[c] = 0 /\ ~result[c].frozen
  BY <1>2, CalledGuest
<1>4. /\ ctRet[c] \notin {"ok", "failed"} /\ ~result[c].thawed
  <2>1. /\ ctRet[c] \in {"ok", "failed"} => thawCalls[c] = 1
        /\ result[c].thawed => ctRet[c] = "ok"
    BY DEF CtInv, CtCallInv
  <2> QED BY <1>3, <2>1
<1>5. ctFs[c] = "running" /\ cgroup[c] = "running" /\ c \notin fd
  BY <1>2 DEF CtInv, CtFreezeInv
<1>6. /\ UNCHANGED <<ctFs, cgroup, fd>>
      /\ \/ ctAt'[c] = "returned" /\ ctRet'[c] \in {"zfs-only", "error"}
         \/ ctAt'[c] = "fsfreeze" /\ ctRet'[c] = ctRet[c]
  BY <1>1 DEF LxcFreezeBegin, CtReturning
<1>7. CtCallInv(c)'
  BY <1>2, <1>3, <1>4, <1>6 DEF CtCallInv, CtPoint, Returns, Froze
<1>8. CtFreezeInv(c)'
  BY <1>4, <1>5, <1>6 DEF CtFreezeInv
<1>9. CtHeldInv(c)'
  BY <1>2, <1>3, <1>6 DEF CtHeldInv, Froze
<1> QED BY <1>7, <1>8, <1>9 DEF CtInv

\* its return,
LEMMA FreezeReturnCtInv ==
  ASSUME SessInv, LxcTypeOK, NEW c \in CT, c \in Guest, CtInv(c),
         FreezeReturn(c, ctRet[c]), LxcReturns(c)
  PROVE  CtInv(c)'
<1>1. ctAt \in [CT -> {"idle", "fsfreeze", "sync", "cgroup", "returned"}]
  BY DEF LxcTypeOK
<1>2. /\ freezeAt[c] = "calling" /\ freezeAt'[c] = "record" /\ outcome'[c] = ctRet[c]
      /\ UNCHANGED <<thawAt, thawCalls, result>>
  BY SessionStepOf
<1>3. /\ ctAt[c] = "returned" /\ ctAt'[c] = "idle"
      /\ UNCHANGED <<ctFs, cgroup, fd, ctRet>>
  BY <1>1 DEF LxcReturns
<1>4. thawAt[c] = "idle" /\ ~result[c].frozen
  BY <1>2, CalledGuest
<1>5. CtCallInv(c)'
  BY <1>2, <1>3, <1>4 DEF CtInv, CtCallInv, CtPoint
<1>6. CtFreezeInv(c)'
  BY <1>2, <1>3 DEF CtInv, CtFreezeInv, CtPoint
<1>7. CtHeldInv(c)'
  BY <1>2, <1>3, <1>4 DEF CtInv, CtHeldInv
<1> QED BY <1>5, <1>6, <1>7 DEF CtInv

\* what is recorded of it,
LEMMA FreezeRecordCtInv ==
  ASSUME SessInv, NEW c \in CT, c \in Guest, CtInv(c),
         FreezeRecord(c), UNCHANGED lxcVars
  PROVE  CtInv(c)'
<1>1. /\ freezeAt[c] = "record" /\ freezeAt'[c] = "done"
      /\ result'[c] = ResultOf(outcome[c])
      /\ UNCHANGED <<thawAt, thawCalls, outcome>>
  BY SessionStepOf
<1>2. UNCHANGED <<ctFs, cgroup, fd, ctAt, ctRet>>
  BY DEF lxcVars
<1>3. outcome[c] \in Returns
  BY <1>1 DEF SessInv, FreezeInv
<1>4. (result'[c].frozen <=> outcome[c] \in Froze) /\ ~result'[c].thawed
  BY <1>1, <1>3, ResultOfFacts
<1>5. CtCallInv(c)'
  BY <1>1, <1>2, <1>4 DEF CtInv, CtCallInv
<1>6. CtFreezeInv(c)'
  BY <1>1, <1>2 DEF CtInv, CtFreezeInv
<1>7. CtHeldInv(c)'
  BY <1>1, <1>2, <1>4 DEF CtInv, CtHeldInv
<1> QED BY <1>5, <1>6, <1>7 DEF CtInv

\* the call of Thaw, which is over at once,
LEMMA ThawCallCtInv ==
  ASSUME SessInv, LxcTypeOK, NEW c \in CT, c \in Guest, CtInv(c),
         ThawCall(c), LxcThaw(c)
  PROVE  CtInv(c)'
<1>1. /\ ctAt \in [CT -> {"idle", "fsfreeze", "sync", "cgroup", "returned"}]
      /\ ctRet \in [CT -> {"pending", "held", "zfs-only", "error", "ok", "failed"}]
      /\ ctFs \in [CT -> {"running", "frozen"}]
      /\ cgroup \in [CT -> {"running", "frozen"}]
  BY DEF LxcTypeOK
<1>2. /\ thawAt[c] = "wait" /\ thawAt'[c] = "calling"
      /\ thawCalls'[c] = thawCalls[c] + 1
      /\ UNCHANGED <<freezeAt, outcome, result>>
  BY SessionStepOf
<1>3. thawCalls[c] = 0 /\ thawCalls'[c] = 1 /\ freezeAt[c] \in {"idle", "done"}
  BY <1>2, CalledGuest
<1>4. /\ ctRet[c] \notin {"ok", "failed"} /\ ~result[c].thawed
  <2>1. /\ ctRet[c] \in {"ok", "failed"} => thawCalls[c] = 1
        /\ result[c].thawed => ctRet[c] = "ok"
    BY DEF CtInv, CtCallInv
  <2> QED BY <1>3, <2>1
<1>5. ctAt'[c] = "returned" /\ ctRet'[c] \in {"ok", "failed"}
  BY <1>1 DEF LxcThaw, CtReturning
<1>6. \/ /\ c \in fd /\ c \notin fd' /\ UNCHANGED cgroup
         /\ \/ ctRet'[c] = "ok" /\ ctFs'[c] = "running"
            \/ ctRet'[c] = "failed" /\ UNCHANGED ctFs
      \/ /\ c \notin fd /\ UNCHANGED <<ctFs, fd>>
         /\ \/ ctRet'[c] = "ok" /\ cgroup'[c] = "running"
            \/ ctRet'[c] = "failed" /\ UNCHANGED cgroup
  BY <1>1 DEF LxcThaw, CtReturning
<1>7. CtCallInv(c)'
  BY <1>2, <1>3, <1>4, <1>5 DEF CtCallInv, CtPoint
<1>8. CtFreezeInv(c)'
  <2>1. freezeAt'[c] \notin {"start"} /\ ctAt'[c] \notin CtPoint
    BY <1>2, <1>3, <1>5 DEF CtPoint
  <2>2. CtFreezeInv(c) /\ ctFs[c] \in {"running", "frozen"}
        /\ cgroup[c] \in {"running", "frozen"}
    BY <1>1 DEF CtInv
  <2> QED BY <1>2, <1>4, <1>6, <2>1, <2>2 DEF CtFreezeInv
<1>9. CtHeldInv(c)'
  BY <1>2, <1>3 DEF CtHeldInv
<1> QED BY <1>7, <1>8, <1>9 DEF CtInv

\* and what is recorded of that.
LEMMA ThawReturnCtInv ==
  ASSUME SessInv, LxcTypeOK, NEW c \in CT, c \in Guest, CtInv(c),
         ThawReturn(c, ctRet[c] = "ok"), LxcReturns(c)
  PROVE  CtInv(c)'
<1>1. ctAt \in [CT -> {"idle", "fsfreeze", "sync", "cgroup", "returned"}]
  BY DEF LxcTypeOK
<1>2. /\ thawAt[c] = "calling" /\ thawAt'[c] = "done"
      /\ result'[c].frozen = result[c].frozen
      /\ ctRet[c] # "ok" => result'[c].thawed = result[c].thawed
      /\ UNCHANGED <<freezeAt, thawCalls, outcome>>
  BY SessionStepOf
<1>3. /\ ctAt[c] = "returned" /\ ctAt'[c] = "idle"
      /\ UNCHANGED <<ctFs, cgroup, fd, ctRet>>
  BY <1>1 DEF LxcReturns
<1>4. freezeAt[c] \in {"idle", "done"} /\ thawCalls[c] = 1
  BY <1>2, CalledGuest
<1>5. CtCallInv(c)'
  BY <1>2, <1>3, <1>4 DEF CtInv, CtCallInv, CtPoint
<1>6. CtFreezeInv(c)'
  BY <1>2, <1>3 DEF CtInv, CtFreezeInv, CtPoint
<1>7. CtHeldInv(c)'
  BY <1>2, <1>3, <1>4 DEF CtHeldInv
<1> QED BY <1>5, <1>6, <1>7 DEF CtInv

-----------------------------------------------------------------------------
(* The run as a whole.                                                       *)

\* runSnap itself only starts the goroutines of FreezeAll and of Thaw.
LEMMA MainStepOf ==
  ASSUME SnapInv, MainStep, NEW g \in Guest
  PROVE  /\ UNCHANGED <<thawCalls, outcome, result>>
         /\ freezeAt'[g] = freezeAt[g] \/ (freezeAt[g] = "idle" /\ freezeAt'[g] = "start")
         /\ thawAt'[g] = thawAt[g] \/ (thawAt[g] # "calling" /\ thawAt'[g] # "calling")
<1>1. /\ UNCHANGED <<thawCalls, outcome, result>>
      /\ UNCHANGED freezeAt \/ FreezeAll
      /\ UNCHANGED thawAt \/ Thaw
  BY DEF MainStep, Prepare, PrepareFails, StartFreeze, EndFreeze, Abort, Proceed,
     PreSnap, ZfsSnapshot, StartThaw, EndThaw, Report, StartDeferredThaw,
     EndDeferredThaw, Return, FreezeAll, FreezeAllReturn, Thaw, ThawAllReturn, sessVars
<1>2. FreezeInv(g) /\ ThawInv(g)
  BY DEF SnapInv, SessInv
<1>3. FreezeAll => freezeAt[g] = "idle" /\ freezeAt'[g] = "start"
  BY <1>2 DEF FreezeAll, FreezeInv
<1>4. ASSUME Thaw PROVE thawAt[g] # "calling" /\ thawAt'[g] # "calling"
  <2>1. phase # "thawing"
    BY <1>4 DEF Thaw
  <2>2. thawAt[g] # "calling"
    BY <1>2, <2>1 DEF ThawInv
  <2>3. thawAt'[g] # "calling"
    BY <1>4 DEF Thaw
  <2> QED BY <2>2, <2>3
<1> QED BY <1>1, <1>3, <1>4

\* So no guest's invariant is touched by it.
LEMMA MainStepInv ==
  ASSUME SnapInv, FreezersInv, Main
  PROVE  FreezersInv'
<1>1. MainStep /\ UNCHANGED <<qemuVars, lxcVars>>
  BY DEF Main
<1>2. VmTypes' /\ LxcTypeOK'
  BY <1>1 DEF FreezersInv, VmTypes, LxcTypeOK, qemuVars, devVars, callVars, lxcVars
<1>3. ASSUME NEW v \in VM PROVE VmInv(v)'
  <2>1. VmInv(v) /\ v \in Guest
    BY GuestsAreVMsAndCTs DEF FreezersInv
  <2>2. /\ UNCHANGED <<thawCalls, outcome, result>>
        /\ freezeAt'[v] = freezeAt[v] \/ (freezeAt[v] = "idle" /\ freezeAt'[v] = "start")
        /\ thawAt'[v] = thawAt[v] \/ (thawAt[v] # "calling" /\ thawAt'[v] # "calling")
    BY <1>1, <2>1, MainStepOf
  <2>3. UNCHANGED <<on, settled, fs, cpu, mem, agent, monitor, worker, at, strategy, ret, misread>>
    BY <1>1 DEF qemuVars, devVars, callVars
  <2>4. CallInv(v)'
    BY <2>1, <2>2, <2>3 DEF VmInv, CallInv
  <2>5. StrategyInv(v)'
    BY <2>1, <2>2, <2>3 DEF VmInv, StrategyInv
  <2>6. SwitchInv(v)' /\ WorkerInv(v)'
    BY <2>1, <2>2, <2>3 DEF VmInv, SwitchInv, WorkerInv
  <2>7. AgentInv(v)'
    BY <2>1, <2>2, <2>3 DEF VmInv, AgentInv
  <2>8. MonitorInv(v)'
    BY <2>1, <2>2, <2>3 DEF VmInv, MonitorInv
  <2> QED BY <2>4, <2>5, <2>6, <2>7, <2>8 DEF VmInv
<1>4. ASSUME NEW c \in CT PROVE CtInv(c)'
  <2>1. CtInv(c) /\ c \in Guest
    BY GuestsAreVMsAndCTs DEF FreezersInv
  <2>2. /\ UNCHANGED <<thawCalls, outcome, result>>
        /\ freezeAt'[c] = freezeAt[c] \/ (freezeAt[c] = "idle" /\ freezeAt'[c] = "start")
        /\ thawAt'[c] = thawAt[c] \/ (thawAt[c] # "calling" /\ thawAt'[c] # "calling")
    BY <1>1, <2>1, MainStepOf
  <2>3. UNCHANGED <<ctFs, cgroup, fd, ctAt, ctRet>>
    BY <1>1 DEF lxcVars
  <2>4. CtCallInv(c)'
    BY <2>1, <2>2, <2>3 DEF CtInv, CtCallInv
  <2>5. CtFreezeInv(c)'
    BY <2>1, <2>2, <2>3 DEF CtInv, CtFreezeInv
  <2>6. CtHeldInv(c)'
    BY <2>1, <2>2, <2>3 DEF CtInv, CtHeldInv
  <2> QED BY <2>4, <2>5, <2>6 DEF CtInv
<1> QED BY <1>2, <1>3, <1>4 DEF FreezersInv

\* The session's exchange with a Freezer is a step of the session: what comes
\* back from Freeze is one of Returns.
LEMMA QemuSessionStep ==
  ASSUME FreezersInv, NEW v \in VM, QemuSession(v)
  PROVE  (FreezeStep(v) \/ ThawStep(v)) /\ UNCHANGED <<runVars, lxcVars>>
<1>1. VmInv(v)
  BY DEF FreezersInv
<1>2. FreezeReturn(v, ret[v]) /\ QemuReturns(v) => ret[v] \in Returns
  BY <1>1 DEF FreezeReturn, QemuReturns, VmInv, CallInv
<1> QED BY <1>2 DEF QemuSession, FreezeStep, ThawStep

LEMMA LxcSessionStep ==
  ASSUME FreezersInv, NEW c \in CT, LxcSession(c)
  PROVE  (FreezeStep(c) \/ ThawStep(c)) /\ UNCHANGED <<runVars, qemuVars>>
<1>1. CtInv(c)
  BY DEF FreezersInv
<1>2. FreezeReturn(c, ctRet[c]) /\ LxcReturns(c) => ctRet[c] \in Returns
  BY <1>1 DEF FreezeReturn, LxcReturns, CtInv, CtCallInv
<1> QED BY <1>2 DEF LxcSession, FreezeStep, ThawStep

\* Every step on a Proxmox host is a step of the run or leaves it alone.
LEMMA ProxStepIsSnapStep ==
  FreezersInv /\ [ProxNext]_proxVars => [SnapNext]_snapVars
<1> SUFFICES ASSUME FreezersInv, [ProxNext]_proxVars
             PROVE  SnapNext \/ UNCHANGED snapVars
  OBVIOUS
<1>1. CASE Main
  BY <1>1 DEF Main, SnapNext
<1>2. ASSUME NEW v \in VM, QemuSession(v) PROVE SnapNext
  <2>1. v \in Guest
    BY GuestsAreVMsAndCTs
  <2> QED BY <1>2, <2>1, QemuSessionStep DEF SnapNext, GuestStep
<1>3. ASSUME NEW v \in VM, QemuCall(v) \/ Device(v) \/ Switch(v)
      PROVE  UNCHANGED snapVars
  BY <1>3 DEF QemuCall, Device, Switch
<1>4. ASSUME NEW c \in CT, LxcSession(c) PROVE SnapNext
  <2>1. c \in Guest
    BY GuestsAreVMsAndCTs
  <2> QED BY <1>4, <2>1, LxcSessionStep DEF SnapNext, GuestStep
<1>5. ASSUME NEW c \in CT, LxcCall(c) \/ LxcSync(c) PROVE UNCHANGED snapVars
  BY <1>5 DEF LxcCall, LxcSync
<1>6. CASE UNCHANGED proxVars
  BY <1>6 DEF proxVars
<1> QED BY <1>1, <1>2, <1>3, <1>4, <1>5, <1>6 DEF ProxNext

-----------------------------------------------------------------------------
\* A guest of which neither the session nor its Freezer did anything.
LEMMA SameLxc == UNCHANGED lxcVars => LxcTypeOK = LxcTypeOK' /\ \A c \in CT : CtSame(c)
BY DEF lxcVars, LxcTypeOK, CtSame

LEMMA SameQemu == UNCHANGED qemuVars => VmTypes = VmTypes' /\ \A v \in VM : VmSame(v)
BY DEF qemuVars, devVars, callVars, VmTypes, VmSame

LEMMA SameSession == UNCHANGED snapVars => \A g \in Guest : SessionSame(g)
BY DEF snapVars, sessVars, SessionSame

\* A session's exchange with the Freezer of a VM touches no other guest.
LEMMA QemuSessionInv ==
  ASSUME SnapInv, FreezersInv, NEW v \in VM, QemuSession(v)
  PROVE  FreezersInv'
<1>1. /\ SessInv /\ VmTypes /\ LxcTypeOK
      /\ \A w \in VM : VmInv(w) /\ w \in Guest
      /\ \A c \in CT : CtInv(c) /\ c \in Guest /\ c # v
  BY GuestsAreVMsAndCTs DEF SnapInv, FreezersInv
<1>2. (FreezeStep(v) \/ ThawStep(v)) /\ UNCHANGED <<runVars, lxcVars>>
  BY QemuSessionStep
<1>3. \A h \in Guest : h # v => SessionSame(h)
  BY <1>1, <1>2, SessionOthers
<1>4. VmTypes' /\ \A w \in VM : w # v => VmSame(w)
  <2>1. CASE UNCHANGED qemuVars
    BY <1>1, <2>1, SameQemu
  <2>2. CASE FreezeBegin(v) \/ QemuReturns(v) \/ ThawBegin(v)
    BY <1>1, <2>2, QemuSessionTypes
  <2> QED BY <2>1, <2>2 DEF QemuSession
<1>5. VmInv(v)'
  BY <1>1, FreezeCallVmInv, FreezeReturnVmInv, FreezeRecordVmInv, ThawCallVmInv,
     ThawReturnVmInv DEF QemuSession
<1>6. \A w \in VM : VmInv(w)'
  BY <1>1, <1>3, <1>4, <1>5, SameVmInv
<1>7. LxcTypeOK' /\ \A c \in CT : CtInv(c)'
  BY <1>1, <1>2, <1>3, SameLxc, SameCtInv
<1> QED BY <1>4, <1>6, <1>7 DEF FreezersInv

LEMMA LxcSessionInv ==
  ASSUME SnapInv, FreezersInv, NEW c \in CT, LxcSession(c)
  PROVE  FreezersInv'
<1>1. /\ SessInv /\ VmTypes /\ LxcTypeOK
      /\ \A v \in VM : VmInv(v) /\ v \in Guest /\ v # c
      /\ \A d \in CT : CtInv(d) /\ d \in Guest
  BY GuestsAreVMsAndCTs DEF SnapInv, FreezersInv
<1>2. (FreezeStep(c) \/ ThawStep(c)) /\ UNCHANGED <<runVars, qemuVars>>
  BY LxcSessionStep
<1>3. \A h \in Guest : h # c => SessionSame(h)
  BY <1>1, <1>2, SessionOthers
<1>4. LxcTypeOK' /\ \A d \in CT : d # c => CtSame(d)
  <2>1. CASE UNCHANGED lxcVars
    BY <1>1, <2>1, SameLxc
  <2>2. CASE LxcFreezeBegin(c) \/ LxcReturns(c) \/ LxcThaw(c)
    BY <1>1, <2>2, LxcTypes DEF LxcExchange
  <2> QED BY <2>1, <2>2 DEF LxcSession
<1>5. CtInv(c)'
  BY <1>1, FreezeCallCtInv, FreezeReturnCtInv, FreezeRecordCtInv, ThawCallCtInv,
     ThawReturnCtInv DEF LxcSession
<1>6. \A d \in CT : CtInv(d)'
  BY <1>1, <1>3, <1>4, <1>5, SameCtInv
<1>7. VmTypes' /\ \A v \in VM : VmInv(v)'
  BY <1>1, <1>2, <1>3, SameQemu, SameVmInv
<1> QED BY <1>4, <1>6, <1>7 DEF FreezersInv

\* Nor does a step of a Freezer, of a device, or of somebody at the VM's switch.
LEMMA QemuAloneInv ==
  ASSUME SnapInv, FreezersInv, NEW v \in VM, QemuCall(v) \/ Device(v) \/ Switch(v)
  PROVE  FreezersInv'
<1>1. /\ SessInv /\ VmTypes /\ LxcTypeOK
      /\ \A w \in VM : VmInv(w) /\ w \in Guest
      /\ \A c \in CT : CtInv(c) /\ c \in Guest
  BY GuestsAreVMsAndCTs DEF SnapInv, FreezersInv
<1>2. QemuStep(v) /\ UNCHANGED snapVars /\ UNCHANGED lxcVars
  BY DEF QemuCall, Device, Switch, QemuStep
<1>3. \A g \in Guest : SessionSame(g)
  BY <1>2, SameSession
<1>4. VmTypes' /\ \A w \in VM : w # v => VmSame(w)
  BY <1>1, <1>2, QemuStepTypes
<1>5. VmInv(v)'
  BY <1>1, <1>2, <1>3, QemuStepInv
<1>6. \A w \in VM : VmInv(w)'
  BY <1>1, <1>3, <1>4, <1>5, SameVmInv
<1>7. LxcTypeOK' /\ \A c \in CT : CtInv(c)'
  BY <1>1, <1>2, <1>3, SameLxc, SameCtInv
<1> QED BY <1>4, <1>6, <1>7 DEF FreezersInv

LEMMA LxcAloneInv ==
  ASSUME SnapInv, FreezersInv, NEW c \in CT, LxcCall(c) \/ LxcSync(c)
  PROVE  FreezersInv'
<1>1. /\ SessInv /\ VmTypes /\ LxcTypeOK
      /\ \A v \in VM : VmInv(v) /\ v \in Guest
      /\ \A d \in CT : CtInv(d) /\ d \in Guest
  BY GuestsAreVMsAndCTs DEF SnapInv, FreezersInv
<1>2. LxcStep(c) /\ UNCHANGED snapVars /\ UNCHANGED qemuVars
  BY DEF LxcCall, LxcSync, LxcStep
<1>3. \A g \in Guest : SessionSame(g)
  BY <1>2, SameSession
<1>4. LxcTypeOK' /\ \A d \in CT : d # c => CtSame(d)
  BY <1>1, <1>2, LxcTypes
<1>5. CtInv(c)'
  BY <1>1, <1>2, <1>3, LxcStepInv
<1>6. \A d \in CT : CtInv(d)'
  BY <1>1, <1>3, <1>4, <1>5, SameCtInv
<1>7. VmTypes' /\ \A v \in VM : VmInv(v)'
  BY <1>1, <1>2, <1>3, SameQemu, SameVmInv
<1> QED BY <1>4, <1>6, <1>7 DEF FreezersInv

\* Before the run nobody has been called and everything runs.
LEMMA InitProxInv == ProxInit => ProxInv
<1> SUFFICES ASSUME ProxInit PROVE ProxInv
  OBVIOUS
<1> USE DEF ProxInit, SnapInit, SessInit, QemuInit, LxcInit
<1>1. SnapInv
  BY InitSnapInv
<1>2. /\ best \subseteq VM /\ settled \subseteq VM
      /\ on \in [VM -> BOOLEAN] /\ mem \in [VM -> BOOLEAN]
  OBVIOUS
<1>3. /\ fs \in [VM -> FsState] /\ cpu \in [VM -> CpuState]
      /\ agent \in [VM -> AgentState] /\ monitor \in [VM -> MonitorState]
      /\ worker \in [VM -> WorkerState]
  BY DEF FsState, CpuState, AgentState, MonitorState, WorkerState
<1>4. /\ at \in [VM -> CallPoint] /\ strategy \in [VM -> Strategy]
      /\ ret \in [VM -> QemuReturn]
  BY DEF CallPoint, Strategy, QemuReturn
<1>5. LxcTypeOK
  BY DEF LxcTypeOK
<1>6. ASSUME NEW v \in VM PROVE VmInv(v)
  <2>1. v \in Guest
    BY GuestsAreVMsAndCTs
  <2>2. /\ freezeAt[v] = "idle" /\ thawAt[v] = "idle" /\ outcome[v] = "pending"
        /\ ~result[v].thawed /\ ~result[v].frozen
    BY <2>1 DEF Unanswered
  <2>3. /\ at[v] = "idle" /\ strategy[v] = "unset" /\ ret[v] = "pending"
    OBVIOUS
  <2>4. CallInv(v)
    BY <2>2, <2>3 DEF CallInv, FreezePoint, ThawPoint
  <2>5. StrategyInv(v)
    BY <2>2, <2>3 DEF StrategyInv
  <2>6. SwitchInv(v) /\ AgentInv(v) /\ MonitorInv(v) /\ WorkerInv(v)
    BY <2>3 DEF SwitchInv, AgentInv, MonitorInv, WorkerInv, FreezePoint, Stopping
  <2> QED BY <2>4, <2>5, <2>6 DEF VmInv
<1>7. ASSUME NEW c \in CT PROVE CtInv(c)
  <2>1. c \in Guest
    BY GuestsAreVMsAndCTs
  <2>2. /\ freezeAt[c] = "idle" /\ thawAt[c] = "idle" /\ outcome[c] = "pending"
        /\ ~result[c].thawed /\ ~result[c].frozen
    BY <2>1 DEF Unanswered
  <2>3. /\ ctAt[c] = "idle" /\ ctRet[c] = "pending" /\ c \notin fd
        /\ ctFs[c] = "running" /\ cgroup[c] = "running"
    OBVIOUS
  <2> QED BY <2>2, <2>3 DEF CtInv, CtCallInv, CtFreezeInv, CtHeldInv, CtPoint
<1> QED BY <1>1, <1>2, <1>3, <1>4, <1>5, <1>6, <1>7
        DEF ProxInv, FreezersInv, VmTypes

\* Every step keeps the invariant.
LEMMA NextProxInv == ProxInv /\ [ProxNext]_proxVars => ProxInv'
<1> SUFFICES ASSUME SnapInv, FreezersInv, [ProxNext]_proxVars
             PROVE  SnapInv' /\ FreezersInv'
  BY DEF ProxInv
<1>1. SnapInv'
  BY ProxStepIsSnapStep, NextSnapInv
<1>2. CASE UNCHANGED proxVars
  <2>1. UNCHANGED snapVars /\ UNCHANGED qemuVars /\ UNCHANGED lxcVars
    BY <1>2 DEF proxVars
  <2>2. /\ \A v \in VM : VmInv(v) /\ v \in Guest
        /\ \A c \in CT : CtInv(c) /\ c \in Guest
        /\ VmTypes /\ LxcTypeOK
    BY GuestsAreVMsAndCTs DEF FreezersInv
  <2>3. VmTypes' /\ \A v \in VM : VmInv(v)'
    BY <2>1, <2>2, SameSession, SameQemu, SameVmInv
  <2>4. LxcTypeOK' /\ \A c \in CT : CtInv(c)'
    BY <2>1, <2>2, SameSession, SameLxc, SameCtInv
  <2> QED BY <1>1, <2>3, <2>4 DEF FreezersInv
<1>3. FreezersInv'
  BY <1>2, MainStepInv, QemuSessionInv, LxcSessionInv, QemuAloneInv, LxcAloneInv
     DEF ProxNext
<1> QED BY <1>1, <1>3 DEF ProxInv

\* The run on a Proxmox host and its two Freezers keep the invariant.
THEOREM ProxInvariant == ProxSpec => []ProxInv
BY InitProxInv, NextProxInv, PTL DEF ProxSpec

-----------------------------------------------------------------------------
\* The Freezers keep to the interface the session relies on, so a run on a
\* Proxmox host is a run of SnapRun,
THEOREM ProxImplementsRun == ProxSpec => ImplementsRun
<1>1. ProxInit => SnapInit
  BY DEF ProxInit
<1>2. ProxInv /\ [ProxNext]_proxVars => [SnapNext]_snapVars
  BY ProxStepIsSnapStep DEF ProxInv
<1> QED BY <1>1, <1>2, ProxInvariant, PTL DEF ProxSpec, SnapSpec, ImplementsRun

\* and with it goes every property of SnapRun: the snapshot is attempted inside
\* the freeze only, each frozen guest is thawed once, the report is final, and
\* the promise of "snap" is kept.
THEOREM ProxKeepsRunProperties ==
  ProxSpec => /\ SnapshotInsideFreeze
              /\ []NothingLeftAtExit
              /\ []ReportMatchesEnd
              /\ ImplementsPromise
BY ProxImplementsRun, SnapshotIsInsideFreeze, ExitLeavesNobody, ReportIsFinal,
   RunImplementsPromise, PTL DEF ImplementsRun

\* A thaw that is reported as done was done, for every guest, whatever was sent
\* and given up on before; unless an event was taken for the answer to cont before
\* it was carried out.
THEOREM ThawedGuestRuns == ProxSpec => []ThawedMeansRunning
<1>1. ProxInv => ThawedMeansRunning
  <2> SUFFICES ASSUME ProxInv, NEW g \in Guest, result[g].thawed
               PROVE  IF g \in CT THEN ctFs[g] = "running" /\ cgroup[g] = "running"
                      ELSE /\ strategy[g] = "qga" => fs[g] = "running"
                           /\ strategy[g] = "qmp-pause" /\ <<g, "cont">> \notin misread
                                => cpu[g] = "running"
    BY DEF ThawedMeansRunning
  <2>1. CASE g \in CT
    <3>1. CtInv(g)
      BY <2>1 DEF ProxInv, FreezersInv
    <3> QED BY <2>1, <3>1 DEF CtInv, CtCallInv, CtFreezeInv
  <2>2. CASE g \notin CT
    <3>1. VmInv(g)
      BY <2>2, GuestsAreVMsAndCTs DEF ProxInv, FreezersInv
    <3> QED BY <2>2, <3>1 DEF VmInv, CallInv, AgentInv, MonitorInv
  <2> QED BY <2>1, <2>2
<1> QED BY <1>1, ProxInvariant, PTL

\* A container is never frozen twice over, and the descriptor that knows how to
\* thaw it is only lost to a failed FITHAW.
THEOREM ContainerThawKnowsHow == ProxSpec => []CtThawKnowsHow
<1>1. ProxInv => CtThawKnowsHow
  BY DEF ProxInv, FreezersInv, CtInv, CtFreezeInv, CtThawKnowsHow
<1> QED BY <1>1, ProxInvariant, PTL

-----------------------------------------------------------------------------
\* As long as Thaw has not turned to it, a guest that counts as frozen is quiet,
\* unless it is a VM that was off when it was its turn.
LEMMA FrozenIsQuiet ==
  ASSUME ProxInv, NEW g \in Guest, result[g].frozen, thawCalls[g] = 0,
         g \in VM => strategy[g] # "stopped"
  PROVE  Quiet(g)
<1>1. CASE g \in CT
  <2>1. CtInv(g)
    BY <1>1 DEF ProxInv, FreezersInv
  <2> QED BY <1>1, <2>1 DEF CtInv, CtHeldInv, Quiet
<1>2. CASE g \notin CT
  <2>1. g \in VM
    BY <1>2, GuestsAreVMsAndCTs
  <2>2. VmInv(g)
    BY <2>1 DEF ProxInv, FreezersInv
  <2>3. strategy[g] \in Stopping
    BY <2>1, <2>2 DEF VmInv, StrategyInv
  <2>4. CASE strategy[g] = "qga"
    BY <1>2, <2>2, <2>4 DEF VmInv, AgentInv, Quiet
  <2>5. CASE strategy[g] = "qmp-pause"
    BY <1>2, <2>2, <2>5 DEF VmInv, MonitorInv, Quiet
  <2>6. CASE strategy[g] = "qm-mem"
    BY <1>2, <2>2, <2>6 DEF VmInv, WorkerInv, Quiet
  <2> QED BY <2>3, <2>4, <2>5, <2>6 DEF Stopping
<1> QED BY <1>1, <1>2

\* The ZFS snapshot is taken of quiet guests: no late answer, fallback, stop of
\* a VM or failure of another guest has let go what a step reported as frozen; only
\* of a VM of which an event was taken for the answer to stop nothing is said.
THEOREM SnapshotOfQuietGuests == ProxSpec => QuietAtSnapshot
<1>1. ProxInv /\ [ProxNext]_proxVars =>
        [zfs' # zfs =>
           \A g \in Guest : result[g].frozen /\ (g \in VM => strategy[g] # "stopped")
                              => Quiet(g)]_proxVars
  <2> SUFFICES ASSUME ProxInv, [ProxNext]_proxVars, zfs' # zfs, NEW g \in Guest,
                      result[g].frozen, g \in VM => strategy[g] # "stopped"
               PROVE  Quiet(g)
    OBVIOUS
  <2>1. SnapInv /\ [SnapNext]_snapVars
    BY ProxStepIsSnapStep DEF ProxInv
  <2>2. ~UNCHANGED snapVars
    BY DEF snapVars, runVars
  <2>3. result[g].frozen /\ g \in frozen /\ thawCalls[g] = 0
    BY <2>1, <2>2, SnapshotStep
  <2> QED BY <2>3, FrozenIsQuiet
<1> QED BY <1>1, ProxInvariant, PTL DEF ProxSpec, QuietAtSnapshot

-----------------------------------------------------------------------------
(***************************************************************************)
(* The place in the chain.  It moves on only from a step that there is: a  *)
(* device is asked for an existing step, and until it has answered or the  *)
(* deadline has passed the place stays.                                    *)
(***************************************************************************)
Asked == {"qga", "qga 0", "qmp", "qm", "reap"}

Place(v) ==
  /\ step[v] \in 1..(Len(Steps(v)) + 1)
  /\ at[v] \in Asked => step[v] <= Len(Steps(v))

PlaceInv ==
  /\ chain \in [VM -> QemuChains] /\ step \in [VM -> Nat]
  /\ \A v \in VM : Place(v)

\* A set of numbers that is not empty has a least one.
LEMMA LeastNumber ==
  ASSUME NEW T \in SUBSET Nat, T # {}
  PROVE  \E x \in T : \A y \in T : x <= y
<1> DEFINE Less == OpToRel(<, Nat)
<1>1. IsWellFoundedOn(Less, Nat)
  BY NatLessThanWellFounded
<1> HIDE DEF Less
<1>2. PICK x \in T : \A y \in T : ~(<<y, x>> \in Less)
  BY <1>1, WFMin
<1>3. \A y \in T : ~(y < x)
  BY <1>2 DEF Less, OpToRel
<1> QED
  BY <1>3

\* StepsFor returns a list, whatever the chain: by a least counterexample, as the
\* loop is a recursive function.
LEMMA StepsAreCounted ==
  ASSUME NEW v, chain[v] \in Seq(StepKind)
  PROVE  Len(Steps(v)) \in Nat
<1> DEFINE c == chain[v]
           n == Len(c)
           Kept == {"freeze", "pause", "memory"}
           Body(f, i) == IF i = 0 THEN <<>>
                         ELSE IF c[i] \in Kept THEN Append(f[i - 1], c[i])
                         ELSE f[i - 1]
           Is(f, m) == f = [i \in 0..m |-> Body(f, i)]
           T == {m \in 0..n : ~\E f : Is(f, m)}
<1>1. Steps(v) = (CHOOSE f : Is(f, n))[n]
  BY DEF Steps
<1>2. n \in Nat
  OBVIOUS
<1> HIDE DEF n
<1>3. ASSUME NEW f, NEW m \in 0..n, \A i \in 0..m : f[i] = Body(f, i),
             f = [i \in 0..m |-> f[i]]
      PROVE  Is(f, m)
  <2>1. [i \in 0..m |-> f[i]] = [i \in 0..m |-> Body(f, i)]
    BY <1>3
  <2> QED
    BY <1>3, <2>1
<1>4. T = {}
  <2> SUFFICES ASSUME T # {} PROVE FALSE
    OBVIOUS
  <2>1. PICK m \in T : \A k \in T : m <= k
    <3>1. T \in SUBSET Nat
      BY <1>2
    <3> HIDE DEF T
    <3> QED
      BY <3>1, LeastNumber
  <2>2. m \in 0..n /\ ~\E f : Is(f, m)
    OBVIOUS
  <2>3. CASE m = 0
    <3> DEFINE f == [i \in 0..0 |-> <<>>]
    <3>1. \A i \in 0..m : f[i] = Body(f, i)
      BY <2>3
    <3>2. f = [i \in 0..m |-> f[i]]
      BY <2>3
    <3> HIDE DEF f
    <3> QED
      BY <1>3, <2>2, <3>1, <3>2
  <2>4. CASE m # 0
    <3>1. m - 1 \in 0..n /\ m - 1 \notin T
      <4>1. m - 1 \in 0..n /\ m - 1 < m
        BY <1>2, <2>2, <2>4
      <4> HIDE DEF T
      <4>2. m - 1 \in T => m <= m - 1
        BY <2>1
      <4> QED
        BY <1>2, <2>2, <4>1, <4>2
    <3>2. PICK g : Is(g, m - 1)
      BY <3>1
    <3>3. \A i \in 0..(m - 1) : g[i] = Body(g, i)
      BY <3>2
    <3> DEFINE f == [i \in 0..m |-> IF i = m THEN Body(g, m) ELSE g[i]]
    <3>4. f[m] = Body(g, m) /\ \A i \in 0..(m - 1) : f[i] = g[i]
      BY <2>2
    <3>5. f = [i \in 0..m |-> f[i]]
      OBVIOUS
    <3> HIDE DEF f, Is
    <3>6. ASSUME NEW i \in 0..m PROVE f[i] = Body(f, i)
      <4>1. CASE i = m
        <5>1. m - 1 \in 0..(m - 1)
          BY <2>2, <2>4
        <5> QED
          BY <2>4, <3>4, <4>1, <5>1
      <4>2. CASE i # m
        <5>1. i \in 0..(m - 1) /\ (i # 0 => i - 1 \in 0..(m - 1))
          BY <2>2, <4>2
        <5> QED
          BY <3>3, <3>4, <5>1
      <4> QED
        BY <4>1, <4>2
    <3> QED
      BY <1>3, <2>2, <3>5, <3>6
  <2> QED
    BY <2>3, <2>4
<1>5. PICK u : Is(u, n) /\ Steps(v) = u[n]
  <2> HIDE DEF Is
  <2>1. n \in 0..n
    BY <1>2
  <2>2. n \notin T
    <3> HIDE DEF T
    <3> QED
      BY <1>4
  <2>3. \E f : Is(f, n)
    BY <2>1, <2>2
  <2> QED
    BY <1>1, <2>3
<1>6. u[0] = <<>> /\ \A i \in 1..n : u[i] = IF c[i] \in Kept THEN Append(u[i - 1], c[i]) ELSE u[i - 1]
  <2>1. \A i \in 0..n : u[i] = Body(u, i)
    BY <1>5
  <2>2. 0 \in 0..n /\ \A i \in 1..n : i \in 0..n /\ i # 0
    BY <1>2
  <2> HIDE DEF c, Kept
  <2> QED
    BY <2>1, <2>2
<1> DEFINE L == {i \in 0..n : u[i] \notin Seq(StepKind)}
<1>7. L = {}
  <2> SUFFICES ASSUME L # {} PROVE FALSE
    OBVIOUS
  <2>1. PICK m \in L : \A k \in L : m <= k
    <3>1. L \in SUBSET Nat
      BY <1>2
    <3> HIDE DEF L
    <3> QED
      BY <3>1, LeastNumber
  <2>2. m \in 0..n /\ u[m] \notin Seq(StepKind)
    OBVIOUS
  <2>3. m # 0
    BY <1>6, <2>2, EmptySeq
  <2>4. m \in 1..n /\ m - 1 \in 0..n /\ ~(m <= m - 1)
    BY <1>2, <2>2, <2>3
  <2>5. u[m - 1] \in Seq(StepKind)
    BY <2>1, <2>4
  <2>6. c[m] \in Kept => c[m] \in StepKind
    BY DEF StepKind
  <2> HIDE DEF Kept, c
  <2>7. u[m] = IF c[m] \in Kept THEN Append(u[m - 1], c[m]) ELSE u[m - 1]
    BY <1>6, <2>4
  <2> QED
    BY <2>2, <2>5, <2>6, <2>7
<1>8. Steps(v) \in Seq(StepKind)
  <2>1. n \in 0..n /\ n \notin L
    BY <1>2, <1>7
  <2> QED
    BY <1>5, <2>1
<1> QED
  BY <1>8

\* What a step about a VM does to its place in the chain.
PlaceMoves(v) ==
  LET stepped == at[v] \in Asked \/ \E k \in StepKind : Trying(v, k)
  IN  /\ chain' = chain
      /\ \/ step' = step /\ (at'[v] \in Asked => stepped)
         \/ step' = [step EXCEPT ![v] = step[v] + 1] /\ at'[v] \notin Asked /\ stepped
      /\ \A w \in VM : w # v => at'[w] = at[w]

\* The steps of a call, of the devices and of whoever switches the VM.
LEMMA QemuStepMoves ==
  ASSUME VmTypes, NEW v \in VM, QemuStep(v)
  PROVE  PlaceMoves(v)
<1>1. at \in [VM -> CallPoint]
  BY DEF VmTypes
<1>2. \A w \in VM : w # v => at'[w] = at[w]
  BY QemuStepTypes DEF VmSame
<1> DEFINE stepped == at[v] \in Asked \/ \E k \in StepKind : Trying(v, k)
<1> SUFFICES /\ chain' = chain
             /\ \/ step' = step /\ (at'[v] \in Asked => stepped)
                \/ step' = [step EXCEPT ![v] = step[v] + 1] /\ at'[v] \notin Asked /\ stepped
  BY <1>2 DEF PlaceMoves
<1> USE DEF NextStep, StepWorked, Returning, devVars, callVars
<1>3. CASE AgentFreezes(v) \/ AgentThaws(v) \/ MonitorActs(v) \/ WorkerEnds(v)
             \/ VmStarts(v) \/ VmStops(v)
  BY <1>3 DEF AgentFreezes, AgentThaws, MonitorActs, WorkerEnds,
     VmStarts, VmStops
<1>4. CASE StepsExhausted(v) \/ ThawAnswer(v) \/ ThawTimeout(v)
             \/ (QmpEvent(v) /\ at[v] = "thaw qmp")
  BY <1>1, <1>4 DEF StepsExhausted, ThawAnswer, ThawTimeout, QmpEvent, Asked
<1>5. CASE QgaUnreachable(v) \/ QmpUnreachable(v) \/ MemNotRunning(v)
  <2>1. stepped
    BY <1>5 DEF QgaUnreachable, QmpUnreachable, MemNotRunning, StepKind
  <2>2. /\ chain' = chain /\ at' = [at EXCEPT ![v] = "step"]
        /\ step' = [step EXCEPT ![v] = step[v] + 1]
    BY <1>5 DEF QgaUnreachable, QmpUnreachable, MemNotRunning
  <2> QED BY <1>1, <2>1, <2>2 DEF Asked
<1>6. CASE QgaSend(v) \/ QmpSend(v) \/ MemStart(v)
  <2>1. stepped
    BY <1>6 DEF QgaSend, QmpSend, MemStart, StepKind
  <2>2. chain' = chain /\ step' = step
    BY <1>6 DEF QgaSend, QmpSend, MemStart
  <2> QED BY <2>1, <2>2
<1>7. CASE QgaAnswer(v) \/ QgaUndo(v) \/ QgaTimeout(v) \/ QmpAnswer(v) \/ QmpTimeout(v)
             \/ MemEnd(v) \/ MemTimeout(v) \/ Reap(v)
             \/ (QmpEvent(v) /\ at[v] = "qmp")
  <2>1. stepped
    BY <1>7 DEF QgaAnswer, QgaUndo, QgaTimeout, QmpAnswer, QmpTimeout, QmpEvent, MemEnd,
       MemTimeout, Reap, Asked
  <2> HIDE DEF stepped
  <2>2. \/ step' = step
        \/ step' = [step EXCEPT ![v] = step[v] + 1] /\ at' = [at EXCEPT ![v] = "step"]
    BY <1>7 DEF QgaAnswer, QgaUndo, QgaTimeout, QmpAnswer, QmpTimeout, QmpEvent, MemEnd,
       MemTimeout, Reap
  <2>3. chain' = chain
    BY <1>7 DEF QgaAnswer, QgaUndo, QgaTimeout, QmpAnswer, QmpTimeout, QmpEvent, MemEnd,
       MemTimeout, Reap
  <2> QED BY <1>1, <2>1, <2>2, <2>3 DEF Asked
<1> QED
  BY <1>3, <1>4, <1>5, <1>6, <1>7 DEF QemuStep, QemuCallStep, DeviceStep, QmpEvent

\* The beginning and the end of a call leave the place where it is.
LEMMA QemuExchangeMoves ==
  ASSUME VmTypes, NEW v \in VM, FreezeBegin(v) \/ QemuReturns(v) \/ ThawBegin(v)
  PROVE  PlaceMoves(v)
<1>1. at \in [VM -> CallPoint]
  BY DEF VmTypes
<1>2. \A w \in VM : w # v => at'[w] = at[w]
  BY QemuSessionTypes DEF VmSame
<1>3. chain' = chain /\ step' = step
  BY DEF FreezeBegin, QemuReturns, ThawBegin
<1>4. at'[v] \notin Asked
  BY <1>1 DEF FreezeBegin, QemuReturns, ThawBegin, Returning, Asked
<1> QED
  BY <1>2, <1>3, <1>4 DEF PlaceMoves

\* Such a step keeps the place within the chain.
LEMMA PlaceKept ==
  ASSUME PlaceInv, NEW v \in VM, PlaceMoves(v)
  PROVE  PlaceInv'
<1> DEFINE stepped == at[v] \in Asked \/ \E k \in StepKind : Trying(v, k)
<1>1. /\ chain' = chain /\ \A w \in VM : w # v => at'[w] = at[w]
      /\ \/ step' = step /\ (at'[v] \in Asked => stepped)
         \/ step' = [step EXCEPT ![v] = step[v] + 1] /\ at'[v] \notin Asked /\ stepped
  BY DEF PlaceMoves
<1>2. /\ step \in [VM -> Nat] /\ chain \in [VM -> QemuChains]
      /\ \A w \in VM : Place(w)
  BY DEF PlaceInv
<1>3. stepped => step[v] <= Len(Steps(v))
  BY <1>2 DEF Place, Trying
<1> HIDE DEF stepped
<1>4. \A w \in VM : Steps(w)' = Steps(w) /\ Len(Steps(w)) \in Nat
  <2>1. \A w \in VM : chain[w] \in Seq(StepKind)
    BY <1>2, QemuConstants
  <2> QED BY <1>1, <2>1, StepsAreCounted DEF Steps
<1>5. ASSUME NEW w \in VM, w # v PROVE Place(w)'
  <2>1. step'[w] = step[w] /\ at'[w] = at[w]
    BY <1>1, <1>2, <1>5
  <2> QED BY <1>2, <1>4, <2>1 DEF Place
<1>6. Place(v)'
  BY <1>1, <1>2, <1>3, <1>4 DEF Place
<1>7. step' \in [VM -> Nat]
  BY <1>1, <1>2
<1> QED
  BY <1>1, <1>2, <1>5, <1>6, <1>7 DEF PlaceInv

\* Nothing else moves it.
LEMMA PlaceSame ==
  ASSUME PlaceInv, UNCHANGED qemuVars
  PROVE  PlaceInv'
<1>1. chain' = chain /\ step' = step /\ at' = at
  BY DEF qemuVars, callVars
<1>2. \A v \in VM : Steps(v)' = Steps(v)
  BY <1>1 DEF Steps
<1> QED
  BY <1>1, <1>2 DEF PlaceInv, Place

\* Every step keeps every VM's place.
LEMMA NextPlaceInv == ProxInv /\ PlaceInv /\ [ProxNext]_proxVars => PlaceInv'
<1> SUFFICES ASSUME ProxInv, PlaceInv, [ProxNext]_proxVars PROVE PlaceInv'
  OBVIOUS
<1>1. VmTypes
  BY DEF ProxInv, FreezersInv
<1>2. CASE UNCHANGED qemuVars
  BY <1>2, PlaceSame
<1>3. ASSUME NEW v \in VM, QemuStep(v) \/ FreezeBegin(v) \/ QemuReturns(v) \/ ThawBegin(v)
      PROVE  PlaceInv'
  BY <1>1, <1>3, QemuStepMoves, QemuExchangeMoves, PlaceKept
<1>4. \/ UNCHANGED qemuVars
      \/ \E v \in VM : QemuStep(v) \/ FreezeBegin(v) \/ QemuReturns(v) \/ ThawBegin(v)
  BY DEF ProxNext, Main, QemuSession, QemuCall, Device, Switch, LxcSession, LxcCall,
     LxcSync, QemuStep, proxVars
<1> QED
  BY <1>2, <1>3, <1>4

\* The variables of the session, of the run and of both Freezers keep their
\* types, and a VM's place stays within its chain, one past the last step at most.
THEOREM ProxTypeCorrect == ProxSpec => []ProxTypeOK
<1>1. ProxInit => PlaceInv
  <2> SUFFICES ASSUME ProxInit PROVE PlaceInv
    OBVIOUS
  <2>1. chain \in [VM -> QemuChains] /\ step = [v \in VM |-> 1] /\ at = [v \in VM |-> "idle"]
    BY DEF ProxInit, QemuInit
  <2>2. \A v \in VM : Len(Steps(v)) \in Nat
    BY <2>1, QemuConstants, StepsAreCounted
  <2> QED BY <2>1, <2>2 DEF PlaceInv, Place, Asked
<1>2. ProxInv /\ PlaceInv => ProxTypeOK
  <2> SUFFICES ASSUME ProxInv, PlaceInv PROVE ProxTypeOK
    OBVIOUS
  <2>1. SnapTypeOK /\ VmTypes /\ LxcTypeOK
    BY DEF ProxInv, FreezersInv, SnapInv, SessInv, RunTypeOK, SnapTypeOK
  <2>2. QemuTypeOK
    <3>1. /\ at \in [VM -> {"idle", "step", "qga", "qga 0", "qmp", "qm", "reap",
                            "thaw qga", "thaw qmp", "returned"}]
          /\ strategy \in [VM -> {"unset", "qga", "qmp-pause", "qm-mem", "stopped", "none"}]
      BY <2>1 DEF VmTypes, CallPoint, FreezePoint, ThawPoint, Strategy, Stopping
    <3>2. ret \in [VM -> {"pending", "held", "degraded", "zfs-only", "none", "error",
                         "ok", "failed"}]
      BY <2>1 DEF VmTypes, QemuReturn, Returns, Froze
    <3> QED
      BY <2>1, <3>1, <3>2 DEF VmTypes, PlaceInv, Place, QemuTypeOK, FsState, CpuState,
         AgentState, MonitorState, WorkerState
  <2> QED BY <2>1, <2>2 DEF ProxTypeOK
<1> QED BY <1>1, <1>2, NextPlaceInv, ProxInvariant, PTL DEF ProxSpec
=============================================================================
