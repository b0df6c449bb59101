------------------------------ MODULE EsxiRun ------------------------------
(***************************************************************************)
(* "snap" for an ESXi host (esxicmd.go, runSnapESXi): the session of       *)
(* FreezeSession with the ESXiFreezer.  Unlike runSnap it thaws before it  *)
(* reports an abort, and when the host cannot be reached it takes the ZFS  *)
(* snapshot all the same.                                                  *)
(***************************************************************************)
EXTENDS FreezeSession, EsxiFreezer

ASSUME GuestsAreVms == Guest = Vm

VARIABLES
  pc,      \* program counter of runSnapESXi
  force,   \* --forcefreeze
  zfs,     \* what became of the ZFS snapshot
  report   \* the runResult that was emitted

runVars  == <<pc, force, zfs, report>>
esxiRunVars == <<sessVars, esxiVars, runVars>>

NoReport == [status |-> "none"]

\* The warnings that tell the user to run cleanup; an abort writes none.
Leftover == {v \in Vm : zfs # "none" /\ result[v].frozen /\ ~result[v].thawed}

\* Faulty: the warning goes by the session's list, which Thaw has cleared.
ReportNowByFrozen(status) ==
  [status |-> status, guests |-> result, leftover |-> frozen]

ReportNow(status) ==
  [status |-> status, guests |-> result, leftover |-> Leftover]

\* Faulty: a best-effort guest aborts the run as a strict one does.
AbortListAll ==
  {g \in Guest : Answered(g) /\ ~result[g].frozen /\ result[g].outcome # "zfs-only"}

AbortList ==
  IF force
  THEN {g \in Guest : Answered(g) /\ ~result[g].frozen
                        /\ result[g].outcome # "zfs-only"}
  ELSE StrictViolations

EsxiRunInit ==
  /\ SessInit
  /\ registered = Guest
  /\ EsxiInit
  /\ zfsOnly \cap strict = {}
  /\ pc = "connect"
  /\ force \in BOOLEAN
  /\ zfs = "none"
  /\ report = NoReport

-----------------------------------------------------------------------------
\* connect and discover.
Connected ==
  /\ pc = "connect"
  /\ pc' = "freeze"
  /\ UNCHANGED <<sessVars, esxiVars, force, zfs, report>>

\* Faulty: --forcefreeze is only asked after the freeze.
UnreachableIgnoresForce ==
  /\ pc = "connect"
  /\ pc' = "zfs alone"
  /\ UNCHANGED <<sessVars, esxiVars, force, zfs, report>>

\* They fail: with --forcefreeze that is the end, else only a warning.
Unreachable ==
  /\ pc = "connect"
  /\ IF force
     THEN pc' = "return" /\ report' = ReportNow("error")
     ELSE pc' = "zfs alone" /\ UNCHANGED report
  /\ UNCHANGED <<sessVars, esxiVars, force, zfs>>

\* finishZFS.
FinishZFS ==
  /\ pc = "zfs alone"
  /\ zfs' \in {"taken", "failed"}
  /\ report' = ReportNow(IF zfs' = "taken" THEN "ok" ELSE "error")
  /\ pc' = "return"
  /\ UNCHANGED <<sessVars, esxiVars, force>>

StartFreeze ==
  /\ pc = "freeze"
  /\ FreezeAll
  /\ pc' = "freezing"
  /\ UNCHANGED <<esxiVars, force, zfs, report>>

EndFreeze ==
  /\ pc = "freezing"
  /\ FreezeAllReturn
  /\ pc' = "judge"
  /\ UNCHANGED <<esxiVars, force, zfs, report>>

Judge ==
  /\ pc = "judge"
  /\ pc' = IF AbortList # {} THEN "thaw" ELSE "snapshot"
  /\ UNCHANGED <<sessVars, esxiVars, force, zfs, report>>

TakeZFS ==
  /\ pc = "snapshot"
  /\ zfs' \in {"taken", "failed"}
  /\ pc' = "thaw"
  /\ UNCHANGED <<sessVars, esxiVars, force, report>>

\* Thaw, after an abort as after the snapshot, and again by defer.
StartThaw ==
  /\ pc \in {"thaw", "defer"}
  /\ Thaw
  /\ pc' = IF pc = "thaw" THEN "thawing" ELSE "deferring"
  /\ UNCHANGED <<esxiVars, force, zfs, report>>

EndThaw ==
  /\ pc \in {"thawing", "deferring"}
  /\ ThawAllReturn
  /\ pc' = IF pc = "thawing" THEN "report" ELSE "return"
  /\ UNCHANGED <<esxiVars, force, zfs, report>>

Report ==
  /\ pc = "report"
  /\ report' = ReportNow(IF zfs = "taken" THEN "ok" ELSE "error")
  /\ pc' = "defer"
  /\ UNCHANGED <<sessVars, esxiVars, force, zfs>>

\* The transport is closed; main calls os.Exit.
Return ==
  /\ pc = "return"
  /\ pc' = "exit"
  /\ UNCHANGED <<sessVars, esxiVars, force, zfs, report>>

\* The session calls the Freezer and gets its answer.
Returned(v) ==
  /\ at[v] = "returned"
  /\ at' = [at EXCEPT ![v] = "idle"]
  /\ UNCHANGED <<proto, steps, zfsOnly, hostVars, step, todo, snap, ret, channel>>

Session(v) ==
  /\ \/ FreezeCall(v) /\ EsxiFreezeBegin(v)
     \/ FreezeReturn(v, ret[v]) /\ Returned(v)
     \/ FreezeRecord(v) /\ UNCHANGED esxiVars
     \/ ThawCall(v) /\ EsxiThawBegin(v)
     \/ ThawReturn(v, ret[v] = "ok") /\ Returned(v)
  /\ UNCHANGED runVars

Connect == Connected \/ Unreachable

Main ==
  \/ FinishZFS
  \/ StartFreeze \/ EndFreeze \/ Judge \/ TakeZFS
  \/ StartThaw \/ EndThaw \/ Report \/ Return

Call(v) == EsxiCallStep(v) /\ UNCHANGED <<sessVars, runVars>>
Host(v) == HostWorks(v) /\ UNCHANGED <<sessVars, runVars>>
Opens(v) == SessionAnswered(v) /\ UNCHANGED <<sessVars, runVars>>

EsxiRunNext ==
  Connect \/ Main \/ \E v \in Vm : Session(v) \/ Call(v) \/ Host(v) \/ Opens(v)

EsxiRunSpec == EsxiRunInit /\ [][EsxiRunNext]_esxiRunVars

(***************************************************************************)
(* Fairness: the process runs and the ZFS command ends.  A call waits for  *)
(* its task no longer than its context allows, and over soap for the host  *)
(* no longer than the HTTP client's timeout.                               *)
(***************************************************************************)
EsxiRunFairSpec ==
  /\ EsxiRunSpec
  /\ WF_esxiRunVars(Main)
  /\ WF_esxiRunVars(proto = "soap" /\ Connect)
  /\ \A v \in Vm : SF_esxiRunVars(Session(v)) /\ WF_esxiRunVars(Call(v))

\* What the ssh transport takes for granted: a host that accepts the connection
\* completes the handshake, and it answers each request for a session.
EsxiRunConnectedSpec == EsxiRunFairSpec /\ WF_esxiRunVars(Connect)
EsxiRunAnsweredSpec  == EsxiRunConnectedSpec /\ \A v \in Vm : WF_esxiRunVars(Opens(v))

-----------------------------------------------------------------------------
RunPc == {"connect", "zfs alone", "freeze", "freezing", "judge", "snapshot",
          "thaw", "thawing", "report", "defer", "deferring", "return", "exit"}

\* Type invariant of the run, the session and the Freezer.
EsxiRunTypeOK ==
  /\ SessTypeOK /\ EsxiTypeOK
  /\ pc \in RunPc /\ force \in BOOLEAN
  /\ zfs \in {"none", "taken", "failed"}
  /\ report \in {NoReport} \cup
       [status : {"ok", "error"}, guests : [Guest -> Result], leftover : SUBSET Vm]

\* A guest reported as frozen owns, until its Thaw, the VM snapshot that the step
\* named by its strategy has made, and that is the newest of the run: it is not
\* one a timed-out step left behind, no reaper or late task has removed it, and
\* none has come on top of it.
FrozenOwnsSnapshot ==
  \A v \in Vm : v \in frozen /\ thawAt[v] \in {"idle", "wait"} =>
    /\ snap[v] = step[v]
    /\ host[v] # <<>> /\ Last(host[v]) = snap[v]

\* thawed is only reported when the snapshot is gone from the host, for good,
\* whatever was refused, timed out or finished late on the way.
ThawedIsGone ==
  \A v \in Vm : result[v].thawed => step[v] \notin ToSet(host[v])

\* Every snapshot that was recorded and is still there when the run ends is in
\* the report: in the guest's own warning, after an abort too, and after a ZFS
\* snapshot in a "run cleanup" warning (esxicmd.go:333-337).  What a step that was
\* given up has left is not recorded, and not reported: NoLateSnapshot.
LeftoverIsReported ==
  pc = "exit" =>
    \A v \in Vm : snap[v] # 0 /\ snap[v] \in ToSet(host[v]) =>
      /\ report.guests[v].warning = "thaw"
      /\ zfs # "none" => v \in report.leftover

\* --forcefreeze never ends in a ZFS snapshot without the guests (README.md:130,
\* esxicmd.go:294-296): it is taken with every guest answered, frozen or "zfs-only".
ForceMeansFrozen ==
  force /\ zfs # "none" =>
    \A g \in Guest : Answered(g) /\ (result[g].frozen \/ result[g].outcome = "zfs-only")

\* README.md:137-138 "with ssh a running vim-cmd cannot be cancelled from outside
\* (a snapshot the host may still create is removed)": once an ssh run that has
\* reported no failed thaw is over and the host idle, no snapshot of it is left.
NoLateSnapshot ==
  pc = "exit" /\ proto = "ssh" /\ (\A v \in Vm : report.guests[v].warning # "thaw") =>
    \A v \in Vm : task[v] = NoTask /\ todo[v] = {} => host[v] = <<>>

\* No call, refused, timed out or finished, keeps the session slot it waited for
\* (ssh.go:99-104): the next caller finds it free.
SlotsComeBack == \A v \in Vm : at[v] \in {"idle", "returned"} => ~Pool!HoldsSlot(v)

\* README.md:131-134 "A chain without zfs is strict for its guests: if no step works,
\* the run aborts before the ZFS snapshot": with a ZFS snapshot attempted, every
\* strict guest was frozen.
StrictMeansFrozen == zfs # "none" => \A g \in strict : result[g].frozen

\* The run ends although the host may leave its tasks undone.
RunEnds == <>(pc = "exit")

\* README.md:139-141 "Never a hard failure unless a chain is strict or --forcefreeze
\* is set [...] and the ZFS snapshot is taken in any case": without either, the run
\* gets to the ZFS snapshot whatever host and guests do.
SnapshotInAnyCase == (~force /\ strict = {}) ~> (zfs # "none")

-----------------------------------------------------------------------------
\* The run implements SnapPromise.
Stage == CASE pc \in {"connect", "zfs alone", "freeze", "freezing", "judge", "snapshot"}
                -> "hold"
           [] pc = "exit" -> "over"
           [] OTHER       -> "release"

Held == {v \in frozen : thawAt[v] \in {"idle", "wait"}}

Promise == INSTANCE SnapPromise WITH stage <- Stage, held <- Held

ImplementsPromise == Promise!Spec
=============================================================================
