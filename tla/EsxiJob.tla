------------------------------ MODULE EsxiJob ------------------------------
(***************************************************************************)
(* esxicmd.go: freeze, thaw and cleanup as separate processes that share   *)
(* the ESXi host and a state file.  A job runs freeze and thaw one after   *)
(* the other, any of them may crash, and cleanup may run at any time.      *)
(* The calls into the host are abstracted to their outcome (EsxiFreezer    *)
(* has them in detail), the session to its per-VM results.                 *)
(***************************************************************************)
EXTENDS Naturals, FiniteSets

CONSTANTS Vm,        \* the VMs on the NFS export
          Slow,      \* bound: the VMs and the runs whose steps may leave a
          SlowRuns,  \* snapshot, or a task that is still making one
          Protos,    \* the transports --proto auto may end up with
          MaxRuns    \* bound on the number of freeze runs

ASSUME EsxiJobConstants ==
  Slow \subseteq Vm /\ Protos \subseteq {"soap", "ssh"} /\ MaxRuns \in Nat

VARIABLES
  host,     \* the tagged VM snapshots that exist on the ESXi host
  unfinished, \* the snapshots it is still making for somebody who has given up
  up,       \* the host can be reached and does what it is asked
  file,     \* the state file
  run,      \* number of the latest freeze run
  written,  \* history: the latest run whose state file was written, 0 for none
  tool,     \* program counter of the freeze or thaw process, "idle" if none
  proto,    \* its transport
  pending,  \* VMs (freeze) it still waits for
  held,     \* f.snaps: the handles it holds
  kept,     \* thaw: the handles that could not be removed
  said,     \* what the last freeze or thaw reported, until the next one starts
  clean,    \* program counter of the cleanup process
  toList,   \* VMs whose snapshots cleanup has still to list
  toRemove, \* snapshots it has listed and not dealt with
  errs,     \* cleanup had an error
  fresh     \* history: snapshots made since that cleanup listed the VM

toolVars  == <<tool, proto, pending, held, kept, said>>
cleanVars == <<clean, toList, toRemove, errs, fresh>>
jobVars   == <<host, unfinished, up, file, run, written, toolVars, cleanVars>>

\* A snapshot is the one its run has recorded, or a stray: made by a step that
\* failed or timed out, and not removed again by reap.
Snapshot == [vm : Vm, run : 1..MaxRuns, kind : {"recorded", "stray"}]
\* The id in a handle is the transport's: a number for ssh, a moid for soap.
Handle   == [vm : Vm, run : 1..MaxRuns, proto : Protos]
Of(h)    == [vm |-> h.vm, run |-> h.run, kind |-> "recorded"]

Recorded(snaps) == {s \in snaps : s.kind = "recorded"}

NoFile        == [exists |-> FALSE, run |-> 0, handles |-> {}]
FileOf(r, hs) == [exists |-> TRUE, run |-> r, handles |-> hs]

Silence == [what |-> "nothing", run |-> 0, left |-> {}]

JobInit ==
  /\ host = {} /\ unfinished = {} /\ up \in BOOLEAN
  /\ file = NoFile /\ run = 0 /\ written = 0
  /\ tool = "idle" /\ proto \in Protos
  /\ pending = {} /\ held = {} /\ kept = {} /\ said = Silence
  /\ clean = "idle" /\ toList = {} /\ toRemove = {} /\ errs = FALSE /\ fresh = {}

\* The process ends; what it says is about run r, and about each VM whether its
\* snapshot is left.
End(what, r) ==
  /\ tool' = "idle"
  /\ said' = [what |-> what, run |-> r, left |-> {Of(h) : h \in kept}]
  /\ held' = {} /\ pending' = {} /\ kept' = {}

-----------------------------------------------------------------------------
(* freeze *)

StraysOf(vms) ==
  {[vm |-> v, run |-> run, kind |-> "stray"] :
     v \in IF run \in SlowRuns THEN vms \cap Slow ELSE {}}

\* The host makes snapshots, unseen by a cleanup that has looked at the VM before.
Made(snaps) ==
  /\ host' = host \cup snaps
  /\ fresh' = IF clean = "idle" \/ errs THEN fresh
              ELSE fresh \cup {s \in snaps : s.vm \notin toList}

FreezeStart ==
  /\ tool = "idle" /\ run < MaxRuns
  /\ run' = run + 1
  /\ tool' = "freezing"
  /\ proto' \in Protos
  /\ pending' = Vm /\ said' = Silence
  /\ UNCHANGED <<host, unfinished, up, file, written, held, kept, cleanVars>>

\* The steps of a VM's chain: one works and its snapshot is recorded, or none.  A
\* step before it may have left a stray, or the host still making one, that reap
\* could not list or remove (esxi.go:151-185); what is there counts as what comes
\* at once.
FreezeVm(v) ==
  /\ tool = "freezing" /\ v \in pending
  /\ pending' = pending \ {v}
  /\ \E mine \in SUBSET {[vm |-> v, run |-> run, proto |-> proto]} :
       held' = held \cup mine /\ Made({Of(h) : h \in mine})
  /\ \E later \in SUBSET StraysOf({v}) : unfinished' = unfinished \cup later
  /\ UNCHANGED <<up, file, run, written, tool, proto, kept, said, clean, toList, toRemove, errs>>

\* abortList: a VM without a snapshot, if its chain is strict, undoes the rest.
FreezeJudge ==
  /\ tool = "freezing" /\ pending = {}
  /\ \/ tool' = "writing"
     \/ tool' = "aborting" /\ {h.vm : h \in held} # Vm
  /\ UNCHANGED <<host, unfinished, up, file, run, written, proto, pending, held, kept, said, cleanVars>>

\* WriteESXiState writes a temporary file and renames it over whatever is there
WriteState ==
  /\ tool = "writing"
  /\ file' = FileOf(run, held) /\ written' = run
  /\ tool' = "written"
  /\ UNCHANGED <<host, unfinished, up, run, proto, pending, held, kept, said, cleanVars>>

ReportFrozen ==
  /\ tool = "written"
  /\ End("frozen", run)
  /\ UNCHANGED <<host, unfinished, up, file, run, written, proto, cleanVars>>

\* or fails, and the snapshots are to be taken off again.
WriteFails ==
  /\ tool = "writing"
  /\ tool' = "undoing"
  /\ UNCHANGED <<host, unfinished, up, file, run, written, proto, pending, held, kept, said, cleanVars>>

\* Faulty: the error of a removal stands, also for a snapshot already gone.
ThawVmGoneFails(h) ==
  /\ tool \in {"aborting", "undoing", "thawing"}
  /\ h \in held
  /\ held' = held \ {h}
  /\ \/ up /\ Of(h) \in host /\ host' = host \ {Of(h)} /\ UNCHANGED kept
     \/ ~(up /\ Of(h) \in host) /\ kept' = kept \cup {h} /\ UNCHANGED host
  /\ UNCHANGED <<unfinished, up, file, run, written, tool, proto, pending, said, cleanVars>>

\* sess.Thaw after an abort or a failed write, or for the state file.  The
\* snapshot is removed; a refusal counts as success if a list shows it gone, and
\* the other transport's id is refused and never shown.  Without an answer the
\* handle is kept, whether or not the snapshot went.
ThawVm(h) ==
  /\ tool \in {"aborting", "undoing", "thawing"}
  /\ h \in held
  /\ held' = held \ {h}
  /\ kept' = IF up THEN kept ELSE kept \cup {h}
  /\ \/ h.proto = proto /\ host' = host \ {Of(h)}
     \/ (~up \/ h.proto # proto) /\ UNCHANGED host
  /\ UNCHANGED <<unfinished, up, file, run, written, tool, proto, pending, said, cleanVars>>

\* The error is reported; after a failed write it says the snapshots are gone.
FreezeFails ==
  /\ tool \in {"aborting", "undoing"} /\ held = {}
  /\ End(IF tool = "undoing" THEN "removed again" ELSE "aborted", run)
  /\ UNCHANGED <<host, unfinished, up, file, run, written, proto, cleanVars>>

-----------------------------------------------------------------------------
(* thaw *)

ThawStart ==
  /\ tool = "idle" /\ file.exists
  /\ tool' = "thawing"
  /\ proto' \in Protos
  /\ held' = file.handles /\ said' = Silence
  /\ UNCHANGED <<host, unfinished, up, file, run, written, pending, kept, cleanVars>>

\* Faulty: the file is removed without looking at the results.
ThawEndAlwaysOk ==
  /\ tool = "thawing" /\ held = {}
  /\ file' = NoFile
  /\ End("thawed", file.run)
  /\ UNCHANGED <<host, unfinished, up, run, written, proto, cleanVars>>

\* All removed: the file goes (a failure to remove it is a warning); otherwise
\* it stays for another thaw.
ThawEnd ==
  /\ tool = "thawing" /\ held = {}
  /\ \/ kept = {} /\ file' \in {NoFile, file} /\ End("thawed", file.run)
     \/ kept # {} /\ UNCHANGED file /\ End("kept", file.run)
  /\ UNCHANGED <<host, unfinished, up, run, written, proto, cleanVars>>

\* The host, or the way to it, fails and comes back.
HostSwitches ==
  /\ up' = ~up
  /\ UNCHANGED <<host, unfinished, file, run, written, toolVars, cleanVars>>

\* The process is killed: only the host and the file remain, and what the host was
\* making for it.
Crash ==
  /\ tool # "idle"
  /\ End("crashed", 0)
  /\ \E later \in SUBSET StraysOf(pending) : unfinished' = unfinished \cup later
  /\ UNCHANGED <<host, up, file, run, written, proto, cleanVars>>

\* A task ends that nobody waits for any more: with its snapshot, or without.
HostFinishes(s) ==
  /\ s \in unfinished
  /\ unfinished' = unfinished \ {s}
  /\ Made({s}) \/ UNCHANGED <<host, fresh>>
  /\ UNCHANGED <<up, file, run, written, toolVars, clean, toList, toRemove, errs>>

-----------------------------------------------------------------------------
(* cleanup *)

CleanupStart ==
  /\ clean = "idle"
  /\ clean' = "busy"
  /\ toList' = Vm /\ toRemove' = {} /\ errs' = FALSE /\ fresh' = {}
  /\ UNCHANGED <<host, unfinished, up, file, run, written, toolVars>>

CleanupList(v) ==
  /\ clean = "busy" /\ v \in toList
  /\ toList' = toList \ {v}
  /\ \/ toRemove' = toRemove \cup {s \in host : s.vm = v} /\ UNCHANGED errs
     \/ errs' = TRUE /\ UNCHANGED toRemove
  /\ UNCHANGED <<host, unfinished, up, file, run, written, toolVars, clean, fresh>>

\* Faulty: the error of a removal is not kept.
CleanupRemoveIgnored(s) ==
  /\ clean = "busy" /\ s \in toRemove
  /\ toRemove' = toRemove \ {s}
  /\ host' \in {host, host \ {s}}
  /\ UNCHANGED <<unfinished, up, file, run, written, toolVars, clean, toList, errs, fresh>>

\* A snapshot that is gone meanwhile is an error like any other.
CleanupRemove(s) ==
  /\ clean = "busy" /\ s \in toRemove
  /\ toRemove' = toRemove \ {s}
  /\ \/ s \in host /\ host' = host \ {s} /\ UNCHANGED errs
     \/ errs' = TRUE /\ UNCHANGED host
  /\ UNCHANGED <<unfinished, up, file, run, written, toolVars, clean, toList, fresh>>

CleanupEnd ==
  /\ clean = "busy" /\ toList = {} /\ toRemove = {}
  /\ clean' = IF errs THEN "error" ELSE "ok"
  /\ UNCHANGED <<host, unfinished, up, file, run, written, toolVars, toList, toRemove, errs, fresh>>

\* Its process has ended, or crashes on the way.
CleanupExit ==
  /\ clean # "idle"
  /\ clean' = "idle"
  /\ toList' = {} /\ toRemove' = {} /\ errs' = FALSE /\ fresh' = {}
  /\ UNCHANGED <<host, unfinished, up, file, run, written, toolVars>>

-----------------------------------------------------------------------------
FreezeStep == FreezeStart \/ (\E v \in Vm : FreezeVm(v)) \/ FreezeJudge
                \/ WriteState \/ WriteFails \/ ReportFrozen \/ FreezeFails
ThawVms    == \E h \in held : ThawVm(h)
CleanupStep ==
  \/ CleanupStart \/ CleanupEnd \/ CleanupExit
  \/ \E v \in Vm : CleanupList(v)
  \/ \E s \in toRemove : CleanupRemove(s)

JobNext == FreezeStep \/ ThawStart \/ ThawVms \/ ThawEnd \/ Crash \/ HostSwitches
             \/ (\E s \in unfinished : HostFinishes(s)) \/ CleanupStep

JobSpec == JobInit /\ [][JobNext]_jobVars

(***************************************************************************)
(* Fairness: a started process goes on, and thaw is run again while there  *)
(* is a state file.                                                        *)
(***************************************************************************)
JobFairSpec ==
  /\ JobSpec
  /\ WF_jobVars(FreezeStep) /\ WF_jobVars(ThawStart)
  /\ WF_jobVars(ThawVms) /\ WF_jobVars(ThawEnd)

-----------------------------------------------------------------------------
\* Type invariant of the processes, the host and the state file.
JobTypeOK ==
  /\ host \subseteq Snapshot /\ unfinished \subseteq Snapshot /\ up \in BOOLEAN
  /\ file.exists \in BOOLEAN /\ file.run \in 0..MaxRuns /\ file.handles \subseteq Handle
  /\ run \in 0..MaxRuns /\ written \in 0..MaxRuns
  /\ tool \in {"idle", "freezing", "writing", "written", "aborting", "undoing", "thawing"}
  /\ proto \in Protos /\ pending \subseteq Vm
  /\ held \subseteq Handle /\ kept \subseteq Handle
  /\ said \in [what : {"nothing", "frozen", "removed again", "aborted", "thawed",
                       "kept", "crashed"}, run : 0..MaxRuns, left : SUBSET Snapshot]
  /\ clean \in {"idle", "busy", "ok", "error"}
  /\ toList \subseteq Vm /\ toRemove \subseteq Snapshot
  /\ errs \in BOOLEAN /\ fresh \subseteq Snapshot

\* The state file "is what makes the snapshots removable later" (esxicmd.go:440).
\* At any moment, whatever crashed, failed or was cleaned up before, each snapshot
\* recorded by the freeze that last wrote it and still on the host is listed
\* there; and what a freeze that undid itself or a thaw could not remove it has
\* reported, and has said so of nothing else.  What is not recorded, or was when
\* another freeze wrote the file, only cleanup knows: NoneLeaked is not kept.
NothingForgotten ==
  /\ {s \in Recorded(host) : s.run = written} \subseteq {Of(h) : h \in file.handles}
  /\ tool = "idle" /\ said.what \in {"aborted", "removed again", "kept", "thawed"} =>
       {s \in Recorded(host) : s.run = said.run} \subseteq said.left

\* cleanup reports ok only if every snapshot of the tool, of whatever run and
\* recorded or not, that was there when it looked at the VM is gone, whatever runs
\* beside it.
CleanupIsComplete == clean = "ok" => host \subseteq fresh

\* A state file does not stay for ever: once the host works, nothing crashes and
\* the file can be removed, a thaw that is tried again removes it, whatever
\* earlier attempts left half done and whatever a cleanup took away.
Trouble == Crash \/ HostSwitches \/ (ThawEnd /\ said'.what = "thawed" /\ file'.exists)

ThawConverges == <>[]up /\ <>[][~Trouble]_jobVars => (file.exists ~> ~file.exists)

\* README.md:338-339 "thaw removes them and deletes the state file (it keeps the
\* file ... if a snapshot could not be removed ...)".
DeletedFileMeansRemoved ==
  [][file.exists /\ ~file'.exists =>
       \A h \in file.handles : Of(h) \notin host]_jobVars

\* esxicmd.go:456 "cannot write state file: ... - VM snapshots were removed again".
RemovedAgainIsTrue ==
  tool = "idle" /\ said.what = "removed again" => {s \in host : s.run = said.run} = {}

\* esxicmd.go:440-441 "The state file is what makes the snapshots removable later;
\* if it cannot be written, take them off again right away rather than leaking
\* them": after a freeze that reports success it lists all there are.
NoneLeaked ==
  tool = "idle" /\ said.what = "frozen" => host \subseteq {Of(h) : h \in file.handles}
=============================================================================
