--------------------------- MODULE EsxiJob_proofs ---------------------------
(***************************************************************************)
(* Proofs about EsxiJob, for any set of VMs and any number of runs, and    *)
(* about VimOutput, by which cleanup and reap know the snapshots of a VM,  *)
(* for any tree of them and any descriptions.                              *)
(***************************************************************************)
EXTENDS EsxiJob, VimOutput, SequenceTheorems, WellFoundedInduction, TLAPS

(***************************************************************************)
(* The inductive invariant.  RunInv: while a freeze runs, it holds what it *)
(* has recorded, and the state file is an older run's.  FileInv: the file  *)
(* is that of the run that last wrote it.  CleanInv: a cleanup without an  *)
(* error has each snapshot still to list, still to remove, or it was made  *)
(* after the look.  With one transport also: the file lists what is left   *)
(* of the run that wrote it, at any time, so it survives crashes and later *)
(* runs (WrittenInv); a thaw, or a freeze that undoes itself, has what is  *)
(* left still before it or kept (ThawInv), and says so (SaidInv).          *)
(***************************************************************************)
Listed(hs) == {Of(h) : h \in hs}

\* What is left of run r is among the handles hs.
LeftOf(r, hs) == \A s \in Recorded(host) : s.run = r => s \in Listed(hs)

RunInv ==
  /\ pending # {} => tool = "freezing"
  /\ tool \in {"freezing", "writing"} =>
       run \in 1..MaxRuns /\ written < run /\ LeftOf(run, held)

FileInv ==
  /\ written <= run
  /\ file.exists => file.run = written
  /\ \A s \in Recorded(host) : s.run <= run
  /\ Recorded(unfinished) = {}

WrittenInv == LeftOf(written, file.handles)

SaidInv ==
  tool = "idle" /\ said.what \in {"aborted", "removed again", "kept", "thawed"} =>
    \A s \in Recorded(host) : s.run = said.run => s \in said.left

\* What a thaw has let go of without keeping it is gone.
ThawInv ==
  /\ tool = "thawing" =>
       /\ file.exists
       /\ \A h \in file.handles : Of(h) \in host => h \in held \cup kept
  /\ tool \in {"aborting", "undoing"} => LeftOf(run, held \cup kept)

CleanInv ==
  /\ clean = "busy" /\ ~errs =>
       \A s \in host : s \in fresh \/ s.vm \in toList \/ s \in toRemove
  /\ clean = "ok" => host \subseteq fresh /\ ~errs /\ toList = {}

\* The type invariant by process.
HostTypeOK ==
  /\ host \subseteq Snapshot /\ unfinished \subseteq Snapshot /\ up \in BOOLEAN
  /\ file.exists \in BOOLEAN /\ file.run \in 0..MaxRuns /\ file.handles \subseteq Handle
  /\ run \in 0..MaxRuns /\ written \in 0..MaxRuns

ToolTypeOK ==
  /\ tool \in {"idle", "freezing", "writing", "written", "aborting", "undoing", "thawing"}
  /\ proto \in Protos /\ pending \subseteq Vm
  /\ held \subseteq Handle /\ kept \subseteq Handle

SaidTypeOK ==
  said \in [what : {"nothing", "frozen", "removed again", "aborted", "thawed",
                    "kept", "crashed"}, run : 0..MaxRuns, left : SUBSET Snapshot]

CleanTypeOK ==
  /\ clean \in {"idle", "busy", "ok", "error"}
  /\ toList \subseteq Vm /\ toRemove \subseteq Snapshot
  /\ errs \in BOOLEAN /\ fresh \subseteq Snapshot

JobInv ==
  /\ HostTypeOK /\ ToolTypeOK /\ SaidTypeOK /\ CleanTypeOK
  /\ RunInv
  /\ FileInv
  /\ CleanInv

\* One host, one way to it: whatever --proto auto tries, it ends up the same way.
OneTransport == \A p, q \in Protos : p = q

ThawedInv == WrittenInv /\ SaidInv /\ ThawInv

-----------------------------------------------------------------------------
\* Before the first command there is no snapshot and no state file.
LEMMA InitJobInv == JobInit => JobInv /\ ThawedInv
<1> SUFFICES ASSUME JobInit PROVE JobInv /\ ThawedInv
  OBVIOUS
<1> USE EsxiJobConstants DEF JobInit, NoFile, Silence
<1>1. HostTypeOK /\ ToolTypeOK
  BY DEF HostTypeOK, ToolTypeOK
<1>2. SaidTypeOK
  BY DEF SaidTypeOK
<1>3. CleanTypeOK
  BY DEF CleanTypeOK
<1>4. RunInv /\ FileInv /\ CleanInv /\ ThawedInv
  BY DEF RunInv, FileInv, CleanInv, ThawedInv, WrittenInv, SaidInv, ThawInv, LeftOf, Recorded
<1> QED BY <1>1, <1>2, <1>3, <1>4 DEF JobInv

\* A handle names a snapshot.
LEMMA OfType == \A h \in Handle : Of(h) \in Snapshot
BY DEF Handle, Snapshot, Of

\* A stray is one of the run's, and no recorded one.
LEMMA StrayType ==
  ASSUME NEW vms \in SUBSET Vm, run \in 1..MaxRuns \/ vms = {}
  PROVE  StraysOf(vms) \subseteq Snapshot /\ Recorded(StraysOf(vms)) = {}
<1>1. \A v \in vms : [vm |-> v, run |-> run, kind |-> "stray"] \in Snapshot
  BY DEF Snapshot
<1>2. \A s \in StraysOf(vms) : s.kind = "stray" /\ s \in Snapshot
  BY <1>1 DEF StraysOf
<1> QED BY <1>2 DEF Recorded

\* A command that has said nothing yet.
LEMMA SilenceType ==
  Silence \in [what : {"nothing", "frozen", "removed again", "aborted", "thawed",
                       "kept", "crashed"}, run : 0..MaxRuns, left : SUBSET Snapshot]
<1>1. 0 \in 0..MaxRuns
  BY EsxiJobConstants
<1> QED BY <1>1 DEF Silence

\* What Made adds a cleanup without an error has not overlooked.
LEMMA MadeFacts ==
  ASSUME NEW more, Made(more)
  PROVE  /\ host' = host \cup more /\ fresh \subseteq fresh'
         /\ fresh' \subseteq fresh \cup more
         /\ clean # "idle" /\ ~errs =>
              \A s \in more : s \in fresh' \/ s.vm \in toList
BY DEF Made

\* What the end of a process leaves behind.
LEMMA EndTypeOK ==
  ASSUME NEW r \in 0..MaxRuns, UNCHANGED proto, ToolTypeOK,
         NEW what \in {"frozen", "removed again", "aborted", "thawed", "kept", "crashed"},
         End(what, r)
  PROVE  ToolTypeOK' /\ SaidTypeOK' /\ tool' = "idle"
<1>1. {Of(h) : h \in kept} \subseteq Snapshot
  BY OfType DEF ToolTypeOK
<1>2. SaidTypeOK'
  BY <1>1 DEF End, SaidTypeOK
<1>3. ToolTypeOK' /\ tool' = "idle"
  BY DEF End, ToolTypeOK
<1> QED BY <1>2, <1>3

\* The host's part of the types, where the file and the runs stay.
LEMMA MadeTypeOK ==
  ASSUME HostTypeOK, CleanTypeOK, NEW more \in SUBSET Snapshot, Made(more)
  PROVE  host' \subseteq Snapshot /\ fresh' \subseteq Snapshot
BY MadeFacts DEF HostTypeOK, CleanTypeOK

\* Every step keeps the types.
LEMMA NextTypeOK ==
  ASSUME JobInv, JobNext
  PROVE  HostTypeOK' /\ ToolTypeOK' /\ SaidTypeOK' /\ CleanTypeOK'
<1> USE EsxiJobConstants DEF JobInv, toolVars, cleanVars
<1>1. CASE FreezeStart
  <2>1. HostTypeOK' /\ ToolTypeOK'
    BY <1>1 DEF FreezeStart, HostTypeOK, ToolTypeOK
  <2>2. SaidTypeOK' /\ CleanTypeOK'
    BY <1>1, SilenceType DEF FreezeStart, SaidTypeOK, CleanTypeOK
  <2> QED BY <2>1, <2>2
<1>2. ASSUME NEW v \in Vm, FreezeVm(v)
      PROVE  HostTypeOK' /\ ToolTypeOK' /\ SaidTypeOK' /\ CleanTypeOK'
  <2>1. run \in 1..MaxRuns
    BY <1>2 DEF FreezeVm, RunInv
  <2>2. [vm |-> v, run |-> run, proto |-> proto] \in Handle
    BY <2>1 DEF Handle, ToolTypeOK
  <2>3. PICK mine \in SUBSET {[vm |-> v, run |-> run, proto |-> proto]} :
          held' = held \cup mine /\ Made({Of(h) : h \in mine})
    BY <1>2 DEF FreezeVm
  <2>4. mine \subseteq Handle /\ {Of(h) : h \in mine} \subseteq Snapshot
    BY <2>2, <2>3, OfType
  <2>5. host' \subseteq Snapshot /\ fresh' \subseteq Snapshot
    BY <2>3, <2>4, MadeTypeOK
  <2>6. unfinished' \subseteq Snapshot
    BY <1>2, <2>1, StrayType DEF FreezeVm, HostTypeOK
  <2>7. HostTypeOK'
    BY <1>2, <2>5, <2>6 DEF FreezeVm, HostTypeOK
  <2>8. ToolTypeOK' /\ SaidTypeOK'
    BY <1>2, <2>3, <2>4 DEF FreezeVm, ToolTypeOK, SaidTypeOK
  <2>9. CleanTypeOK'
    BY <1>2, <2>5 DEF FreezeVm, CleanTypeOK
  <2> QED BY <2>7, <2>8, <2>9
<1>3. CASE FreezeJudge \/ WriteFails
  BY <1>3 DEF FreezeJudge, WriteFails, HostTypeOK, ToolTypeOK, SaidTypeOK, CleanTypeOK
<1>4. CASE WriteState
  BY <1>4 DEF WriteState, FileOf, HostTypeOK, ToolTypeOK, SaidTypeOK, CleanTypeOK
<1>5. CASE ReportFrozen \/ FreezeFails \/ Crash
  <2>1. ToolTypeOK' /\ SaidTypeOK'
    <3>1. \/ End("frozen", run) \/ End("crashed", 0)
          \/ End("removed again", run) \/ End("aborted", run)
      <4>1. CASE tool = "undoing"
        BY <1>5, <4>1 DEF ReportFrozen, FreezeFails, Crash
      <4>2. CASE tool # "undoing"
        BY <1>5, <4>2 DEF ReportFrozen, FreezeFails, Crash
      <4> QED BY <4>1, <4>2
    <3>2. UNCHANGED proto
      BY <1>5 DEF ReportFrozen, FreezeFails, Crash
    <3>3. run \in 0..MaxRuns
      BY DEF HostTypeOK
    <3>4. 0 \in 0..MaxRuns
      OBVIOUS
    <3> QED BY <3>1, <3>2, <3>3, <3>4, EndTypeOK
  <2>2. StraysOf(pending) \subseteq Snapshot
    BY StrayType DEF RunInv, ToolTypeOK
  <2>3. unfinished' \subseteq Snapshot
    BY <1>5, <2>2 DEF ReportFrozen, FreezeFails, Crash, HostTypeOK
  <2>4. UNCHANGED <<host, up, file, run, written, clean, toList, toRemove, errs, fresh>>
    BY <1>5 DEF ReportFrozen, FreezeFails, Crash
  <2> QED BY <2>1, <2>3, <2>4 DEF HostTypeOK, CleanTypeOK
<1>6. CASE ThawStart \/ HostSwitches
  <2>1. HostTypeOK' /\ ToolTypeOK'
    BY <1>6 DEF ThawStart, HostSwitches, HostTypeOK, ToolTypeOK
  <2>2. SaidTypeOK' /\ CleanTypeOK'
    BY <1>6, SilenceType DEF ThawStart, HostSwitches, SaidTypeOK, CleanTypeOK
  <2> QED BY <2>1, <2>2
<1>7. ASSUME NEW h \in held, ThawVm(h)
      PROVE  HostTypeOK' /\ ToolTypeOK' /\ SaidTypeOK' /\ CleanTypeOK'
  <2>1. host' \subseteq host /\ UNCHANGED <<unfinished, up, file, run, written>>
    BY <1>7 DEF ThawVm
  <2>2. /\ held' \subseteq held /\ kept' \subseteq kept \cup held
        /\ UNCHANGED <<tool, proto, pending>>
    BY <1>7 DEF ThawVm
  <2>3. UNCHANGED said /\ UNCHANGED <<clean, toList, toRemove, errs, fresh>>
    BY <1>7 DEF ThawVm, cleanVars
  <2>4. HostTypeOK'
    BY <2>1 DEF HostTypeOK
  <2>5. ToolTypeOK'
    BY <2>2 DEF ToolTypeOK
  <2>6. SaidTypeOK' /\ CleanTypeOK'
    BY <2>3 DEF SaidTypeOK, CleanTypeOK
  <2> QED BY <2>4, <2>5, <2>6
<1>8. CASE ThawEnd
  <2>1. ToolTypeOK' /\ SaidTypeOK'
    BY <1>8, EndTypeOK DEF ThawEnd, HostTypeOK
  <2>2. \/ file' = file
        \/ file'.exists = FALSE /\ file'.run = 0 /\ file'.handles = {}
    BY <1>8 DEF ThawEnd, NoFile
  <2>3. file'.exists \in BOOLEAN /\ file'.handles \subseteq Handle
    BY <2>2 DEF HostTypeOK
  <2>4. file'.run \in 0..MaxRuns
    BY <2>2 DEF HostTypeOK
  <2>5. HostTypeOK'
    BY <1>8, <2>3, <2>4 DEF ThawEnd, HostTypeOK
  <2>6. CleanTypeOK'
    BY <1>8 DEF ThawEnd, CleanTypeOK
  <2> QED BY <2>1, <2>5, <2>6
<1>9. ASSUME NEW s \in unfinished, HostFinishes(s)
      PROVE  HostTypeOK' /\ ToolTypeOK' /\ SaidTypeOK' /\ CleanTypeOK'
  <2>1. {s} \in SUBSET Snapshot
    BY DEF HostTypeOK
  <2>2. host' \subseteq Snapshot /\ fresh' \subseteq Snapshot
    BY <1>9, <2>1, MadeTypeOK DEF HostFinishes, HostTypeOK, CleanTypeOK
  <2>3. HostTypeOK' /\ CleanTypeOK'
    BY <1>9, <2>2 DEF HostFinishes, HostTypeOK, CleanTypeOK
  <2>4. ToolTypeOK' /\ SaidTypeOK'
    BY <1>9 DEF HostFinishes, ToolTypeOK, SaidTypeOK
  <2> QED BY <2>3, <2>4
<1>10. CASE CleanupStep
  <2>1. ToolTypeOK' /\ SaidTypeOK'
    BY <1>10 DEF CleanupStep, CleanupStart, CleanupEnd, CleanupExit, CleanupList,
       CleanupRemove, ToolTypeOK, SaidTypeOK
  <2>2. HostTypeOK' /\ CleanTypeOK'
    BY <1>10 DEF CleanupStep, CleanupStart, CleanupEnd, CleanupExit, CleanupList,
       CleanupRemove, HostTypeOK, CleanTypeOK
  <2> QED BY <2>1, <2>2
<1> QED BY <1>1, <1>2, <1>3, <1>4, <1>5, <1>6, <1>7, <1>8, <1>9, <1>10
        DEF JobNext, FreezeStep, ThawVms

-----------------------------------------------------------------------------
\* Only FreezeVm and a task that ends late make a snapshot.
LEMMA HostShrinks ==
  ASSUME JobNext, \A v \in Vm : ~FreezeVm(v), \A s \in unfinished : ~HostFinishes(s)
  PROVE  host' \subseteq host
<1>1. CASE FreezeStep
  BY <1>1 DEF FreezeStep, FreezeStart, FreezeJudge, WriteState, WriteFails,
     ReportFrozen, FreezeFails
<1>2. CASE ThawStart \/ ThawEnd \/ Crash \/ HostSwitches
  BY <1>2 DEF ThawStart, ThawEnd, Crash, HostSwitches
<1>3. CASE ThawVms
  BY <1>3 DEF ThawVms, ThawVm
<1>4. CASE CleanupStep
  BY <1>4 DEF CleanupStep, CleanupStart, CleanupEnd, CleanupExit, CleanupList,
     CleanupRemove
<1> QED BY <1>1, <1>2, <1>3, <1>4 DEF JobNext

\* What a task makes late is not recorded.
LEMMA FinishedIsStray ==
  ASSUME JobInv, NEW s \in unfinished, HostFinishes(s)
  PROVE  Recorded(host') \subseteq Recorded(host)
<1>1. s.kind # "recorded"
  BY DEF JobInv, FileInv, Recorded
<1>2. host' \subseteq host \cup {s}
  BY MadeFacts DEF HostFinishes
<1> QED BY <1>1, <1>2 DEF Recorded

\* Only FreezeVm makes a snapshot that is recorded.
LEMMA RecordedShrinks ==
  ASSUME JobInv, JobNext, \A v \in Vm : ~FreezeVm(v)
  PROVE  Recorded(host') \subseteq Recorded(host)
<1>1. CASE \E s \in unfinished : HostFinishes(s)
  BY <1>1, FinishedIsStray
<1>2. CASE \A s \in unfinished : ~HostFinishes(s)
  BY <1>2, HostShrinks DEF Recorded
<1> QED BY <1>1, <1>2

\* The snapshot that FreezeVm records, if it does, and what it leaves to the host.
LEMMA FreezeVmFacts ==
  ASSUME JobInv, NEW v \in Vm, FreezeVm(v)
  PROVE  /\ \A s \in Recorded(host') :
              s \in Recorded(host) \/ (s.run = run /\ s \in Listed(held'))
         /\ held \subseteq held' /\ fresh \subseteq fresh'
         /\ clean # "idle" /\ ~errs =>
              \A s \in host' : s \in host \/ s \in fresh' \/ s.vm \in toList
         /\ Recorded(unfinished') = {}
<1>1. PICK mine \in SUBSET {[vm |-> v, run |-> run, proto |-> proto]} :
        held' = held \cup mine /\ Made({Of(h) : h \in mine})
  BY DEF FreezeVm
<1>2. host' = host \cup {Of(h) : h \in mine}
  BY <1>1 DEF Made
<1>3. \A h \in mine : Of(h).run = run /\ Of(h) \in Listed(held')
  BY <1>1 DEF Of, Listed
<1>4. \A s \in host' : s \in host \/ (s.run = run /\ s \in Listed(held'))
  BY <1>2, <1>3
<1>5. /\ fresh \subseteq fresh'
      /\ clean # "idle" /\ ~errs =>
           \A s \in {Of(h) : h \in mine} : s \in fresh' \/ s.vm \in toList
  BY <1>1, MadeFacts
<1>6. clean # "idle" /\ ~errs =>
        \A s \in host' : s \in host \/ s \in fresh' \/ s.vm \in toList
  BY <1>2, <1>5
<1>7. Recorded(StraysOf({v})) = {}
  <2>1. run \in 1..MaxRuns
    BY DEF FreezeVm, JobInv, RunInv
  <2> QED BY <2>1, StrayType
<1>8. Recorded(unfinished') = {}
  BY <1>7 DEF FreezeVm, JobInv, FileInv, Recorded
<1> QED BY <1>1, <1>4, <1>5, <1>6, <1>8 DEF Recorded

\* A crash leaves strays to the host.
LEMMA CrashFacts ==
  ASSUME JobInv, Crash
  PROVE  Recorded(unfinished') = {}
<1>1. Recorded(StraysOf(pending)) = {}
  BY StrayType DEF JobInv, RunInv, ToolTypeOK
<1> QED BY <1>1 DEF Crash, JobInv, FileInv, Recorded

\* The invariant of the freeze process.
LEMMA NextRunInv ==
  ASSUME JobInv, JobNext
  PROVE  RunInv'
<1>0. host \subseteq Snapshot /\ run \in 0..MaxRuns /\ written \in 0..MaxRuns
      /\ MaxRuns \in Nat
  BY EsxiJobConstants DEF JobInv, HostTypeOK
<1>1. CASE FreezeStart
  <2>1. /\ tool' = "freezing" /\ run' = run + 1 /\ run' \in 1..MaxRuns
        /\ UNCHANGED <<host, written, held>>
    BY <1>0, <1>1 DEF FreezeStart
  <2>2. \A s \in Recorded(host) : s.run # run'
    BY <1>0, <2>1 DEF JobInv, FileInv, Snapshot, Recorded
  <2>3. written' < run'
    BY <1>0, <2>1 DEF JobInv, FileInv
  <2> QED BY <2>1, <2>2, <2>3 DEF RunInv, LeftOf, Recorded
<1>2. ASSUME NEW v \in Vm, FreezeVm(v) PROVE RunInv'
  <2>1. tool = "freezing" /\ UNCHANGED <<tool, written, run>>
    BY <1>2 DEF FreezeVm
  <2>2. held \subseteq held' /\ Listed(held) \subseteq Listed(held')
    BY <1>2, FreezeVmFacts DEF Listed
  <2>3. \A s \in Recorded(host') : s.run = run => s \in Listed(held')
    BY <1>2, <2>1, <2>2, FreezeVmFacts DEF JobInv, RunInv, LeftOf
  <2> QED BY <2>1, <2>3 DEF JobInv, RunInv, LeftOf
<1>3. CASE FreezeJudge \/ WriteFails
  BY <1>3 DEF FreezeJudge, WriteFails, JobInv, RunInv, LeftOf, Recorded
<1>4. CASE WriteState
  BY <1>4 DEF WriteState, JobInv, RunInv
<1>5. CASE ReportFrozen \/ FreezeFails \/ ThawEnd \/ Crash
  <2>1. tool' = "idle" /\ pending' = {}
    BY <1>5 DEF ReportFrozen, FreezeFails, ThawEnd, Crash, End
  <2> QED BY <2>1 DEF RunInv
<1>6. CASE ThawStart
  BY <1>6 DEF ThawStart, JobInv, RunInv
<1>7. CASE ThawVms
  BY <1>7 DEF ThawVms, ThawVm, JobInv, RunInv
<1>8. CASE HostSwitches \/ CleanupStep \/ (\E s \in unfinished : HostFinishes(s))
  <2>1. UNCHANGED <<written, run, tool, held, pending>> /\ \A v \in Vm : ~FreezeVm(v)
    BY <1>8 DEF HostSwitches, CleanupStep, CleanupStart, CleanupEnd, CleanupExit,
       CleanupList, CleanupRemove, HostFinishes, toolVars, FreezeVm
  <2>2. Recorded(host') \subseteq Recorded(host)
    BY <2>1, RecordedShrinks
  <2> QED BY <2>1, <2>2 DEF JobInv, RunInv, LeftOf
<1> QED BY <1>1, <1>2, <1>3, <1>4, <1>5, <1>6, <1>7, <1>8 DEF JobNext, FreezeStep

\* The invariant of the state file.
LEMMA NextFileInv ==
  ASSUME JobInv, JobNext
  PROVE  FileInv'
<1>0. host \subseteq Snapshot /\ run \in 0..MaxRuns /\ written \in 0..MaxRuns
      /\ MaxRuns \in Nat
  BY EsxiJobConstants DEF JobInv, HostTypeOK
<1>1. CASE FreezeStart
  <2>1. run' = run + 1 /\ UNCHANGED <<host, unfinished, file, written>>
    BY <1>1 DEF FreezeStart
  <2>2. \A s \in Recorded(host) : s.run \in Nat
    BY <1>0 DEF Snapshot, Recorded
  <2> QED BY <1>0, <2>1, <2>2 DEF JobInv, FileInv, Recorded
<1>2. ASSUME NEW v \in Vm, FreezeVm(v) PROVE FileInv'
  <2>1. UNCHANGED <<file, run, written>>
    BY <1>2 DEF FreezeVm
  <2> QED BY <1>0, <1>2, <2>1, FreezeVmFacts DEF JobInv, FileInv
<1>3. CASE WriteState
  <2>1. file'.run = run /\ written' = run /\ UNCHANGED <<host, unfinished, run>>
    BY <1>3 DEF WriteState, FileOf
  <2> QED BY <1>0, <2>1 DEF JobInv, FileInv, Recorded
<1>4. CASE ThawEnd
  <2>1. file' = file \/ ~file'.exists
    BY <1>4 DEF ThawEnd, NoFile
  <2>2. UNCHANGED <<host, unfinished, run, written>>
    BY <1>4 DEF ThawEnd
  <2> QED BY <2>1, <2>2 DEF JobInv, FileInv, Recorded
<1>5. CASE Crash
  <2>1. UNCHANGED <<host, file, run, written>>
    BY <1>5 DEF Crash
  <2> QED BY <1>5, <2>1, CrashFacts DEF JobInv, FileInv, Recorded
<1>6. CASE FreezeJudge \/ WriteFails \/ ReportFrozen \/ FreezeFails \/ ThawStart
           \/ HostSwitches \/ ThawVms \/ CleanupStep
           \/ (\E s \in unfinished : HostFinishes(s))
  <2>1. UNCHANGED <<file, run, written>> /\ unfinished' \subseteq unfinished
    BY <1>6 DEF FreezeJudge, WriteFails, ReportFrozen, FreezeFails, ThawStart,
       HostSwitches, ThawVms, ThawVm, HostFinishes, CleanupStep, CleanupStart,
       CleanupEnd, CleanupExit, CleanupList, CleanupRemove
  <2>2. Recorded(unfinished') = {}
    BY <2>1 DEF JobInv, FileInv, Recorded
  <2>3. CASE \A v \in Vm : ~FreezeVm(v)
    BY <2>1, <2>2, <2>3, RecordedShrinks DEF JobInv, FileInv
  <2>4. CASE \E v \in Vm : FreezeVm(v)
    BY <1>2, <2>4
  <2> QED BY <2>3, <2>4
<1> QED BY <1>1, <1>2, <1>3, <1>4, <1>5, <1>6 DEF JobNext, FreezeStep

\* The invariant of cleanup, with the commands running beside it.
LEMMA NextCleanInv ==
  ASSUME JobInv, JobNext
  PROVE  CleanInv'
<1>0. host \subseteq Snapshot
  BY DEF JobInv, HostTypeOK
<1>1. CASE CleanupStart
  <2>1. toList' = Vm /\ UNCHANGED host /\ clean' = "busy"
    BY <1>1 DEF CleanupStart
  <2>2. \A s \in host : s.vm \in Vm
    BY <1>0 DEF Snapshot
  <2> QED BY <2>1, <2>2 DEF CleanInv
<1>2. ASSUME NEW v \in Vm, CleanupList(v) PROVE CleanInv'
  <2>1. clean = "busy" /\ UNCHANGED <<host, clean, fresh>> /\ toList' = toList \ {v}
    BY <1>2 DEF CleanupList
  <2>2. CASE errs' = TRUE
    BY <2>1, <2>2 DEF CleanInv
  <2>3. CASE toRemove' = toRemove \cup {s \in host : s.vm = v} /\ UNCHANGED errs
    BY <2>1, <2>3 DEF JobInv, CleanInv
  <2> QED BY <1>2, <2>2, <2>3 DEF CleanupList
<1>3. ASSUME NEW t \in toRemove, CleanupRemove(t) PROVE CleanInv'
  <2>1. clean = "busy" /\ UNCHANGED <<clean, toList, fresh>>
        /\ toRemove' = toRemove \ {t}
    BY <1>3 DEF CleanupRemove
  <2>2. CASE errs' = TRUE
    BY <2>1, <2>2 DEF CleanInv
  <2>3. CASE host' = host \ {t} /\ UNCHANGED errs
    BY <2>1, <2>3 DEF JobInv, CleanInv
  <2> QED BY <1>3, <2>2, <2>3 DEF CleanupRemove
<1>4. CASE CleanupEnd
  <2>1. /\ clean = "busy" /\ toList = {} /\ toRemove = {}
        /\ UNCHANGED <<host, fresh, errs, toList>>
        /\ clean' = IF errs THEN "error" ELSE "ok"
    BY <1>4 DEF CleanupEnd
  <2> QED BY <2>1 DEF JobInv, CleanInv
<1>5. CASE CleanupExit
  BY <1>5 DEF CleanupExit, CleanInv
<1>6. ASSUME UNCHANGED <<clean, toList, toRemove, errs>>, fresh \subseteq fresh',
             clean # "idle" /\ ~errs =>
               \A s \in host' : s \in host \/ s \in fresh' \/ s.vm \in toList
      PROVE  CleanInv'
  <2>1. CASE clean = "busy" /\ ~errs
    BY <1>6, <2>1 DEF JobInv, CleanInv
  <2>2. CASE clean = "ok"
    BY <1>6, <2>2 DEF JobInv, CleanInv
  <2> QED BY <1>6, <2>1, <2>2 DEF CleanInv
<1>7. ASSUME NEW v \in Vm, FreezeVm(v) PROVE CleanInv'
  <2>1. UNCHANGED <<clean, toList, toRemove, errs>>
    BY <1>7 DEF FreezeVm
  <2> QED BY <1>6, <1>7, <2>1, FreezeVmFacts
<1>8. ASSUME NEW s \in unfinished, HostFinishes(s) PROVE CleanInv'
  <2>1. UNCHANGED <<clean, toList, toRemove, errs>>
    BY <1>8 DEF HostFinishes
  <2>2. CASE Made({s})
    BY <1>6, <2>1, <2>2, MadeFacts
  <2>3. CASE UNCHANGED <<host, fresh>>
    BY <1>6, <2>1, <2>3
  <2> QED BY <1>8, <2>2, <2>3 DEF HostFinishes
<1>9. CASE FreezeStep \/ ThawStart \/ ThawVms \/ ThawEnd \/ Crash \/ HostSwitches
  <2>1. CASE \A v \in Vm : ~FreezeVm(v)
    <3>1. UNCHANGED <<clean, toList, toRemove, errs, fresh>> /\ host' \subseteq host
      BY <1>9, <2>1 DEF FreezeStep, FreezeStart, FreezeJudge, WriteState, WriteFails,
         ReportFrozen, FreezeFails, ThawStart, ThawVms, ThawVm, ThawEnd, Crash,
         HostSwitches, cleanVars
    <3> QED BY <1>6, <3>1
  <2> QED BY <1>7, <2>1
<1> QED BY <1>1, <1>2, <1>3, <1>4, <1>5, <1>8, <1>9 DEF CleanupStep, JobNext

\* Every step keeps the invariant, whatever crashes or fails.
LEMMA NextJobInv == JobInv /\ [JobNext]_jobVars => JobInv'
<1> SUFFICES ASSUME JobInv, [JobNext]_jobVars PROVE JobInv'
  OBVIOUS
<1>1. CASE JobNext
  BY <1>1, NextTypeOK, NextRunInv, NextFileInv, NextCleanInv DEF JobInv
<1>2. CASE UNCHANGED jobVars
  <2>1. /\ UNCHANGED <<host, unfinished, up, file, run, written>>
        /\ UNCHANGED <<tool, proto, pending, held, kept>>
        /\ UNCHANGED said
        /\ UNCHANGED <<clean, toList, toRemove, errs, fresh>>
    BY <1>2 DEF jobVars, toolVars, cleanVars
  <2>2. HostTypeOK' /\ ToolTypeOK'
    BY <2>1 DEF JobInv, HostTypeOK, ToolTypeOK
  <2>3. SaidTypeOK'
    BY <2>1 DEF JobInv, SaidTypeOK
  <2>4. CleanTypeOK' /\ CleanInv'
    BY <2>1 DEF JobInv, CleanTypeOK, CleanInv
  <2>5. RunInv' /\ FileInv'
    BY <2>1 DEF JobInv, RunInv, FileInv, LeftOf, Recorded
  <2> QED BY <2>2, <2>3, <2>4, <2>5 DEF JobInv
<1> QED BY <1>1, <1>2

-----------------------------------------------------------------------------
\* A thaw, and a freeze that undoes itself, keeps what it could not remove, if the
\* handles are its transport's.
LEMMA NextThawInv ==
  ASSUME OneTransport, JobInv, ThawInv, JobNext
  PROVE  ThawInv'
<1>1. CASE ThawStart
  BY <1>1 DEF ThawStart, ThawInv
<1>2. ASSUME NEW h \in held, ThawVm(h) PROVE ThawInv'
  <2>1. /\ UNCHANGED <<file, tool, run>> /\ held' = held \ {h}
        /\ kept' = IF up THEN kept ELSE kept \cup {h}
        /\ host' \subseteq host
    BY <1>2 DEF ThawVm
  <2>2. h.proto = proto
    BY <1>2 DEF OneTransport, JobInv, ToolTypeOK, Handle
  <2>3. Of(h) \in host' => h \in kept'
    BY <1>2, <2>1, <2>2 DEF ThawVm
  <2>4. \A g \in held \cup kept : Of(g) \in host' => g \in held' \cup kept'
    BY <2>1, <2>3
  <2>5. tool \in {"aborting", "undoing"} => LeftOf(run, held \cup kept)'
    <3> SUFFICES ASSUME tool \in {"aborting", "undoing"},
                        NEW s \in Recorded(host'), s.run = run
                 PROVE  s \in Listed(held' \cup kept')
      BY <2>1 DEF LeftOf, Listed
    <3>1. s \in host' /\ s \in Recorded(host)
      BY <2>1 DEF Recorded
    <3>2. PICK g \in held \cup kept : s = Of(g)
      BY <3>1 DEF ThawInv, LeftOf, Listed
    <3> QED BY <2>4, <3>1, <3>2 DEF Listed
  <2> QED BY <2>1, <2>4, <2>5 DEF ThawInv
<1>3. CASE FreezeJudge \/ WriteFails
  <2>1. tool \in {"freezing", "writing"} /\ tool' # "thawing"
        /\ UNCHANGED <<host, run, held, kept>>
    BY <1>3 DEF FreezeJudge, WriteFails
  <2>2. LeftOf(run, held \cup kept)
    BY <2>1 DEF JobInv, RunInv, LeftOf, Listed
  <2> QED BY <2>1, <2>2 DEF ThawInv, LeftOf, Listed, Recorded
<1>4. CASE FreezeStep /\ ~FreezeJudge /\ ~WriteFails
  <2>1. tool' \notin {"thawing", "aborting", "undoing"}
    BY <1>4 DEF FreezeStep, FreezeStart, FreezeVm, WriteState, ReportFrozen,
       FreezeFails, End
  <2> QED BY <2>1 DEF ThawInv
<1>5. CASE ThawEnd \/ Crash
  BY <1>5 DEF ThawEnd, Crash, End, ThawInv
<1>6. CASE HostSwitches \/ CleanupStep \/ (\E s \in unfinished : HostFinishes(s))
  <2>1. UNCHANGED <<file, run, tool, held, kept>>
    BY <1>6 DEF HostSwitches, CleanupStep, CleanupStart, CleanupEnd, CleanupExit,
       CleanupList, CleanupRemove, HostFinishes, toolVars
  <2>2. CASE \E v \in Vm : FreezeVm(v)
    BY <2>1, <2>2 DEF FreezeVm, ThawInv
  <2>3. CASE \A v \in Vm : ~FreezeVm(v)
    <3>1. Recorded(host') \subseteq Recorded(host)
      BY <2>3, RecordedShrinks
    <3>2. \A h \in file.handles : Of(h) \in host' => Of(h) \in host
      BY <3>1 DEF Recorded, Of
    <3> QED BY <2>1, <3>1, <3>2 DEF ThawInv, LeftOf
  <2> QED BY <2>2, <2>3
<1> QED BY <1>1, <1>2, <1>3, <1>4, <1>5, <1>6 DEF JobNext, ThawVms

\* A thaw that has let go of all the file lists has left only what it keeps.
LEMMA ThawedIsRemoved ==
  ASSUME JobInv, WrittenInv, ThawInv, ThawEnd
  PROVE  /\ kept = {} => \A h \in file.handles : Of(h) \notin host
         /\ file.run = written /\ LeftOf(written, kept)
<1>1. tool = "thawing" /\ held = {}
  BY DEF ThawEnd
<1>2. file.run = written /\ \A h \in file.handles : Of(h) \in host => h \in kept
  BY <1>1 DEF JobInv, FileInv, ThawInv
<1>3. LeftOf(written, kept)
  BY <1>2 DEF WrittenInv, LeftOf, Listed, Recorded
<1> QED BY <1>2, <1>3

\* What is left of the run that wrote the state file stays listed there.
LEMMA NextWrittenInv ==
  ASSUME OneTransport, JobInv, WrittenInv, ThawInv, JobNext
  PROVE  WrittenInv'
<1>0. written \in 0..MaxRuns /\ run \in 0..MaxRuns /\ MaxRuns \in Nat
  BY EsxiJobConstants DEF JobInv, HostTypeOK
<1>1. ASSUME NEW v \in Vm, FreezeVm(v) PROVE WrittenInv'
  <2>1. written < run /\ UNCHANGED <<file, written>>
    BY <1>1 DEF FreezeVm, JobInv, RunInv
  <2>2. \A s \in Recorded(host') : s \in Recorded(host) \/ s.run = run
    BY <1>1, FreezeVmFacts
  <2> QED BY <1>0, <2>1, <2>2 DEF WrittenInv, LeftOf
<1>2. CASE WriteState
  <2>1. file'.handles = held /\ written' = run /\ UNCHANGED host /\ tool = "writing"
    BY <1>2 DEF WriteState, FileOf
  <2> QED BY <2>1 DEF JobInv, RunInv, WrittenInv, LeftOf, Recorded
<1>3. CASE ThawEnd
  <2>1. UNCHANGED <<host, written>>
    BY <1>3 DEF ThawEnd
  <2>2. CASE kept = {}
    <3>1. \A s \in Recorded(host) : s.run # written
      BY <1>3, <2>2, ThawedIsRemoved DEF LeftOf, Listed
    <3> QED BY <2>1, <3>1 DEF WrittenInv, LeftOf, Recorded
  <2>3. CASE kept # {}
    <3>1. UNCHANGED file
      BY <1>3, <2>3 DEF ThawEnd
    <3> QED BY <2>1, <3>1 DEF WrittenInv, LeftOf, Recorded
  <2> QED BY <2>2, <2>3
<1>4. CASE ~WriteState /\ ~ThawEnd /\ \A v \in Vm : ~FreezeVm(v)
  <2>1. UNCHANGED <<file, written>>
    BY <1>4 DEF JobNext, FreezeStep, FreezeStart, FreezeJudge, WriteFails, ReportFrozen,
       FreezeFails, ThawStart, ThawVms, ThawVm, Crash, HostSwitches, HostFinishes,
       CleanupStep, CleanupStart, CleanupEnd, CleanupExit, CleanupList, CleanupRemove
  <2>2. Recorded(host') \subseteq Recorded(host)
    BY <1>4, RecordedShrinks
  <2> QED BY <2>1, <2>2 DEF WrittenInv, LeftOf
<1> QED BY <1>1, <1>2, <1>3, <1>4

\* What a thaw or an undone freeze has said stays true until the next command.
LEMMA NextSaidInv ==
  ASSUME JobInv, WrittenInv, ThawInv, SaidInv, JobNext
  PROVE  SaidInv'
<1>1. CASE ThawEnd
  <2>1. said'.run = file.run /\ said'.left = Listed(kept) /\ UNCHANGED host
    BY <1>1 DEF ThawEnd, End, Listed
  <2> QED BY <1>1, <2>1, ThawedIsRemoved DEF SaidInv, LeftOf, Recorded
<1>2. CASE FreezeFails
  <2>1. /\ said'.run = run /\ said'.left = Listed(kept) /\ UNCHANGED host
        /\ tool \in {"aborting", "undoing"} /\ held = {}
    BY <1>2 DEF FreezeFails, End, Listed
  <2>2. LeftOf(run, kept)
    <3>1. held \cup kept = kept
      BY <2>1
    <3> QED BY <2>1, <3>1 DEF ThawInv
  <2>3. Recorded(host') = Recorded(host)
    BY <2>1 DEF Recorded
  <2>4. \A s \in Recorded(host') : s.run = said'.run => s \in said'.left
    BY <2>1, <2>2, <2>3 DEF LeftOf
  <2> QED BY <2>4 DEF SaidInv
<1>3. CASE ReportFrozen \/ Crash
  <2>1. said'.what \in {"frozen", "crashed"}
    BY <1>3 DEF ReportFrozen, Crash, End
  <2> QED BY <2>1 DEF SaidInv
<1>4. CASE FreezeStep /\ ~ReportFrozen /\ ~FreezeFails
  <2>1. tool' # "idle"
    BY <1>4 DEF FreezeStep, FreezeStart, FreezeVm, FreezeJudge, WriteState, WriteFails
  <2> QED BY <2>1 DEF SaidInv
<1>5. CASE ThawStart \/ ThawVms
  <2>1. tool' # "idle"
    BY <1>5 DEF ThawStart, ThawVms, ThawVm
  <2> QED BY <2>1 DEF SaidInv
<1>6. CASE HostSwitches \/ CleanupStep \/ (\E s \in unfinished : HostFinishes(s))
  <2>1. UNCHANGED <<tool, said>>
    BY <1>6 DEF HostSwitches, CleanupStep, CleanupStart, CleanupEnd, CleanupExit,
       CleanupList, CleanupRemove, HostFinishes, toolVars
  <2>2. CASE \E v \in Vm : FreezeVm(v)
    BY <2>1, <2>2 DEF FreezeVm, SaidInv
  <2>3. CASE \A v \in Vm : ~FreezeVm(v)
    BY <2>1, <2>3, RecordedShrinks DEF SaidInv
  <2> QED BY <2>2, <2>3
<1> QED BY <1>1, <1>2, <1>3, <1>4, <1>5, <1>6 DEF JobNext

-----------------------------------------------------------------------------
\* The commands, the host and the state file keep the inductive invariant.
THEOREM JobInvariant == JobSpec => []JobInv
BY InitJobInv, NextJobInv, PTL DEF JobSpec

\* Every variable of the commands keeps its type.
THEOREM JobTypeCorrect == JobSpec => []JobTypeOK
<1>1. JobInv => JobTypeOK
  BY DEF JobInv, HostTypeOK, ToolTypeOK, SaidTypeOK, CleanTypeOK, JobTypeOK
<1> QED BY <1>1, JobInvariant, PTL

\* A cleanup that reports ok has left no snapshot that was there when it looked.
THEOREM CleanupRemovesAll == JobSpec => []CleanupIsComplete
<1>1. JobInv => CleanupIsComplete
  BY DEF JobInv, CleanInv, CleanupIsComplete
<1> QED BY <1>1, JobInvariant, PTL

\* With one transport the invariant of thaw holds as well.
THEOREM ThawedInvariant ==
  ASSUME OneTransport
  PROVE  JobSpec => []ThawedInv
<1>1. JobInv /\ ThawedInv /\ [JobNext]_jobVars => ThawedInv'
  <2> SUFFICES ASSUME JobInv, ThawedInv, [JobNext]_jobVars PROVE ThawedInv'
    OBVIOUS
  <2>1. CASE JobNext
    BY <2>1, NextThawInv, NextWrittenInv, NextSaidInv DEF ThawedInv
  <2>2. CASE UNCHANGED jobVars
    BY <2>2 DEF jobVars, toolVars, ThawedInv, WrittenInv, ThawInv, SaidInv, LeftOf, Recorded
  <2> QED BY <2>1, <2>2
<1> QED BY <1>1, InitJobInv, JobInvariant, PTL DEF JobSpec

\* With one transport, what a freeze recorded and is still there is in the state
\* file it wrote, at any moment; and what a thaw or an undone freeze leaves of its
\* run is what it has reported.
THEOREM NothingIsForgotten ==
  ASSUME OneTransport
  PROVE  JobSpec => []NothingForgotten
<1>1. ThawedInv => NothingForgotten
  BY DEF ThawedInv, WrittenInv, SaidInv, NothingForgotten, Listed, LeftOf
<1> QED BY <1>1, ThawedInvariant, PTL

\* With one transport the state file is only deleted when all it lists is gone;
\* with two it may be deleted with a snapshot of the other's still there.
THEOREM DeletedFileIsDone ==
  ASSUME OneTransport
  PROVE  JobSpec => DeletedFileMeansRemoved
<1>1. JobInv /\ ThawedInv /\ [JobNext]_jobVars =>
        [file.exists /\ ~file'.exists =>
           \A h \in file.handles : Of(h) \notin host]_jobVars
  <2> SUFFICES ASSUME JobInv, ThawedInv, JobNext, file.exists, ~file'.exists
               PROVE  \A h \in file.handles : Of(h) \notin host
    OBVIOUS
  <2>1. ThawEnd /\ kept = {}
    <3>1. file' # file
      OBVIOUS
    <3>2. ~WriteState
      BY DEF WriteState, FileOf
    <3>3. ~CleanupStep
      BY <3>1 DEF CleanupStep, CleanupStart, CleanupEnd, CleanupExit, CleanupList,
         CleanupRemove
    <3>4. ThawEnd
      BY <3>1, <3>2, <3>3 DEF JobNext, FreezeStep, FreezeStart, FreezeVm, FreezeJudge,
         WriteFails, ReportFrozen, FreezeFails, ThawStart, ThawVms, ThawVm, Crash,
         HostSwitches, HostFinishes
    <3> QED BY <3>1, <3>4 DEF ThawEnd
  <2> QED BY <2>1, ThawedIsRemoved DEF ThawedInv
<1> QED BY <1>1, JobInvariant, ThawedInvariant, PTL DEF JobSpec, DeletedFileMeansRemoved

-----------------------------------------------------------------------------
(***************************************************************************)
(* VimOutput.  The invariant is about the list that a flush would make     *)
(* now.  As far as the text has been read it is in the order of the text,  *)
(* has an entry for each plain description, and only one, and what it says *)
(* of that snapshot is right; a description that is not plain makes        *)
(* nothing but more entries of its own.                                    *)
(***************************************************************************)
Desc  == {"", "tag", "text"}
Entry == [name : Names \cup {"imitation"}, id : Nat, desc : Desc, of : 1..Len(tree)]
Found == {e \in Entry : e.id # 0}

PlainAt(k) == Plain(tree[order[k]].desc)

TreeInv ==
  /\ Len(tree) \in Nat /\ DOMAIN tree = 1..Len(tree)
  /\ \A i \in 1..Len(tree) : /\ tree[i].name \in Names
                             /\ Len(tree[i].desc) \in Nat \ {0}
                             /\ DOMAIN tree[i].desc = 1..Len(tree[i].desc)
                             /\ \A j \in 1..Len(tree[i].desc) : tree[i].desc[j] \in DescLines
  /\ order \in [1..Len(tree) -> 1..Len(tree)] /\ DepthFirst(tree, order)

PlaceTypes ==
  /\ printed \in 0..Len(tree) /\ at \in 0..Lines(printed)
  /\ cur \in Entry \cup {Nil} /\ snaps \in Seq(Found) /\ reading \in BOOLEAN
  /\ ~reading => printed = Len(tree) /\ at = Lines(printed)

Flush(list, e) == IF e.id # 0 THEN Append(list, e) ELSE list

Right(e) ==
  /\ e.name \in {tree[order[e.of]].name, "imitation"}
  /\ PlainAt(e.of) => /\ e.id = order[e.of] /\ e.name = tree[order[e.of]].name
                      /\ e.desc = "tag" <=> Tagged(tree[order[e.of]])

InOrder(list, m) ==
  /\ \A i \in 1..Len(list) : list[i].of \in 1..m /\ Right(list[i])
  /\ \A i, j \in 1..Len(list) : i < j =>
       list[i].of <= list[j].of /\ (PlainAt(list[i].of) => list[i].of < list[j].of)

Complete(list, m) ==
  \A k \in 1..m : PlainAt(k) => \E i \in 1..Len(list) : list[i].of = k

RightUpTo(list, m) == InOrder(list, m) /\ Complete(list, m)

InHand(e, k, id) == e = [name |-> tree[order[k]].name, id |-> id, desc |-> "", of |-> k]

\* In a description that is not plain.
Astray ==
  /\ InOrder(snaps, printed) /\ Complete(snaps, printed - 1)
  /\ cur \in Entry /\ cur.of = printed /\ Right(cur)

ReadSoFar ==
  /\ printed = 0 => RightUpTo(Flushed, 0)
  /\ printed # 0 =>
       /\ at = 0 => RightUpTo(Flushed, printed - 1)
       /\ at # 0 /\ ~PlainAt(printed) => Astray
       /\ PlainAt(printed) =>
            /\ at = 1 => RightUpTo(snaps, printed - 1) /\ InHand(cur, printed, 0)
            /\ at = 2 => RightUpTo(snaps, printed - 1) /\ InHand(cur, printed, order[printed])
            /\ at \notin {0, 1, 2} => RightUpTo(Flushed, printed)

VimInv ==
  /\ TreeInv /\ PlaceTypes
  /\ reading => ReadSoFar
  /\ ~reading => RightUpTo(snaps, Len(tree)) /\ cur = Nil

\* What is known of a tree.
LEMMA TreesAreTrees ==
  ASSUME NEW t \in Trees
  PROVE  /\ Len(t) \in Nat /\ DOMAIN t = 1..Len(t)
         /\ \A i \in 1..Len(t) : /\ t[i].name \in Names
                                 /\ Len(t[i].desc) \in Nat \ {0}
                                 /\ DOMAIN t[i].desc = 1..Len(t[i].desc)
                                 /\ \A j \in 1..Len(t[i].desc) : t[i].desc[j] \in DescLines
<1>1. PICK n \in 0..MaxSnaps : t \in [1..n -> [name : Names, desc : Descriptions, parent : 0..n]]
  BY DEF Trees
<1>2. n \in Nat
  BY SnapsAssumption
<1> DEFINE R == [name : Names, desc : Descriptions, parent : 0..n]
<1>3. t \in [1..n -> R]
  BY <1>1
<1> HIDE DEF R
<1>4. t \in Seq(R)
  BY <1>3, <1>2, SeqDef
<1>5. Len(t) \in Nat /\ DOMAIN t = 1..Len(t) /\ \A i \in 1..Len(t) : t[i] \in R
  BY <1>4, LenProperties
<1>6. ASSUME NEW i \in 1..Len(t)
      PROVE  /\ t[i].name \in Names /\ Len(t[i].desc) \in Nat \ {0}
             /\ DOMAIN t[i].desc = 1..Len(t[i].desc)
             /\ \A j \in 1..Len(t[i].desc) : t[i].desc[j] \in DescLines
  <2>1. t[i].name \in Names /\ t[i].desc \in Descriptions
    BY <1>5 DEF R
  <2> DEFINE d == t[i].desc
             L == DescLines
  <2>2. d \in Seq(L) /\ d # <<>>
    BY <2>1, DescAssumption
  <2> HIDE DEF d, L
  <2>3. Len(d) \in Nat \ {0} /\ DOMAIN d = 1..Len(d) /\ \A j \in 1..Len(d) : d[j] \in L
    BY <2>2, EmptySeq, LenProperties, ElementOfSeq
  <2> QED
    BY <2>1, <2>3 DEF d, L
<1> QED
  BY <1>5, <1>6

\* A record with a name is not Nil.
LEMMA NamedIsNotNil ==
  ASSUME NEW e \in Entry
  PROVE  e # Nil
<1>1. "name" \in DOMAIN e
  BY DEF Entry
<1>2. DOMAIN Nil = {"id"}
  BY DEF Nil
<1> QED
  BY <1>1, <1>2

\* A flush appends what has an id.
LEMMA FlushAppends ==
  ASSUME NEW list \in Seq(Found), NEW e \in Entry \cup {Nil}
  PROVE  /\ Flush(list, e) \in Seq(Found)
         /\ e.id = 0 => Flush(list, e) = list
         /\ e.id # 0 => /\ Len(Flush(list, e)) = Len(list) + 1
                        /\ Flush(list, e)[Len(list) + 1] = e
                        /\ \A k \in 1..Len(list) : Flush(list, e)[k] = list[k]
<1>1. CASE e.id = 0
  BY <1>1 DEF Flush
<1>2. CASE e.id # 0
  <2>1. e \in Found
    BY <1>2 DEF Found, Nil
  <2>2. Flush(list, e) = Append(list, e)
    BY <1>2 DEF Flush
  <2> QED
    BY <1>2, <2>1, <2>2
<1> QED
  BY <1>1, <1>2

\* What has been read of a snapshot after its name, and after its id.
LEMMA InHandIsEntry ==
  ASSUME TreeInv, NEW e, NEW k \in 1..Len(tree), NEW id \in Nat, InHand(e, k, id)
  PROVE  e \in Entry /\ e # Nil
<1>1. tree[order[k]].name \in Names
  BY DEF TreeInv
<1>2. e \in Entry
  BY <1>1 DEF InHand, Entry, Desc
<1> QED
  BY <1>2, NamedIsNotNil

\* More may be read than the list is about.
LEMMA InOrderLater ==
  ASSUME NEW list, NEW n \in Nat \ {0}, InOrder(list, n - 1)
  PROVE  InOrder(list, n)
<1>1. 1..(n - 1) \subseteq 1..n
  OBVIOUS
<1> QED
  BY <1>1 DEF InOrder

\* A flush of an entry of the last snapshot, its only one if it is plain.
LEMMA OneMoreRight ==
  ASSUME NEW list \in Seq(Found), NEW e \in Entry, NEW n \in Nat \ {0}, e.of = n, Right(e),
         InOrder(list, n), Complete(list, n - 1),
         PlainAt(n) => InOrder(list, n - 1) /\ e.id # 0
  PROVE  RightUpTo(Flush(list, e), n)
<1> DEFINE more == Flush(list, e)
<1>1. CASE e.id = 0
  <2>1. more = list /\ ~PlainAt(n)
    BY <1>1, FlushAppends
  <2>2. \A k \in 1..n : PlainAt(k) => k \in 1..(n - 1)
    BY <2>1
  <2> QED
    BY <2>1, <2>2 DEF RightUpTo, Complete
<1>2. CASE e.id # 0
  <2> DEFINE m == Len(list)
  <2>1. m \in Nat /\ Len(more) = m + 1 /\ more[m + 1] = e /\ \A k \in 1..m : more[k] = list[k]
    BY <1>2, FlushAppends, LenProperties
  <2> HIDE DEF more, m
  <2>2. \A i \in 1..(m + 1) : i \in 1..m \/ i = m + 1
    BY <2>1
  <2>3. \A i \in 1..m : list[i].of \in 1..n /\ Right(list[i]) /\ (PlainAt(n) => list[i].of \in 1..(n - 1))
    BY DEF InOrder, m
  <2>4. \A i \in 1..Len(more) : more[i].of \in 1..n /\ Right(more[i])
    BY <2>1, <2>2, <2>3
  <2>5. ASSUME NEW i \in 1..Len(more), NEW j \in 1..Len(more), i < j
        PROVE  more[i].of <= more[j].of /\ (PlainAt(more[i].of) => more[i].of < more[j].of)
    <3>1. i \in 1..m /\ more[i] = list[i]
      BY <2>1, <2>2, <2>5
    <3>2. CASE j \in 1..m
      <4>1. more[j] = list[j]
        BY <2>1, <3>2
      <4> QED
        BY <2>5, <3>1, <3>2, <4>1 DEF InOrder, m
    <3>3. CASE j = m + 1
      <4>1. more[j].of = n
        BY <2>1, <3>3
      <4>2. list[i].of \in 1..n /\ (PlainAt(n) => list[i].of \in 1..(n - 1))
        BY <2>3, <3>1
      <4>3. PlainAt(list[i].of) => list[i].of # n
        BY <4>2
      <4> QED
        BY <3>1, <4>1, <4>2, <4>3
    <3> QED
      BY <2>1, <2>2, <3>2, <3>3
  <2>6. InOrder(more, n)
    BY <2>4, <2>5 DEF InOrder
  <2>7. ASSUME NEW k \in 1..n, PlainAt(k)
        PROVE  \E i \in 1..Len(more) : more[i].of = k
    <3>1. CASE k = n
      BY <2>1, <3>1
    <3>2. CASE k # n
      <4>1. k \in 1..(n - 1)
        BY <3>2
      <4>2. PICK i \in 1..m : list[i].of = k
        BY <2>7, <4>1 DEF Complete, m
      <4> QED
        BY <2>1, <4>2
    <3> QED
      BY <3>1, <3>2
  <2> QED
    BY <2>6, <2>7 DEF RightUpTo, Complete, more
<1> QED
  BY <1>1, <1>2 DEF Entry

\* Before the first line nothing has been found.
LEMMA InitVimInv == VimInit => VimInv
<1> SUFFICES ASSUME VimInit PROVE VimInv
  OBVIOUS
<1>1. /\ tree \in Trees /\ order \in [DOMAIN tree -> DOMAIN tree] /\ DepthFirst(tree, order)
      /\ printed = 0 /\ at = 0 /\ cur = Nil /\ snaps = <<>> /\ reading = TRUE
  BY DEF VimInit
<1>2. TreeInv
  BY <1>1, TreesAreTrees DEF TreeInv
<1>3. Len(tree) \in Nat /\ Lines(printed) = 1
  BY <1>1, <1>2 DEF TreeInv, Lines
<1>4. PlaceTypes
  BY <1>1, <1>3 DEF PlaceTypes
<1>5. Flushed = <<>> /\ Len(<<>>) = 0
  BY <1>1 DEF Flushed, Nil
<1>6. RightUpTo(Flushed, 0)
  BY <1>5 DEF RightUpTo, InOrder, Complete
<1> QED
  BY <1>1, <1>2, <1>4, <1>6 DEF VimInv, ReadSoFar

\* How many lines a snapshot has, or the heading.
LEMMA LinesAreMany ==
  ASSUME TreeInv, NEW k \in 0..Len(tree)
  PROVE  Lines(k) \in Nat \ {0} /\ (k # 0 => Lines(k) >= 4)
<1>1. CASE k = 0
  BY <1>1 DEF Lines
<1>2. CASE k # 0
  <2>0. order \in [1..Len(tree) -> 1..Len(tree)] /\ k \in 1..Len(tree)
    BY <1>2 DEF TreeInv
  <2>1. order[k] \in 1..Len(tree)
    BY <2>0
  <2>2. Len(tree[order[k]].desc) \in Nat \ {0}
    BY <2>1 DEF TreeInv
  <2> QED
    BY <1>2, <2>2 DEF Lines, Length
<1> QED
  BY <1>1, <1>2

\* What a line of a description is taken for: of a plain one, a name or, if it is
\* the first, the description.
LEMMA DescLineFacts ==
  ASSUME NEW s, Len(s.desc) \in Nat \ {0}, DOMAIN s.desc = 1..Len(s.desc),
         \A j \in 1..Len(s.desc) : s.desc[j] \in DescLines,
         NEW i \in 1..Len(s.desc)
  PROVE  LET l == DescLine(s, i)
         IN  /\ \/ l.kind = "name" /\ l.text = "imitation"
                \/ l.kind = "other"
                \/ l.kind = "id" /\ l.id \in Nat \ {0}
                \/ l.kind = "desc" /\ l.text \in {"tag", "text"}
             /\ Plain(s.desc) =>
                  /\ i = 1 => \/ l.kind = "name" /\ l.text = "imitation" /\ ~Tagged(s)
                              \/ /\ l.kind = "desc" /\ l.text \in {"tag", "text"}
                                 /\ l.text = "tag" <=> Tagged(s)
                  /\ i # 1 => \/ l.kind = "name" /\ l.text = "imitation"
                              \/ l.kind = "other"
<1> DEFINE l == DescLine(s, i)
<1>1. 1 \in 1..Len(s.desc)
  OBVIOUS
<1>2. \A x \in DescLines :
        \/ x.kind = "name" /\ x.text = "imitation" /\ x # Other("tag")
        \/ x.kind = "id" /\ x.id \in Nat \ {0}
        \/ x.kind = "other" /\ x.text \in {"tag", "text"} /\ (x = Other("tag") <=> x.text = "tag")
        \/ x.kind = "desc" /\ x.text \in {"tag", "text"} /\ x # Other("tag")
  BY DEF DescLines, Other, NameLike
<1> DEFINE x == s.desc[1]
           y == s.desc[i]
<1>3. x \in DescLines /\ y \in DescLines
  BY <1>1
<1>4. l = IF i > 1 \/ x.kind \in {"name", "id"} THEN y
          ELSE IF x.kind = "desc" THEN [kind |-> "desc", text |-> "text"]
          ELSE [kind |-> "desc", text |-> x.text]
  BY DEF DescLine, DescLike
<1>5. Plain(s.desc) => x.kind # "id" /\ y.kind # "id" /\ (i > 1 => y.kind # "desc")
  BY <1>1 DEF Plain
<1>6. Tagged(s) <=> x = Other("tag")
  BY DEF Tagged
<1>7. i = 1 => y = x
  OBVIOUS
<1> HIDE DEF l, x, y
<1>8. CASE i > 1
  <2>1. l = y
    BY <1>4, <1>8
  <2> QED
    BY <1>2, <1>3, <1>5, <1>8, <2>1 DEF l
<1>9. CASE i = 1
  <2>1. CASE x.kind \in {"name", "id"}
    <3>1. l = x
      BY <1>4, <1>7, <1>9, <2>1
    <3> QED
      BY <1>2, <1>3, <1>5, <1>6, <1>9, <2>1, <3>1 DEF l
  <2>2. CASE x.kind = "desc"
    <3>1. l = [kind |-> "desc", text |-> "text"]
      BY <1>4, <1>9, <2>2
    <3>2. ~Tagged(s)
      BY <1>2, <1>3, <1>6, <2>2
    <3> QED
      BY <1>9, <3>1, <3>2 DEF l
  <2>3. CASE x.kind = "other"
    <3>1. l = [kind |-> "desc", text |-> x.text]
      BY <1>4, <1>9, <2>3
    <3>2. x.text \in {"tag", "text"} /\ (Tagged(s) <=> x.text = "tag")
      BY <1>2, <1>3, <1>6, <2>3
    <3> QED
      BY <1>9, <3>1, <3>2 DEF l
  <2> QED
    BY <1>2, <1>3, <2>1, <2>2, <2>3
<1> QED
  BY <1>8, <1>9

\* What a line of the text is, by its place.
LEMMA LineFacts ==
  ASSUME TreeInv, NEW k \in 1..Len(tree), NEW i \in 1..Lines(k)
  PROVE  LET s == tree[order[k]]
             l == Line(k, i)
         IN  /\ order[k] \in 1..Len(tree) /\ s.name \in Names
             /\ Lines(k) \in Nat /\ Lines(k) >= 4
             /\ i = 1 => l.kind = "name" /\ l.text = s.name
             /\ i = 2 => l.kind = "id" /\ l.id = order[k]
             /\ i \notin {1, 2} =>
                  \/ l.kind = "name" /\ l.text = "imitation"
                  \/ l.kind = "other"
                  \/ l.kind = "id" /\ l.id \in Nat \ {0}
                  \/ l.kind = "desc" /\ l.text \in {"tag", "text"}
             /\ PlainAt(k) =>
                  /\ i = 3 => \/ l.kind = "name" /\ l.text = "imitation" /\ ~Tagged(s)
                              \/ /\ l.kind = "desc" /\ l.text \in {"tag", "text"}
                                 /\ l.text = "tag" <=> Tagged(s)
                  /\ i \notin {1, 2, 3} => \/ l.kind = "name" /\ l.text = "imitation"
                                           \/ l.kind = "other"
<1> DEFINE s == tree[order[k]]
           l == Line(k, i)
<1>1. order[k] \in 1..Len(tree) /\ Len(tree) \in Nat
  BY DEF TreeInv
<1>2. /\ s.name \in Names /\ Len(s.desc) \in Nat \ {0} /\ DOMAIN s.desc = 1..Len(s.desc)
      /\ \A j \in 1..Len(s.desc) : s.desc[j] \in DescLines
  BY <1>1 DEF TreeInv
<1>3. k # 0 /\ Lines(k) = Len(s.desc) + 3
  BY DEF Lines, Length
<1>4. l = IF i = 1 THEN [kind |-> "name", text |-> s.name]
          ELSE IF i = 2 THEN [kind |-> "id", id |-> order[k]]
          ELSE IF i < Len(s.desc) + 3 THEN DescLine(s, i - 2)
          ELSE [kind |-> "other", text |-> "text"]
  BY <1>3 DEF Line, Length, IdLike, Other
<1>5. PlainAt(k) <=> Plain(s.desc)
  BY DEF PlainAt
<1> HIDE DEF s, l
<1>6. /\ i = 1 => l.kind = "name" /\ l.text = s.name
      /\ i = 2 => l.kind = "id" /\ l.id = order[k]
  BY <1>4
<1>7. Lines(k) \in Nat /\ Lines(k) >= 4
  BY <1>2, <1>3
<1>8. CASE i \in {1, 2}
  BY <1>1, <1>2, <1>6, <1>7, <1>8 DEF s, l
<1>9. CASE i \notin {1, 2} /\ i < Len(s.desc) + 3
  <2>1. i - 2 \in 1..Len(s.desc) /\ (i = 3 <=> i - 2 = 1)
    BY <1>2, <1>3, <1>9
  <2>2. l = DescLine(s, i - 2)
    BY <1>4, <1>9
  <2> DEFINE j == i - 2
  <2> HIDE DEF j
  <2>3. j \in 1..Len(s.desc) /\ l = DescLine(s, j) /\ (i = 3 <=> j = 1)
    BY <2>1, <2>2 DEF j
  <2>4. /\ \/ l.kind = "name" /\ l.text = "imitation"
           \/ l.kind = "other"
           \/ l.kind = "id" /\ l.id \in Nat \ {0}
           \/ l.kind = "desc" /\ l.text \in {"tag", "text"}
        /\ Plain(s.desc) =>
             /\ j = 1 => \/ l.kind = "name" /\ l.text = "imitation" /\ ~Tagged(s)
                         \/ /\ l.kind = "desc" /\ l.text \in {"tag", "text"}
                            /\ l.text = "tag" <=> Tagged(s)
             /\ j # 1 => \/ l.kind = "name" /\ l.text = "imitation"
                         \/ l.kind = "other"
    BY <1>2, <2>3, DescLineFacts
  <2> QED
    BY <1>1, <1>2, <1>5, <1>7, <1>9, <2>3, <2>4 DEF s, l
<1>10. CASE i \notin {1, 2} /\ ~(i < Len(s.desc) + 3)
  <2>1. l.kind = "other" /\ i # 3
    BY <1>2, <1>4, <1>10
  <2> QED
    BY <1>1, <1>2, <1>7, <1>10, <2>1 DEF s, l
<1> QED
  BY <1>8, <1>9, <1>10

\* What a line of the heading or of a snapshot adds is what ReadSoFar says.
LEMMA NextReadSoFar ==
  ASSUME VimInv, ReadLine
  PROVE  PlaceTypes' /\ ReadSoFar'
<1> DEFINE l == Line(printed, at + 1)
<1>1. /\ at < Lines(printed) /\ at' = at + 1
      /\ NameLine(l) \/ FieldLine(l) \/ (l.kind = "other" /\ cur' = cur /\ snaps' = snaps)
      /\ tree' = tree /\ order' = order /\ printed' = printed /\ reading' = reading
  BY DEF ReadLine
<1> HIDE DEF l
<1>2. TreeInv /\ PlaceTypes /\ Len(tree) \in Nat
  BY DEF VimInv, TreeInv
<1>3. reading = TRUE /\ ReadSoFar
  BY <1>1, <1>2 DEF VimInv, PlaceTypes
<1>4. /\ Lines(printed)' = Lines(printed) /\ Entry' = Entry /\ Found' = Found
      /\ Flushed = Flush(snaps, cur) /\ Flushed' = Flush(snaps', cur')
      /\ PlainAt(printed)' <=> PlainAt(printed)
  BY <1>1 DEF Lines, Length, Entry, Found, Flushed, Flush, PlainAt
<1>5. /\ \A list, m : RightUpTo(list, m)' <=> RightUpTo(list, m)
      /\ \A list, m : InOrder(list, m)' <=> InOrder(list, m)
      /\ \A list, m : Complete(list, m)' <=> Complete(list, m)
      /\ \A e : Right(e)' <=> Right(e)
      /\ \A e, k, id : InHand(e, k, id)' <=> InHand(e, k, id)
  BY <1>1 DEF RightUpTo, InOrder, Complete, Right, PlainAt, InHand
<1>6. /\ cur \in Entry \cup {Nil} /\ snaps \in Seq(Found)
      /\ printed \in 0..Len(tree) /\ at \in 0..Lines(printed)
  BY <1>2 DEF PlaceTypes
<1>7. Flushed \in Seq(Found)
  BY <1>4, <1>6, FlushAppends
<1>8. NameLine(l) => snaps' = Flushed /\ cur' = Named(l.text) /\ l.kind = "name"
  BY DEF NameLine
<1>9. FieldLine(l) => /\ l.kind \in {"id", "desc"} /\ snaps' = snaps
                      /\ cur' = IF cur = Nil THEN Nil
                                ELSE IF l.kind = "id" THEN [cur EXCEPT !.id = l.id]
                                ELSE [cur EXCEPT !.desc = l.text]
  BY DEF FieldLine
<1>10. ASSUME NEW name \in Names \cup {"imitation"}, printed # 0
       PROVE  Named(name) \in Entry /\ Named(name).id = 0
  <2>1. printed \in 1..Len(tree)
    BY <1>2, <1>6, <1>10
  <2> QED
    BY <2>1 DEF Named, Entry, Desc
<1>11. Lines(printed) \in Nat /\ at' \in 0..Lines(printed)
  BY <1>1, <1>2, <1>6, LinesAreMany
<1>12. cur' \in Entry \cup {Nil} /\ snaps' \in Seq(Found) /\ ReadSoFar' => PlaceTypes' /\ ReadSoFar'
  BY <1>1, <1>3, <1>4, <1>6, <1>11 DEF PlaceTypes
<1>13. CASE printed = 0
  <2>1. l.kind = "other"
    BY <1>13 DEF l, Line, Other
  <2>2. cur' = cur /\ snaps' = snaps
    BY <2>1, <1>1, <1>8, <1>9
  <2>3. ReadSoFar'
    BY <1>13, <2>2, <1>1, <1>3, <1>4, <1>5 DEF ReadSoFar
  <2> QED
    BY <2>2, <2>3, <1>6, <1>12
<1>14. CASE printed # 0
  <2> DEFINE s == tree[order[printed]]
  <2>1. printed \in 1..Len(tree) /\ at + 1 \in 1..Lines(printed) /\ at \in Nat
        /\ printed \in Nat \ {0}
    BY <1>14, <1>1, <1>2, <1>6, <1>11
  <2>2. /\ order[printed] \in 1..Len(tree) /\ s.name \in Names
        /\ Lines(printed) \in Nat /\ Lines(printed) >= 4
        /\ at + 1 = 1 => l.kind = "name" /\ l.text = s.name
        /\ at + 1 = 2 => l.kind = "id" /\ l.id = order[printed]
        /\ at + 1 \notin {1, 2} =>
             \/ l.kind = "name" /\ l.text = "imitation"
             \/ l.kind = "other"
             \/ l.kind = "id" /\ l.id \in Nat \ {0}
             \/ l.kind = "desc" /\ l.text \in {"tag", "text"}
        /\ PlainAt(printed) =>
             /\ at + 1 = 3 => \/ l.kind = "name" /\ l.text = "imitation" /\ ~Tagged(s)
                              \/ /\ l.kind = "desc" /\ l.text \in {"tag", "text"}
                                 /\ l.text = "tag" <=> Tagged(s)
             /\ at + 1 \notin {1, 2, 3} => \/ l.kind = "name" /\ l.text = "imitation"
                                           \/ l.kind = "other"
    BY <2>1, <1>2, LineFacts DEF l
  <2>3. \A e : e.of = printed =>
          (Right(e) <=> /\ e.name \in {s.name, "imitation"}
                        /\ PlainAt(printed) => /\ e.id = order[printed] /\ e.name = s.name
                                               /\ e.desc = "tag" <=> Tagged(s))
    BY DEF Right
  <2>4. \A e, id : InHand(e, printed, id) <=>
                     e = [name |-> s.name, id |-> id, desc |-> "", of |-> printed]
    BY DEF InHand
  <2> HIDE DEF s
  <2>5. CASE at = 0
    <3>1. snaps' = Flushed /\ cur' = Named(s.name) /\ at' = 1
      BY <2>5, <2>2, <1>1, <1>8, <1>9
    <3>2. cur' \in Entry /\ cur' = [name |-> s.name, id |-> 0, desc |-> "", of |-> printed]
      BY <3>1, <2>2, <1>10, <1>14 DEF Named
    <3>3. RightUpTo(snaps', printed - 1)
      BY <3>1, <2>5, <1>3, <1>14 DEF ReadSoFar
    <3>4. CASE PlainAt(printed)
      <4>1. InHand(cur', printed, 0)
        BY <3>2, <2>4
      <4>2. ReadSoFar'
        BY <3>1, <3>3, <3>4, <4>1, <1>1, <1>4, <1>5, <1>14 DEF ReadSoFar
      <4> QED
        BY <3>1, <3>2, <4>2, <1>7, <1>12
    <3>5. CASE ~PlainAt(printed)
      <4>1. InOrder(snaps', printed) /\ Complete(snaps', printed - 1)
        BY <3>3, <2>1, InOrderLater DEF RightUpTo
      <4>2. Right(cur') /\ cur'.of = printed
        BY <3>2, <3>5, <2>3
      <4>3. Astray'
        BY <3>2, <4>1, <4>2, <1>1, <1>4, <1>5 DEF Astray
      <4>4. ReadSoFar'
        BY <3>1, <3>5, <4>3, <1>1, <1>4, <1>14 DEF ReadSoFar
      <4> QED
        BY <3>1, <3>2, <4>4, <1>7, <1>12
    <3> QED
      BY <3>4, <3>5
  <2>6. CASE at # 0 /\ ~PlainAt(printed)
    <3>1. Astray
      BY <2>6, <1>3, <1>14 DEF ReadSoFar
    <3>2. /\ InOrder(snaps, printed) /\ Complete(snaps, printed - 1)
          /\ cur \in Entry /\ cur.of = printed /\ Right(cur) /\ cur # Nil
      BY <3>1, NamedIsNotNil DEF Astray
    <3>3. RightUpTo(Flushed, printed)
      BY <3>2, <2>1, <2>6, <1>4, <1>6, OneMoreRight
    <3>4. at + 1 # 1 /\ at' # 0
      BY <2>1, <2>6, <1>1
    <3>5. ASSUME cur' \in Entry, cur'.of = printed, Right(cur'), snaps' \in Seq(Found),
                 InOrder(snaps', printed), Complete(snaps', printed - 1)
          PROVE  PlaceTypes' /\ ReadSoFar'
      <4>1. Astray'
        BY <3>5, <1>1, <1>4, <1>5 DEF Astray
      <4>2. ReadSoFar'
        BY <2>6, <3>4, <4>1, <1>1, <1>4, <1>14 DEF ReadSoFar
      <4> QED
        BY <3>5, <4>2, <1>12
    <3>6. CASE l.kind = "name"
      <4>1. at + 1 # 2 /\ l.text = "imitation"
        BY <3>4, <3>6, <2>2
      <4>2. snaps' = Flushed /\ cur' = Named("imitation")
        BY <3>6, <4>1, <1>1, <1>8, <1>9
      <4>3. cur' \in Entry /\ cur'.of = printed /\ cur'.name = "imitation"
        BY <4>2, <1>10, <1>14 DEF Named
      <4>4. Right(cur')
        BY <4>3, <2>3, <2>6
      <4>5. InOrder(snaps', printed) /\ Complete(snaps', printed - 1)
        BY <3>3, <4>2, <2>1 DEF RightUpTo, Complete
      <4> QED
        BY <3>5, <4>2, <4>3, <4>4, <4>5, <1>7
    <3>7. CASE l.kind = "id"
      <4>1. l.id \in Nat
        BY <3>4, <3>7, <2>2, <1>2
      <4>2. snaps' = snaps /\ cur' = [cur EXCEPT !.id = l.id]
        BY <3>2, <3>7, <1>1, <1>8, <1>9
      <4>3. cur' \in Entry /\ cur'.of = printed /\ cur'.name = cur.name
        BY <3>2, <4>1, <4>2 DEF Entry
      <4>4. Right(cur')
        BY <3>2, <4>3, <2>3, <2>6
      <4> QED
        BY <3>2, <3>5, <4>2, <4>3, <4>4, <1>6
    <3>8. CASE l.kind = "desc"
      <4>1. l.text \in Desc
        BY <3>4, <3>8, <2>2 DEF Desc
      <4>2. snaps' = snaps /\ cur' = [cur EXCEPT !.desc = l.text]
        BY <3>2, <3>8, <1>1, <1>8, <1>9
      <4>3. cur' \in Entry /\ cur'.of = printed /\ cur'.name = cur.name
        BY <3>2, <4>1, <4>2 DEF Entry
      <4>4. Right(cur')
        BY <3>2, <4>3, <2>3, <2>6
      <4> QED
        BY <3>2, <3>5, <4>2, <4>3, <4>4, <1>6
    <3>9. CASE l.kind = "other"
      <4>1. snaps' = snaps /\ cur' = cur
        BY <3>9, <1>1, <1>8, <1>9
      <4> QED
        BY <3>2, <3>5, <4>1, <1>6
    <3> QED
      BY <3>4, <3>6, <3>7, <3>8, <3>9, <2>2
  <2>7. CASE at = 1 /\ PlainAt(printed)
    <3>1. RightUpTo(snaps, printed - 1) /\ InHand(cur, printed, 0)
      BY <2>7, <1>3, <1>14 DEF ReadSoFar
    <3>2. cur \in Entry /\ cur # Nil
      BY <3>1, <2>1, <1>2, InHandIsEntry
    <3>3. l.kind = "id" /\ l.id = order[printed]
      BY <2>2, <2>7
    <3>4. cur' = [cur EXCEPT !.id = order[printed]] /\ snaps' = snaps
      BY <3>2, <3>3, <1>1, <1>8, <1>9
    <3>5. InHand(cur', printed, order[printed])
      <4>1. cur = [name |-> s.name, id |-> 0, desc |-> "", of |-> printed]
        BY <3>1, <2>4
      <4>2. cur' = [name |-> s.name, id |-> order[printed], desc |-> "", of |-> printed]
        BY <3>4, <4>1
      <4> QED
        BY <4>2, <2>4
    <3>6. cur' \in Entry
      BY <3>5, <2>1, <2>2, <1>2, InHandIsEntry
    <3>7. RightUpTo(snaps', printed - 1) /\ at' = 2
      BY <3>1, <3>4, <2>7, <1>1
    <3>8. ReadSoFar'
      BY <2>7, <3>5, <3>7, <1>1, <1>4, <1>5, <1>14 DEF ReadSoFar
    <3> QED
      BY <3>4, <3>6, <3>8, <1>6, <1>12
  <2>8. CASE at = 2 /\ PlainAt(printed)
    <3>1. /\ RightUpTo(snaps, printed - 1)
          /\ cur = [name |-> s.name, id |-> order[printed], desc |-> "", of |-> printed]
          /\ cur \in Entry /\ cur # Nil /\ cur.id # 0
      <4>1. RightUpTo(snaps, printed - 1) /\ InHand(cur, printed, order[printed])
        BY <2>8, <1>3, <1>14 DEF ReadSoFar
      <4>2. order[printed] \in Nat /\ order[printed] # 0
        BY <2>2, <1>2
      <4>3. cur \in Entry /\ cur # Nil
        BY <4>1, <4>2, <2>1, <1>2, InHandIsEntry
      <4>4. cur = [name |-> s.name, id |-> order[printed], desc |-> "", of |-> printed]
        BY <4>1, <2>4
      <4> QED
        BY <4>1, <4>2, <4>3, <4>4
    <3>2. /\ InOrder(snaps, printed - 1) /\ InOrder(snaps, printed)
          /\ Complete(snaps, printed - 1)
      BY <3>1, <2>1, InOrderLater DEF RightUpTo
    <3>3. at' \notin {0, 1, 2}
      BY <2>1, <2>8, <1>1
    <3>4. CASE l.kind = "name" /\ l.text = "imitation" /\ ~Tagged(s)
      <4>1. snaps' = Flushed /\ cur' = Named("imitation")
        BY <3>4, <1>1, <1>8, <1>9
      <4>2. cur' \in Entry /\ cur'.id = 0
        BY <4>1, <1>10, <1>14
      <4>3. Flushed' = snaps'
        BY <4>1, <4>2, <1>4, <1>7, FlushAppends
      <4>4. Right(cur) /\ cur.of = printed
        BY <3>1, <3>4, <2>3
      <4>5. RightUpTo(Flushed, printed)
        BY <3>1, <3>2, <4>4, <2>1, <1>4, <1>6, OneMoreRight
      <4>6. ReadSoFar'
        BY <2>8, <4>1, <4>3, <4>5, <3>3, <1>1, <1>4, <1>5, <1>14 DEF ReadSoFar
      <4> QED
        BY <4>1, <4>2, <4>6, <1>7, <1>12
    <3>5. CASE l.kind = "desc" /\ l.text \in {"tag", "text"} /\ (l.text = "tag" <=> Tagged(s))
      <4>1. cur' = [cur EXCEPT !.desc = l.text] /\ snaps' = snaps
        BY <3>1, <3>5, <1>1, <1>8, <1>9
      <4>2. cur' = [name |-> s.name, id |-> order[printed], desc |-> l.text, of |-> printed]
        BY <3>1, <4>1
      <4>3. cur' \in Entry /\ cur'.id # 0 /\ cur'.of = printed
        BY <3>1, <3>5, <4>1, <4>2 DEF Entry, Desc
      <4>4. Right(cur')
        BY <3>5, <4>2, <2>3
      <4>5. RightUpTo(Flush(snaps, cur'), printed)
        BY <3>2, <4>3, <4>4, <2>1, <1>6, OneMoreRight
      <4>6. RightUpTo(Flushed', printed)
        BY <4>1, <4>5, <1>4
      <4>7. ReadSoFar'
        BY <2>8, <4>6, <3>3, <1>1, <1>4, <1>5, <1>14 DEF ReadSoFar
      <4> QED
        BY <4>1, <4>3, <4>7, <1>6, <1>12
    <3> QED
      BY <3>4, <3>5, <2>2, <2>8
  <2>9. CASE at \notin {0, 1, 2} /\ PlainAt(printed)
    <3>1. at' \notin {0, 1, 2} /\ at + 1 \notin {1, 2, 3} /\ RightUpTo(Flushed, printed)
      BY <2>1, <2>9, <1>1, <1>3, <1>14 DEF ReadSoFar
    <3>2. ASSUME Flushed' = Flushed PROVE ReadSoFar'
      BY <2>9, <3>1, <3>2, <1>1, <1>4, <1>5, <1>14 DEF ReadSoFar
    <3>3. CASE l.kind = "other"
      <4>1. cur' = cur /\ snaps' = snaps
        BY <3>3, <1>1, <1>8, <1>9
      <4>2. Flushed' = Flushed
        BY <4>1, <1>4
      <4> QED
        BY <3>2, <4>1, <4>2, <1>6, <1>12
    <3>4. CASE l.kind = "name" /\ l.text = "imitation"
      <4>1. snaps' = Flushed /\ cur' = Named("imitation")
        BY <3>4, <1>1, <1>8, <1>9
      <4>2. cur' \in Entry /\ cur'.id = 0
        BY <4>1, <1>10, <1>14
      <4>3. Flushed' = Flushed
        BY <4>1, <4>2, <1>4, <1>7, FlushAppends
      <4> QED
        BY <3>2, <4>1, <4>2, <4>3, <1>7, <1>12
    <3> QED
      BY <3>1, <3>3, <3>4, <2>2, <2>9
  <2> QED
    BY <2>5, <2>6, <2>7, <2>8, <2>9
<1> QED
  BY <1>13, <1>14

\* Between two snapshots, and at the end, what a flush makes is right.
LEMMA FlushIsRight ==
  ASSUME VimInv, reading, at = Lines(printed)
  PROVE  RightUpTo(Flushed, printed)
<1>1. printed \in 0..Len(tree) /\ TreeInv /\ ReadSoFar
  BY DEF VimInv, PlaceTypes
<1>2. CASE printed = 0
  BY <1>1, <1>2 DEF ReadSoFar
<1>3. CASE printed # 0
  <2>1. at \notin {0, 1, 2}
    BY <1>1, <1>3, LinesAreMany
  <2>2. CASE PlainAt(printed)
    BY <1>1, <1>3, <2>1, <2>2 DEF ReadSoFar
  <2>3. CASE ~PlainAt(printed)
    <3>1. Astray
      BY <1>1, <1>3, <2>1, <2>3 DEF ReadSoFar
    <3>2. printed \in Nat \ {0} /\ snaps \in Seq(Found) /\ Flushed = Flush(snaps, cur)
      BY <1>1, <1>3 DEF VimInv, PlaceTypes, TreeInv, Flushed, Flush
    <3> QED
      BY <2>3, <3>1, <3>2, OneMoreRight DEF Astray
  <2> QED
    BY <2>2, <2>3
<1> QED
  BY <1>2, <1>3

\* Every step keeps the invariant.
LEMMA NextVimInv == VimInv /\ [VimNext]_vimVars => VimInv'
<1> SUFFICES ASSUME VimInv, [VimNext]_vimVars PROVE VimInv'
  OBVIOUS
<1>1. TreeInv /\ PlaceTypes /\ Len(tree) \in Nat /\ printed \in 0..Len(tree)
  BY DEF VimInv, TreeInv, PlaceTypes
<1>2. tree' = tree /\ order' = order
  BY DEF VimNext, ReadLine, NextSnapshot, EndOfOutput, vimVars
<1>3. TreeInv'
  BY <1>1, <1>2 DEF TreeInv, DepthFirst
<1>4. /\ Entry' = Entry /\ Found' = Found /\ \A k : Lines(k)' = Lines(k)
      /\ \A list, m : RightUpTo(list, m)' <=> RightUpTo(list, m)
  BY <1>2 DEF Entry, Found, Lines, Length, RightUpTo, InOrder, Complete, Right, PlainAt
<1>5. CASE ReadLine
  <2>1. PlaceTypes' /\ ReadSoFar'
    BY <1>5, NextReadSoFar
  <2>2. reading' = reading /\ reading = TRUE
    BY <1>5, <1>1 DEF ReadLine, PlaceTypes
  <2> QED
    BY <1>3, <2>1, <2>2 DEF VimInv
<1>6. CASE NextSnapshot
  <2>1. /\ at = Lines(printed) /\ printed < Len(tree) /\ printed' = printed + 1 /\ at' = 0
        /\ cur' = cur /\ snaps' = snaps /\ reading' = reading
    BY <1>6 DEF NextSnapshot
  <2>2. reading = TRUE
    BY <2>1, <1>1 DEF PlaceTypes
  <2>3. printed' \in 0..Len(tree) /\ Lines(printed') \in Nat
    BY <2>1, <1>1, LinesAreMany
  <2>4. PlaceTypes'
    BY <2>1, <2>2, <2>3, <1>1, <1>2, <1>4 DEF PlaceTypes
  <2>5. Flushed' = Flushed /\ RightUpTo(Flushed, printed)
    BY <2>1, <2>2, FlushIsRight DEF Flushed
  <2>6. printed' # 0 /\ printed' - 1 = printed
    BY <2>1, <1>1
  <2>7. RightUpTo(Flushed, printed - 1)'
    BY <2>5, <2>6, <1>4
  <2>8. ReadSoFar'
    BY <2>1, <2>6, <2>7 DEF ReadSoFar
  <2> QED
    BY <1>3, <2>1, <2>2, <2>4, <2>8 DEF VimInv
<1>7. CASE EndOfOutput
  <2>1. /\ at = Lines(printed) /\ printed = Len(tree) /\ reading
        /\ snaps' = Flushed /\ cur' = Nil /\ reading' = FALSE
        /\ printed' = printed /\ at' = at
    BY <1>7 DEF EndOfOutput
  <2>2. RightUpTo(snaps', Len(tree))
    BY <2>1, FlushIsRight
  <2>3. RightUpTo(snaps, Len(tree))'
    BY <2>2, <1>2, <1>4
  <2>4. snaps' \in Seq(Found)
    BY <2>1, <1>1, FlushAppends DEF PlaceTypes, Flushed, Flush
  <2>5. PlaceTypes'
    BY <2>1, <2>4, <1>1, <1>2, <1>4 DEF PlaceTypes, Nil
  <2> QED
    BY <1>3, <2>1, <2>3, <2>5 DEF VimInv, Nil
<1>8. CASE UNCHANGED vimVars
  <2>1. printed' = printed /\ at' = at /\ cur' = cur /\ snaps' = snaps /\ reading' = reading
    BY <1>8 DEF vimVars
  <2>2. PlaceTypes' /\ Flushed' = Flushed
    BY <2>1, <1>1, <1>2, <1>4 DEF PlaceTypes, Flushed, Nil
  <2>3. reading => ReadSoFar'
    BY <2>1, <2>2, <1>2, <1>4 DEF VimInv, ReadSoFar, InHand, Astray, InOrder, Complete, Right,
       PlainAt
  <2>4. ~reading => RightUpTo(snaps, Len(tree))' /\ cur' = Nil'
    BY <2>1, <1>2, <1>4 DEF VimInv, Nil
  <2> QED
    BY <1>3, <2>1, <2>2, <2>3, <2>4 DEF VimInv
<1> QED
  BY <1>5, <1>6, <1>7, <1>8 DEF VimNext

\* The scanner keeps its inductive invariant, whatever the descriptions look like.
THEOREM ScannerInvariant == VimSpec => []VimInv
BY InitVimInv, NextVimInv, PTL DEF VimSpec

\* What the scan says of a snapshot with a plain description is right, and it says
\* it once, whatever the others' descriptions look like.
THEOREM ScanIsTheTree == VimSpec => []ListIsTheTree
<1>1. VimInv => ListIsTheTree
  <2> SUFFICES ASSUME VimInv, ~reading, NEW k \in DOMAIN tree, Plain(tree[order[k]].desc)
               PROVE  \E i \in DOMAIN snaps :
                        /\ \A j \in DOMAIN snaps : snaps[j].of = k <=> j = i
                        /\ snaps[i].id = order[k] /\ snaps[i].name = tree[order[k]].name
                        /\ snaps[i].desc = "tag" <=> Tagged(tree[order[k]])
    BY DEF ListIsTheTree
  <2>1. /\ InOrder(snaps, Len(tree)) /\ Complete(snaps, Len(tree))
        /\ DOMAIN tree = 1..Len(tree) /\ snaps \in Seq(Found) /\ PlainAt(k)
    BY DEF VimInv, TreeInv, RightUpTo, PlaceTypes, PlainAt
  <2> DEFINE m == Len(snaps)
  <2>2. DOMAIN snaps = 1..m /\ m \in Nat
    BY <2>1, LenProperties
  <2>3. PICK i \in 1..m : snaps[i].of = k
    BY <2>1 DEF Complete
  <2> HIDE DEF m
  <2>4. ASSUME NEW j \in 1..m, snaps[j].of = k PROVE j = i
    <3>1. ~(i < j) /\ ~(j < i)
      BY <2>1, <2>3, <2>4 DEF InOrder, m
    <3> QED
      BY <2>2, <3>1
  <2>5. Right(snaps[i])
    BY <2>1, <2>3 DEF InOrder, m
  <2> QED
    BY <2>1, <2>2, <2>3, <2>4, <2>5 DEF Right
<1> QED
  BY <1>1, ScannerInvariant, PTL

\* Every variable of the scanner keeps its type, and a tree stays one.
THEOREM VimTypeCorrect == VimSpec => []VimTypeOK
<1>1. VimInit => tree \in Trees
  BY DEF VimInit
<1>2. tree \in Trees /\ [VimNext]_vimVars => (tree \in Trees)'
  <2> SUFFICES ASSUME tree \in Trees, [VimNext]_vimVars PROVE (tree \in Trees)'
    OBVIOUS
  <2>1. tree' = tree
    BY DEF VimNext, ReadLine, NextSnapshot, EndOfOutput, vimVars
  <2> QED
    BY <2>1 DEF Trees
<1>3. VimInv /\ tree \in Trees => VimTypeOK
  <2> SUFFICES ASSUME VimInv, tree \in Trees PROVE VimTypeOK
    OBVIOUS
  <2>1. TreeInv /\ PlaceTypes /\ Len(tree) \in Nat
    BY DEF VimInv, TreeInv
  <2>2. cur.id \in Nat
    BY <2>1 DEF PlaceTypes, Entry, Nil
  <2>3. \A i \in DOMAIN snaps : snaps[i].id \in Nat \ {0} /\ snaps[i].of \in 1..Len(tree)
    <3>1. snaps \in Seq(Found)
      BY <2>1 DEF PlaceTypes
    <3>2. \A e \in Found : e.id \in Nat \ {0} /\ e.of \in 1..Len(tree)
      BY <2>1 DEF Found, Entry
    <3> HIDE DEF Found
    <3>3. \A i \in DOMAIN snaps : snaps[i] \in Found
      BY <3>1
    <3> QED
      BY <3>2, <3>3
  <2> QED
    BY <2>1, <2>2, <2>3 DEF VimInv, TreeInv, PlaceTypes, VimTypeOK
<1> QED
  BY <1>1, <1>2, <1>3, ScannerInvariant, PTL DEF VimSpec

\* A set of numbers that is not empty has a least one.
LEMMA LeastOf ==
  ASSUME NEW T \in SUBSET Nat, T # {}
  PROVE  \E x \in T : \A y \in T : x <= y
<1> DEFINE Less == OpToRel(<, Nat)
<1>1. IsWellFoundedOn(Less, Nat)
  BY NatLessThanWellFounded
<1> HIDE DEF Less
<1>2. PICK x \in T : \A y \in T : ~(<<y, x>> \in Less)
  BY <1>1, WFMin
<1>3. \A y \in T : ~(y < x)
  BY <1>2 DEF Less, OpToRel
<1> QED
  BY <1>3

\* Some of the first n numbers have a greatest one: their least bound.
LEMMA MaxIsThere ==
  ASSUME NEW n \in Nat, NEW H \in SUBSET (1..n), H # {}
  PROVE  Max(H) \in H /\ \A y \in H : y <= Max(H)
<1> DEFINE T == {u \in Nat : \A y \in H : y <= u}
<1>1. n \in T
  OBVIOUS
<1>2. PICK u \in T : \A v \in T : u <= v
  BY <1>1, LeastOf
<1>3. u \in H
  <2> SUFFICES ASSUME u \notin H PROVE FALSE
    OBVIOUS
  <2>1. PICK y \in H : TRUE
    OBVIOUS
  <2>2. y <= u /\ y \in Nat \ {0} /\ u \in Nat
    BY <2>1
  <2>3. u - 1 \in Nat /\ \A z \in H : z <= u - 1
    BY <2>2
  <2> QED
    BY <2>2, <2>3, <1>2
<1>4. \A y \in H : u >= y
  BY <1>2
<1> QED
  BY <1>3, <1>4 DEF Max

\* A chain is printed from the oldest to the newest: the first one out of place
\* would be a later one, whose parent is not printed yet.
LEMMA ChainOrder ==
  ASSUME TreeInv, \A i \in DOMAIN tree : tree[i].parent = i - 1
  PROVE  \A k \in 1..Len(tree) : order[k] = k
<1> DEFINE n == Len(tree)
           T == {k \in 1..n : order[k] # k}
<1>1. /\ n \in Nat /\ DOMAIN tree = 1..n /\ order \in [1..n -> 1..n]
      /\ DepthFirst(tree, order)
  BY DEF TreeInv
<1> HIDE DEF n
<1> SUFFICES ASSUME T # {} PROVE FALSE
  BY DEF n
<1>2. PICK k \in T : \A j \in T : k <= j
  <2>1. T \in SUBSET Nat
    BY <1>1
  <2> QED
    BY <2>1, LeastOf
<1>3. k \in 1..n /\ order[k] # k /\ order[k] \in 1..n
  BY <1>1, <1>2
<1>4. \A j \in 1..(k - 1) : j \in 1..n /\ order[j] = j
  BY <1>1, <1>2, <1>3
<1>5. \A j \in 1..n : order[j] = order[k] => j = k
  BY <1>1, <1>3 DEF DepthFirst
<1>6. order[k] > k
  <2> SUFFICES ASSUME ~(order[k] > k) PROVE FALSE
    OBVIOUS
  <2>1. order[k] \in 1..(k - 1)
    BY <1>1, <1>3
  <2>2. order[order[k]] = order[k] /\ order[k] \in 1..n
    BY <2>1, <1>4
  <2> QED
    BY <2>2, <1>3, <1>5
<1>7. tree[order[k]].parent = order[k] - 1 /\ tree[order[k]].parent # 0
  <2>1. tree[order[k]].parent = order[k] - 1
    BY <1>1, <1>3
  <2> QED
    BY <2>1, <1>1, <1>3, <1>6
<1>8. PICK i \in 1..(k - 1) : order[i] = tree[order[k]].parent
  BY <1>1, <1>3, <1>7 DEF DepthFirst
<1>9. order[i] = i
  BY <1>4, <1>8
<1> QED
  BY <1>3, <1>6, <1>7, <1>8, <1>9

\* In a tree that was never reverted the newest snapshot of a name is found, if its
\* description is plain.
THEOREM NewestOfAChainIsFound == VimSpec => []LookupOnAChain
<1>1. VimInv => LookupOnAChain
  <2> SUFFICES ASSUME VimInv, ~reading, \A i \in DOMAIN tree : tree[i].parent = i - 1,
                      NEW i \in DOMAIN tree, Plain(tree[Newest(tree[i].name)].desc)
               PROVE  Lookup(snaps, tree[i].name) = Newest(tree[i].name)
    BY DEF LookupOnAChain
  <2> DEFINE n == Len(tree)
             m == Len(snaps)
             name == tree[i].name
             H == {j \in DOMAIN tree : tree[j].name = name}
             hits == {j \in DOMAIN snaps : snaps[j].name = name}
             N == Max(H)
  <2>1. /\ TreeInv /\ n \in Nat /\ DOMAIN tree = 1..n /\ snaps \in Seq(Found)
        /\ m \in Nat /\ DOMAIN snaps = 1..m /\ name \in Names
    BY LenProperties DEF VimInv, TreeInv, PlaceTypes
  <2>2. InOrder(snaps, n) /\ Complete(snaps, n)
    BY DEF VimInv, RightUpTo
  <2>3. \A k \in 1..n : order[k] = k
    BY <2>1, ChainOrder
  <2>4. Newest(name) = N
    BY DEF Newest
  <2>5. i \in H
    OBVIOUS
  <2>6. N \in H /\ \A j \in H : j <= N
    <3>1. H \in SUBSET (1..n) /\ H # {}
      BY <2>1, <2>5
    <3> HIDE DEF H, n
    <3> QED
      BY <2>1, <3>1, MaxIsThere
  <2>7. N \in 1..n /\ tree[N].name = name /\ order[N] = N /\ PlainAt(N)
    BY <2>1, <2>3, <2>4, <2>6 DEF PlainAt
  <2> HIDE DEF n, m, name, N, H
  <2>8. PICK e \in 1..m : snaps[e].of = N
    BY <2>2, <2>7 DEF Complete, m
  <2>9. snaps[e].name = name /\ snaps[e].id = N
    BY <2>2, <2>7, <2>8 DEF InOrder, m, Right
  <2>10. ASSUME NEW j \in hits PROVE j <= e
    <3>1. j \in 1..m /\ snaps[j].name = name /\ snaps[j].of \in 1..n /\ Right(snaps[j])
      BY <2>1, <2>2 DEF InOrder, m
    <3>2. tree[snaps[j].of].name = name
      BY <2>1, <2>3, <3>1, NamesAssumption DEF Right
    <3>3. snaps[j].of <= N
      BY <2>1, <2>6, <3>1, <3>2 DEF H
    <3>4. ~(e < j)
      <4> SUFFICES ASSUME e < j PROVE FALSE
        OBVIOUS
      <4>1. N < snaps[j].of
        BY <2>2, <2>7, <2>8, <3>1 DEF InOrder, m
      <4> QED
        BY <2>1, <2>7, <3>1, <3>3, <4>1
    <3> QED
      BY <2>1, <3>1, <3>4
  <2>11. e \in hits
    BY <2>1, <2>9
  <2>12. Max(hits) = e
    <3>1. hits \in SUBSET (1..m) /\ hits # {}
      BY <2>1, <2>11
    <3> HIDE DEF hits
    <3>2. Max(hits) \in hits /\ e <= Max(hits)
      BY <2>1, <2>11, <3>1, MaxIsThere
    <3>3. Max(hits) <= e /\ Max(hits) \in 1..m
      BY <2>10, <3>1, <3>2
    <3> QED
      BY <2>1, <3>2, <3>3
  <2>13. Lookup(snaps, name) = snaps[Max(hits)].id
    BY <2>11 DEF Lookup
  <2> QED
    BY <2>4, <2>9, <2>12, <2>13 DEF name
<1> QED
  BY <1>1, ScannerInvariant, PTL
=============================================================================
