------------------------------ MODULE SnapRun ------------------------------
(***************************************************************************)
(* main.go, runSnap for Proxmox: discover the guests, freeze them, judge   *)
(* the results, run the pre-snap command, take the ZFS snapshot, thaw,     *)
(* report, and thaw once more by defer.  The freezing itself is            *)
(* FreezeSession, whose actions happen at the program points named here.   *)
(***************************************************************************)
EXTENDS FreezeSession

VARIABLES
  pc,      \* program counter of runSnap
  force,   \* --forcefreeze
  zfs,     \* what became of the ZFS snapshot
  report   \* the runResult that was emitted

runVars  == <<pc, force, zfs, report>>
snapVars == <<sessVars, runVars>>

NoReport == [status |-> "none"]

\* emit: the guests as sess.Results() has them at that moment.
ReportNow(status) == [status |-> status, guests |-> result]

\* Faulty: --forcefreeze takes "none" for an expected outcome and accepts it.
AbortListNoneAccepted ==
  IF force
  THEN {g \in Guest : Answered(g) /\ ~result[g].frozen
                        /\ result[g].outcome \notin {"zfs-only", "none"}}
  ELSE StrictViolations

\* abortList: with --forcefreeze every guest that is not frozen stops the run,
\* zfs-only chains excepted; otherwise those with a strict chain.
AbortList ==
  IF force
  THEN {g \in Guest : Answered(g) /\ ~result[g].frozen
                        /\ result[g].outcome # "zfs-only"}
  ELSE StrictViolations

-----------------------------------------------------------------------------
SnapInit ==
  /\ SessInit
  /\ pc = "prepare"
  /\ force \in BOOLEAN
  /\ zfs = "none"
  /\ report = NoReport

\* Flags, ID lists, policy and discovery; an error there reports and returns
\* before any guest is touched.
Prepare ==
  /\ pc = "prepare"
  /\ pc' = "freeze"
  /\ UNCHANGED <<sessVars, force, zfs, report>>

PrepareFails ==
  /\ pc = "prepare"
  /\ pc' = "return"
  /\ report' = ReportNow("error")
  /\ UNCHANGED <<sessVars, force, zfs>>

StartFreeze ==
  /\ pc = "freeze"
  /\ FreezeAll
  /\ pc' = "freezing"
  /\ UNCHANGED <<force, zfs, report>>

EndFreeze ==
  /\ pc = "freezing"
  /\ FreezeAllReturn
  /\ pc' = "judge"
  /\ UNCHANGED <<force, zfs, report>>

\* fail(abortError): reported before the deferred Thaw has run.
Abort ==
  /\ pc = "judge"
  /\ AbortList # {}
  /\ report' = ReportNow("error")
  /\ pc' = "defer"
  /\ UNCHANGED <<sessVars, force, zfs>>

Proceed ==
  /\ pc = "judge"
  /\ AbortList = {}
  /\ pc' = "presnap"
  /\ UNCHANGED <<sessVars, force, zfs, report>>

\* Faulty: an error of the pre-snap command calls os.Exit, which runs no defer.
PreSnapExits ==
  /\ pc = "presnap"
  /\ pc' \in {"snapshot", "return"}
  /\ UNCHANGED <<sessVars, force, zfs, report>>

\* Faulty: the guests are let go while the ZFS snapshot is still to come.
PreSnapThawsFirst ==
  /\ pc = "presnap"
  /\ pc' = "snapshot"
  /\ Thaw
  /\ UNCHANGED <<force, zfs, report>>

\* The pre-snap command: whatever it does is at most a warning.
PreSnap ==
  /\ pc = "presnap"
  /\ pc' = "snapshot"
  /\ UNCHANGED <<sessVars, force, zfs, report>>

\* Faulty: the error of zfs snapshot is returned before the explicit Thaw and
\* the result is emitted by then.
ZfsSnapshotFailsEarly ==
  /\ pc = "snapshot"
  /\ zfs' \in {"taken", "failed"}
  /\ pc' = IF zfs' = "taken" THEN "thaw" ELSE "report"
  /\ UNCHANGED <<sessVars, force, report>>

\* zfs snapshot works or fails; runSnap goes on to Thaw either way.
ZfsSnapshot ==
  /\ pc = "snapshot"
  /\ zfs' \in {"taken", "failed"}
  /\ pc' = "thaw"
  /\ UNCHANGED <<sessVars, force, report>>

StartThaw ==
  /\ pc = "thaw"
  /\ Thaw
  /\ pc' = "thawing"
  /\ UNCHANGED <<force, zfs, report>>

EndThaw ==
  /\ pc = "thawing"
  /\ ThawAllReturn
  /\ pc' = "report"
  /\ UNCHANGED <<force, zfs, report>>

Report ==
  /\ pc = "report"
  /\ report' = ReportNow(IF zfs = "taken" THEN "ok" ELSE "error")
  /\ pc' = "defer"
  /\ UNCHANGED <<sessVars, force, zfs>>

\* The deferred Thaw; after the explicit one it finds nothing to do.
StartDeferredThaw ==
  /\ pc = "defer"
  /\ Thaw
  /\ pc' = "deferring"
  /\ UNCHANGED <<force, zfs, report>>

EndDeferredThaw ==
  /\ pc = "deferring"
  /\ ThawAllReturn
  /\ pc' = "return"
  /\ UNCHANGED <<force, zfs, report>>

\* runSnap returns and main calls os.Exit with its code.
Return ==
  /\ pc = "return"
  /\ pc' = "exit"
  /\ UNCHANGED <<sessVars, force, zfs, report>>

MainStep ==
  \/ Prepare \/ PrepareFails
  \/ StartFreeze \/ EndFreeze
  \/ Abort \/ Proceed \/ PreSnap \/ ZfsSnapshot
  \/ StartThaw \/ EndThaw \/ Report
  \/ StartDeferredThaw \/ EndDeferredThaw \/ Return

GuestStep(g) == (FreezeStep(g) \/ ThawStep(g)) /\ UNCHANGED runVars

SnapNext == MainStep \/ \E g \in Guest : GuestStep(g)

SnapSpec == SnapInit /\ [][SnapNext]_snapVars

(***************************************************************************)
(* Fairness: runSnap and its goroutines run while they can, the zfs        *)
(* command ends, the pre-snap command is killed after 120 s, and the       *)
(* Freezers' calls return.                                                 *)
(***************************************************************************)
SnapFairness ==
  /\ WF_snapVars(MainStep)
  /\ \A g \in Guest :
       /\ WF_snapVars(FreezeStep(g) /\ UNCHANGED runVars)
       /\ WF_snapVars((\E ok \in BOOLEAN : ThawReturn(g, ok)) /\ UNCHANGED runVars)
       /\ SF_snapVars(ThawCall(g) /\ UNCHANGED runVars)

SnapFairSpec == SnapSpec /\ SnapFairness

-----------------------------------------------------------------------------
RunPc == {"prepare", "freeze", "freezing", "judge", "presnap", "snapshot",
          "thaw", "thawing", "report", "defer", "deferring", "return", "exit"}

\* Type invariant of the run.
SnapTypeOK ==
  /\ SessTypeOK
  /\ pc \in RunPc
  /\ force \in BOOLEAN
  /\ zfs \in {"none", "taken", "failed"}
  /\ report \in {NoReport} \cup [status : {"ok", "error"}, guests : [Guest -> Result]]

\* A guest may stay unfrozen only if neither its chain nor --forcefreeze
\* objects (README.md:130-133).
Tolerated(g) ==
  \/ result[g].outcome = "zfs-only"
  \/ ~force /\ g \notin strict

\* The ZFS snapshot is only ever attempted with every guest answered, each
\* either frozen and not yet touched by Thaw or tolerated, and nothing reported:
\* strict chains and --forcefreeze abort before the snapshot, and no thaw
\* overlaps it.
SnapshotInsideFreeze ==
  [][zfs' # zfs =>
       /\ phase = "open" /\ report = NoReport
       /\ \A g \in Guest :
            /\ Answered(g)
            /\ \/ result[g].frozen /\ g \in frozen /\ thawCalls[g] = 0
               \/ ~result[g].frozen /\ Tolerated(g)]_snapVars

\* main.go:2-4 and 178-180: on every path that returns, whatever failed on it,
\* each guest the session froze has had its Freezer's Thaw called exactly once
\* (the explicit and the deferred call do not add up), and that call is over.
NothingLeftAtExit ==
  pc \in {"return", "exit"} =>
    \A g \in Guest : /\ result[g].frozen <=> thawCalls[g] = 1
                     /\ thawAt[g] # "calling"
                     /\ freezeAt[g] \in {"idle", "done"}

\* What the JSON says is final once the run reaches the end of the success path
\* or of a failed snapshot: status ok stands for a taken snapshot, and
\* guests[].thawed is what became of each frozen guest (main.go:201-205).
ReportMatchesEnd ==
  report # NoReport /\ zfs # "none" =>
    /\ report.status = "ok" <=> zfs = "taken"
    /\ \A g \in Guest : report.guests[g] = result[g]

\* main.go:201-202 "so Guests[].Thawed reflects reality in the JSON": a guest
\* that the finished run reported as frozen and not thawed was indeed not thawed.
ReportedThawedIsReal ==
  pc = "exit" /\ report # NoReport =>
    \A g \in Guest : report.guests[g].frozen =>
      (report.guests[g].thawed <=> result[g].thawed)

\* If the Freezers' calls return, the run ends, on every path.
RunEnds == <>(pc = "exit")

-----------------------------------------------------------------------------
\* The run implements SnapPromise: a guest is held from the moment it is on the
\* session's list until Thaw turns to it.
Stage ==
  CASE pc \in {"prepare", "freeze", "freezing", "judge", "presnap", "snapshot"}
         -> "hold"
    [] pc = "exit" -> "over"
    [] OTHER       -> "release"

Held == {g \in frozen : thawAt[g] \in {"idle", "wait"}}

Promise == INSTANCE SnapPromise WITH stage <- Stage, held <- Held

ImplementsPromise == Promise!Spec
=============================================================================
