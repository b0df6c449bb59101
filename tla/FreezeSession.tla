--------------------------- MODULE FreezeSession ---------------------------
(***************************************************************************)
(* freezer/session.go: one freeze operation across a set of guests.        *)
(* FreezeAll starts one goroutine per guest, each asks the guest's Freezer *)
(* to freeze it and records the outcome; Thaw starts one goroutine per     *)
(* guest that froze; RestoreSession rebuilds a session for the guests that *)
(* an earlier process froze.  What a Freezer does is not in this module:   *)
(* its calls return any outcome the Freezer interface allows.              *)
(* ProxmoxRun and EsxiRun put the real freezers in.                        *)
(***************************************************************************)
EXTENDS Naturals, FiniteSets

CONSTANTS Guest,     \* the guests of the job, by VMID
          Nobody     \* holds Thaw's mutex when no goroutine does

ASSUME NobodyAssumption == Nobody \notin Guest

VARIABLES
  registered,  \* the guests some registered Freezer supports (For(g) succeeds)
  strict,      \* the guests whose chain has no zfs step
  phase,       \* where the caller is: FreezeAll and Thaw both end in a wg.Wait
  freezeAt,    \* program counter of each guest's goroutine in FreezeAll
  outcome,     \* what Freeze returned to that goroutine
  result,      \* sess.results, by VMID
  frozen,      \* sess.frozen
  thawAt,      \* program counter of each guest's goroutine in Thaw
  thawMu,      \* the mutex of Thaw
  thawCalls    \* history: how often the Freezer's Thaw was called per guest

sessVars == <<registered, strict, phase, freezeAt, outcome, result, frozen,
              thawAt, thawMu, thawCalls>>

-----------------------------------------------------------------------------
(***************************************************************************)
(* What Freeze can return: a strategy that froze the guest ("held"), the   *)
(* same with a Note on how it was degraded, "zfs-only", "none", or an      *)
(* error.  "unsupported" is For's error, "pending" is before the return.   *)
(***************************************************************************)
Froze   == {"held", "degraded"}
Returns == Froze \cup {"zfs-only", "none", "error"}
Outcome == Returns \cup {"unsupported", "pending"}

Unanswered == [outcome |-> "pending", frozen |-> FALSE, thawed |-> FALSE,
               warning |-> "no"]

Result == [outcome : Outcome, frozen : BOOLEAN, thawed : BOOLEAN,
           warning : {"no", "not frozen", "note", "thaw"}]

\* The GuestResult the goroutine appends for an outcome.
ResultOf(o) ==
  IF o \in Froze
  THEN [outcome |-> o, frozen |-> TRUE, thawed |-> FALSE,
        warning |-> IF o = "held" THEN "no" ELSE "note"]
  ELSE [outcome |-> o, frozen |-> FALSE, thawed |-> FALSE,
        warning |-> "not frozen"]

Phase    == {"new", "freezing", "open", "thawing", "closed"}
FreezeAt == {"idle", "start", "calling", "record", "done"}
ThawAt   == {"idle", "wait", "calling", "done"}

Answered(g) == result[g].outcome # "pending"

\* StrictViolations (policy.go): not frozen although the chain has no zfs step.
StrictViolations ==
  {g \in Guest : Answered(g) /\ ~result[g].frozen /\ g \in strict
                 /\ result[g].outcome # "zfs-only"}

-----------------------------------------------------------------------------
\* A chain that gave "zfs-only" has a zfs step: it is not strict.
SessInit ==
  /\ registered \in SUBSET Guest
  /\ strict \in SUBSET Guest
  /\ phase = "new"
  /\ freezeAt  = [g \in Guest |-> "idle"]
  /\ outcome   = [g \in Guest |-> "pending"]
  /\ result    = [g \in Guest |-> Unanswered]
  /\ frozen    = {}
  /\ thawAt    = [g \in Guest |-> "idle"]
  /\ thawMu    = Nobody
  /\ thawCalls = [g \in Guest |-> 0]

FreezeAll ==
  /\ phase = "new"
  /\ phase' = "freezing"
  /\ freezeAt' = [g \in Guest |-> "start"]
  /\ UNCHANGED <<registered, strict, outcome, result, frozen, thawAt, thawMu,
                 thawCalls>>

\* For(g) finds no Freezer: the guest is recorded, not frozen, with For's error.
FreezeUnsupported(g) ==
  /\ freezeAt[g] = "start"
  /\ g \notin registered
  /\ freezeAt' = [freezeAt EXCEPT ![g] = "done"]
  /\ outcome' = [outcome EXCEPT ![g] = "unsupported"]
  /\ result' = [result EXCEPT ![g] = ResultOf("unsupported")]
  /\ UNCHANGED <<registered, strict, phase, frozen, thawAt, thawMu, thawCalls>>

FreezeCall(g) ==
  /\ freezeAt[g] = "start"
  /\ g \in registered
  /\ freezeAt' = [freezeAt EXCEPT ![g] = "calling"]
  /\ UNCHANGED <<registered, strict, phase, outcome, result, frozen, thawAt,
                 thawMu, thawCalls>>

FreezeReturn(g, o) ==
  /\ freezeAt[g] = "calling"
  /\ o = "zfs-only" => g \notin strict
  /\ freezeAt' = [freezeAt EXCEPT ![g] = "record"]
  /\ outcome' = [outcome EXCEPT ![g] = o]
  /\ UNCHANGED <<registered, strict, phase, result, frozen, thawAt, thawMu,
                 thawCalls>>

\* Faulty: a guest frozen by a fallback step is not put on the thaw list.
FreezeRecordForgetsDegraded(g) ==
  /\ freezeAt[g] = "record"
  /\ freezeAt' = [freezeAt EXCEPT ![g] = "done"]
  /\ result' = [result EXCEPT ![g] = ResultOf(outcome[g])]
  /\ frozen' = IF outcome[g] = "held" THEN frozen \cup {g} ELSE frozen
  /\ UNCHANGED <<registered, strict, phase, outcome, thawAt, thawMu, thawCalls>>

\* Under FreezeAll's mutex: the result and, if frozen, the guest are appended.
FreezeRecord(g) ==
  /\ freezeAt[g] = "record"
  /\ freezeAt' = [freezeAt EXCEPT ![g] = "done"]
  /\ result' = [result EXCEPT ![g] = ResultOf(outcome[g])]
  /\ frozen' = IF outcome[g] \in Froze THEN frozen \cup {g} ELSE frozen
  /\ UNCHANGED <<registered, strict, phase, outcome, thawAt, thawMu, thawCalls>>

\* Faulty: wg.Add inside the goroutine, so Wait may pass while some still run.
FreezeAllReturnEarly ==
  /\ phase = "freezing"
  /\ \A g \in Guest : freezeAt[g] # "start"
  /\ phase' = "open"
  /\ UNCHANGED <<registered, strict, freezeAt, outcome, result, frozen, thawAt,
                 thawMu, thawCalls>>

\* wg.Wait of FreezeAll: every goroutine is done.
FreezeAllReturn ==
  /\ phase = "freezing"
  /\ \A g \in Guest : freezeAt[g] = "done"
  /\ phase' = "open"
  /\ UNCHANGED <<registered, strict, freezeAt, outcome, result, frozen, thawAt,
                 thawMu, thawCalls>>

\* RestoreSession: the guests an earlier process froze (thaw of a state file).
RestoreSession(gs) ==
  /\ phase = "new"
  /\ gs \subseteq registered
  /\ phase' = "open"
  /\ result' = [g \in Guest |-> IF g \in gs THEN ResultOf("held") ELSE result[g]]
  /\ frozen' = gs
  /\ UNCHANGED <<registered, strict, freezeAt, outcome, thawAt, thawMu, thawCalls>>

\* Thaw, also when it is called again: one goroutine per guest in sess.frozen.
Thaw ==
  /\ phase \in {"open", "closed"}
  /\ phase' = "thawing"
  /\ thawAt' = [g \in Guest |-> IF g \in frozen THEN "wait" ELSE "idle"]
  /\ UNCHANGED <<registered, strict, freezeAt, outcome, result, frozen, thawMu,
                 thawCalls>>

\* The goroutine gets Thaw's mutex, finds the result and calls the Freezer.
\* For(g) cannot fail here: the registry only grows.
ThawCall(g) ==
  /\ thawAt[g] = "wait"
  /\ thawMu = Nobody
  /\ thawMu' = g
  /\ thawAt' = [thawAt EXCEPT ![g] = "calling"]
  /\ thawCalls' = [thawCalls EXCEPT ![g] = @ + 1]
  /\ UNCHANGED <<registered, strict, phase, freezeAt, outcome, result, frozen>>

\* Faulty: the error return leaves the mutex locked (no defer).
ThawReturnKeepsMutex(g, ok) ==
  /\ thawAt[g] = "calling"
  /\ thawAt' = [thawAt EXCEPT ![g] = "done"]
  /\ result' = [result EXCEPT ![g] =
                  IF ok THEN [@ EXCEPT !.thawed = TRUE]
                        ELSE [@ EXCEPT !.warning = "thaw"]]
  /\ thawMu' = IF ok THEN Nobody ELSE g
  /\ UNCHANGED <<registered, strict, phase, freezeAt, outcome, frozen, thawCalls>>

\* Faulty: a thawed guest no longer counts as frozen in the results.
ThawReturnClearsFrozen(g, ok) ==
  /\ thawAt[g] = "calling"
  /\ thawAt' = [thawAt EXCEPT ![g] = "done"]
  /\ result' = [result EXCEPT ![g] =
                  IF ok THEN [@ EXCEPT !.thawed = TRUE, !.frozen = FALSE]
                        ELSE [@ EXCEPT !.warning = "thaw"]]
  /\ thawMu' = Nobody
  /\ UNCHANGED <<registered, strict, phase, freezeAt, outcome, frozen, thawCalls>>

\* The Freezer's Thaw returns; the result is written and the mutex released.
ThawReturn(g, ok) ==
  /\ thawAt[g] = "calling"
  /\ thawAt' = [thawAt EXCEPT ![g] = "done"]
  /\ result' = [result EXCEPT ![g] =
                  IF ok THEN [@ EXCEPT !.thawed = TRUE]
                        ELSE [@ EXCEPT !.warning = "thaw"]]
  /\ thawMu' = Nobody
  /\ UNCHANGED <<registered, strict, phase, freezeAt, outcome, frozen, thawCalls>>

\* Faulty: s.frozen is not cleared.
ThawAllReturnKeepsFrozen ==
  /\ phase = "thawing"
  /\ \A g \in frozen : thawAt[g] = "done"
  /\ phase' = "closed"
  /\ UNCHANGED <<registered, strict, freezeAt, outcome, result, frozen, thawAt,
                 thawMu, thawCalls>>

\* wg.Wait of Thaw, then s.frozen = nil: a second Thaw has nothing to do.
ThawAllReturn ==
  /\ phase = "thawing"
  /\ \A g \in frozen : thawAt[g] = "done"
  /\ phase' = "closed"
  /\ frozen' = {}
  /\ UNCHANGED <<registered, strict, freezeAt, outcome, result, thawAt, thawMu,
                 thawCalls>>

-----------------------------------------------------------------------------
\* The session under any caller that follows its comment: FreezeAll (or
\* RestoreSession) once, then Thaw as often as it likes.
FreezeStep(g) ==
  \/ FreezeUnsupported(g)
  \/ FreezeCall(g)
  \/ \E o \in Returns : FreezeReturn(g, o)
  \/ FreezeRecord(g)

ThawStep(g) ==
  \/ ThawCall(g)
  \/ \E ok \in BOOLEAN : ThawReturn(g, ok)

SessNext ==
  \/ FreezeAll
  \/ \E gs \in SUBSET Guest : RestoreSession(gs)
  \/ \E g \in Guest : FreezeStep(g) \/ ThawStep(g)
  \/ FreezeAllReturn
  \/ Thaw
  \/ ThawAllReturn

SessSpec == SessInit /\ [][SessNext]_sessVars

(***************************************************************************)
(* Fairness.  The Go scheduler runs every goroutine that is not blocked,   *)
(* and a free mutex goes to some waiter.  That a Freezer's calls return is *)
(* the Freezer's affair: only FreezersReturn assumes it.                   *)
(***************************************************************************)
OwnFairness ==
  /\ \A g \in Guest : /\ WF_sessVars(FreezeUnsupported(g))
                      /\ WF_sessVars(FreezeCall(g))
                      /\ WF_sessVars(FreezeRecord(g))
                      /\ SF_sessVars(ThawCall(g))
  /\ WF_sessVars(FreezeAllReturn)
  /\ WF_sessVars(ThawAllReturn)

FreezersReturn ==
  \A g \in Guest : /\ WF_sessVars(\E o \in Returns : FreezeReturn(g, o))
                   /\ WF_sessVars(\E ok \in BOOLEAN : ThawReturn(g, ok))

SessFairSpec  == SessSpec /\ OwnFairness /\ FreezersReturn
SessHangsSpec == SessSpec /\ OwnFairness

-----------------------------------------------------------------------------
\* Type invariant of sess and of the goroutines' local state.
SessTypeOK ==
  /\ registered \subseteq Guest
  /\ strict \subseteq Guest
  /\ phase \in Phase
  /\ freezeAt \in [Guest -> FreezeAt]
  /\ outcome \in [Guest -> Outcome]
  /\ result \in [Guest -> Result]
  /\ frozen \subseteq Guest
  /\ thawAt \in [Guest -> ThawAt]
  /\ thawMu \in Guest \cup {Nobody}
  /\ thawCalls \in [Guest -> Nat]

\* "Safe to call multiple times ... it only ever touches guests it actually
\* froze" (session.go, Thaw): however often and whenever Thaw is called, a
\* Freezer's Thaw runs at most once per guest, and only on a guest whose result
\* says frozen.
ThawTouchesOnlyFrozen ==
  \A g \in Guest : /\ thawCalls[g] <= 1
                   /\ thawCalls[g] = 1 => result[g].frozen

\* When the first Thaw has returned nothing is left behind: every guest recorded
\* as frozen had its Freezer's Thaw called and finished, and the result says
\* either thawed or why not.
ClosedLeavesNobody ==
  phase = "closed" =>
    \A g \in Guest : result[g].frozen =>
      /\ thawCalls[g] = 1
      /\ thawAt[g] # "calling"
      /\ result[g].thawed \/ result[g].warning = "thaw"

\* The results that runSnap judges (abortList) are complete and final: once
\* FreezeAll has returned every guest has one, sess.frozen holds exactly the
\* guests recorded as frozen until they are thawed, and a guest that is not
\* frozen says so in its warning.
ResultsComplete ==
  /\ phase = "open" =>
       \A g \in Guest : /\ freezeAt[g] \in {"idle", "done"}
                        /\ freezeAt[g] = "done" => Answered(g)
                        /\ result[g].frozen <=> g \in frozen
  /\ \A g \in Guest : Answered(g) /\ ~result[g].frozen
                        => result[g].warning = "not frozen" /\ ~result[g].thawed

\* No two goroutines of Thaw are inside a Freezer's Thaw, or write
\* sess.results, at the same time.
ThawsExcludeEachOther ==
  \A g, h \in Guest : thawAt[g] = "calling" /\ thawAt[h] = "calling" => g = h

\* A result is appended once and afterwards only Thaw's own two fields change:
\* what abortList judged is what the JSON reports.
ResultsOnlyGainThaw ==
  [][\A g \in Guest : Answered(g) =>
       /\ result'[g].outcome = result[g].outcome
       /\ result'[g].frozen = result[g].frozen
       /\ result[g].thawed => result'[g].thawed]_sessVars

\* If the freezers return, FreezeAll and Thaw return: no goroutine is left
\* waiting for the mutex or for the WaitGroup.
CallsReturn ==
  /\ phase = "freezing" ~> phase = "open"
  /\ phase = "thawing" ~> phase = "closed"

\* README.md:85 "then everything is thawed in parallel": the thaw of one guest
\* starts whatever the Freezer does with another.
ThawsStartInParallel ==
  \A g \in Guest : thawAt[g] = "wait" ~> thawAt[g] = "calling"
=============================================================================
