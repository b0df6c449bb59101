------------------------ MODULE FreezeSession_proofs ------------------------
(***************************************************************************)
(* Proofs about FreezeSession, for any set of guests.                      *)
(***************************************************************************)
EXTENDS FreezeSession, TLAPS

(***************************************************************************)
(* The inductive invariant.  The properties speak of the end of the calls; *)
(* what makes them inductive is where a guest is in between: FreezeInv and *)
(* ThawInv tie its goroutines to its result, to sess.frozen and to the     *)
(* number of Thaw calls it has had.                                        *)
(***************************************************************************)
FreezeInv(g) ==
  /\ phase = "new" => freezeAt[g] = "idle" /\ ~Answered(g)
  /\ freezeAt[g] = "idle" => phase # "freezing"
  /\ freezeAt[g] \in {"start", "calling", "record"} =>
       phase = "freezing" /\ ~Answered(g)
  /\ freezeAt[g] = "record" => outcome[g] \in Returns
  /\ freezeAt[g] = "done" => Answered(g)
  /\ result[g].frozen <=> result[g].outcome \in Froze
  /\ Answered(g) /\ ~result[g].frozen =>
       result[g].warning = "not frozen" /\ ~result[g].thawed

ThawInv(g) ==
  /\ g \in frozen => result[g].frozen /\ phase \notin {"new", "closed"}
  /\ phase \in {"new", "freezing", "open"} => (result[g].frozen <=> g \in frozen)
  /\ phase \in {"new", "freezing", "open"} => thawAt[g] = "idle"
  /\ thawAt[g] \in {"wait", "calling"} => phase = "thawing" /\ g \in frozen
  /\ phase = "thawing" /\ g \in frozen => thawAt[g] # "idle"
  /\ ~result[g].frozen => thawCalls[g] = 0
  /\ g \in frozen /\ thawAt[g] \in {"idle", "wait"} => thawCalls[g] = 0
  /\ g \in frozen /\ thawAt[g] \in {"calling", "done"} => thawCalls[g] = 1
  /\ result[g].frozen /\ g \notin frozen => thawCalls[g] = 1
  /\ result[g].frozen /\ (g \notin frozen \/ thawAt[g] = "done") =>
       result[g].thawed \/ result[g].warning = "thaw"

MutexInv == \A g \in Guest : thawAt[g] = "calling" <=> thawMu = g

SessInv ==
  /\ SessTypeOK
  /\ \A g \in Guest : FreezeInv(g)
  /\ \A g \in Guest : ThawInv(g)
  /\ MutexInv

-----------------------------------------------------------------------------
\* What FreezeRecord and FreezeUnsupported append is a result, answered, and
\* frozen exactly for the outcomes that froze.
LEMMA ResultOfFacts ==
  ASSUME NEW o \in Returns \cup {"unsupported"}
  PROVE  /\ ResultOf(o) \in Result
         /\ ResultOf(o).outcome = o
         /\ o # "pending"
         /\ ResultOf(o).frozen <=> o \in Froze
         /\ ~ResultOf(o).thawed
         /\ ~ResultOf(o).frozen => ResultOf(o).warning = "not frozen"
<1>1. o \in Outcome /\ o # "pending"
  BY DEF Returns, Froze, Outcome
<1>2. CASE o \in Froze
  BY <1>1, <1>2 DEF ResultOf, Result
<1>3. CASE o \notin Froze
  BY <1>1, <1>3 DEF ResultOf, Result
<1> QED BY <1>2, <1>3

\* The inductive invariant holds before FreezeAll or RestoreSession is called.
LEMMA InitSessInv == SessInit => SessInv
<1> SUFFICES ASSUME SessInit PROVE SessInv
  OBVIOUS
<1> USE DEF SessInit
<1>1. /\ Unanswered \in Result
      /\ Unanswered.outcome = "pending"
      /\ ~Unanswered.frozen
      /\ "pending" \notin Froze
  BY DEF Unanswered, Result, Outcome, Returns, Froze
<1>2. SessTypeOK
  BY <1>1 DEF SessTypeOK, Phase, FreezeAt, ThawAt, Outcome
<1>3. \A g \in Guest : FreezeInv(g)
  BY <1>1 DEF FreezeInv, Answered
<1>4. \A g \in Guest : ThawInv(g)
  BY <1>1 DEF ThawInv
<1>5. MutexInv
  BY NobodyAssumption DEF MutexInv
<1> QED BY <1>2, <1>3, <1>4, <1>5 DEF SessInv

\* Starting the goroutines of FreezeAll keeps the inductive invariant.
LEMMA FreezeAllInv ==
  SessInv /\ FreezeAll => SessInv'
<1> SUFFICES ASSUME SessInv, FreezeAll PROVE SessInv'
  OBVIOUS
<1> USE DEF FreezeAll, SessInv
<1>1. SessTypeOK'
  BY DEF SessTypeOK, Phase, FreezeAt
<1>2. \A g \in Guest : FreezeInv(g)'
  BY DEF SessTypeOK, FreezeInv, Answered
<1>3. \A g \in Guest : ThawInv(g)'
  BY DEF SessTypeOK, FreezeInv, ThawInv, Answered
<1>4. MutexInv'
  BY DEF SessTypeOK, MutexInv
<1> QED BY <1>1, <1>2, <1>3, <1>4

\* Recording For's error keeps it: the guest is answered and not frozen.
LEMMA FreezeUnsupportedInv ==
  ASSUME NEW h \in Guest
  PROVE  SessInv /\ FreezeUnsupported(h) => SessInv'
<1> SUFFICES ASSUME SessInv, FreezeUnsupported(h) PROVE SessInv'
  OBVIOUS
<1> USE DEF FreezeUnsupported, SessInv
<1>0. /\ result' = [result EXCEPT ![h] = ResultOf("unsupported")]
      /\ ResultOf("unsupported") \in Result
      /\ ResultOf("unsupported").outcome = "unsupported"
      /\ ~ResultOf("unsupported").frozen
      /\ ~ResultOf("unsupported").thawed
      /\ ResultOf("unsupported").warning = "not frozen"
      /\ "unsupported" \notin Froze
  <2>1. "unsupported" \in Returns \cup {"unsupported"} /\ "unsupported" \notin Froze
    BY DEF Froze
  <2> QED BY <2>1, ResultOfFacts
<1>1. SessTypeOK'
  BY <1>0 DEF SessTypeOK, FreezeAt, Outcome
<1>2. \A g \in Guest : FreezeInv(g)'
  BY <1>0 DEF SessTypeOK, FreezeInv, Answered
<1>3. ASSUME NEW g \in Guest PROVE ThawInv(g)'
  <2>1. CASE g = h
    <3>1. phase = "freezing" /\ ~result[h].frozen /\ ~result'[h].frozen
      BY <1>0 DEF SessTypeOK, FreezeInv, Answered, Froze
    <3> QED BY <2>1, <3>1 DEF ThawInv
  <2>2. CASE g # h
    BY <2>2, <1>0 DEF SessTypeOK, ThawInv
  <2> QED BY <2>1, <2>2
<1>4. MutexInv'
  BY DEF MutexInv
<1> QED BY <1>1, <1>2, <1>3, <1>4

\* Calling a Freezer keeps it: nothing is recorded yet.
LEMMA FreezeCallInv ==
  ASSUME NEW h \in Guest
  PROVE  SessInv /\ FreezeCall(h) => SessInv'
<1> SUFFICES ASSUME SessInv, FreezeCall(h) PROVE SessInv'
  OBVIOUS
<1> USE DEF FreezeCall, SessInv
<1>1. SessTypeOK'
  BY DEF SessTypeOK, FreezeAt
<1>2. \A g \in Guest : FreezeInv(g)'
  BY DEF SessTypeOK, FreezeInv, Answered
<1>3. \A g \in Guest : ThawInv(g)'
  BY DEF SessTypeOK, FreezeInv, ThawInv, Answered
<1>4. MutexInv'
  BY DEF SessTypeOK, MutexInv
<1> QED BY <1>1, <1>2, <1>3, <1>4

\* The return of a Freezer keeps it: the outcome stays the goroutine's own.
LEMMA FreezeReturnInv ==
  ASSUME NEW h \in Guest, NEW o \in Returns
  PROVE  SessInv /\ FreezeReturn(h, o) => SessInv'
<1> SUFFICES ASSUME SessInv, FreezeReturn(h, o) PROVE SessInv'
  OBVIOUS
<1> USE DEF FreezeReturn, SessInv
<1>1. SessTypeOK'
  BY DEF SessTypeOK, FreezeAt, Outcome
<1>2. \A g \in Guest : FreezeInv(g)'
  BY DEF SessTypeOK, FreezeInv, Answered
<1>3. \A g \in Guest : ThawInv(g)'
  BY DEF SessTypeOK, FreezeInv, ThawInv, Answered
<1>4. MutexInv'
  BY DEF SessTypeOK, MutexInv
<1> QED BY <1>1, <1>2, <1>3, <1>4

\* Appending a result keeps it: sess.frozen grows with the frozen results.
LEMMA FreezeRecordInv ==
  ASSUME NEW h \in Guest
  PROVE  SessInv /\ FreezeRecord(h) => SessInv'
<1> SUFFICES ASSUME SessInv, FreezeRecord(h) PROVE SessInv'
  OBVIOUS
<1> USE DEF FreezeRecord, SessInv
<1>0. outcome[h] \in Returns
  BY DEF FreezeInv
<1>1. SessTypeOK'
  BY <1>0, ResultOfFacts DEF SessTypeOK, FreezeAt
<1>2. \A g \in Guest : FreezeInv(g)'
  BY <1>0, ResultOfFacts DEF SessTypeOK, FreezeInv, Answered
<1>3. ASSUME NEW g \in Guest PROVE ThawInv(g)'
  <2>1. CASE g = h
    <3>1. phase = "freezing" /\ ~result[h].frozen /\ h \notin frozen
      BY DEF SessTypeOK, FreezeInv, ThawInv, Answered, Froze
    <3>2. result'[h] = ResultOf(outcome[h])
      BY DEF SessTypeOK
    <3>3. result'[h].frozen <=> outcome[h] \in Froze
      BY <1>0, <3>2, ResultOfFacts
    <3> QED BY <2>1, <3>1, <3>3 DEF ThawInv
  <2>2. CASE g # h
    <3>1. result'[g] = result[g] /\ (g \in frozen' <=> g \in frozen)
      BY <2>2 DEF SessTypeOK
    <3> QED BY <2>2, <3>1 DEF SessTypeOK, ThawInv
  <2> QED BY <2>1, <2>2
<1>4. MutexInv'
  BY DEF MutexInv
<1> QED BY <1>1, <1>2, <1>3, <1>4

\* The end of the WaitGroup keeps it: every goroutine has recorded its guest.
LEMMA FreezeAllReturnInv ==
  SessInv /\ FreezeAllReturn => SessInv'
<1> SUFFICES ASSUME SessInv, FreezeAllReturn PROVE SessInv'
  OBVIOUS
<1> USE DEF FreezeAllReturn, SessInv
<1>1. SessTypeOK'
  BY DEF SessTypeOK, Phase
<1>2. \A g \in Guest : FreezeInv(g)'
  BY DEF SessTypeOK, FreezeInv, Answered
<1>3. \A g \in Guest : ThawInv(g)'
  BY DEF SessTypeOK, FreezeInv, ThawInv, Answered
<1>4. MutexInv'
  BY DEF SessTypeOK, MutexInv
<1> QED BY <1>1, <1>2, <1>3, <1>4

\* A restored session satisfies it: its guests are frozen and answered.
LEMMA RestoreSessionInv ==
  ASSUME NEW gs \in SUBSET Guest
  PROVE  SessInv /\ RestoreSession(gs) => SessInv'
<1> SUFFICES ASSUME SessInv, RestoreSession(gs) PROVE SessInv'
  OBVIOUS
<1> USE DEF RestoreSession, SessInv
<1>0. "held" \in Returns \cup {"unsupported"} /\ "held" \in Froze
  BY DEF Returns, Froze
<1>1. SessTypeOK'
  BY <1>0, ResultOfFacts DEF SessTypeOK, Phase
<1>2. \A g \in Guest : FreezeInv(g)'
  BY <1>0, ResultOfFacts DEF SessTypeOK, FreezeInv, Answered
<1>3. \A g \in Guest : ThawInv(g)'
  BY <1>0, ResultOfFacts DEF SessTypeOK, FreezeInv, ThawInv, Answered, Froze
<1>4. MutexInv'
  BY DEF MutexInv
<1> QED BY <1>1, <1>2, <1>3, <1>4

\* A call of Thaw keeps it, the first as well as any later one.
LEMMA ThawCallerInv ==
  SessInv /\ Thaw => SessInv'
<1> SUFFICES ASSUME SessInv, Thaw PROVE SessInv'
  OBVIOUS
<1> USE DEF Thaw, SessInv
<1>1. SessTypeOK'
  BY DEF SessTypeOK, Phase, ThawAt
<1>2. \A g \in Guest : FreezeInv(g)'
  BY DEF SessTypeOK, FreezeInv, Answered
<1>3. \A g \in Guest : ThawInv(g)'
  BY DEF SessTypeOK, FreezeInv, ThawInv, Answered
<1>4. MutexInv'
  BY NobodyAssumption DEF SessTypeOK, MutexInv, ThawInv
<1> QED BY <1>1, <1>2, <1>3, <1>4

\* Entering a Freezer's Thaw under the mutex keeps it.
LEMMA ThawCallInv ==
  ASSUME NEW h \in Guest
  PROVE  SessInv /\ ThawCall(h) => SessInv'
<1> SUFFICES ASSUME SessInv, ThawCall(h) PROVE SessInv'
  OBVIOUS
<1> USE DEF ThawCall, SessInv
<1>1. SessTypeOK'
  BY DEF SessTypeOK, ThawAt
<1>2. \A g \in Guest : FreezeInv(g)'
  BY DEF FreezeInv, Answered
<1>3. \A g \in Guest : ThawInv(g)'
  BY DEF SessTypeOK, ThawInv
<1>4. MutexInv'
  BY NobodyAssumption DEF SessTypeOK, MutexInv
<1> QED BY <1>1, <1>2, <1>3, <1>4

\* Writing the outcome of a thaw and releasing the mutex keeps it.
LEMMA ThawReturnInv ==
  ASSUME NEW h \in Guest, NEW ok \in BOOLEAN
  PROVE  SessInv /\ ThawReturn(h, ok) => SessInv'
<1> SUFFICES ASSUME SessInv, ThawReturn(h, ok) PROVE SessInv'
  OBVIOUS
<1> USE DEF ThawReturn, SessInv
<1>0. /\ result[h] \in Result /\ result'[h] \in Result
      /\ result'[h].outcome = result[h].outcome
      /\ result'[h].frozen = result[h].frozen
      /\ result'[h].thawed \/ result'[h].warning = "thaw"
      /\ \A g \in Guest \ {h} : result'[g] = result[g]
  BY DEF SessTypeOK, Result
<1>1. SessTypeOK'
  BY <1>0 DEF SessTypeOK, ThawAt
<1>2. ASSUME NEW g \in Guest PROVE FreezeInv(g)'
  <2>1. CASE g = h
    <3>1. result[h].frozen
      BY DEF ThawInv
    <3> QED BY <1>0, <2>1, <3>1 DEF FreezeInv, Answered
  <2>2. CASE g # h
    <3>1. result'[g] = result[g]
      BY <1>0, <2>2
    <3> QED BY <3>1 DEF FreezeInv, Answered
  <2> QED BY <2>1, <2>2
<1>3. \A g \in Guest : ThawInv(g)'
  BY <1>0 DEF SessTypeOK, ThawInv
<1>4. MutexInv'
  BY NobodyAssumption DEF SessTypeOK, MutexInv
<1> QED BY <1>1, <1>2, <1>3, <1>4

\* Clearing sess.frozen keeps it: every frozen guest has been thawed or warned of.
LEMMA ThawAllReturnInv ==
  SessInv /\ ThawAllReturn => SessInv'
<1> SUFFICES ASSUME SessInv, ThawAllReturn PROVE SessInv'
  OBVIOUS
<1> USE DEF ThawAllReturn, SessInv
<1>1. SessTypeOK'
  BY DEF SessTypeOK, Phase
<1>2. \A g \in Guest : FreezeInv(g)'
  BY DEF SessTypeOK, FreezeInv, Answered
<1>3. \A g \in Guest : ThawInv(g)'
  BY DEF SessTypeOK, FreezeInv, ThawInv, Answered
<1>4. MutexInv'
  BY DEF SessTypeOK, MutexInv
<1> QED BY <1>1, <1>2, <1>3, <1>4

\* Every step of a session keeps the inductive invariant.
LEMMA NextSessInv == SessInv /\ [SessNext]_sessVars => SessInv'
<1> SUFFICES ASSUME SessInv, [SessNext]_sessVars PROVE SessInv'
  OBVIOUS
<1>1. CASE FreezeAll
  BY <1>1, FreezeAllInv
<1>2. CASE \E gs \in SUBSET Guest : RestoreSession(gs)
  BY <1>2, RestoreSessionInv
<1>3. CASE \E g \in Guest : FreezeStep(g)
  BY <1>3, FreezeUnsupportedInv, FreezeCallInv, FreezeReturnInv, FreezeRecordInv
     DEF FreezeStep
<1>4. CASE \E g \in Guest : ThawStep(g)
  BY <1>4, ThawCallInv, ThawReturnInv DEF ThawStep
<1>5. CASE FreezeAllReturn
  BY <1>5, FreezeAllReturnInv
<1>6. CASE Thaw
  BY <1>6, ThawCallerInv
<1>7. CASE ThawAllReturn
  BY <1>7, ThawAllReturnInv
<1>8. CASE UNCHANGED sessVars
  BY <1>8 DEF sessVars, SessInv, SessTypeOK, FreezeInv, ThawInv, MutexInv, Answered
<1> QED BY <1>1, <1>2, <1>3, <1>4, <1>5, <1>6, <1>7, <1>8 DEF SessNext

\* The session keeps its inductive invariant.
THEOREM SessInvariant == SessSpec => []SessInv
BY InitSessInv, NextSessInv, PTL DEF SessSpec

\* Every variable of the session keeps its type.
THEOREM SessTypeCorrect == SessSpec => []SessTypeOK
<1>1. SessInv => SessTypeOK
  BY DEF SessInv
<1> QED BY <1>1, SessInvariant, PTL

\* The inductive invariant gives the safety properties of the session.
LEMMA SessInvImplies ==
  SessInv => /\ ThawTouchesOnlyFrozen
             /\ ClosedLeavesNobody
             /\ ResultsComplete
             /\ ThawsExcludeEachOther
<1> SUFFICES ASSUME SessInv
             PROVE  /\ ThawTouchesOnlyFrozen
                    /\ ClosedLeavesNobody
                    /\ ResultsComplete
                    /\ ThawsExcludeEachOther
  OBVIOUS
<1>1. ThawTouchesOnlyFrozen
  BY DEF SessInv, SessTypeOK, ThawInv, ThawTouchesOnlyFrozen, ThawAt
<1>2. ClosedLeavesNobody
  BY DEF SessInv, ThawInv, ClosedLeavesNobody
<1>3. ResultsComplete
  BY DEF SessInv, SessTypeOK, FreezeInv, ThawInv, ResultsComplete, FreezeAt
<1>4. ThawsExcludeEachOther
  BY DEF SessInv, MutexInv, ThawsExcludeEachOther
<1> QED BY <1>1, <1>2, <1>3, <1>4

\* Thaw may be called at any time and any number of times: each Freezer's Thaw
\* runs at most once per guest and only for guests that froze.
THEOREM ThawIsIdempotent == SessSpec => []ThawTouchesOnlyFrozen
BY SessInvariant, SessInvImplies, PTL

\* After the first Thaw returned every frozen guest has been dealt with.
THEOREM ThawIsComplete == SessSpec => []ClosedLeavesNobody
BY SessInvariant, SessInvImplies, PTL

\* What abortList judges is complete, and sess.frozen agrees with it.
THEOREM ResultsAreComplete == SessSpec => []ResultsComplete
BY SessInvariant, SessInvImplies, PTL

\* At most one Freezer's Thaw runs at any time.
THEOREM ThawMutualExclusion == SessSpec => []ThawsExcludeEachOther
BY SessInvariant, SessInvImplies, PTL

\* The action property: from a state of the invariant, a step changes no
\* recorded outcome and takes no thaw back.
LEMMA StepOnlyGainsThaw ==
  SessInv /\ [SessNext]_sessVars =>
    [\A g \in Guest : Answered(g) =>
       /\ result'[g].outcome = result[g].outcome
       /\ result'[g].frozen = result[g].frozen
       /\ result[g].thawed => result'[g].thawed]_sessVars
<1> SUFFICES ASSUME SessInv, SessNext, NEW g \in Guest, Answered(g)
             PROVE  /\ result'[g].outcome = result[g].outcome
                    /\ result'[g].frozen = result[g].frozen
                    /\ result[g].thawed => result'[g].thawed
  OBVIOUS
<1>1. result[g] \in Result /\ FreezeInv(g) /\ phase # "new"
  BY DEF SessInv, SessTypeOK, FreezeInv
<1>2. CASE UNCHANGED result
  BY <1>2
<1>3. ASSUME NEW h \in Guest, FreezeUnsupported(h) \/ FreezeRecord(h)
      PROVE  result'[g] = result[g]
  <2>1. h # g
    BY <1>1, <1>3 DEF FreezeInv, FreezeUnsupported, FreezeRecord
  <2> QED BY <1>3, <2>1 DEF FreezeUnsupported, FreezeRecord, SessInv, SessTypeOK
<1>4. ASSUME NEW h \in Guest, NEW ok \in BOOLEAN, ThawReturn(h, ok)
      PROVE  /\ result'[g].outcome = result[g].outcome
             /\ result'[g].frozen = result[g].frozen
             /\ result[g].thawed => result'[g].thawed
  BY <1>1, <1>4 DEF ThawReturn, Result, SessInv, SessTypeOK
<1> QED
  BY <1>1, <1>2, <1>3, <1>4
     DEF SessNext, FreezeStep, ThawStep, FreezeAll, FreezeCall, FreezeReturn,
         FreezeAllReturn, Thaw, ThawCall, ThawAllReturn, RestoreSession

\* A recorded result only ever gains Thaw's two fields.
THEOREM ResultsAreFinal == SessSpec => ResultsOnlyGainThaw
BY SessInvariant, StepOnlyGainsThaw, PTL DEF SessSpec, ResultsOnlyGainThaw
=============================================================================
