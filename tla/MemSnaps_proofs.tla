--------------------------- MODULE MemSnaps_proofs ---------------------------
(***************************************************************************)
(* Proofs about MemSnaps, for any set of overlapping runs, any cap and any *)
(* grace but none.                                                         *)
(***************************************************************************)
EXTENDS MemSnaps, FiniteSetTheorems, TLAPS

\* pveSnapName gives every run a name of its own, and nobody else uses it.
DistinctNames ==
  /\ \A q, r \in Run : NameOf[q] = NameOf[r] => q = r
  /\ \A r \in Run : NameOf[r] \notin Foreign

\* zfs can always say whether a vmstate zvol has a snapshot.
StateIsKnown == "state" \notin Unanswered

(***************************************************************************)
(* The inductive invariant.  A run makes its memory snapshot at most once, *)
(* itself or by the worker it has left behind, so a name on a list of      *)
(* doomed ones never comes to stand for a newer snapshot (OnceInv).  What  *)
(* is doomed has no ZFS snapshot, and none can come any more unless the    *)
(* run was slower than the grace (DoomedInv).                              *)
(***************************************************************************)
Early == {"new", "prune", "step", "qm"}
Over  == {"thaw", "final prune", "end"}

MemTypes ==
  /\ conf \subseteq Section
  /\ disk \subseteq Run /\ state \subseteq Name \X Run
  /\ now \in 0..MaxTime /\ memkeep \in Caps
  /\ at \in [Run -> Early \cup {"reap", "zfs"} \cup Over]
  /\ doomed \in [Run -> SUBSET Name]
  /\ taken \in [Run -> BOOLEAN] /\ late \subseteq Run /\ slow \subseteq Run

ConfInv ==
  /\ IsFiniteSet(conf)
  /\ \A s, t \in conf : s.name = t.name => s = t
  /\ \A s \in conf : IF s.zn \in Run THEN s.tagged /\ s.name = NameOf[s.zn]
                                    ELSE s.name \in Foreign

OnceInv ==
  /\ \A s \in conf : s.zn \in Run => at[s.zn] \notin Early /\ s.zn \notin late
  /\ \A r \in late : at[r] \notin Early

NoZfs(r)  == r \notin disk /\ \A p \in state : p[2] # r
ZfsInv    == \A r \in Run : at[r] \notin Over => NoZfs(r)

\* The run r is over and its ZFS snapshot is gone, or it will be slow.
Lost(r) ==
  IF at[r] \in Over
  THEN r \notin slow => r \notin disk /\ <<NameOf[r], r>> \notin state
  ELSE \A s \in conf : s.zn = r => now - s.time >= Grace

DoomedInv ==
  memkeep = 0 =>
    \A q, r \in Run : NameOf[r] \in doomed[q] =>
      at[r] \notin Early /\ r \notin late /\ ((\E s \in conf : s.zn = r) => Lost(r))

MemInv == MemTypes /\ ConfInv /\ OnceInv /\ ZfsInv /\ DoomedInv

-----------------------------------------------------------------------------
\* Nothing is doomed or taken yet.
LEMMA InitMemInv == MemInit => MemInv
<1> SUFFICES ASSUME MemInit PROVE MemInv
  OBVIOUS
<1> USE MemSnapsConstants DEF MemInit
<1>1. PICK marked \in SUBSET Foreign :
        conf = {[name |-> n, zn |-> 0, time |-> 0, tagged |-> n \in marked] : n \in Foreign}
  OBVIOUS
<1> DEFINE Theirs(n) == [name |-> n, zn |-> 0, time |-> 0, tagged |-> n \in marked]
<1>2. conf = {Theirs(n) : n \in Foreign}
  BY <1>1
<1>3. \A n \in Foreign : Theirs(n) \in Section /\ Theirs(n).name = n /\ Theirs(n).zn = 0
  BY DEF Section, Name
<1> HIDE DEF Theirs
<1>4. MemTypes /\ ConfInv
  <2>1. conf \subseteq Section
    BY <1>2, <1>3
  <2>2. MemTypes
    BY <2>1 DEF MemTypes, Early
  <2>3. IsFiniteSet(conf)
    <3> DEFINE f == [n \in Foreign |-> Theirs(n)]
    <3>1. f \in Surjection(Foreign, conf)
      BY <1>2 DEF Surjection
    <3> QED BY <3>1, FS_Surjection
  <2> QED BY <1>2, <1>3, <2>2, <2>3 DEF ConfInv
<1>5. OnceInv
  BY <1>2, <1>3 DEF OnceInv
<1>6. ZfsInv /\ DoomedInv
  BY DEF ZfsInv, NoZfs, DoomedInv
<1> QED BY <1>4, <1>5, <1>6 DEF MemInv

\* A step that only takes away, and sends no run back, breaks nothing.
LEMMA LessIsSafe ==
  ASSUME MemInv,
         conf' \subseteq conf, state' \subseteq state, disk' \subseteq disk,
         late' \subseteq late, UNCHANGED <<now, memkeep, taken, slow>>,
         doomed' \in [Run -> SUBSET Name],
         \A r \in Run : doomed'[r] \subseteq doomed[r],
         at' \in [Run -> Early \cup {"reap", "zfs"} \cup Over],
         \A r \in Run : /\ at'[r] \in Early => at[r] \in Early
                        /\ at'[r] \in Over <=> at[r] \in Over
  PROVE  MemInv'
<1> USE DEF MemInv
<1>1. MemTypes'
  BY DEF MemTypes
<1>2. ConfInv'
  <2>1. IsFiniteSet(conf')
    BY FS_Subset DEF ConfInv
  <2> QED BY <2>1 DEF ConfInv
<1>3. OnceInv'
  BY DEF OnceInv, MemTypes
<1>4. ZfsInv'
  BY DEF ZfsInv, NoZfs
<1>5. DoomedInv'
  BY DEF DoomedInv, Lost
<1> QED BY <1>1, <1>2, <1>3, <1>4, <1>5

\* Delete takes away what has the name, or nothing.
LEMMA DeleteFacts ==
  ASSUME NEW n, Delete(n)
  PROVE  /\ conf' \subseteq conf /\ state' \subseteq state
         /\ \A s \in conf : s.name # n => s \in conf'
BY DEF Delete, Without

-----------------------------------------------------------------------------
(* Looking for what is not needed any more. *)

\* A section is only found orphaned when its ZFS snapshot, if it names one, is
\* gone from both zvols, and it is not young.
LEMMA OrphanFacts ==
  ASSUME StateIsKnown, MemTypes, NEW s, NEW keep, MayBeOrphan(s, keep)
  PROVE  /\ s.zn \notin disk /\ <<s.name, s.zn>> \notin state
         /\ s.name # keep /\ now - s.time >= Grace
<1>1. s.name # keep /\ now - s.time >= Grace /\ "gone" \in Learnt(s)
  BY DEF MayBeOrphan, OldEnough
<1>2. CASE s.zn = 0
  BY <1>1, <1>2, MemSnapsConstants DEF MemTypes
<1>3. CASE s.zn # 0
  BY <1>1, <1>3 DEF StateIsKnown, Learnt, SnapshotOfVM, Lookup, Answers
<1> QED BY <1>1, <1>2, <1>3

\* What Look dooms is tagged, and is orphaned or over the cap.
LEMMA LookFacts ==
  ASSUME MemTypes, NEW r \in Run, NEW keep, NEW final, Look(r, keep, final)
  PROVE  /\ doomed' \in [Run -> SUBSET Name]
         /\ \A q \in Run : q # r => doomed'[q] = doomed[q]
         /\ memkeep = 0 => \A n \in doomed'[r] :
              \E s \in Tagged(conf) : s.name = n /\ MayBeOrphan(s, keep)
<1>1. PICK orphans \in SUBSET {s \in Tagged(conf) : MayBeOrphan(s, keep)} :
        doomed' = [doomed EXCEPT ![r] =
          NamesOf(orphans) \cup
          IF final /\ memkeep > 0 THEN NamesOf(OverCap(Tagged(conf) \ orphans, keep))
                                  ELSE {}]
  BY DEF Look
<1> DEFINE names == NamesOf(orphans) \cup
          IF final /\ memkeep > 0 THEN NamesOf(OverCap(Tagged(conf) \ orphans, keep))
                                  ELSE {}
<1>2. names \subseteq Name
  <2>1. \A secs \in SUBSET Tagged(conf) : NamesOf(secs) \subseteq Name
    BY DEF NamesOf, Tagged, MemTypes, Section
  <2>2. OverCap(Tagged(conf) \ orphans, keep) \subseteq Tagged(conf)
    BY DEF OverCap
  <2> QED BY <2>1, <2>2
<1>3. memkeep = 0 => names = NamesOf(orphans)
  BY MemSnapsConstants
<1>4. doomed' = [doomed EXCEPT ![r] = names]
  BY <1>1
<1> HIDE DEF names
<1>5. /\ doomed' \in [Run -> SUBSET Name]
      /\ doomed'[r] = names /\ \A q \in Run : q # r => doomed'[q] = doomed[q]
  BY <1>2, <1>4 DEF MemTypes
<1> QED BY <1>3, <1>5 DEF NamesOf

\* After a look the invariant holds with the program counter moved on.
LEMMA LookInv ==
  ASSUME DistinctNames, StateIsKnown, MemInv, NEW r \in Run, NEW keep, NEW final,
         Look(r, keep, final),
         UNCHANGED <<conf, disk, state, now, memkeep, taken, late, slow>>,
         at' \in [Run -> Early \cup {"reap", "zfs"} \cup Over],
         \A q \in Run : (at'[q] \in Early <=> at[q] \in Early)
                          /\ (at'[q] \in Over <=> at[q] \in Over)
  PROVE  MemInv'
<1> USE DEF MemInv
<1>1. MemTypes'
  BY LookFacts DEF MemTypes
<1>3. ConfInv' /\ ZfsInv'
  BY DEF ConfInv, ZfsInv, NoZfs
<1>4. OnceInv'
  BY DEF OnceInv, MemTypes
<1>5. DoomedInv'
  <2> SUFFICES ASSUME memkeep = 0, NEW q \in Run, NEW p \in Run,
                      NameOf[p] \in doomed'[q]
               PROVE  /\ at[p] \notin Early /\ p \notin late
                      /\ (\E s \in conf : s.zn = p) => Lost(p)
    BY DEF DoomedInv, Lost
  <2>1. CASE q # r
    BY <2>1, LookFacts DEF DoomedInv
  <2>2. CASE q = r
    <3>1. PICK s \in Tagged(conf) : s.name = NameOf[p] /\ MayBeOrphan(s, keep)
      BY <2>2, LookFacts
    <3>2. s \in conf /\ s.zn = p
      BY <3>1 DEF Tagged, ConfInv, DistinctNames
    <3>3. p \notin disk /\ <<NameOf[p], p>> \notin state /\ now - s.time >= Grace
      BY <3>1, <3>2, OrphanFacts
    <3>4. at[p] \notin Early /\ p \notin late
      BY <3>2 DEF OnceInv
    <3>5. \A t \in conf : t.zn = p => t = s
      BY <3>1, <3>2 DEF ConfInv
    <3> QED BY <3>3, <3>4, <3>5 DEF Lost
  <2> QED BY <2>1, <2>2
<1> QED BY <1>1, <1>3, <1>4, <1>5

-----------------------------------------------------------------------------
(* The steps of a run, of the clock and of the others. *)

\* The run r makes its snapshot, by qm or by the worker that qm has left.
LEMMA CreateInv ==
  ASSUME DistinctNames, MemInv, NEW r \in Run,
         at[r] = "qm" \/ r \in late,
         Named(NameOf[r]) = {}, conf' = conf \cup {Own(r)},
         IF at[r] = "qm" THEN late' = late ELSE late' = late \ {r},
         at' \in [Run -> Early \cup {"reap", "zfs"} \cup Over],
         \A q \in Run : IF q = r /\ at[r] = "qm" THEN at'[q] \in {"reap", "zfs"}
                                                ELSE at'[q] = at[q],
         taken' \in [Run -> BOOLEAN],
         UNCHANGED <<disk, state, now, memkeep, doomed, slow>>
  PROVE  MemInv'
<1> USE DEF MemInv
<1>1. /\ Own(r) \in Section /\ Own(r).tagged /\ Own(r).zn = r
      /\ Own(r).name = NameOf[r] /\ Own(r).time = now
  BY DEF Own, Section, Name, MemTypes
<1> HIDE DEF Own
<1>2. MemTypes'
  BY <1>1 DEF MemTypes
<1>3. ConfInv'
  <2>1. IsFiniteSet(conf')
    BY FS_AddElement DEF ConfInv
  <2> QED BY <1>1, <2>1 DEF ConfInv, Named
<1>4. r \notin late' /\ at'[r] \notin Early
  BY DEF OnceInv, Early
<1>5. OnceInv'
  <2>1. late' \subseteq late /\ late \subseteq Run
    BY DEF MemTypes
  <2>2. \A s \in conf' : s = Own(r) \/ s \in conf
    OBVIOUS
  <2> QED BY <1>1, <1>4, <2>1, <2>2 DEF OnceInv
<1>6. ZfsInv'
  BY DEF ZfsInv, NoZfs, Over
<1>7. DoomedInv'
  <2> SUFFICES ASSUME memkeep = 0, NEW q \in Run, NEW p \in Run, NameOf[p] \in doomed[q]
               PROVE  /\ at'[p] \notin Early /\ p \notin late'
                      /\ (\E s \in conf' : s.zn = p) => Lost(p)'
    BY DEF DoomedInv
  <2>1. at[p] \notin Early /\ p \notin late /\ ((\E s \in conf : s.zn = p) => Lost(p))
    BY DEF DoomedInv
  <2>2. p # r
    BY <2>1 DEF Early
  <2>3. at'[p] = at[p] /\ \A s \in conf' : s.zn = p => s \in conf
    BY <1>1, <2>2
  <2>4. p \notin late'
    BY <2>1
  <2>5. ASSUME \E s \in conf' : s.zn = p PROVE Lost(p)'
    BY <2>1, <2>3, <2>5 DEF Lost
  <2> QED BY <2>1, <2>3, <2>4, <2>5
<1> QED BY <1>2, <1>3, <1>5, <1>6, <1>7

\* qm gives up and may leave a worker behind.
LEMMA GiveUpInv ==
  ASSUME MemInv, NEW r \in Run, at[r] = "qm",
         late' \in {late, late \cup {r}}, Goto(r, "reap"),
         UNCHANGED <<conf, disk, state, now, memkeep, doomed, taken, slow>>
  PROVE  MemInv'
<1> USE DEF MemInv, Goto
<1>1. at' \in [Run -> Early \cup {"reap", "zfs"} \cup Over]
  BY DEF MemTypes
<1>2. /\ at'[r] = "reap" /\ at[r] \in Early /\ at[r] \notin Over /\ at'[r] \notin Early
      /\ at'[r] \notin Over
      /\ \A q \in Run : q # r => at'[q] = at[q]
  BY DEF MemTypes, Early, Over
<1>3. MemTypes'
  BY <1>1 DEF MemTypes
<1>4. ConfInv'
  BY DEF ConfInv
<1>5. OnceInv'
  BY <1>2 DEF OnceInv, MemTypes
<1>6. ZfsInv'
  BY <1>2 DEF ZfsInv, NoZfs
<1>7. DoomedInv'
  BY <1>2 DEF DoomedInv, Lost
<1> QED BY <1>3, <1>4, <1>5, <1>6, <1>7

\* The ZFS snapshot of r comes before anybody has doomed r's memory snapshot, or
\* r was slow.
LEMMA ZfsStepInv ==
  ASSUME MemInv, NEW r \in Run, Zfs(r)
  PROVE  MemInv'
<1> USE DEF MemInv, Zfs, Goto
<1>1. at' \in [Run -> Early \cup {"reap", "zfs"} \cup Over]
  BY DEF MemTypes, Over
<1>2. /\ at[r] = "zfs" /\ at'[r] \in Over /\ at'[r] \notin Early
      /\ at[r] \notin Over /\ at[r] \notin Early
      /\ \A q \in Run : q # r => at'[q] = at[q]
  BY DEF MemTypes, Early, Over
<1>3. /\ \A q \in disk' : q \in disk \/ q = r
      /\ \A p \in state' : p \in state \/ p[2] = r
      /\ \A q \in Run, n \in Name : <<n, q>> \in state' => <<n, q>> \in state \/ q = r
  OBVIOUS
<1>4. \A s \in conf : s.name \in Name
  BY DEF MemTypes, Section
<1>5. /\ disk' \subseteq Run /\ state' \subseteq Name \X Run
      /\ slow \subseteq slow' /\ slow' \subseteq slow \cup {r}
  BY <1>4 DEF MemTypes, Tagged
<1>6. MemTypes'
  BY <1>1, <1>5 DEF MemTypes
<1>7. ConfInv'
  BY DEF ConfInv
<1>8. OnceInv'
  BY <1>2 DEF OnceInv, MemTypes
<1>9. ZfsInv'
  BY <1>2, <1>3 DEF ZfsInv, NoZfs
<1>10. DoomedInv'
  <2> SUFFICES ASSUME memkeep = 0, NEW q \in Run, NEW p \in Run, NameOf[p] \in doomed[q]
               PROVE  /\ at'[p] \notin Early /\ p \notin late
                      /\ (\E s \in conf : s.zn = p) => Lost(p)'
    BY DEF DoomedInv
  <2>1. at'[p] \notin Early /\ p \notin late /\ ((\E s \in conf : s.zn = p) => Lost(p))
    BY <1>2 DEF DoomedInv
  <2>2. CASE p = r
    <3>1. ASSUME NEW s \in conf, s.zn = r PROVE r \in slow'
      <4>1. now - s.time >= Grace /\ s.tagged
        BY <1>2, <2>1, <2>2, <3>1 DEF Lost, ConfInv
      <4> QED BY <3>1, <4>1 DEF Tagged, OldEnough
    <3> QED BY <1>2, <2>1, <2>2, <3>1 DEF Lost
  <2>3. CASE p # r
    <3>1. NameOf[p] \in Name
      BY DEF Name
    <3> QED BY <1>2, <1>3, <1>5, <2>1, <2>3, <3>1 DEF Lost
  <2> QED BY <2>1, <2>2, <2>3
<1> QED BY <1>6, <1>7, <1>8, <1>9, <1>10

\* As time passes what is old enough stays so.
LEMMA TickInv ==
  ASSUME MemInv, Tick
  PROVE  MemInv'
<1> USE DEF MemInv, Tick
<1>1. now \in Nat /\ MaxTime \in Nat /\ Grace \in Nat /\ now' = now + 1 /\ now' \in 0..MaxTime
  BY MemSnapsConstants DEF MemTypes
<1>2. MemTypes'
  BY <1>1 DEF MemTypes
<1>3. ConfInv' /\ OnceInv' /\ ZfsInv'
  BY DEF ConfInv, OnceInv, ZfsInv, NoZfs
<1>4. \A s \in conf : now - s.time >= Grace => now' - s.time >= Grace
  BY <1>1, MemSnapsConstants DEF MemTypes, Section
<1>5. DoomedInv'
  BY <1>4 DEF DoomedInv, Lost
<1> QED BY <1>2, <1>3, <1>5

LEMMA NextMemInv ==
  ASSUME DistinctNames, StateIsKnown, MemInv, [MemNext]_memVars
  PROVE  MemInv'
<1> USE DEF MemInv
<1>1. ASSUME NEW r \in Run, RunStep(r) PROVE MemInv'
  <2>1. CASE Start(r)
    BY <2>1, LookInv DEF Start, Goto, MemTypes, Early, Over
  <2>2. CASE Prune(r)
    <3>1. PICK n \in doomed[r] :
            Delete(n) /\ doomed' = [doomed EXCEPT ![r] = @ \ {n}]
      BY <2>2 DEF Prune
    <3> QED BY <2>2, <3>1, DeleteFacts, LessIsSafe DEF Prune, MemTypes
  <2>3. CASE PruneEnd(r)
    BY <2>3, LessIsSafe DEF PruneEnd, Goto, MemTypes, Early, Over
  <2>4. CASE NoMemory(r)
    BY <2>4, LessIsSafe DEF NoMemory, Goto, MemTypes, Early, Over
  <2>5. CASE Leftover(r)
    <3>1. conf' \subseteq conf /\ state' \subseteq state
      BY <2>5, DeleteFacts DEF Leftover
    <3> QED BY <2>5, <3>1, LessIsSafe DEF Leftover, Goto, MemTypes, Early, Over
  <2>6. CASE Qm(r)
    <3>1. CASE Named(NameOf[r]) = {} /\ conf' = conf \cup {Own(r)} /\ late' = late
      <4>1. /\ at[r] = "qm" /\ at \in [Run -> Early \cup {"reap", "zfs"} \cup Over]
            /\ UNCHANGED <<disk, state, now, memkeep, doomed, slow>>
        BY <2>6 DEF Qm, MemTypes, Early
      <4>2. taken' \in [Run -> BOOLEAN]
        BY <2>6 DEF Qm, MemTypes
      <4>3. at' = [at EXCEPT ![r] = "zfs"] \/ at' = [at EXCEPT ![r] = "reap"]
        BY <2>6 DEF Qm, Goto
      <4> QED BY <3>1, <4>1, <4>2, <4>3, CreateInv
    <3>2. CASE Goto(r, "reap") /\ UNCHANGED <<conf, taken>>
                 /\ late' \in {late, late \cup {r}}
      BY <2>6, <3>2, GiveUpInv DEF Qm
    <3> QED BY <2>6, <3>1, <3>2 DEF Qm
  <2>7. CASE Reap(r)
    <3>1. conf' \subseteq conf /\ state' \subseteq state
      BY <2>7, DeleteFacts DEF Reap
    <3> QED BY <2>7, <3>1, LessIsSafe DEF Reap, Goto, MemTypes, Early, Over
  <2>8. CASE Zfs(r)
    BY <2>8, ZfsStepInv
  <2>9. CASE FinalLook(r)
    BY <2>9, LookInv DEF FinalLook, Goto, MemTypes, Early, Over
  <2> QED BY <1>1, <2>1, <2>2, <2>3, <2>4, <2>5, <2>6, <2>7, <2>8, <2>9 DEF RunStep
<1>2. ASSUME NEW r \in Run, LateWorker(r) PROVE MemInv'
  <2>1. CASE Named(NameOf[r]) = {} /\ conf' = conf \cup {Own(r)}
    <3>1. at[r] # "qm"
      BY <1>2 DEF LateWorker, OnceInv, Early
    <3> QED BY <1>2, <2>1, <3>1, CreateInv DEF LateWorker, MemTypes
  <2>2. CASE UNCHANGED conf
    BY <1>2, <2>2, LessIsSafe DEF LateWorker, MemTypes
  <2> QED BY <1>2, <2>1, <2>2 DEF LateWorker
<1>3. ASSUME NEW r \in Run, Retention(r) PROVE MemInv'
  BY <1>3, LessIsSafe DEF Retention, MemTypes
<1>4. ASSUME NEW s \in conf, Rollback(s) PROVE MemInv'
  BY <1>4, LessIsSafe DEF Rollback, MemTypes
<1>5. CASE Tick
  BY <1>5, TickInv
<1>6. CASE UNCHANGED memVars
  BY <1>6, LessIsSafe DEF memVars, MemTypes
<1> QED BY <1>1, <1>2, <1>3, <1>4, <1>5, <1>6 DEF MemNext

\* The runs, retention, restores and the clock keep the invariant.
THEOREM MemInvariant ==
  ASSUME DistinctNames, StateIsKnown
  PROVE  MemSpec => []MemInv
BY InitMemInv, NextMemInv, PTL DEF MemSpec

\* Without a cap a memory snapshot stays as long as its ZFS snapshot exists, when
\* that came within the grace: no list that was made before, nor a leftover's
\* removal, takes it away.
THEOREM NeededSnapshotStays ==
  ASSUME DistinctNames, StateIsKnown
  PROVE  MemSpec => KeptWhileNeeded
<1>1. MemInv /\ [MemNext]_memVars =>
        [memkeep = 0 =>
           \A s \in conf : RestorePoint(s) /\ s.zn \notin slow => s \in conf']_memVars
  <2> SUFFICES ASSUME MemInv, MemNext, memkeep = 0,
                      NEW s \in conf, RestorePoint(s), s.zn \notin slow, s \notin conf'
               PROVE  FALSE
    OBVIOUS
  <2> USE DEF MemInv
  <2>1. s.zn \in Run /\ s.name = NameOf[s.zn]
    BY DEF RestorePoint, ConfInv, MemTypes
  <2>2. ~NoZfs(s.zn) /\ at[s.zn] \in Over
    BY <2>1 DEF RestorePoint, NoZfs, ZfsInv
  <2>3. PICK r \in Run : Prune(r) \/ Leftover(r) \/ Reap(r)
    BY DEF MemNext, RunStep, Start, PruneEnd, NoMemory, Qm, Zfs, FinalLook, LateWorker,
           Retention, Rollback, Tick
  <2>4. CASE Prune(r)
    <3>1. s.name \in doomed[r]
      BY <2>4, DeleteFacts DEF Prune
    <3>2. Lost(s.zn)
      BY <2>1, <2>4, <3>1 DEF DoomedInv, Prune
    <3> QED BY <2>1, <2>2, <3>2 DEF Lost, RestorePoint
  <2>5. CASE Leftover(r) \/ Reap(r)
    <3>1. s.name = NameOf[r] /\ at[r] \in {"step", "reap"}
      BY <2>5, DeleteFacts DEF Leftover, Reap
    <3>2. s.zn = r
      BY <2>1, <3>1 DEF DistinctNames
    <3> QED BY <2>2, <3>1, <3>2 DEF Over
  <2> QED BY <2>3, <2>4, <2>5
<1> QED BY <1>1, MemInvariant, PTL DEF MemSpec, KeptWhileNeeded

-----------------------------------------------------------------------------
(* The cap. *)

\* How many of them are newer.
Rank(secs, s) == Cardinality({t \in secs : Before(t, s)})

\* Sections of different names are in an order, newest first.
LEMMA BeforeIsOrder ==
  ASSUME NEW s, NEW t, NEW u,
         s.time \in Nat, t.time \in Nat, u.time \in Nat,
         s.name \in Nat, t.name \in Nat, u.name \in Nat
  PROVE  /\ ~Before(s, s)
         /\ Before(s, t) /\ Before(t, u) => Before(s, u)
         /\ s.name # t.name => Before(s, t) \/ Before(t, s)
BY DEF Before

\* What the order compares are numbers.
LEMMA SectionFacts == \A s \in Section : s.time \in Nat /\ s.name \in Nat
<1>1. Name \subseteq Nat
  BY MemSnapsConstants DEF Name
<1>2. 0..MaxTime \subseteq Nat
  BY MemSnapsConstants
<1> QED BY <1>1, <1>2 DEF Section

\* The ranks are numbers, and follow the order.
LEMMA RankFacts ==
  ASSUME NEW secs, IsFiniteSet(secs), secs \subseteq Section,
         NEW s \in secs, NEW t \in secs
  PROVE  /\ Rank(secs, s) \in Nat
         /\ Before(s, t) => Rank(secs, s) < Rank(secs, t)
<1> DEFINE Newer(u) == {x \in secs : Before(x, u)}
<1>1. \A x \in secs : x.time \in Nat /\ x.name \in Nat
  BY SectionFacts
<1>2. \A u \in secs : IsFiniteSet(Newer(u)) /\ Cardinality(Newer(u)) \in Nat
  BY FS_Subset, FS_CardinalityType
<1>3. ASSUME Before(s, t) PROVE Cardinality(Newer(s)) < Cardinality(Newer(t))
  <2>1. Newer(s) \subseteq Newer(t)
    BY <1>1, <1>3, BeforeIsOrder
  <2>2. s \in Newer(t) /\ s \notin Newer(s)
    BY <1>1, <1>3, BeforeIsOrder
  <2> HIDE DEF Newer
  <2>3. Cardinality(Newer(s)) <= Cardinality(Newer(t)) /\ Cardinality(Newer(s)) # Cardinality(Newer(t))
    BY <1>2, <2>1, <2>2, FS_Subset
  <2> QED BY <1>2, <2>3
<1> QED BY <1>2, <1>3 DEF Rank

\* No more than k can have a rank below k.
LEMMA AtMostCap ==
  ASSUME NEW secs, IsFiniteSet(secs), secs \subseteq Section,
         \A s, t \in secs : s.name = t.name => s = t,
         NEW k \in Nat,
         NEW kept \in SUBSET secs, \A s \in kept : Rank(secs, s) < k
  PROVE  Cardinality(kept) <= k
<1> DEFINE f == [s \in kept |-> Rank(secs, s)]
<1>1. \A x \in secs : x.time \in Nat /\ x.name \in Nat
  BY SectionFacts
<1>2. \A s \in kept : Rank(secs, s) \in 0..(k - 1)
  BY RankFacts
<1>3. ASSUME NEW s \in kept, NEW t \in kept, s # t PROVE Rank(secs, s) # Rank(secs, t)
  <2>1. Before(s, t) \/ Before(t, s)
    BY <1>1, <1>3, BeforeIsOrder
  <2> QED BY <2>1, RankFacts
<1>4. f \in Injection(kept, 0..(k - 1))
  <2>1. f \in [kept -> 0..(k - 1)]
    BY <1>2
  <2>2. IsInjective(f)
    <3> SUFFICES ASSUME NEW s \in kept, NEW t \in kept, f[s] = f[t]
                 PROVE  s = t
      BY DEF IsInjective
    <3> QED BY <1>3
  <2> QED BY <2>1, <2>2 DEF Injection
<1> HIDE DEF f
<1>5. IsFiniteSet(0..(k - 1)) /\ Cardinality(0..(k - 1)) = k
  BY FS_Interval
<1> QED BY <1>4, <1>5, FS_Injection

\* The last prune of a run keeps the run's own snapshot, at most memkeep others,
\* and of those it might have kept the newest.
THEOREM CapLeavesNewest ==
  ASSUME DistinctNames, StateIsKnown
  PROVE  MemSpec => CapKeepsNewest
<1>1. ASSUME MemInv, NEW r \in Run, FinalLook(r), memkeep > 0
      PROVE  LET own  == Named(NameOf[r])
                 left == {s \in Tagged(conf) : s.name \notin doomed'[r]}
             IN /\ Tagged(own) \subseteq left
                /\ Cardinality(left \ own) <= memkeep
                /\ \A s \in left \ own, t \in Tagged(conf) \ left :
                     RestorePoint(t) => Before(s, t)
  <2> DEFINE keep == NameOf[r]
             left == {s \in Tagged(conf) : s.name \notin doomed'[r]}
  <2> USE DEF MemInv
  <2>1. PICK orphans \in SUBSET {s \in Tagged(conf) : MayBeOrphan(s, keep)} :
          doomed' = [doomed EXCEPT ![r] =
            NamesOf(orphans) \cup NamesOf(OverCap(Tagged(conf) \ orphans, keep))]
    BY <1>1 DEF FinalLook, Look
  <2> DEFINE secs == Tagged(conf) \ orphans
  <2>2. doomed'[r] = NamesOf(orphans) \cup NamesOf(OverCap(secs, keep))
    BY <2>1, <1>1 DEF MemTypes
  <2>3. \A s, t \in Tagged(conf) : s.name = t.name => s = t
    BY <1>1 DEF ConfInv, Tagged
  <2>4. IsFiniteSet(secs) /\ secs \subseteq Section
    BY <1>1, FS_Subset DEF ConfInv, MemTypes, Tagged
  <2>5. \A s \in Tagged(conf) :
          s \notin left <=> s \in orphans \/ s \in OverCap(secs, keep)
    BY <2>2, <2>3 DEF NamesOf, OverCap
  <2>6. \A s \in orphans : s \in Tagged(conf) /\ MayBeOrphan(s, keep)
    BY <2>1
  <2> HIDE DEF left, secs
  <2>7. Tagged(Named(keep)) \subseteq left
    <3> SUFFICES ASSUME NEW s \in Tagged(conf), s.name = keep PROVE s \in left
      BY DEF Tagged, Named
    <3> QED BY <2>5, <2>6 DEF MayBeOrphan, OverCap
  <2>8. \A s \in left \ Named(keep) : s \in secs /\ Rank(secs, s) < memkeep
    <3> SUFFICES ASSUME NEW s \in left \ Named(keep)
                 PROVE  s \in secs /\ Rank(secs, s) < memkeep
      OBVIOUS
    <3>1. s \in Tagged(conf) /\ s.name # keep /\ s \in secs
      BY <2>5 DEF left, secs, Tagged, Named
    <3>2. ~(Rank(secs, s) >= memkeep)
      BY <2>5, <3>1 DEF left, OverCap, Rank
    <3> QED BY <1>1, <2>4, <3>1, <3>2, RankFacts, MemSnapsConstants DEF MemTypes
  <2>9. memkeep \in Nat
    BY <1>1, MemSnapsConstants DEF MemTypes
  <2>10. Cardinality(left \ Named(keep)) <= memkeep
    <3>1. \A s, t \in secs : s.name = t.name => s = t
      BY <2>3 DEF secs
    <3> QED BY <2>4, <2>8, <2>9, <3>1, AtMostCap
  <2>11. ASSUME NEW s \in left \ Named(keep), NEW t \in Tagged(conf) \ left,
                RestorePoint(t)
         PROVE  Before(s, t)
    <3>1. t \notin orphans
      BY <1>1, <2>6, <2>11, OrphanFacts DEF RestorePoint
    <3>2. t \in secs /\ Rank(secs, t) >= memkeep
      BY <2>5, <2>11, <3>1 DEF OverCap, Rank, secs
    <3>3. s \in secs /\ Rank(secs, s) < memkeep
      BY <2>8, <2>11
    <3>4. s.name # t.name
      BY <2>3, <2>9, <2>11, <3>2, <3>3 DEF secs, left
    <3>5. Before(s, t) \/ Before(t, s)
      BY <2>4, <3>2, <3>3, <3>4, SectionFacts, BeforeIsOrder
    <3>6. Rank(secs, s) \in Nat /\ Rank(secs, t) \in Nat
          /\ (Before(t, s) => Rank(secs, t) < Rank(secs, s))
      BY <2>4, <3>2, <3>3, RankFacts
    <3> QED BY <2>9, <3>2, <3>3, <3>5, <3>6
  <2> QED BY <2>7, <2>10, <2>11 DEF left
<1>2. MemInv /\ [MemNext]_memVars =>
        [\A r \in Run : at[r] = "thaw" /\ at'[r] = "final prune" /\ memkeep > 0 =>
           LET own  == Named(NameOf[r])
               left == {s \in Tagged(conf) : s.name \notin doomed'[r]}
           IN /\ Tagged(own) \subseteq left
              /\ Cardinality(left \ own) <= memkeep
              /\ \A s \in left \ own, t \in Tagged(conf) \ left :
                   RestorePoint(t) => Before(s, t)]_memVars
  <2>1. ASSUME MemInv, MemNext, NEW r \in Run, at[r] = "thaw", at'[r] = "final prune"
        PROVE  FinalLook(r)
    BY <2>1 DEF MemNext, RunStep, Start, Prune, PruneEnd, NoMemory, Leftover, Qm, Reap,
       Zfs, FinalLook, LateWorker, Retention, Rollback, Tick, Goto, MemInv, MemTypes
  <2> QED BY <1>1, <2>1
<1> QED BY <1>2, MemInvariant, PTL DEF MemSpec, CapKeepsNewest
=============================================================================
