------------------------------ MODULE MemSnaps ------------------------------
(***************************************************************************)
(* freezer/qm.go: the memory snapshots of one Proxmox VM over several      *)
(* runs.  A run removes those that are no longer needed, takes its own,    *)
(* then its ZFS snapshot, and removes again.  Runs may overlap; retention  *)
(* and restores change the ZFS snapshots meanwhile.                        *)
(***************************************************************************)
EXTENDS Naturals, FiniteSets

CONSTANTS Run,        \* the runs; a run's number is also its ZFS snapshot's name
          NameOf,     \* pveSnapName: the VM snapshot name for a ZFS snapshot's
          Foreign,    \* names of VM snapshots somebody else made
          Unanswered, \* queries zfs may leave unanswered: "disk", "state"
          Caps,       \* values of memkeep
          Grace,      \* orphanGrace, in ticks of the clock
          MaxTime     \* bound on the clock

ASSUME MemSnapsConstants ==
  /\ Run \subseteq Nat \ {0} /\ NameOf \in [Run -> Nat \ {0}]
  /\ Foreign \subseteq Nat \ {0} /\ IsFiniteSet(Foreign)
  /\ Unanswered \subseteq {"disk", "state"} /\ Caps \subseteq Nat
  /\ Grace \in Nat \ {0} /\ MaxTime \in Nat

VARIABLES
  conf,     \* the snapshot sections of the VM's config
  disk,     \* the ZFS snapshots of the VM's disk zvol
  state,    \* the ZFS snapshots of the vmstate zvols: name of the zvol's owner, snapshot
  now,      \* the clock
  memkeep,  \* memkeep of the policy, 0 for no cap
  at,       \* per run: program counter
  doomed,   \* per run: pruneMem's list of names
  taken,    \* per run: the memory snapshot was taken (strategy qm-mem)
  late,     \* the runs whose killed qm has left a worker behind
  slow      \* history: the runs whose ZFS snapshot came after the grace

memVars == <<conf, disk, state, now, memkeep, at, doomed, taken, late, slow>>

Name    == {NameOf[r] : r \in Run} \cup Foreign
\* zn is the ZFS snapshot that the description names, 0 when it names none.
Section == [name : Name, zn : Run \cup {0}, time : 0..MaxTime, tagged : BOOLEAN]

Tagged(secs) == {s \in secs : s.tagged}
Named(n)     == {s \in conf : s.name = n}
Without(n)   == {s \in conf : s.name # n}

\* What others have made is untagged, or tagged without a ZFS snapshot's name.
MemInit ==
  /\ \E marked \in SUBSET Foreign :
       conf = {[name |-> n, zn |-> 0, time |-> 0, tagged |-> n \in marked] : n \in Foreign}
  /\ disk = {} /\ state = {} /\ now = 0
  /\ memkeep \in Caps
  /\ at = [r \in Run |-> "new"]
  /\ doomed = [r \in Run |-> {}]
  /\ taken = [r \in Run |-> FALSE]
  /\ late = {} /\ slow = {}

Goto(r, label) == at' = [at EXCEPT ![r] = label]

-----------------------------------------------------------------------------
(* pruneMem *)

\* What zfs says of a snapshot: that it is there, that it is not, or nothing.
Answers(kind, there) ==
  {IF there THEN "exists" ELSE "gone"} \cup
    (IF kind \in Unanswered THEN {"unknown"} ELSE {})

\* zfsSnapshotOfVM: the disk zvol's answer, unless the vmstate zvol has it.
Lookup(d, s) == IF d = "exists" \/ s = "exists" THEN "exists" ELSE d

\* Faulty: only the disk zvol is asked.
SnapshotOfVMDiskOnly(sec) == Answers("disk", sec.zn \in disk)

SnapshotOfVM(sec) ==
  {Lookup(d, s) : d \in Answers("disk", sec.zn \in disk),
                  s \in Answers("state", <<sec.name, sec.zn>> \in state)}

\* What pruneMem learns: without a name it does not ask, and without a dataset
\* of the VM it is as if zfs left the disk unanswered.
Learnt(sec) == IF sec.zn = 0 THEN {"gone"} ELSE SnapshotOfVM(sec)

OldEnough(sec) == now - sec.time >= Grace

\* The sections that may be found orphaned, given what zfs may answer, and the
\* choices of answers.
MayBeOrphan(sec, keep) ==
  sec.name # keep /\ OldEnough(sec) /\ "gone" \in Learnt(sec)
MustBeOrphan(sec, keep) ==
  sec.name # keep /\ OldEnough(sec) /\ Learnt(sec) = {"gone"}

\* sort.SliceStable: newest first.
Before(s, t) == s.time > t.time \/ (s.time = t.time /\ s.name > t.name)

\* Faulty: the cap counts from the oldest.
OverCapOldest(secs, keep) ==
  {s \in secs : s.name # keep /\ Cardinality({t \in secs : Before(s, t)}) >= memkeep}

\* memkeep: what comes after the newest memkeep, the run's own excepted.
OverCap(secs, keep) ==
  {s \in secs : s.name # keep /\ Cardinality({t \in secs : Before(t, s)}) >= memkeep}

NamesOf(secs) == {s.name : s \in secs}

\* keep is a name, or 0 for none.
Look(r, keep, final) ==
  \E orphans \in SUBSET {s \in Tagged(conf) : MayBeOrphan(s, keep)} :
    /\ {s \in Tagged(conf) : MustBeOrphan(s, keep)} \subseteq orphans
    /\ doomed' = [doomed EXCEPT ![r] =
         NamesOf(orphans) \cup
         IF final /\ memkeep > 0 THEN NamesOf(OverCap(Tagged(conf) \ orphans, keep))
                                 ELSE {}]

\* deletePVESnap: by name; it may fail.
Delete(n) ==
  \/ conf' = Without(n) /\ state' = {p \in state : p[1] # n}
  \/ UNCHANGED <<conf, state>>

Prune(r) ==
  /\ at[r] \in {"prune", "final prune"}
  /\ \E n \in doomed[r] :
       /\ Delete(n)
       /\ doomed' = [doomed EXCEPT ![r] = @ \ {n}]
  /\ UNCHANGED <<disk, now, memkeep, at, taken, late, slow>>

PruneEnd(r) ==
  /\ at[r] \in {"prune", "final prune"} /\ doomed[r] = {}
  /\ Goto(r, IF at[r] = "prune" THEN "step" ELSE "end")
  /\ UNCHANGED <<conf, disk, state, now, memkeep, doomed, taken, late, slow>>

-----------------------------------------------------------------------------
(* A run. *)

Start(r) ==
  /\ at[r] = "new"
  /\ Look(r, 0, FALSE)
  /\ Goto(r, "prune")
  /\ UNCHANGED <<conf, disk, state, now, memkeep, taken, late, slow>>

\* The chain has another step that works, or none for memory.
NoMemory(r) ==
  /\ at[r] = "step"
  /\ Goto(r, "zfs")
  /\ UNCHANGED <<conf, disk, state, now, memkeep, doomed, taken, late, slow>>

\* memSnapshot: a tagged snapshot of the same name is taken for a leftover.
Leftover(r) ==
  /\ at[r] = "step"
  /\ IF Tagged(Named(NameOf[r])) # {} THEN Delete(NameOf[r])
                                      ELSE UNCHANGED <<conf, state>>
  /\ Goto(r, "qm")
  /\ UNCHANGED <<disk, now, memkeep, doomed, taken, late, slow>>

Own(r) == [name |-> NameOf[r], zn |-> r, time |-> now, tagged |-> TRUE]

\* qm snapshot: it works, or fails (it must when the name is taken) and may have
\* left its snapshot behind.
Qm(r) ==
  /\ at[r] = "qm"
  /\ \/ /\ Named(NameOf[r]) = {}
        /\ conf' = conf \cup {Own(r)}
        /\ \/ taken' = [taken EXCEPT ![r] = TRUE] /\ Goto(r, "zfs")
           \/ UNCHANGED taken /\ Goto(r, "reap")
        /\ UNCHANGED late
     \/ /\ late' \in {late, late \cup {r}}
        /\ Goto(r, "reap")
        /\ UNCHANGED <<conf, taken>>
  /\ UNCHANGED <<disk, state, now, memkeep, doomed, slow>>

\* The detached worker of a timed-out qm ends after all, or gives up.
LateWorker(r) ==
  /\ r \in late
  /\ late' = late \ {r}
  /\ \/ Named(NameOf[r]) = {} /\ conf' = conf \cup {Own(r)}
     \/ UNCHANGED conf
  /\ UNCHANGED <<disk, state, now, memkeep, at, doomed, taken, slow>>

\* reapMem: whatever has the name goes.
Reap(r) ==
  /\ at[r] = "reap"
  /\ IF Named(NameOf[r]) # {} THEN Delete(NameOf[r]) ELSE UNCHANGED <<conf, state>>
  /\ Goto(r, "zfs")
  /\ UNCHANGED <<disk, now, memkeep, doomed, taken, late, slow>>

\* The recursive ZFS snapshot covers the disk and every vmstate zvol; it may
\* fail, or the run has been aborted.
Zfs(r) ==
  /\ at[r] = "zfs"
  /\ \/ /\ disk' = disk \cup {r}
        /\ state' = state \cup {<<s.name, r>> : s \in Tagged(conf)}
     \/ UNCHANGED <<disk, state>>
  /\ slow' = slow \cup {s.zn : s \in {t \in Tagged(conf) : t.zn = r /\ OldEnough(t)}}
  /\ Goto(r, IF taken[r] THEN "thaw" ELSE "end")
  /\ UNCHANGED <<conf, now, memkeep, doomed, taken, late>>

\* Thaw of qm-mem: prune once more, with the cap.
FinalLook(r) ==
  /\ at[r] = "thaw"
  /\ Look(r, NameOf[r], TRUE)
  /\ Goto(r, "final prune")
  /\ UNCHANGED <<conf, disk, state, now, memkeep, taken, late, slow>>

-----------------------------------------------------------------------------
(* The others. *)

\* The job's retention destroys a ZFS snapshot recursively.
Retention(r) ==
  /\ r \in disk \/ \E p \in state : p[2] = r
  /\ disk' = disk \ {r}
  /\ state' = {p \in state : p[2] # r}
  /\ UNCHANGED <<conf, now, memkeep, at, doomed, taken, late, slow>>

\* A restore: zfs rollback of the disk to a memory snapshot removes the ZFS
\* snapshots taken after it, its own among them, from the disk zvol only.
Rollback(s) ==
  /\ s \in Tagged(conf) /\ s.zn \in disk
  /\ \E gone \in SUBSET disk : s.zn \in gone /\ disk' = disk \ gone
  /\ UNCHANGED <<conf, state, now, memkeep, at, doomed, taken, late, slow>>

\* Time passes, however long the steps of a run take: a chain's timeouts, the
\* freezes of the other guests and --pre-snap-cmd come before its ZFS snapshot.
Tick ==
  /\ now < MaxTime
  /\ now' = now + 1
  /\ UNCHANGED <<conf, disk, state, memkeep, at, doomed, taken, late, slow>>

RunStep(r) ==
  \/ Start(r) \/ Prune(r) \/ PruneEnd(r)
  \/ NoMemory(r) \/ Leftover(r) \/ Qm(r) \/ Reap(r) \/ Zfs(r) \/ FinalLook(r)

MemNext ==
  \/ \E r \in Run : RunStep(r) \/ LateWorker(r) \/ Retention(r)
  \/ \E s \in conf : Rollback(s)
  \/ Tick

MemSpec == MemInit /\ [][MemNext]_memVars

-----------------------------------------------------------------------------
\* Type invariant; qm refuses two sections of one name.
MemTypeOK ==
  /\ conf \subseteq Section
  /\ \A s, t \in conf : s.name = t.name => s = t
  /\ disk \subseteq Run /\ state \subseteq Name \X Run
  /\ now \in 0..MaxTime /\ memkeep \in Caps
  /\ at \in [Run -> {"new", "prune", "step", "qm", "reap", "zfs", "thaw",
                     "final prune", "end"}]
  /\ doomed \in [Run -> SUBSET Name]
  /\ taken \in [Run -> BOOLEAN] /\ late \subseteq Run /\ slow \subseteq Run

\* The restore point of a run is complete: its memory snapshot and, on the disk
\* or the vmstate zvol, the ZFS snapshot that goes with it.
RestorePoint(s) ==
  s.tagged /\ (s.zn \in disk \/ <<s.name, s.zn>> \in state)

\* qm.go:14-17 "The snapshot stays for as long as the ZFS snapshot named in its
\* description exists", for a run that is as quick as qm.go:51-53 takes it to be:
\* when its ZFS snapshot came within the grace of its memory snapshot, no run,
\* its own or a parallel one, removes that while the ZFS snapshot exists, a
\* restore by rollback included and without a cap.
KeptWhileNeeded ==
  [][memkeep = 0 =>
       \A s \in conf : RestorePoint(s) /\ s.zn \notin slow => s \in conf']_memVars

\* The same of a run that was slower than the grace (mem_gaps.cfg): a parallel
\* run that looked before its ZFS snapshot removes the memory snapshot after it.
SlowRunKept ==
  [][memkeep = 0 =>
       \A s \in conf : RestorePoint(s) /\ s.zn \in slow \cap disk => s \in conf']_memVars

\* qm.go:254-255 "keep is the snapshot taken in this run, it is never removed",
\* and the cap keeps the newest: what a run's last prune leaves is its own
\* snapshot and at most memkeep others, each newer than any it removes whose ZFS
\* snapshot exists.
CapKeepsNewest ==
  [][\A r \in Run : at[r] = "thaw" /\ at'[r] = "final prune" /\ memkeep > 0 =>
       LET own  == Named(NameOf[r])
           left == {s \in Tagged(conf) : s.name \notin doomed'[r]}
       IN /\ Tagged(own) \subseteq left
          /\ Cardinality(left \ own) <= memkeep
          /\ \A s \in left \ own, t \in Tagged(conf) \ left :
               RestorePoint(t) => Before(s, t)]_memVars

\* README.md:182-183 "a snapshot a running restore still needs is kept", qm.go:
\* 215-216 "known is false when zfs could not answer (then nothing is removed)":
\* a memory snapshot whose vmstate zvol carries its ZFS snapshot stays.
RestoreSnapshotKept ==
  [][memkeep = 0 => \A s \in Tagged(conf) :
       <<s.name, s.zn>> \in state => s \in conf']_memVars

\* README.md:182 "Only snapshots named cs4s_* with the description
\* cs-freeze4snap ... are ever touched".
ForeignUntouched ==
  [][\A s \in conf : ~s.tagged => s \in conf']_memVars
=============================================================================
