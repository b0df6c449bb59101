--------------------------- MODULE ProxDiscovery ---------------------------
(***************************************************************************)
(* "snap" on a Proxmox host as it finds its guests: freezer/discover.go    *)
(* infers them from the names of the datasets below --dataset, and         *)
(* main.go:runSnap takes four looks at the pool, one after the other: the  *)
(* listing, the pool-wide listing of the cross-pool check, the mountpoint  *)
(* of a container and the ZFS snapshot.  An administrator adds, moves and  *)
(* removes disks meanwhile.  What freezing itself does is in ProxmoxRun.   *)
(***************************************************************************)
EXTENDS FiniteSets, Naturals

CONSTANTS VM, CT,    \* the guests that have disks on this host
          Disk,      \* the disks: vm-<id>-disk-<n> and subvol-<id>-disk-<n>
          Owner,     \* the guest in the name of a disk
          MaxMoves   \* bound: changes to the disks while the command runs

Guests == VM \cup CT

ASSUME OwnerAssumption == Owner \in [Disk -> Guests]
ASSUME MovesAssumption == MaxMoves \in Nat

VARIABLES
  place,     \* where a disk is: "target" is --dataset itself, "below" under it
  moves,     \* how often the administrator has changed something
  opts,      \* --recursive, --include-only, --exclude
  pc,        \* what runSnap does next
  listing,   \* the disks of the first zfs list
  guests,    \* the guests of the run, each with the dataset noted for it
  seen,      \* where the cross-pool check saw each disk
  check,     \* how that check ended
  warned,    \* the guests that the JSON warns of
  frozen,    \* how a guest was frozen: "whole", "fsfreeze" or "no"
  snap,      \* the disks in the ZFS snapshot
  status     \* of the JSON result

runVars  == <<opts, pc, listing, guests, seen, check, warned, frozen, snap, status>>
discVars == <<place, moves, runVars>>

DisksOf(g) == {d \in Disk : Owner[d] = g}

\* The disks that zfs list -r <dataset> names, and those a snapshot of it holds.
Listed   == {d \in Disk : place[d] \in {"target", "below"}}
Captured == IF opts.recursive THEN Listed ELSE {d \in Disk : place[d] = "target"}

\* --dataset is a storage, or the dataset of one disk.
ProxDiscInit ==
  /\ place \in [Disk -> {"target", "below", "outside", "gone"}]
  /\ \A d, e \in Disk : place[d] = "target" =>
       place[e] # "below" /\ (place[e] = "target" => d = e)
  /\ moves = 0
  /\ opts \in [recursive : BOOLEAN, include : SUBSET Guests, exclude : SUBSET Guests]
  /\ pc = "list"
  /\ listing = {} /\ guests = {} /\ warned = {} /\ snap = {}
  /\ seen = [d \in Disk |-> "gone"]
  /\ check = "not yet"
  /\ frozen = [g \in Guests |-> "no"]
  /\ status = "running"

-----------------------------------------------------------------------------
\* The dataset whose mount FIFREEZE holds; nobody can take it away.
Held == {x.dataset : x \in {y \in guests : frozen[y.id] = "fsfreeze"}}

\* A disk appears, is moved (under a new name) or is removed.  Nothing is put
\* below the dataset of a disk, nor takes that disk's name.
DiskChanges(d) ==
  /\ pc # "done" /\ moves < MaxMoves /\ d \notin Held
  /\ \E p \in {"below", "outside", "gone"} \ {place[d]} :
       /\ p = "below" => \A e \in Disk : place[e] # "target"
       /\ place' = [place EXCEPT ![d] = p]
  /\ moves' = moves + 1
  /\ UNCHANGED runVars

Fail == /\ status' = "error"
        /\ pc' = "done"

\* FilterGuests: include-only wins over exclude and picks among the discovered.
Chosen(found) ==
  IF opts.include # {} THEN found \cap opts.include ELSE found \ opts.exclude

\* DiscoverProxmoxGuests and FilterGuests: one guest per VMID, with the dataset
\* that was listed last (whichever that is: names decide the order).
ListGuests ==
  /\ pc = "list"
  /\ \/ Fail /\ UNCHANGED <<listing, guests>>
     \/ LET found == {Owner[d] : d \in Listed}
        IN  \E last \in [found -> Listed] :
              /\ \A g \in found : Owner[last[g]] = g
              /\ guests' = {[id |-> g, dataset |-> last[g]] : g \in Chosen(found)}
              /\ listing' = Listed
              /\ pc' = "check"
              /\ UNCHANGED status
  /\ UNCHANGED <<place, moves, opts, seen, check, warned, frozen, snap>>

Ids == {x.id : x \in guests}

\* Faulty: the check looks only at the dataset noted for the guest.
OutsideNoted(g) ==
  {d \in DisksOf(g) : [id |-> g, dataset |-> d] \in guests /\ place[d] = "outside"}

\* allDiskDatasetsByVMID and the prefix test of DetectCrossPoolDisks.
Outside(g) == {d \in DisksOf(g) : place[d] = "outside"}

\* The check works on a second, pool-wide listing; when it fails, the run goes
\* on and only stderr says so.
CrossPoolCheck ==
  /\ pc = "check"
  /\ \/ /\ check' = "ok"
        /\ seen' = place
        /\ warned' = {g \in Ids : Outside(g) # {}}
     \/ /\ check' = "failed"
        /\ UNCHANGED <<seen, warned>>
  /\ pc' = "freeze"
  /\ UNCHANGED <<place, moves, opts, listing, guests, frozen, snap, status>>

\* Faulty: FIFREEZE goes to the name of the dataset, wherever the disk is now.
FreezeGuestStale(x) ==
  /\ pc = "freeze" /\ frozen[x.id] = "no"
  /\ \E how \in {"whole", "fsfreeze"} :
       /\ how = "fsfreeze" => x.id \in CT
       /\ frozen' = [frozen EXCEPT ![x.id] = how]
  /\ UNCHANGED <<place, moves, opts, pc, listing, guests, seen, check, warned, snap, status>>

\* A Freezer holds a guest as a whole, or, for a container, the mount of the one
\* dataset noted for it; a dataset that is gone from its place has no
\* mountpoint and the container is not frozen.
FreezeGuest(x) ==
  /\ pc = "freeze" /\ frozen[x.id] = "no"
  /\ x.id \in CT => x.dataset \in Listed
  /\ \E how \in {"whole", "fsfreeze"} :
       /\ how = "fsfreeze" => x.id \in CT
       /\ frozen' = [frozen EXCEPT ![x.id] = how]
  /\ UNCHANGED <<place, moves, opts, pc, listing, guests, seen, check, warned, snap, status>>

\* FreezeAll is over (a guest that it could not freeze stays as it is), and a
\* strict chain or --forcefreeze may end the run here.
FreezeEnds ==
  /\ pc = "freeze"
  /\ \/ (\E g \in Ids : frozen[g] = "no") /\ Fail
     \/ pc' = "zfs" /\ UNCHANGED status
  /\ UNCHANGED <<place, moves, opts, listing, guests, seen, check, warned, frozen, snap>>

\* Snapshot: one zfs command, atomic over what it captures.
TakeSnapshot ==
  /\ pc = "zfs"
  /\ \/ Fail /\ UNCHANGED snap
     \/ snap' = Captured /\ status' = "ok" /\ pc' = "done"
  /\ UNCHANGED <<place, moves, opts, listing, guests, seen, check, warned, frozen>>

ProxDiscNext ==
  \/ ListGuests \/ CrossPoolCheck \/ FreezeEnds \/ TakeSnapshot
  \/ \E x \in guests : FreezeGuest(x)
  \/ \E d \in Disk : DiskChanges(d)

ProxDiscSpec == ProxDiscInit /\ [][ProxDiscNext]_discVars

-----------------------------------------------------------------------------
\* Type invariant; a guest is in the run once and with a dataset of its own.
ProxDiscTypeOK ==
  /\ place \in [Disk -> {"target", "below", "outside", "gone"}] /\ moves \in 0..MaxMoves
  /\ pc \in {"list", "check", "freeze", "zfs", "done"}
  /\ listing \subseteq Disk /\ snap \subseteq Disk /\ warned \subseteq Ids
  /\ guests \subseteq [id : Guests, dataset : Disk]
  /\ \A x \in guests : Owner[x.dataset] = x.id /\ (\A y \in guests : x.id = y.id => x = y)
  /\ seen \in [Disk -> {"target", "below", "outside", "gone"}]
  /\ check \in {"not yet", "ok", "failed"}
  /\ frozen \in [Guests -> {"no", "whole", "fsfreeze"}]
  /\ status \in {"running", "ok", "error"}

Done == pc = "done" /\ status = "ok"

\* discover.go:100-105: a recursive snapshot holds every disk of a guest of the run
\* that was there at the cross-pool check and has not gone since, or the JSON
\* warns of the guest, also when the disk came or moved after the first listing.
NoDiskMissedSilently ==
  Done /\ opts.recursive /\ check = "ok" =>
    \A d \in Disk : Owner[d] \in Ids /\ seen[d] # "gone" /\ place[d] # "gone"
                      => \/ d \in snap \/ Owner[d] \in warned
                         \/ seen[d] # "outside" /\ place[d] = "outside"

AtRest(d) ==
  \/ frozen[Owner[d]] = "whole"
  \/ frozen[Owner[d]] = "fsfreeze" /\ [id |-> Owner[d], dataset |-> d] \in guests

\* What the snapshot holds of a guest reported frozen is at rest, however the
\* disks were moved between the looks at the pool, as long as it holds one disk
\* of the guest only.
OneDiskAtRest ==
  Done => \A d \in snap : Owner[d] \in Ids /\ frozen[Owner[d]] # "no"
                            /\ DisksOf(Owner[d]) \cap snap = {d}
                          => AtRest(d)

\* discover.go:26-28 "one Guest entry per VMID, since freeze/thaw operates at the
\* guest level, not per-disk": all disks of a frozen guest are at rest.
AllDisksAtRest ==
  Done => \A d \in snap : Owner[d] \in Ids /\ frozen[Owner[d]] # "no" => AtRest(d)

\* README.md:48 "--include-only ... overrides discovery entirely": the guests of
\* the run are the ones given.
IncludeOnlyDecides == Done /\ opts.include # {} => Ids = opts.include

\* README.md:373 "warnings": "cross-pool disks, non-fatal check failures".
FailedCheckIsWarned == Done /\ check = "failed" /\ Ids # {} => warned # {}
=============================================================================
