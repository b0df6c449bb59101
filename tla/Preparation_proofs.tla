-------------------------- MODULE Preparation_proofs --------------------------
(***************************************************************************)
(* Proofs about what comes before a freeze: ProxDiscovery (which guests,   *)
(* by the names of their disks), for any disks and any number of changes   *)
(* to them, Policy (which chain for each), for any lines, and ChainParser  *)
(* (what a chain means), for any tokens.                                   *)
(***************************************************************************)
EXTENDS ProxDiscovery, ChainParser, Policy, SequenceTheorems, WellFoundedInduction, TLAPS

(***************************************************************************)
(* The inductive invariant of ProxDiscovery.  Beside the dataset of a disk *)
(* there is nothing below it (PlaceInv).  A container is held by the mount *)
(* of a dataset that stays where it was listed (HeldInv).  What the        *)
(* cross-pool check saw outside is warned of (SeenInv).                    *)
(***************************************************************************)
PlaceInv ==
  \A d, e \in Disk : place[d] = "target" => place[e] # "below" /\ (place[e] = "target" => d = e)

HeldInv ==
  /\ pc = "list" => guests = {}
  /\ pc \in {"list", "check"} => \A g \in Guests : frozen[g] = "no"
  /\ \A x \in guests : frozen[x.id] = "fsfreeze" => x.dataset \in Listed

SeenInv ==
  /\ pc \in {"list", "check"} => check = "not yet"
  /\ check = "ok" => \A d \in Disk : seen[d] = "outside" /\ Owner[d] \in Ids => Owner[d] \in warned

StatusInv == status = "ok" => pc = "done"

ProxDiscInv ==
  /\ ProxDiscTypeOK /\ PlaceInv /\ HeldInv /\ SeenInv /\ StatusInv
  /\ OneDiskAtRest /\ NoDiskMissedSilently

\* Nothing is known of the guests when runSnap begins.
LEMMA InitProxDisc == ProxDiscInit => ProxDiscInv
<1> SUFFICES ASSUME ProxDiscInit PROVE ProxDiscInv
  OBVIOUS
<1>a. 0 \in 0..MaxMoves
  BY MovesAssumption
<1> USE DEF ProxDiscInit
<1>1. ProxDiscTypeOK
  <2>1. place \in [Disk -> {"target", "below", "outside", "gone"}] /\ moves \in 0..MaxMoves
    BY <1>a
  <2>2. /\ guests \subseteq [id : Guests, dataset : Disk]
        /\ listing \subseteq Disk /\ snap \subseteq Disk /\ warned \subseteq Ids
        /\ \A x \in guests : FALSE
    OBVIOUS
  <2>3. /\ seen \in [Disk -> {"target", "below", "outside", "gone"}]
        /\ frozen \in [Guests -> {"no", "whole", "fsfreeze"}]
    OBVIOUS
  <2> QED
    BY <2>1, <2>2, <2>3 DEF ProxDiscTypeOK
<1>2. PlaceInv
  BY DEF PlaceInv
<1>3. HeldInv /\ SeenInv /\ StatusInv
  BY DEF HeldInv, SeenInv, StatusInv
<1>4. OneDiskAtRest /\ NoDiskMissedSilently
  BY DEF OneDiskAtRest, NoDiskMissedSilently, Done
<1> QED
  BY <1>1, <1>2, <1>3, <1>4 DEF ProxDiscInv

\* The administrator cannot take away a dataset whose mount is held.
LEMMA DisksChange ==
  ASSUME ProxDiscInv, NEW d \in Disk, DiskChanges(d) PROVE ProxDiscInv'
<1> USE DEF ProxDiscInv
<1>1. PICK p \in {"below", "outside", "gone"} :
        /\ p = "below" => \A e \in Disk : place[e] # "target"
        /\ place' = [place EXCEPT ![d] = p]
  BY DEF DiskChanges
<1>2. UNCHANGED runVars /\ pc # "done" /\ d \notin Held
  BY DEF DiskChanges
<1>3. /\ UNCHANGED <<opts, pc, listing, guests, seen, check, warned, frozen, snap, status>>
      /\ Ids' = Ids
  BY <1>2 DEF runVars, Ids
<1>4. ProxDiscTypeOK'
  <2>1. moves' \in 0..MaxMoves
    <3>1. moves < MaxMoves /\ moves' = moves + 1
      BY DEF DiskChanges
    <3>2. moves \in 0..MaxMoves
      BY DEF ProxDiscTypeOK
    <3> QED
      BY <3>1, <3>2, MovesAssumption
  <2>2. place' \in [Disk -> {"target", "below", "outside", "gone"}]
    BY <1>1 DEF ProxDiscTypeOK
  <2> QED
    BY <1>3, <2>1, <2>2 DEF ProxDiscTypeOK
<1>5. PlaceInv'
  BY <1>1 DEF PlaceInv, ProxDiscTypeOK
<1>6. HeldInv'
  <2>1. ASSUME NEW x \in guests, frozen[x.id] = "fsfreeze" PROVE x.dataset \in Listed'
    <3>1. x.dataset \in Listed /\ x.dataset \in Held
      BY <2>1 DEF HeldInv, Held
    <3> QED
      BY <1>1, <1>2, <3>1 DEF Listed, ProxDiscTypeOK
  <2> QED
    BY <1>3, <2>1 DEF HeldInv
<1>7. SeenInv' /\ StatusInv'
  BY <1>3 DEF SeenInv, StatusInv
<1>8. OneDiskAtRest' /\ NoDiskMissedSilently'
  BY <1>2, <1>3 DEF OneDiskAtRest, NoDiskMissedSilently, Done
<1> QED
  BY <1>4, <1>5, <1>6, <1>7, <1>8

\* A step of the run that is not the snapshot moves no disk and does not end well.
LEMMA RunGoesOn ==
  ASSUME ProxDiscInv, UNCHANGED place, status' # "ok",
         ProxDiscTypeOK', HeldInv', SeenInv'
  PROVE  ProxDiscInv'
<1>1. PlaceInv' /\ StatusInv'
  BY DEF ProxDiscInv, PlaceInv, StatusInv
<1>2. OneDiskAtRest' /\ NoDiskMissedSilently'
  BY DEF OneDiskAtRest, NoDiskMissedSilently, Done
<1> QED
  BY <1>1, <1>2 DEF ProxDiscInv

\* DiscoverProxmoxGuests: one guest per VMID, with a dataset of its own.
LEMMA ListStep == ASSUME ProxDiscInv, ListGuests PROVE ProxDiscInv'
<1> USE DEF ProxDiscInv
<1>1. /\ pc = "list" /\ guests = {} /\ status # "ok"
      /\ UNCHANGED <<place, moves, opts, seen, check, warned, frozen, snap>>
      /\ check = "not yet" /\ \A g \in Guests : frozen[g] = "no"
  BY DEF ListGuests, HeldInv, SeenInv, StatusInv
<1>2. CASE Fail /\ UNCHANGED <<listing, guests>>
  <2>1. Ids' = Ids
    BY <1>2 DEF Ids
  <2>2. ProxDiscTypeOK'
    BY <1>1, <1>2, <2>1 DEF ProxDiscTypeOK, Fail
  <2>3. HeldInv' /\ SeenInv'
    BY <1>1, <1>2 DEF HeldInv, SeenInv, Fail
  <2> QED
    BY <1>1, <1>2, <2>2, <2>3, RunGoesOn DEF Fail
<1>3. CASE ~(Fail /\ UNCHANGED <<listing, guests>>)
  <2> DEFINE found == {Owner[d] : d \in Listed}
  <2>1. PICK last \in [found -> Listed] :
          /\ \A g \in found : Owner[last[g]] = g
          /\ guests' = {[id |-> g, dataset |-> last[g]] : g \in Chosen(found)}
          /\ listing' = Listed /\ pc' = "check" /\ UNCHANGED status
    BY <1>3 DEF ListGuests
  <2>2. found \subseteq Guests /\ Chosen(found) \subseteq found /\ Listed \subseteq Disk
    BY OwnerAssumption DEF Listed, Chosen
  <2> HIDE DEF found
  <2>3. \A x \in guests' : x \in [id : Guests, dataset : Disk] /\ Owner[x.dataset] = x.id
                           /\ x.id \in Guests /\ x.dataset = last[x.id]
    BY <2>1, <2>2
  <2>4. \A x, y \in guests' : x.id = y.id => x = y
    BY <2>1
  <2>5. ProxDiscTypeOK'
    <3>1. warned' = {}
      BY <1>1 DEF ProxDiscTypeOK, Ids
    <3> QED
      BY <1>1, <2>1, <2>2, <2>3, <2>4, <3>1 DEF ProxDiscTypeOK
  <2>6. HeldInv' /\ SeenInv'
    BY <1>1, <2>1, <2>3 DEF HeldInv, SeenInv
  <2> QED
    BY <1>1, <2>1, <2>5, <2>6, RunGoesOn
<1> QED
  BY <1>2, <1>3

\* DetectCrossPoolDisks: each guest with a disk outside is warned of.
LEMMA CheckStep == ASSUME ProxDiscInv, CrossPoolCheck PROVE ProxDiscInv'
<1> USE DEF ProxDiscInv
<1>1. /\ pc = "check" /\ pc' = "freeze"
      /\ UNCHANGED <<place, moves, opts, listing, guests, frozen, snap, status>>
      /\ status # "ok" /\ Ids' = Ids
  BY DEF CrossPoolCheck, StatusInv, Ids
<1>2. \/ /\ check' = "ok" /\ seen' = place
         /\ warned' = {g \in Ids : Outside(g) # {}}
      \/ check' = "failed" /\ UNCHANGED <<seen, warned>>
  BY DEF CrossPoolCheck
<1>3. ProxDiscTypeOK'
  BY <1>1, <1>2 DEF ProxDiscTypeOK
<1>4. HeldInv'
  BY <1>1 DEF HeldInv, Listed
<1>5. SeenInv'
  BY <1>1, <1>2 DEF SeenInv, Outside, DisksOf
<1> QED
  BY <1>1, <1>3, <1>4, <1>5, RunGoesOn

\* FIFREEZE needs the dataset in its place.
LEMMA FreezeStep ==
  ASSUME ProxDiscInv, FreezeEnds \/ \E x \in guests : FreezeGuest(x) PROVE ProxDiscInv'
<1> USE DEF ProxDiscInv
<1>1. /\ pc = "freeze" /\ status # "ok"
      /\ UNCHANGED <<place, moves, opts, listing, guests, seen, check, warned, snap>>
      /\ Ids' = Ids /\ Listed' = Listed
  BY DEF FreezeEnds, FreezeGuest, StatusInv, Ids, Listed
<1>2. CASE FreezeEnds
  <2>1. pc' \in {"zfs", "done"} /\ status' \in {status, "error"} /\ UNCHANGED frozen
    BY <1>2 DEF FreezeEnds, Fail
  <2>2. ProxDiscTypeOK' /\ HeldInv' /\ SeenInv'
    BY <1>1, <2>1 DEF ProxDiscTypeOK, HeldInv, SeenInv
  <2> QED
    BY <1>1, <2>1, <2>2, RunGoesOn
<1>3. ASSUME NEW x \in guests, FreezeGuest(x) PROVE ProxDiscInv'
  <2>1. PICK how \in {"whole", "fsfreeze"} :
          /\ how = "fsfreeze" => x.id \in CT
          /\ frozen' = [frozen EXCEPT ![x.id] = how]
    BY <1>3 DEF FreezeGuest
  <2>2. x.id \in CT => x.dataset \in Listed
    BY <1>3 DEF FreezeGuest
  <2>3. UNCHANGED <<pc, status>> /\ x.id \in Guests
    BY <1>3 DEF FreezeGuest, ProxDiscTypeOK
  <2>4. ProxDiscTypeOK'
    BY <1>1, <2>1, <2>3 DEF ProxDiscTypeOK
  <2>5. HeldInv'
    <3>1. ASSUME NEW y \in guests, frozen'[y.id] = "fsfreeze" PROVE y.dataset \in Listed
      <4>1. CASE y.id = x.id
        <5>1. x = y
          BY <4>1 DEF ProxDiscTypeOK
        <5>2. how = "fsfreeze"
          BY <2>1, <2>3, <3>1, <4>1 DEF ProxDiscTypeOK
        <5> QED
          BY <2>1, <2>2, <5>1, <5>2
      <4>2. CASE y.id # x.id
        <5>1. frozen[y.id] = "fsfreeze"
          BY <2>1, <3>1, <4>2 DEF ProxDiscTypeOK
        <5> QED
          BY <5>1 DEF HeldInv
      <4> QED
        BY <4>1, <4>2
    <3> QED
      BY <1>1, <2>3, <3>1 DEF HeldInv
  <2>6. SeenInv'
    BY <1>1, <2>3 DEF SeenInv
  <2> QED
    BY <1>1, <2>3, <2>4, <2>5, <2>6, RunGoesOn
<1> QED
  BY <1>2, <1>3

\* The snapshot holds the dataset of each container frozen by its mount, if it
\* holds a disk of it at all.
LEMMA SnapshotStep == ASSUME ProxDiscInv, TakeSnapshot PROVE ProxDiscInv'
<1> USE DEF ProxDiscInv
<1>1. /\ pc = "zfs" /\ status # "ok" /\ pc' = "done"
      /\ UNCHANGED <<place, moves, opts, listing, guests, seen, check, warned, frozen>>
      /\ Ids' = Ids /\ Listed' = Listed
  BY DEF TakeSnapshot, Fail, StatusInv, Ids, Listed
<1>2. PlaceInv' /\ HeldInv' /\ SeenInv' /\ StatusInv'
  BY <1>1 DEF PlaceInv, HeldInv, SeenInv, StatusInv
<1>3. CASE Fail /\ UNCHANGED snap
  <2>1. ProxDiscTypeOK'
    BY <1>1, <1>3 DEF ProxDiscTypeOK, Fail
  <2> QED
    BY <1>1, <1>2, <1>3, <2>1, RunGoesOn DEF Fail
<1>4. CASE snap' = Captured /\ status' = "ok"
  <2>1. Captured \subseteq Listed /\ Listed \subseteq Disk
    BY DEF Captured, Listed
  <2>2. ProxDiscTypeOK'
    BY <1>1, <1>4, <2>1 DEF ProxDiscTypeOK
  <2>3. ASSUME NEW d \in snap', Owner[d] \in Ids, frozen[Owner[d]] # "no",
               DisksOf(Owner[d]) \cap snap' = {d}
        PROVE  AtRest(d)
    <3>1. PICK x \in guests : x.id = Owner[d]
      BY <2>3 DEF Ids
    <3>2. /\ d \in Disk /\ x.dataset \in Disk /\ Owner[x.dataset] = x.id /\ Owner[d] \in Guests
          /\ x = [id |-> Owner[d], dataset |-> x.dataset]
      BY <1>4, <2>1, <2>3, <3>1, OwnerAssumption DEF ProxDiscTypeOK
    <3>3. CASE frozen[Owner[d]] = "fsfreeze"
      <4>1. x.dataset \in Listed
        BY <3>1, <3>3 DEF HeldInv
      <4>2. x.dataset \in Captured
        BY <1>4, <2>3, <3>2, <4>1 DEF Captured, Listed, PlaceInv
      <4>3. x.dataset = d
        BY <1>4, <2>3, <3>1, <3>2, <4>2 DEF DisksOf
      <4> QED
        BY <3>2, <3>3, <4>3 DEF AtRest
    <3>4. frozen[Owner[d]] \in {"whole", "fsfreeze"}
      BY <2>3, <3>2 DEF ProxDiscTypeOK
    <3> QED
      BY <3>3, <3>4 DEF AtRest
  <2>4. OneDiskAtRest'
    BY <1>1, <2>3 DEF OneDiskAtRest, AtRest
  <2>5. NoDiskMissedSilently'
    BY <1>1, <1>4 DEF NoDiskMissedSilently, Captured, Listed, SeenInv, ProxDiscTypeOK
  <2> QED
    BY <1>2, <2>2, <2>4, <2>5
<1> QED
  BY <1>3, <1>4 DEF TakeSnapshot

LEMMA NextProxDisc == ProxDiscInv /\ [ProxDiscNext]_discVars => ProxDiscInv'
<1> SUFFICES ASSUME ProxDiscInv, [ProxDiscNext]_discVars PROVE ProxDiscInv'
  OBVIOUS
<1>1. CASE UNCHANGED discVars
  <2>1. UNCHANGED <<place, moves, opts, pc, listing, guests, seen, check, warned, frozen, snap,
                    status>>
    BY <1>1 DEF discVars, runVars
  <2>2. Ids' = Ids /\ Listed' = Listed /\ \A d : AtRest(d)' = AtRest(d)
    BY <2>1 DEF Ids, Listed, AtRest
  <2>3. ProxDiscTypeOK'
    BY <2>1, <2>2 DEF ProxDiscInv, ProxDiscTypeOK
  <2>4. PlaceInv' /\ StatusInv'
    BY <2>1 DEF ProxDiscInv, PlaceInv, StatusInv
  <2>5. HeldInv'
    BY <2>1, <2>2 DEF ProxDiscInv, HeldInv
  <2>6. SeenInv'
    BY <2>1, <2>2 DEF ProxDiscInv, SeenInv
  <2>7. OneDiskAtRest'
    BY <2>1, <2>2 DEF ProxDiscInv, OneDiskAtRest, Done
  <2>8. NoDiskMissedSilently'
    BY <2>1, <2>2 DEF ProxDiscInv, NoDiskMissedSilently, Done
  <2> QED
    BY <2>3, <2>4, <2>5, <2>6, <2>7, <2>8 DEF ProxDiscInv
<1> QED
  BY <1>1, DisksChange, ListStep, CheckStep, FreezeStep, SnapshotStep DEF ProxDiscNext

LEMMA ProxDiscInvariant == ProxDiscSpec => []ProxDiscInv
  BY InitProxDisc, NextProxDisc, PTL DEF ProxDiscSpec

\* Type correctness, and a guest is in the run once, with a dataset of its own.
THEOREM ProxDiscTypeCorrect == ProxDiscSpec => []ProxDiscTypeOK
  BY ProxDiscInvariant, PTL DEF ProxDiscInv

\* A snapshot with one disk of a guest that is reported frozen has that disk at rest,
\* however the disks were moved meanwhile (runSnap, main.go; freezeLXC).
THEOREM OneDiskIsAtRest == ProxDiscSpec => []OneDiskAtRest
  BY ProxDiscInvariant, PTL DEF ProxDiscInv

\* A disk seen by the cross-pool check is in a recursive snapshot or warned of
\* (DetectCrossPoolDisks, discover.go).
THEOREM DisksAreNotMissedSilently == ProxDiscSpec => []NoDiskMissedSilently
  BY ProxDiscInvariant, PTL DEF ProxDiscInv

-----------------------------------------------------------------------------
\* One more item at the end of a sequence.
LEMMA OneMoreItem ==
  ASSUME NEW S, NEW s \in Seq(S), NEW e \in S
  PROVE  LET more == Append(s, e)
         IN  /\ more \in Seq(S) /\ Len(more) = Len(s) + 1 /\ more[Len(s) + 1] = e
             /\ \A i \in 1..Len(s) : more[i] = s[i]
  OBVIOUS

-----------------------------------------------------------------------------
(***************************************************************************)
(* Policy.  What parsePolicy has made of the lines read so far tells them: *)
(* there is an error when a line that counts cannot be read, and otherwise *)
(* the value for a scope is that of the last line for it, or 0.            *)
(***************************************************************************)
Scopes == Vm \cup {"star", "global"}

At(p, scope) ==
  IF scope = "star" THEN p.star ELSE IF scope = "global" THEN p.global ELSE p.perVM[scope]

PolicyRecord ==
  [global : Nat, star : Nat, perVM : [Vm -> Nat], override : Nat, mkGlobal : Nat, mkServer : Nat,
   bad : BOOLEAN]

Of(lines, isFlag, scope) ==
  {i \in 1..Len(lines) : Counts(lines[i], isFlag) /\ lines[i].scope = scope}

TellsScope(p, lines, isFlag, scope) ==
  \/ Of(lines, isFlag, scope) = {} /\ At(p, scope) = 0
  \/ \E i \in Of(lines, isFlag, scope) : /\ \A j \in Of(lines, isFlag, scope) : j <= i
                                         /\ At(p, scope) = lines[i].value

TellsBad(p, lines, isFlag) ==
  p.bad <=> \E i \in 1..Len(lines) : Counts(lines[i], isFlag) /\ ~lines[i].ok

Tells(p, lines, isFlag) ==
  /\ p.override = 0
  /\ TellsBad(p, lines, isFlag)
  /\ ~p.bad => \A scope \in Scopes : TellsScope(p, lines, isFlag, scope)

\* A line read changes the value for its own scope and no other.
LEMMA ReadLineAt ==
  ASSUME NEW p \in PolicyRecord, NEW l \in Line, NEW isFlag \in BOOLEAN
  PROVE  LET q == ReadLine(p, l, isFlag)
         IN  /\ q \in PolicyRecord /\ q.override = p.override
             /\ q.bad <=> p.bad \/ (Counts(l, isFlag) /\ ~l.ok)
             /\ ~q.bad => \A scope \in Scopes :
                  At(q, scope) = IF Counts(l, isFlag) /\ l.scope = scope THEN l.value
                                 ELSE At(p, scope)
<1> DEFINE q == ReadLine(p, l, isFlag)
<1>1. l.value \in Nat /\ l.ok \in BOOLEAN /\ l.scope \in Vm \cup {"global", "star", "memkeep"}
  BY PolicyConstants DEF Line
<1>2. p.bad \in BOOLEAN /\ "star" \notin Vm /\ "global" \notin Vm /\ "memkeep" \notin Vm
  BY PolicyConstants DEF PolicyRecord
<1>3. CASE p.bad \/ ~Counts(l, isFlag)
  <2>1. q = p
    BY <1>3 DEF ReadLine
  <2> QED
    BY <1>3, <2>1
<1>4. CASE ~(p.bad \/ ~Counts(l, isFlag)) /\ ~l.ok
  <2>1. q = [p EXCEPT !.bad = TRUE]
    BY <1>4 DEF ReadLine
  <2> QED
    BY <1>4, <2>1 DEF PolicyRecord
<1>5. CASE ~p.bad /\ Counts(l, isFlag) /\ l.ok
  <2>1. CASE l.scope \in Vm
    <3>1. q = [p EXCEPT !.perVM[l.scope] = l.value]
      BY <1>5, <2>1 DEF ReadLine
    <3> QED
      BY <1>1, <1>2, <1>5, <2>1, <3>1 DEF PolicyRecord, At, Scopes
  <2>2. CASE l.scope = "global"
    <3>1. q = [p EXCEPT !.global = l.value]
      BY <1>2, <1>5, <2>2 DEF ReadLine
    <3> QED
      BY <1>1, <1>2, <1>5, <2>2, <3>1 DEF PolicyRecord, At, Scopes
  <2>3. CASE l.scope = "star"
    <3>1. q = [p EXCEPT !.star = l.value]
      BY <1>2, <1>5, <2>3 DEF ReadLine
    <3> QED
      BY <1>1, <1>2, <1>5, <2>3, <3>1 DEF PolicyRecord, At, Scopes
  <2>4. CASE l.scope = "memkeep"
    <3>1. q = [p EXCEPT !.mkServer = l.value] \/ q = [p EXCEPT !.mkGlobal = l.value]
      BY <1>2, <1>5, <2>4 DEF ReadLine
    <3> QED
      BY <1>1, <1>2, <1>5, <2>4, <3>1 DEF PolicyRecord, At, Scopes
  <2> QED
    BY <1>1, <2>1, <2>2, <2>3, <2>4
<1> QED
  BY <1>1, <1>2, <1>3, <1>4, <1>5

\* One more line, and what is made of it, keep telling the lines.
LEMMA ReadTells ==
  ASSUME NEW p \in PolicyRecord, NEW l \in Line, NEW isFlag \in BOOLEAN,
         NEW lines \in Seq(Line), NEW more \in Seq(Line),
         Len(more) = Len(lines) + 1, more[Len(lines) + 1] = l,
         \A i \in 1..Len(lines) : more[i] = lines[i],
         Tells(p, lines, isFlag)
  PROVE  Tells(ReadLine(p, l, isFlag), more, isFlag)
<1> DEFINE q == ReadLine(p, l, isFlag)
           n == Len(lines)
<1>1. /\ q \in PolicyRecord /\ q.override = 0
      /\ q.bad <=> p.bad \/ (Counts(l, isFlag) /\ ~l.ok)
      /\ ~q.bad => \A scope \in Scopes :
           At(q, scope) = IF Counts(l, isFlag) /\ l.scope = scope THEN l.value ELSE At(p, scope)
  BY ReadLineAt DEF Tells
<1> HIDE DEF q
<1>2. n \in Nat /\ Len(more) = n + 1 /\ more[n + 1] = l /\ \A i \in 1..n : more[i] = lines[i]
  OBVIOUS
<1> HIDE DEF n
<1>3. \A i : i \in 1..(n + 1) <=> i \in 1..n \/ i = n + 1
  BY <1>2
<1>4. TellsBad(q, more, isFlag)
  <2>1. p.bad <=> \E i \in 1..n : Counts(lines[i], isFlag) /\ ~lines[i].ok
    BY DEF Tells, TellsBad, n
  <2>2. (\E i \in 1..(n + 1) : Counts(more[i], isFlag) /\ ~more[i].ok) <=>
          (\E i \in 1..n : Counts(lines[i], isFlag) /\ ~lines[i].ok) \/ (Counts(l, isFlag) /\ ~l.ok)
    BY <1>2, <1>3
  <2> QED
    BY <1>1, <1>2, <2>1, <2>2 DEF TellsBad
<1>5. ASSUME ~q.bad, NEW scope \in Scopes PROVE TellsScope(q, more, isFlag, scope)
  <2>1. ~p.bad /\ TellsScope(p, lines, isFlag, scope)
    BY <1>1, <1>5 DEF Tells
  <2>2. \A i : i \in Of(lines, isFlag, scope) <=>
               i \in 1..n /\ Counts(lines[i], isFlag) /\ lines[i].scope = scope
    BY DEF Of, n
  <2>3. \A i : i \in Of(more, isFlag, scope) <=>
               \/ i \in Of(lines, isFlag, scope)
               \/ i = n + 1 /\ Counts(l, isFlag) /\ l.scope = scope
    BY <1>2, <1>3, <2>2 DEF Of
  <2>4. \A i \in Of(lines, isFlag, scope) : i \in Nat /\ i <= n + 1 /\ more[i] = lines[i]
    BY <1>2, <2>2
  <2>5. CASE Counts(l, isFlag) /\ l.scope = scope
    <3>1. n + 1 \in Of(more, isFlag, scope)
      BY <2>3, <2>5
    <3>2. \A j \in Of(more, isFlag, scope) : j <= n + 1
      BY <1>2, <2>3, <2>4
    <3>3. At(q, scope) = more[n + 1].value
      BY <1>1, <1>2, <1>5, <2>5
    <3> QED
      BY <3>1, <3>2, <3>3 DEF TellsScope
  <2>6. CASE ~(Counts(l, isFlag) /\ l.scope = scope)
    <3>1. Of(more, isFlag, scope) = Of(lines, isFlag, scope)
      BY <2>3, <2>6
    <3>2. At(q, scope) = At(p, scope)
      BY <1>1, <1>5, <2>6
    <3> QED
      BY <2>1, <2>4, <3>1, <3>2 DEF TellsScope
  <2> QED
    BY <2>5, <2>6
<1> QED
  BY <1>1, <1>4, <1>5 DEF Tells, q

(***************************************************************************)
(* The inductive invariant of loadPolicy: policy tells the cfg and flagged *)
(* the flags, none of which is read before the cfg is done; an error means *)
(* that one of the two is bad, and nothing is installed but at the end.    *)
(***************************************************************************)
PolicyTypeOK ==
  /\ named \in BOOLEAN /\ mode \in Nat
  /\ stage \in {"cfg", "flags", "done", "error"}
  /\ cfg \in Seq(Line) /\ flags \in Seq(Line)
  /\ policy \in PolicyRecord /\ flagged \in PolicyRecord

InstalledInv ==
  /\ stage = "cfg" => flags = <<>>
  /\ stage = "flags" => ~policy.bad
  /\ stage = "error" => policy.bad \/ flagged.bad
  /\ stage = "done" => ~policy.bad /\ ~flagged.bad
  /\ current = IF stage = "done" THEN [Merge(policy, flagged) EXCEPT !.override = mode]
               ELSE NoPolicy

PolicyInv ==
  PolicyTypeOK /\ InstalledInv /\ Tells(policy, cfg, FALSE) /\ Tells(flagged, flags, TRUE)

\* No line is told by no policy.
LEMMA NothingTold ==
  ASSUME NEW isFlag \in BOOLEAN
  PROVE  NoPolicy \in PolicyRecord /\ Tells(NoPolicy, <<>>, isFlag)
<1>1. Len(<<>>) = 0
  OBVIOUS
<1>2. \A scope : Of(<<>>, isFlag, scope) = {}
  BY <1>1 DEF Of
<1>3. \A scope \in Scopes : At(NoPolicy, scope) = 0
  BY PolicyConstants DEF At, NoPolicy, Scopes
<1>4. NoPolicy \in PolicyRecord /\ NoPolicy.override = 0 /\ NoPolicy.bad = FALSE
  BY DEF NoPolicy, PolicyRecord
<1>5. TellsBad(NoPolicy, <<>>, isFlag)
  BY <1>1, <1>4 DEF TellsBad
<1> QED
  BY <1>2, <1>3, <1>4, <1>5 DEF Tells, TellsScope

LEMMA InitPolicyInv == PolicyInit => PolicyInv
<1> SUFFICES ASSUME PolicyInit PROVE PolicyInv
  OBVIOUS
<1>1. /\ cfg = <<>> /\ flags = <<>> /\ policy = NoPolicy /\ flagged = NoPolicy /\ current = NoPolicy
      /\ named \in BOOLEAN /\ stage = "cfg" /\ mode \in {0, 1}
  BY DEF PolicyInit
<1>2. PolicyTypeOK
  BY <1>1, NothingTold DEF PolicyTypeOK
<1>3. InstalledInv
  BY <1>1 DEF InstalledInv
<1>4. Tells(policy, cfg, FALSE) /\ Tells(flagged, flags, TRUE)
  BY <1>1, NothingTold
<1> QED
  BY <1>2, <1>3, <1>4 DEF PolicyInv

\* What counts depends on whether the server's name is known, which it stays.
LEMMA TellsStays ==
  ASSUME UNCHANGED named, NEW p, NEW lines, NEW isFlag, Tells(p, lines, isFlag)
  PROVE  Tells(p, lines, isFlag)'
<1>1. \A l : Counts(l, isFlag)' = Counts(l, isFlag)
  BY DEF Counts
<1>2. \A scope : Of(lines, isFlag, scope)' = Of(lines, isFlag, scope)
  BY <1>1 DEF Of
<1> QED
  BY <1>1, <1>2 DEF Tells, TellsBad, TellsScope

\* parsePolicy reads a line of the cfg, or of the flags.
LEMMA ReadStep ==
  ASSUME PolicyInv, NEW l \in Lines, ReadCfg(l) \/ ReadFlag(l) PROVE PolicyInv'
<1> USE DEF PolicyInv
<1>1. l \in Line /\ named' = named
  BY PolicyConstants DEF ReadCfg, ReadFlag
<1>2. CASE ReadCfg(l)
  <2>1. /\ stage = "cfg" /\ UNCHANGED <<named, stage, flags, flagged, mode, current>>
        /\ cfg' = Append(cfg, l) /\ policy' = ReadLine(policy, l, FALSE)
    BY <1>2 DEF ReadCfg
  <2>2. cfg \in Seq(Line) /\ policy \in PolicyRecord
    BY DEF PolicyTypeOK
  <2>3. /\ cfg' \in Seq(Line) /\ Len(cfg') = Len(cfg) + 1 /\ cfg'[Len(cfg) + 1] = l
        /\ \A i \in 1..Len(cfg) : cfg'[i] = cfg[i]
    BY <1>1, <2>1, <2>2, OneMoreItem
  <2>4. policy' \in PolicyRecord
    BY <1>1, <2>1, <2>2, ReadLineAt
  <2>5. Tells(ReadLine(policy, l, FALSE), cfg', FALSE)
    BY <1>1, <2>2, <2>3, ReadTells
  <2>6. Tells(policy, cfg, FALSE)'
    BY <1>1, <2>1, <2>5, TellsStays
  <2>7. Tells(flagged, flags, TRUE)'
    BY <1>1, <2>1, TellsStays
  <2>8. PolicyTypeOK'
    BY <2>1, <2>3, <2>4 DEF PolicyTypeOK
  <2>9. InstalledInv'
    BY <2>1 DEF InstalledInv
  <2> QED
    BY <2>6, <2>7, <2>8, <2>9
<1>3. CASE ReadFlag(l)
  <2>1. /\ stage = "flags" /\ UNCHANGED <<named, stage, cfg, policy, mode, current>>
        /\ flags' = Append(flags, l) /\ flagged' = ReadLine(flagged, l, TRUE)
    BY <1>3 DEF ReadFlag
  <2>2. flags \in Seq(Line) /\ flagged \in PolicyRecord
    BY DEF PolicyTypeOK
  <2>3. /\ flags' \in Seq(Line) /\ Len(flags') = Len(flags) + 1 /\ flags'[Len(flags) + 1] = l
        /\ \A i \in 1..Len(flags) : flags'[i] = flags[i]
    BY <1>1, <2>1, <2>2, OneMoreItem
  <2>4. flagged' \in PolicyRecord
    BY <1>1, <2>1, <2>2, ReadLineAt
  <2>5. Tells(ReadLine(flagged, l, TRUE), flags', TRUE)
    BY <1>1, <2>2, <2>3, ReadTells
  <2>6. Tells(flagged, flags, TRUE)'
    BY <1>1, <2>1, <2>5, TellsStays
  <2>7. Tells(policy, cfg, FALSE)'
    BY <1>1, <2>1, TellsStays
  <2>8. PolicyTypeOK'
    BY <2>1, <2>3, <2>4 DEF PolicyTypeOK
  <2>9. InstalledInv'
    BY <2>1 DEF InstalledInv
  <2> QED
    BY <2>6, <2>7, <2>8, <2>9
<1> QED
  BY <1>2, <1>3

LEMMA NextPolicyInv == PolicyInv /\ [PolicyNext]_policyVars => PolicyInv'
<1> SUFFICES ASSUME PolicyInv, [PolicyNext]_policyVars PROVE PolicyInv'
  OBVIOUS
<1>1. ASSUME UNCHANGED <<named, cfg, flags, policy, flagged, mode>>,
             stage' \in {"cfg", "flags", "done", "error"}, InstalledInv'
      PROVE  PolicyInv'
  <2>1. Tells(policy, cfg, FALSE)' /\ Tells(flagged, flags, TRUE)'
    BY <1>1, TellsStays DEF PolicyInv
  <2>2. PolicyTypeOK'
    BY <1>1 DEF PolicyInv, PolicyTypeOK
  <2> QED
    BY <1>1, <2>1, <2>2 DEF PolicyInv
<1>2. policy.bad \in BOOLEAN /\ flagged.bad \in BOOLEAN
  BY DEF PolicyInv, PolicyTypeOK, PolicyRecord
<1>3. CASE EndOfCfg
  <2>1. /\ stage = "cfg" /\ stage' = IF policy.bad THEN "error" ELSE "flags"
        /\ UNCHANGED <<named, cfg, flags, policy, flagged, mode, current>>
    BY <1>3 DEF EndOfCfg
  <2>2. InstalledInv'
    BY <1>2, <2>1 DEF PolicyInv, InstalledInv
  <2> QED
    BY <1>1, <2>1, <2>2
<1>4. CASE Install
  <2>1. /\ stage = "flags" /\ ~policy.bad /\ current = NoPolicy
        /\ UNCHANGED <<named, cfg, flags, policy, flagged, mode>>
        /\ \/ flagged.bad /\ stage' = "error" /\ UNCHANGED current
           \/ /\ ~flagged.bad /\ stage' = "done"
              /\ current' = [Merge(policy, flagged) EXCEPT !.override = mode]
    BY <1>4 DEF Install, PolicyInv, InstalledInv
  <2>2. Merge(policy, flagged)' = Merge(policy, flagged)
    BY <2>1 DEF Merge
  <2>3. InstalledInv'
    BY <1>2, <2>1, <2>2 DEF InstalledInv
  <2> QED
    BY <1>1, <2>1, <2>3
<1>5. CASE UNCHANGED policyVars
  <2>1. UNCHANGED <<named, stage, cfg, flags, policy, flagged, mode, current>>
    BY <1>5 DEF policyVars
  <2>2. Merge(policy, flagged)' = Merge(policy, flagged)
    BY <2>1 DEF Merge
  <2>3. InstalledInv'
    BY <2>1, <2>2 DEF PolicyInv, InstalledInv
  <2> QED
    BY <1>1, <2>1, <2>3 DEF PolicyInv, PolicyTypeOK
<1> QED
  BY <1>3, <1>4, <1>5, ReadStep DEF PolicyNext

\* The lines of a scope in both sources: the last of the flags is the last of all.
LEMMA BothSources ==
  ASSUME PolicyInv, ~policy.bad, ~flagged.bad, NEW scope \in Scopes
  PROVE  /\ Over(At(flagged, scope), At(policy, scope)) =
              IF LinesFor(scope) = {} THEN 0 ELSE LastOf(LinesFor(scope))
         /\ LinesFor(scope) # {} => LastOf(LinesFor(scope)) # 0
<1> DEFINE n == Len(cfg)
           m == Len(flags)
           is == Of(cfg, FALSE, scope)
           js == Of(flags, TRUE, scope)
<1>1. cfg \in Seq(Line) /\ flags \in Seq(Line) /\ n \in Nat /\ m \in Nat
  BY DEF PolicyInv, PolicyTypeOK
<1>2. /\ Len(Given) = n + m
      /\ \A i \in 1..n : Given[i] = cfg[i]
      /\ \A i \in 1..m : Given[n + i] = flags[i]
  BY <1>1 DEF Given
<1>3. TellsScope(policy, cfg, FALSE, scope) /\ TellsScope(flagged, flags, TRUE, scope)
  BY DEF PolicyInv, Tells
<1>4. \A i : i \in is <=> i \in 1..n /\ Counts(cfg[i], FALSE) /\ cfg[i].scope = scope
  BY DEF Of
<1>5. \A i : i \in js <=> i \in 1..m /\ Counts(flags[i], TRUE) /\ flags[i].scope = scope
  BY DEF Of
<1>6. \A i : i \in LinesFor(scope) <=>
               i \in 1..Len(Given) /\ Counts(Given[i], i > n) /\ Given[i].scope = scope
  BY DEF LinesFor, Effective
<1>7. \A l \in Line : l.scope = scope => l.value # 0
  BY PolicyConstants DEF Line, Scopes
<1>8. /\ \A i \in 1..n : cfg[i] \in Line
      /\ \A i \in 1..m : flags[i] \in Line
  BY <1>1
<1> HIDE DEF n, m, is, js
<1>9. \A i \in 1..n : i \in LinesFor(scope) <=> i \in is
  BY <1>1, <1>2, <1>4, <1>6 DEF Counts
<1>10. \A i \in 1..m : n + i \in LinesFor(scope) <=> i \in js
  <2> SUFFICES ASSUME NEW i \in 1..m PROVE n + i \in LinesFor(scope) <=> i \in js
    OBVIOUS
  <2>1. n + i \in 1..Len(Given) /\ n + i > n /\ Given[n + i] = flags[i]
    BY <1>1, <1>2
  <2>2. Counts(Given[n + i], n + i > n) <=> Counts(flags[i], TRUE)
    BY <2>1 DEF Counts
  <2> QED
    BY <1>5, <1>6, <2>1, <2>2
<1>11. \A k \in LinesFor(scope) : k \in 1..n \/ \E i \in 1..m : k = n + i
  <2> SUFFICES ASSUME NEW k \in LinesFor(scope), k \notin 1..n PROVE \E i \in 1..m : k = n + i
    OBVIOUS
  <2>1. k - n \in 1..m /\ k = n + (k - n)
    BY <1>1, <1>2, <1>6
  <2> QED
    BY <2>1
<1>12. ASSUME NEW k \in LinesFor(scope), \A j \in LinesFor(scope) : j <= k
       PROVE  LastOf(LinesFor(scope)) = Given[k].value
  <2>1. \A j \in LinesFor(scope) : j \in Nat
    BY <1>1, <1>2, <1>6
  <2>2. ASSUME NEW i \in LinesFor(scope), \A j \in LinesFor(scope) : j <= i PROVE i = k
    BY <1>12, <2>1, <2>2
  <2>3. (CHOOSE i \in LinesFor(scope) : \A j \in LinesFor(scope) : j <= i) = k
    BY <1>12, <2>2
  <2> QED
    BY <2>3 DEF LastOf
<1>13. CASE js # {}
  <2>1. PICK i \in js : (\A j \in js : j <= i) /\ At(flagged, scope) = flags[i].value
    BY <1>3, <1>13 DEF TellsScope, js
  <2>2. i \in 1..m /\ n + i \in LinesFor(scope) /\ Given[n + i] = flags[i]
    BY <1>2, <1>5, <1>10
  <2>3. \A j \in LinesFor(scope) : j <= n + i
    <3> SUFFICES ASSUME NEW j \in LinesFor(scope) PROVE j <= n + i
      OBVIOUS
    <3>1. CASE j \in 1..n
      BY <1>1, <2>2, <3>1
    <3>2. CASE j \notin 1..n
      <4>1. PICK k \in 1..m : j = n + k
        BY <1>11, <3>2
      <4>2. k <= i
        BY <1>10, <2>1, <4>1
      <4> QED
        BY <1>1, <2>2, <4>1, <4>2
    <3> QED
      BY <3>1, <3>2
  <2>4. flags[i] \in Line /\ flags[i].scope = scope
    BY <1>5, <1>8, <2>2
  <2>5. At(flagged, scope) # 0 /\ At(flagged, scope) = LastOf(LinesFor(scope))
    BY <1>7, <1>12, <2>1, <2>2, <2>3, <2>4
  <2> QED
    BY <2>2, <2>5 DEF Over
<1>14. CASE js = {} /\ is # {}
  <2>1. PICK i \in is : (\A j \in is : j <= i) /\ At(policy, scope) = cfg[i].value
    BY <1>3, <1>14 DEF TellsScope, is
  <2>2. i \in 1..n /\ i \in LinesFor(scope) /\ Given[i] = cfg[i]
    BY <1>2, <1>4, <1>9
  <2>3. \A j \in LinesFor(scope) : j <= i
    BY <1>9, <1>10, <1>11, <1>14, <2>1
  <2>4. At(policy, scope) # 0 /\ At(policy, scope) = LastOf(LinesFor(scope))
    <3>1. cfg[i] \in Line /\ cfg[i].scope = scope
      BY <1>4, <1>8, <2>2
    <3> QED
      BY <1>7, <1>12, <2>1, <2>2, <2>3, <3>1
  <2>5. At(flagged, scope) = 0
    BY <1>3, <1>14 DEF TellsScope, js
  <2> QED
    BY <2>2, <2>4, <2>5 DEF Over
<1>15. CASE js = {} /\ is = {}
  <2>1. LinesFor(scope) = {}
    BY <1>9, <1>10, <1>11, <1>15
  <2>2. At(flagged, scope) = 0 /\ At(policy, scope) = 0
    BY <1>3, <1>15 DEF TellsScope, is, js
  <2> QED
    BY <2>1, <2>2 DEF Over
<1> QED
  BY <1>13, <1>14, <1>15

\* The lines that count and cannot be read.
LEMMA BadLines ==
  ASSUME PolicyInv
  PROVE  policy.bad \/ flagged.bad <=> \E i \in Effective : ~Given[i].ok
<1> DEFINE n == Len(cfg)
           m == Len(flags)
<1>1. cfg \in Seq(Line) /\ flags \in Seq(Line) /\ n \in Nat /\ m \in Nat
  BY DEF PolicyInv, PolicyTypeOK
<1>2. /\ Len(Given) = n + m
      /\ \A i \in 1..n : Given[i] = cfg[i]
      /\ \A i \in 1..m : Given[n + i] = flags[i]
  BY <1>1 DEF Given
<1>3. /\ policy.bad <=> \E i \in 1..n : Counts(cfg[i], FALSE) /\ ~cfg[i].ok
      /\ flagged.bad <=> \E i \in 1..m : Counts(flags[i], TRUE) /\ ~flags[i].ok
  BY DEF PolicyInv, Tells, TellsBad
<1>4. \A i : i \in Effective <=> i \in 1..Len(Given) /\ Counts(Given[i], i > n)
  BY DEF Effective
<1> HIDE DEF n, m
<1>5. \A i \in 1..n : i \in Effective <=> Counts(cfg[i], FALSE)
  BY <1>1, <1>2, <1>4 DEF Counts
<1>6. ASSUME NEW i \in 1..m PROVE n + i \in Effective <=> Counts(flags[i], TRUE)
  <2>1. n + i \in 1..Len(Given) /\ n + i > n /\ Given[n + i] = flags[i]
    BY <1>1, <1>2
  <2>2. Counts(Given[n + i], n + i > n) <=> Counts(flags[i], TRUE)
    BY <2>1 DEF Counts
  <2> QED
    BY <1>4, <2>1, <2>2
<1>7. \A k \in Effective : k \in 1..n \/ \E i \in 1..m : k = n + i
  <2> SUFFICES ASSUME NEW k \in Effective, k \notin 1..n PROVE \E i \in 1..m : k = n + i
    OBVIOUS
  <2>1. k - n \in 1..m /\ k = n + (k - n)
    BY <1>1, <1>2, <1>4
  <2> QED
    BY <2>1
<1>8. ASSUME policy.bad \/ flagged.bad PROVE \E i \in Effective : ~Given[i].ok
  BY <1>2, <1>3, <1>5, <1>6, <1>8
<1>9. ASSUME NEW k \in Effective, ~Given[k].ok PROVE policy.bad \/ flagged.bad
  <2>1. CASE k \in 1..n
    BY <1>2, <1>3, <1>5, <1>9, <2>1
  <2>2. ASSUME NEW i \in 1..m, k = n + i PROVE flagged.bad
    BY <1>2, <1>3, <1>6, <1>9, <2>2
  <2> QED
    BY <1>7, <2>1, <2>2
<1> QED
  BY <1>8, <1>9

\* What is installed gives each guest the chain of its narrowest scope.
LEMMA InstalledResolves ==
  ASSUME PolicyInv, stage = "done", NEW v \in Vm PROVE For(current, v) = ChainFor(v)
<1>1. ~policy.bad /\ ~flagged.bad /\ current = [Merge(policy, flagged) EXCEPT !.override = mode]
  BY DEF PolicyInv, InstalledInv
<1>2. {v, "star", "global"} \subseteq Scopes /\ v # "star" /\ v # "global"
  BY PolicyConstants DEF Scopes
<1>3. /\ current.override = mode
      /\ current.perVM[v] = Over(At(flagged, v), At(policy, v))
      /\ current.star = Over(At(flagged, "star"), At(policy, "star"))
      /\ current.global = Over(At(flagged, "global"), At(policy, "global"))
  BY <1>1, <1>2 DEF Merge, At
<1>4. \A scope \in {v, "star", "global"} :
        /\ Over(At(flagged, scope), At(policy, scope)) =
             IF LinesFor(scope) = {} THEN 0 ELSE LastOf(LinesFor(scope))
        /\ LinesFor(scope) # {} => LastOf(LinesFor(scope)) # 0
  BY <1>1, <1>2, BothSources
<1>5. For(current, v) =
        IF mode # 0 THEN mode
        ELSE IF current.perVM[v] # 0 THEN current.perVM[v]
        ELSE IF current.star # 0 THEN current.star ELSE current.global
  BY <1>3 DEF For, Over
<1> QED
  BY <1>3, <1>4, <1>5 DEF ChainFor

LEMMA PolicyInvResolves == PolicyInv => ResolvesByScope
<1> SUFFICES ASSUME PolicyInv PROVE ResolvesByScope
  OBVIOUS
<1>1. stage = "error" => policy.bad \/ flagged.bad
  BY DEF PolicyInv, InstalledInv
<1>2. stage = "done" => ~(policy.bad \/ flagged.bad)
  BY DEF PolicyInv, InstalledInv
<1>3. stage = "error" => current = NoPolicy
  BY DEF PolicyInv, InstalledInv
<1> QED
  BY <1>1, <1>2, <1>3, BadLines, InstalledResolves DEF ResolvesByScope

\* A guest's chain is --mode's or the last line's of its narrowest scope, and with a line
\* that counts and cannot be read nothing is installed (parsePolicy, Merge, For,
\* policy.go; loadPolicy).
THEOREM ChainsResolveByScope == PolicySpec => []ResolvesByScope
<1>1. PolicySpec => []PolicyInv
  BY InitPolicyInv, NextPolicyInv, PTL DEF PolicySpec
<1> QED
  BY <1>1, PolicyInvResolves, PTL

-----------------------------------------------------------------------------
(***************************************************************************)
(* ChainParser.  The loop of ParseChain has found an error exactly when    *)
(* the tokens read so far are not in order, and otherwise its chain says   *)
(* what they say, and seen has the names of their steps.                   *)
(***************************************************************************)
ScanRecord ==
  [steps : Seq([kind : Kinds, time : Nat]), zfs : BOOLEAN, timeout : Nat, seen : SUBSET Kinds,
   bad : BOOLEAN]

SeenSteps(text, s) ==
  /\ \A i \in StepsIn(text) : NameAt(text, i) \in s.seen
  /\ \A x \in s.seen : \E i \in StepsIn(text) : NameAt(text, i) = x

Says(text, s) ==
  /\ s.bad <=> ~WellOrdered(text)
  /\ ~s.bad => Means(text, ChainOf(s)) /\ SeenSteps(text, s)

OneMoreToken(text, t, more) ==
  /\ text \in Seq(Token) /\ more \in Seq(Token) /\ t \in Token
  /\ Len(more) = Len(text) + 1 /\ more[Len(text) + 1] = t
  /\ \A i \in 1..Len(text) : more[i] = text[i]

\* The steps and the numbers of a text with one more token.
LEMMA TokenSets ==
  ASSUME NEW text, NEW t, NEW more, OneMoreToken(text, t, more)
  PROVE  LET n == Len(text)
         IN  /\ n \in Nat /\ t \in Token /\ more[n + 1] = t
             /\ \A i \in StepsIn(text) \cup SecondsIn(text) :
                  i \in 1..n /\ more[i] = text[i] /\ NameAt(more, i) = NameAt(text, i)
             /\ \A i : i \in StepsIn(more) <=> i \in StepsIn(text) \/ (i = n + 1 /\ t.kind = "step")
             /\ \A i : i \in SecondsIn(more) <=>
                         i \in SecondsIn(text) \/ (i = n + 1 /\ t.kind = "seconds")
             /\ NameAt(more, n + 1) = Canonical(t.name)
<1> DEFINE n == Len(text)
<1>1. /\ n \in Nat /\ Len(more) = n + 1 /\ more[n + 1] = t /\ t \in Token
      /\ \A i \in 1..n : more[i] = text[i]
  BY DEF OneMoreToken
<1>2. \A i : i \in StepsIn(text) <=> i \in 1..n /\ text[i].kind = "step"
  BY DEF StepsIn
<1>3. \A i : i \in SecondsIn(text) <=> i \in 1..n /\ text[i].kind = "seconds"
  BY DEF SecondsIn
<1>4. \A i : i \in StepsIn(more) <=> i \in 1..(n + 1) /\ more[i].kind = "step"
  BY <1>1 DEF StepsIn
<1>5. \A i : i \in SecondsIn(more) <=> i \in 1..(n + 1) /\ more[i].kind = "seconds"
  BY <1>1 DEF SecondsIn
<1> HIDE DEF n
<1>6. \A i : i \in 1..(n + 1) <=> i \in 1..n \/ i = n + 1
  BY <1>1
<1>7. \A i \in StepsIn(text) \cup SecondsIn(text) :
        i \in 1..n /\ more[i] = text[i] /\ NameAt(more, i) = NameAt(text, i)
  BY <1>1, <1>2, <1>3 DEF NameAt
<1>8. NameAt(more, n + 1) = Canonical(t.name)
  BY <1>1 DEF NameAt
<1>9. \A i : i \in StepsIn(more) <=> i \in StepsIn(text) \/ (i = n + 1 /\ t.kind = "step")
  BY <1>1, <1>2, <1>4, <1>6
<1>10. \A i : i \in SecondsIn(more) <=> i \in SecondsIn(text) \/ (i = n + 1 /\ t.kind = "seconds")
  BY <1>1, <1>3, <1>5, <1>6
<1> QED
  BY <1>1, <1>7, <1>8, <1>9, <1>10 DEF n

\* What is out of order stays so, and one more token that is no step and no number
\* changes nothing.
LEMMA OrderOfMore ==
  ASSUME NEW text, NEW t, NEW more, OneMoreToken(text, t, more)
  PROVE  /\ WellOrdered(more) => WellOrdered(text)
         /\ t.kind = "blank" /\ WellOrdered(text) => WellOrdered(more)
         /\ t.kind = "seconds" /\ WellOrdered(text) =>
              (WellOrdered(more) <=> SecondsIn(text) = {})
         /\ t.kind = "step" /\ WellOrdered(text) =>
              (WellOrdered(more) <=>
                 /\ t.time <= MaxSeconds /\ Canonical(t.name) \in Kinds
                 /\ \A i \in StepsIn(text) : NameAt(text, i) \notin {Canonical(t.name), "zfs"})
<1> DEFINE n == Len(text)
<1>1. /\ n \in Nat /\ t \in Token /\ more[n + 1] = t
      /\ \A i \in StepsIn(text) \cup SecondsIn(text) :
           i \in 1..n /\ more[i] = text[i] /\ NameAt(more, i) = NameAt(text, i)
      /\ \A i : i \in StepsIn(more) <=> i \in StepsIn(text) \/ (i = n + 1 /\ t.kind = "step")
      /\ \A i : i \in SecondsIn(more) <=> i \in SecondsIn(text) \/ (i = n + 1 /\ t.kind = "seconds")
      /\ NameAt(more, n + 1) = Canonical(t.name)
  BY TokenSets
<1> HIDE DEF n
<1>2. n + 1 \notin 1..n /\ \A i \in 1..n : i <= n + 1 /\ ~(n + 1 <= i)
  BY <1>1
<1>3. ASSUME WellOrdered(more) PROVE WellOrdered(text)
  BY <1>1, <1>3 DEF WellOrdered
<1>4. ASSUME t.kind = "blank", WellOrdered(text) PROVE WellOrdered(more)
  BY <1>1, <1>4 DEF WellOrdered
<1>5. ASSUME t.kind = "seconds", WellOrdered(text) PROVE WellOrdered(more) <=> SecondsIn(text) = {}
  <2>1. StepsIn(more) = StepsIn(text)
    BY <1>1, <1>5
  <2>2. WellOrdered(more) <=> \A i, j \in SecondsIn(more) : i = j
    BY <1>1, <1>5, <2>1 DEF WellOrdered
  <2>3. (\A i, j \in SecondsIn(more) : i = j) <=> SecondsIn(text) = {}
    BY <1>1, <1>2, <1>5
  <2> QED
    BY <2>2, <2>3
<1>6. ASSUME t.kind = "step", WellOrdered(text)
      PROVE  WellOrdered(more) <=>
               /\ t.time <= MaxSeconds /\ Canonical(t.name) \in Kinds
               /\ \A i \in StepsIn(text) : NameAt(text, i) \notin {Canonical(t.name), "zfs"}
  <2>1. SecondsIn(more) = SecondsIn(text)
    BY <1>1, <1>6
  <2>2. n + 1 \in StepsIn(more) /\ \A i \in StepsIn(text) : i \in StepsIn(more)
    BY <1>1, <1>6
  <2>3. ASSUME WellOrdered(more)
        PROVE  /\ t.time <= MaxSeconds /\ Canonical(t.name) \in Kinds
               /\ \A i \in StepsIn(text) : NameAt(text, i) \notin {Canonical(t.name), "zfs"}
    BY <1>1, <1>2, <2>2, <2>3 DEF WellOrdered
  <2>4. ASSUME t.time <= MaxSeconds, Canonical(t.name) \in Kinds,
               \A i \in StepsIn(text) : NameAt(text, i) \notin {Canonical(t.name), "zfs"}
        PROVE  WellOrdered(more)
    <3>1. \A i, j \in SecondsIn(more) : i = j
      BY <1>6, <2>1 DEF WellOrdered
    <3>2. ASSUME NEW i \in StepsIn(text)
          PROVE  /\ NameAt(more, i) \in Kinds /\ more[i].time <= MaxSeconds
                 /\ \A j \in StepsIn(more) : NameAt(more, j) = NameAt(more, i) => i = j
                 /\ NameAt(more, i) # "zfs"
      BY <1>1, <1>6, <2>4 DEF WellOrdered
    <3>3. /\ NameAt(more, n + 1) \in Kinds /\ more[n + 1].time <= MaxSeconds
          /\ \A j \in StepsIn(more) : NameAt(more, j) = NameAt(more, n + 1) => n + 1 = j
          /\ \A j \in StepsIn(more) : j <= n + 1
      BY <1>1, <1>2, <2>4
    <3> QED
      BY <1>1, <3>1, <3>2, <3>3 DEF WellOrdered
  <2> QED
    BY <2>3, <2>4
<1> QED
  BY <1>3, <1>4, <1>5, <1>6

\* A token that is no step before zfs leaves the steps what they are.
LEMMA StepsKept ==
  ASSUME NEW text, NEW t, NEW more, OneMoreToken(text, t, more), NEW steps,
         t.kind # "step" \/ Canonical(t.name) = "zfs",
         NEW at \in [1..Len(steps) -> Freezing(text)], InOrder(text, steps, at)
  PROVE  at \in [1..Len(steps) -> Freezing(more)] /\ InOrder(more, steps, at)
<1> DEFINE n == Len(text)
<1>1. /\ \A i \in StepsIn(text) : more[i] = text[i] /\ NameAt(more, i) = NameAt(text, i)
      /\ \A i : i \in StepsIn(more) <=> i \in StepsIn(text) \/ (i = n + 1 /\ t.kind = "step")
      /\ NameAt(more, n + 1) = Canonical(t.name)
  BY TokenSets
<1>2. \A i : i \in Freezing(text) <=> i \in StepsIn(text) /\ NameAt(text, i) # "zfs"
  BY DEF Freezing
<1>3. \A i : i \in Freezing(more) <=> i \in StepsIn(more) /\ NameAt(more, i) # "zfs"
  BY DEF Freezing
<1>4. \A i : i \in Freezing(more) <=> i \in Freezing(text)
  BY <1>1, <1>2, <1>3
<1>5. Freezing(more) = Freezing(text)
  BY <1>4
<1>6. \A k \in 1..Len(steps) : at[k] \in StepsIn(text)
  BY <1>2
<1> QED
  BY <1>1, <1>5, <1>6 DEF InOrder

\* A step before zfs is the last of the steps.
LEMMA StepAdded ==
  ASSUME NEW text, NEW t, NEW more, OneMoreToken(text, t, more),
         NEW steps, NEW steps2,
         t.kind = "step", Canonical(t.name) # "zfs",
         Len(steps) \in Nat, Len(steps2) = Len(steps) + 1,
         \A k \in 1..Len(steps) : steps2[k] = steps[k],
         steps2[Len(steps) + 1] = [kind |-> Canonical(t.name), time |-> t.time],
         NEW at \in [1..Len(steps) -> Freezing(text)], InOrder(text, steps, at)
  PROVE  \E at2 \in [1..Len(steps2) -> Freezing(more)] : InOrder(more, steps2, at2)
<1> DEFINE n == Len(text)
           m == Len(steps)
           at2 == [k \in 1..Len(steps2) |-> IF k = m + 1 THEN n + 1 ELSE at[k]]
<1>1. /\ n \in Nat /\ more[n + 1] = t
      /\ \A i \in StepsIn(text) : i \in 1..n /\ more[i] = text[i] /\ NameAt(more, i) = NameAt(text, i)
      /\ \A i : i \in StepsIn(more) <=> i \in StepsIn(text) \/ i = n + 1
      /\ NameAt(more, n + 1) = Canonical(t.name)
  BY TokenSets
<1>2. \A i : i \in Freezing(text) <=> i \in StepsIn(text) /\ NameAt(text, i) # "zfs"
  BY DEF Freezing
<1>3. \A i : i \in Freezing(more) <=> i \in StepsIn(more) /\ NameAt(more, i) # "zfs"
  BY DEF Freezing
<1>4. \A i : i \in Freezing(more) <=> i \in Freezing(text) \/ i = n + 1
  BY <1>1, <1>2, <1>3
<1>5. /\ \A k \in 1..m : at[k] \in Freezing(text)
      /\ \A i \in Freezing(text) : \E k \in 1..m : at[k] = i
      /\ \A j, k \in 1..m : j < k => at[j] < at[k]
      /\ \A k \in 1..m : steps[k] = [kind |-> NameAt(text, at[k]), time |-> text[at[k]].time]
  BY DEF InOrder
<1>6. m \in Nat /\ Len(steps2) = m + 1 /\ \A k \in 1..m : steps2[k] = steps[k]
  OBVIOUS
<1>7. steps2[m + 1] = [kind |-> Canonical(t.name), time |-> t.time]
  OBVIOUS
<1>8. at2 = [k \in 1..(m + 1) |-> IF k = m + 1 THEN n + 1 ELSE at[k]]
  BY <1>6
<1> HIDE DEF n, m, at2
<1>9. \A k : k \in 1..(m + 1) <=> k \in 1..m \/ k = m + 1
  BY <1>6
<1>10. at2[m + 1] = n + 1 /\ \A k \in 1..m : at2[k] = at[k]
  <2>1. \A k \in 1..m : k # m + 1 /\ k \in 1..(m + 1)
    BY <1>6
  <2> QED
    BY <1>8, <1>9, <2>1
<1>11. at2 \in [1..(m + 1) -> Freezing(more)]
  <2>1. \A k \in 1..(m + 1) : (IF k = m + 1 THEN n + 1 ELSE at[k]) \in Freezing(more)
    BY <1>4, <1>5, <1>9
  <2> QED
    BY <1>8, <2>1
<1>12. \A i \in Freezing(more) : \E k \in 1..(m + 1) : at2[k] = i
  BY <1>4, <1>5, <1>9, <1>10
<1>13. ASSUME NEW j \in 1..(m + 1), NEW k \in 1..(m + 1), j < k PROVE at2[j] < at2[k]
  <2>1. j \in 1..m
    BY <1>6, <1>13
  <2>2. at2[j] \in 1..n
    BY <1>1, <1>2, <1>5, <1>10, <2>1
  <2>3. CASE k = m + 1
    BY <1>1, <1>10, <2>2, <2>3
  <2>4. CASE k # m + 1
    BY <1>5, <1>9, <1>10, <1>13, <2>1, <2>4
  <2> QED
    BY <2>3, <2>4
<1>14. ASSUME NEW k \in 1..(m + 1)
       PROVE  steps2[k] = [kind |-> NameAt(more, at2[k]), time |-> more[at2[k]].time]
  <2>1. CASE k = m + 1
    BY <1>1, <1>7, <1>10, <2>1
  <2>2. CASE k \in 1..m
    <3>1. at[k] \in StepsIn(text) /\ at2[k] = at[k] /\ steps2[k] = steps[k]
      BY <1>2, <1>5, <1>6, <1>10, <2>2
    <3> QED
      BY <1>1, <1>5, <2>2, <3>1
  <2> QED
    BY <1>9, <2>1, <2>2
<1>15. at2 \in [1..Len(steps2) -> Freezing(more)]
  BY <1>6, <1>11
<1>16. InOrder(more, steps2, at2)
  <2>1. \A k \in 1..(m + 1) :
          steps2[k] = [kind |-> NameAt(more, at2[k]), time |-> more[at2[k]].time]
    BY <1>14
  <2>2. \A j, k \in 1..(m + 1) : j < k => at2[j] < at2[k]
    BY <1>13
  <2>3. 1..Len(steps2) = 1..(m + 1)
    BY <1>6
  <2> QED
    BY <1>12, <1>15, <2>1, <2>2, <2>3 DEF InOrder
<1> QED
  BY <1>15, <1>16

\* The times of a token: none, or what ParseChain has read of them.
LEMMA TokenTimes ==
  ASSUME NEW tok \in Token
  PROVE  /\ tok.kind \in {"blank", "seconds", "step"}
         /\ tok.kind = "seconds" => tok.time \in Nat /\ tok.time # 0
         /\ tok.kind = "step" => tok.time \in Nat
<1>1. \A i \in 1..MaxSeconds : i \in Nat /\ i # 0
  OBVIOUS
<1> QED
  BY <1>1, ChainParserConstants

\* The loop's body: an error for what is out of order, and else what the token says.
LEMMA ScanSays ==
  ASSUME NEW s \in ScanRecord, NEW text, NEW t, NEW more, OneMoreToken(text, t, more),
         Says(text, s)
  PROVE  Scan(s, t) \in ScanRecord /\ Says(more, Scan(s, t))
<1> DEFINE n == Len(text)
           name == Canonical(t.name)
           q == Scan(s, t)
<1>1. /\ n \in Nat /\ t \in Token /\ more[n + 1] = t
      /\ \A i \in StepsIn(text) \cup SecondsIn(text) :
           more[i] = text[i] /\ NameAt(more, i) = NameAt(text, i)
      /\ \A i : i \in StepsIn(more) <=> i \in StepsIn(text) \/ (i = n + 1 /\ t.kind = "step")
      /\ \A i : i \in SecondsIn(more) <=> i \in SecondsIn(text) \/ (i = n + 1 /\ t.kind = "seconds")
      /\ NameAt(more, n + 1) = name
  BY TokenSets
<1>2. /\ t.kind \in {"blank", "seconds", "step"}
      /\ t.kind = "seconds" => t.time \in Nat /\ t.time # 0
      /\ t.kind = "step" => t.time \in Nat
  BY <1>1, TokenTimes
<1>3. /\ s.bad \in BOOLEAN /\ s.zfs \in BOOLEAN /\ s.timeout \in Nat /\ s.seen \subseteq Kinds
      /\ s.steps \in Seq([kind : Kinds, time : Nat])
      /\ s = [steps |-> s.steps, zfs |-> s.zfs, timeout |-> s.timeout, seen |-> s.seen,
              bad |-> s.bad]
  BY DEF ScanRecord
<1> SUFFICES q \in ScanRecord /\ Says(more, q)
  BY DEF q
<1> HIDE DEF n, name, q
<1>4. ASSUME NEW i \in SecondsIn(text) PROVE text[i].time \in Nat /\ text[i].time # 0
  <2>1. text[i] \in Token
    <3>1. text \in Seq(Token) /\ i \in 1..Len(text)
      BY DEF SecondsIn, OneMoreToken
    <3> QED
      BY <3>1
  <2>2. text[i].kind = "seconds"
    BY DEF SecondsIn
  <2> QED
    BY <2>1, <2>2, TokenTimes
<1>5. ASSUME s.bad \/ (q = [s EXCEPT !.bad = TRUE] /\ ~WellOrdered(more))
      PROVE  q \in ScanRecord /\ Says(more, q)
  <2>1. CASE s.bad
    <3>1. q = s
      BY <2>1 DEF Scan, q
    <3>2. ~WellOrdered(more)
      BY <2>1, OrderOfMore DEF Says
    <3> QED
      BY <2>1, <3>1, <3>2 DEF Says
  <2>2. CASE ~s.bad
    <3>1. q \in ScanRecord /\ q.bad
      BY <1>3, <1>5, <2>2 DEF ScanRecord
    <3> QED
      BY <1>5, <2>2, <3>1 DEF Says
  <2> QED
    BY <2>1, <2>2
<1>6. ASSUME ~s.bad
      PROVE  /\ WellOrdered(text)
             /\ \E at \in [1..Len(s.steps) -> Freezing(text)] : InOrder(text, s.steps, at)
             /\ s.zfs <=> \E i \in StepsIn(text) : NameAt(text, i) = "zfs"
             /\ SecondsIn(text) = {} => s.timeout = NoTime
             /\ \A i \in SecondsIn(text) : s.timeout = text[i].time
             /\ \A i \in StepsIn(text) : NameAt(text, i) \in s.seen
             /\ \A x \in s.seen : \E i \in StepsIn(text) : NameAt(text, i) = x
  BY <1>6 DEF Says, Means, ChainOf, SeenSteps
<1>7. ASSUME q \in ScanRecord, ~q.bad, WellOrdered(more),
             \E at \in [1..Len(q.steps) -> Freezing(more)] : InOrder(more, q.steps, at),
             q.zfs <=> \E i \in StepsIn(more) : NameAt(more, i) = "zfs",
             SecondsIn(more) = {} => q.timeout = NoTime,
             \A i \in SecondsIn(more) : q.timeout = more[i].time,
             \A i \in StepsIn(more) : NameAt(more, i) \in q.seen,
             \A x \in q.seen : \E i \in StepsIn(more) : NameAt(more, i) = x
      PROVE  Says(more, q)
  BY <1>7 DEF Says, Means, ChainOf, SeenSteps
<1>8. CASE ~s.bad /\ t.kind = "blank"
  <2>1. q = s
    BY <1>8 DEF Scan, q
  <2>2. StepsIn(more) = StepsIn(text) /\ SecondsIn(more) = SecondsIn(text)
    BY <1>1, <1>8
  <2>3. WellOrdered(more)
    BY <1>6, <1>8, OrderOfMore
  <2>4. \E at \in [1..Len(q.steps) -> Freezing(more)] : InOrder(more, q.steps, at)
    BY <1>6, <1>8, <2>1, StepsKept
  <2> QED
    BY <1>1, <1>6, <1>7, <1>8, <2>1, <2>2, <2>3, <2>4
<1>9. CASE ~s.bad /\ t.kind = "seconds" /\ s.timeout # NoTime
  <2>1. q = [s EXCEPT !.bad = TRUE]
    BY <1>9 DEF Scan, q
  <2>2. ~WellOrdered(more)
    BY <1>6, <1>9, OrderOfMore
  <2> QED
    BY <1>5, <2>1, <2>2
<1>10. CASE ~s.bad /\ t.kind = "seconds" /\ s.timeout = NoTime
  <2>1. q = [s EXCEPT !.timeout = t.time]
    BY <1>10 DEF Scan, q
  <2>2. /\ q \in ScanRecord /\ q.bad = s.bad /\ q.steps = s.steps /\ q.zfs = s.zfs
        /\ q.seen = s.seen /\ q.timeout = t.time
    BY <1>2, <1>3, <1>10, <2>1 DEF ScanRecord
  <2>3. SecondsIn(text) = {}
    BY <1>4, <1>6, <1>10 DEF NoTime
  <2>4. StepsIn(more) = StepsIn(text) /\ SecondsIn(more) = {n + 1}
    BY <1>1, <1>10, <2>3
  <2>5. WellOrdered(more)
    BY <1>6, <1>10, <2>3, OrderOfMore
  <2>6. \E at \in [1..Len(q.steps) -> Freezing(more)] : InOrder(more, q.steps, at)
    BY <1>6, <1>10, <2>2, StepsKept
  <2> QED
    BY <1>1, <1>6, <1>7, <1>10, <2>2, <2>4, <2>5, <2>6
<1>11. ASSUME ~s.bad, t.kind = "step"
       PROVE  WellOrdered(more) <=>
                ~(t.time > MaxSeconds \/ name \notin Kinds \/ name \in s.seen \/ s.zfs)
  <2>1. WellOrdered(more) <=>
          /\ t.time <= MaxSeconds /\ name \in Kinds
          /\ \A i \in StepsIn(text) : NameAt(text, i) \notin {name, "zfs"}
    BY <1>6, <1>11, OrderOfMore DEF name
  <2>2. name \in s.seen <=> \E i \in StepsIn(text) : NameAt(text, i) = name
    BY <1>6, <1>11
  <2>3. t.time > MaxSeconds <=> ~(t.time <= MaxSeconds)
    BY <1>2, <1>11 DEF MaxSeconds
  <2> QED
    BY <1>6, <1>11, <2>1, <2>2, <2>3
<1>12. CASE ~s.bad /\ t.kind = "step" /\ ~WellOrdered(more)
  <2>1. q = [s EXCEPT !.bad = TRUE]
    BY <1>11, <1>12 DEF Scan, StepToken, q, name
  <2> QED
    BY <1>5, <1>12, <2>1
<1>13. CASE ~s.bad /\ t.kind = "step" /\ WellOrdered(more) /\ name = "zfs"
  <2>1. q = [s EXCEPT !.seen = s.seen \cup {name}, !.zfs = TRUE]
    BY <1>11, <1>13 DEF Scan, StepToken, q, name
  <2>2. /\ q \in ScanRecord /\ q.bad = s.bad /\ q.steps = s.steps /\ q.zfs = TRUE
        /\ q.seen = s.seen \cup {name} /\ q.timeout = s.timeout
    BY <1>3, <1>11, <1>13, <2>1 DEF ScanRecord
  <2>3. /\ \A i : i \in StepsIn(more) <=> i \in StepsIn(text) \/ i = n + 1
        /\ SecondsIn(more) = SecondsIn(text)
    BY <1>1, <1>13
  <2>4. \E at \in [1..Len(q.steps) -> Freezing(more)] : InOrder(more, q.steps, at)
    BY <1>6, <1>13, <2>2, StepsKept DEF name
  <2> QED
    BY <1>1, <1>6, <1>7, <1>13, <2>2, <2>3, <2>4
<1>14. CASE ~s.bad /\ t.kind = "step" /\ WellOrdered(more) /\ name # "zfs"
  <2>1. q = [s EXCEPT !.seen = s.seen \cup {name},
                      !.steps = Append(s.steps, [kind |-> name, time |-> t.time])]
    BY <1>11, <1>14 DEF Scan, StepToken, q, name
  <2>2. name \in Kinds /\ [kind |-> name, time |-> t.time] \in [kind : Kinds, time : Nat]
    BY <1>2, <1>11, <1>14
  <2> DEFINE step == [kind |-> name, time |-> t.time]
             steps2 == Append(s.steps, step)
  <2>3. /\ steps2 \in Seq([kind : Kinds, time : Nat]) /\ Len(steps2) = Len(s.steps) + 1
        /\ steps2[Len(s.steps) + 1] = step
        /\ \A k \in 1..Len(s.steps) : steps2[k] = s.steps[k]
    BY <1>3, <2>2, OneMoreItem
  <2>4. Len(s.steps) \in Nat
    BY <1>3
  <2> HIDE DEF steps2
  <2>5. /\ q \in ScanRecord /\ q.bad = s.bad /\ q.steps = steps2 /\ q.zfs = s.zfs
        /\ q.seen = s.seen \cup {name} /\ q.timeout = s.timeout
    BY <1>3, <2>1, <2>2, <2>3 DEF ScanRecord, steps2
  <2>6. /\ \A i : i \in StepsIn(more) <=> i \in StepsIn(text) \/ i = n + 1
        /\ SecondsIn(more) = SecondsIn(text)
    BY <1>1, <1>14
  <2>7. \E at \in [1..Len(q.steps) -> Freezing(more)] : InOrder(more, q.steps, at)
    <3>1. PICK at \in [1..Len(s.steps) -> Freezing(text)] : InOrder(text, s.steps, at)
      BY <1>6, <1>14
    <3>2. /\ t.kind = "step" /\ Canonical(t.name) # "zfs" /\ OneMoreToken(text, t, more)
          /\ Len(q.steps) = Len(s.steps) + 1
          /\ \A k \in 1..Len(s.steps) : q.steps[k] = s.steps[k]
          /\ q.steps[Len(s.steps) + 1] = [kind |-> Canonical(t.name), time |-> t.time]
      BY <1>14, <2>3, <2>5 DEF name
    <3> HIDE DEF q
    <3> QED
      BY <2>4, <3>1, <3>2, StepAdded
  <2> QED
    BY <1>1, <1>6, <1>7, <1>14, <2>5, <2>6, <2>7
<1> QED
  BY <1>2, <1>5, <1>8, <1>9, <1>10, <1>12, <1>13, <1>14 DEF NoTime

\* The chain is not empty when there is a step.
LEMMA AcceptsSteps ==
  ASSUME NEW text, NEW s \in ScanRecord, Says(text, s)
  PROVE  Accepts(s) <=> WellFormed(text)
<1>1. CASE s.bad
  BY <1>1 DEF Accepts, WellFormed, Says
<1>2. CASE ~s.bad
  <2>1. PICK at \in [1..Len(s.steps) -> Freezing(text)] :
          \A i \in Freezing(text) : \E k \in 1..Len(s.steps) : at[k] = i
    BY <1>2 DEF Says, Means, ChainOf, InOrder
  <2>2. s.zfs <=> \E i \in StepsIn(text) : NameAt(text, i) = "zfs"
    BY <1>2 DEF Says, Means, ChainOf
  <2>3. Len(s.steps) \in Nat /\ (s.steps # <<>> <=> 1..Len(s.steps) # {})
    <3>1. s.steps \in Seq([kind : Kinds, time : Nat])
      BY DEF ScanRecord
    <3>2. Len(s.steps) \in Nat /\ (s.steps = <<>> <=> Len(s.steps) = 0)
      BY <3>1
    <3> QED
      BY <3>2
  <2>4. s.steps # <<>> <=> Freezing(text) # {}
    BY <2>1, <2>3
  <2>5. StepsIn(text) # {} <=> s.steps # <<>> \/ s.zfs
    BY <2>2, <2>4 DEF Freezing
  <2> QED
    BY <1>2, <2>5 DEF Accepts, WellFormed, Says
<1> QED
  BY <1>1, <1>2

ChainInv ==
  /\ read \in Seq(Token) /\ scan \in ScanRecord /\ Says(read, scan)
  /\ verdict = "reading" \/ verdict = IF Accepts(scan) THEN "ok" ELSE "error"

LEMMA InitChainInv == ChainInit => ChainInv
<1> SUFFICES ASSUME ChainInit PROVE ChainInv
  OBVIOUS
<1>1. read = <<>> /\ scan = EmptyScan /\ verdict = "reading"
  BY DEF ChainInit
<1>2. EmptyScan \in ScanRecord /\ <<>> \in Seq(Token)
  BY DEF EmptyScan, ScanRecord, NoTime
<1>3. StepsIn(<<>>) = {} /\ SecondsIn(<<>>) = {} /\ Freezing(<<>>) = {}
  <2>1. Len(<<>>) = 0
    OBVIOUS
  <2> QED
    BY <2>1 DEF StepsIn, SecondsIn, Freezing
<1>4. WellOrdered(<<>>)
  BY <1>3 DEF WellOrdered
<1>5. \E at \in [1..Len(<<>>) -> Freezing(<<>>)] : InOrder(<<>>, <<>>, at)
  <2> DEFINE at == [k \in {} |-> k]
  <2>1. 1..Len(<<>>) = {}
    OBVIOUS
  <2>2. at \in [{} -> Freezing(<<>>)]
    OBVIOUS
  <2> QED
    BY <1>3, <2>1, <2>2 DEF InOrder
<1>6. Says(<<>>, EmptyScan)
  BY <1>3, <1>4, <1>5 DEF Says, Means, ChainOf, SeenSteps, EmptyScan
<1> QED
  BY <1>1, <1>2, <1>6 DEF ChainInv

LEMMA NextChainInv == ChainInv /\ [ChainNext]_chainVars => ChainInv'
<1> SUFFICES ASSUME ChainInv, [ChainNext]_chainVars PROVE ChainInv'
  OBVIOUS
<1>1. ASSUME NEW t \in Token, ReadToken(t) PROVE ChainInv'
  <2>1. verdict' = "reading" /\ read' = Append(read, t) /\ scan' = Scan(scan, t)
    BY <1>1 DEF ReadToken
  <2>2. OneMoreToken(read, t, read')
    BY <2>1, OneMoreItem DEF ChainInv, OneMoreToken
  <2>3. scan' \in ScanRecord /\ Says(read', scan')
    BY <2>1, <2>2, ScanSays DEF ChainInv
  <2> QED
    BY <2>1, <2>2, <2>3 DEF ChainInv, OneMoreToken
<1>2. CASE EndOfText
  BY <1>2 DEF ChainInv, EndOfText
<1>3. CASE UNCHANGED chainVars
  BY <1>3 DEF ChainInv, chainVars
<1> QED
  BY <1>1, <1>2, <1>3 DEF ChainNext

\* ParseChain accepts the chains of the language and makes of each what it says,
\* whatever the tokens are and however many (ParseChain, policy.go).
THEOREM TheLanguageIsParsed == ChainSpec => []ParsesTheLanguage
<1>1. ChainInv => ParsesTheLanguage
  <2> SUFFICES ASSUME ChainInv, verdict # "reading"
               PROVE  /\ verdict = "ok" <=> WellFormed(read)
                      /\ verdict = "ok" => Means(read, ChainOf(scan))
    BY DEF ParsesTheLanguage
  <2>1. verdict = "ok" <=> Accepts(scan)
    BY DEF ChainInv
  <2>2. Accepts(scan) <=> WellFormed(read)
    BY AcceptsSteps DEF ChainInv
  <2>3. Accepts(scan) => Means(read, ChainOf(scan))
    BY DEF Accepts, ChainInv, Says
  <2> QED
    BY <2>1, <2>2, <2>3
<1>2. ChainSpec => []ChainInv
  BY InitChainInv, NextChainInv, PTL DEF ChainSpec
<1> QED
  BY <1>1, <1>2, PTL

-----------------------------------------------------------------------------
(***************************************************************************)
(* A chain's text form.  Scans is defined by recursion; that there is such *)
(* a function is an induction over the number of tokens, for which a least *)
(* counterexample is taken.                                                *)
(***************************************************************************)
\* A set of numbers that is not empty has a least one.
LEMMA LeastNumber ==
  ASSUME NEW T \in SUBSET Nat, T # {}
  PROVE  \E x \in T : \A y \in T : x <= y
<1> DEFINE Less == OpToRel(<, Nat)
<1>1. IsWellFoundedOn(Less, Nat)
  BY NatLessThanWellFounded
<1> HIDE DEF Less
<1>2. PICK x \in T : \A y \in T : ~(<<y, x>> \in Less)
  BY <1>1, WFMin
<1>3. \A y \in T : ~(y < x)
  BY <1>2 DEF Less, OpToRel
<1> QED
  BY <1>3

\* The scan after a token is made from the one before it.
LEMMA ScansStep ==
  ASSUME NEW text, Len(text) \in Nat
  PROVE  /\ Scans(text)[0] = EmptyScan
         /\ \A i \in 1..Len(text) : Scans(text)[i] = Scan(Scans(text)[i - 1], text[i])
<1> DEFINE n == Len(text)
           Body(f, i) == IF i = 0 THEN EmptyScan ELSE Scan(f[i - 1], text[i])
           Is(f, m)   == f = [i \in 0..m |-> Body(f, i)]
           T == {m \in 0..n : ~\E f : Is(f, m)}
<1>1. Scans(text) = CHOOSE f : Is(f, n)
  BY DEF Scans
<1>2. ASSUME NEW f, NEW m \in 0..n, \A i \in 0..m : f[i] = Body(f, i),
             f = [i \in 0..m |-> f[i]]
      PROVE  Is(f, m)
  <2>1. [i \in 0..m |-> f[i]] = [i \in 0..m |-> Body(f, i)]
    BY <1>2
  <2> QED
    BY <1>2, <2>1
<1>3. T = {}
  <2> SUFFICES ASSUME T # {} PROVE FALSE
    OBVIOUS
  <2>1. PICK m \in T : \A k \in T : m <= k
    <3>1. T \in SUBSET Nat
      OBVIOUS
    <3> HIDE DEF T
    <3> QED
      BY <3>1, LeastNumber
  <2>2. m \in 0..n /\ ~\E f : Is(f, m)
    OBVIOUS
  <2>3. CASE m = 0
    <3> DEFINE f == [i \in 0..0 |-> EmptyScan]
    <3>1. \A i \in 0..m : f[i] = Body(f, i)
      BY <2>3
    <3>2. f = [i \in 0..m |-> f[i]]
      BY <2>3
    <3> HIDE DEF f
    <3> QED
      BY <1>2, <2>2, <3>1, <3>2
  <2>4. CASE m # 0
    <3>1. m - 1 \in 0..n /\ m - 1 \notin T
      <4>1. m - 1 \in 0..n /\ m - 1 < m
        BY <2>2, <2>4
      <4> HIDE DEF T
      <4>2. m - 1 \in T => m <= m - 1
        BY <2>1
      <4> QED
        BY <2>2, <4>1, <4>2
    <3>2. PICK g : Is(g, m - 1)
      BY <3>1
    <3>3. \A i \in 0..(m - 1) : g[i] = Body(g, i)
      BY <3>2
    <3> DEFINE f == [i \in 0..m |-> IF i = m THEN Scan(g[m - 1], text[m]) ELSE g[i]]
    <3>4. f[m] = Scan(g[m - 1], text[m]) /\ \A i \in 0..(m - 1) : f[i] = g[i]
      BY <2>2
    <3>5. f = [i \in 0..m |-> f[i]]
      OBVIOUS
    <3> HIDE DEF f, Is
    <3>6. ASSUME NEW i \in 0..m PROVE f[i] = Body(f, i)
      <4>1. CASE i = m
        <5>1. m - 1 \in 0..(m - 1)
          BY <2>2, <2>4
        <5> QED
          BY <2>4, <3>4, <4>1, <5>1
      <4>2. CASE i # m
        <5>1. i \in 0..(m - 1) /\ (i # 0 => i - 1 \in 0..(m - 1))
          BY <2>2, <4>2
        <5> QED
          BY <3>3, <3>4, <5>1
      <4> QED
        BY <4>1, <4>2
    <3> QED
      BY <1>2, <2>2, <3>5, <3>6
  <2> QED
    BY <2>3, <2>4
<1>4. Is(Scans(text), n)
  <2>1. \E f : Is(f, n)
    BY <1>3
  <2> HIDE DEF Is
  <2> QED
    BY <1>1, <2>1
<1>5. \A i \in 0..n : Scans(text)[i] = Body(Scans(text), i)
  BY <1>4
<1> QED
  BY <1>5

\* What ParseChain makes of the first i steps of a chain's text.
Written(c, q, i) ==
  /\ q \in ScanRecord /\ ~q.bad /\ ~q.zfs /\ q.timeout = NoTime
  /\ Len(q.steps) = i
  /\ \A k \in 1..i : q.steps[k] = c.steps[k]
  /\ \A x : x \in q.seen <=> \E k \in 1..i : x = c.steps[k].kind

\* A chain that ParseChain returns: each step once, and zfs is not among them.
Parsed(c) ==
  /\ c.steps \in Seq([kind : Kinds, time : Nat]) /\ c.zfs \in BOOLEAN /\ c.timeout \in Nat
  /\ c = [steps |-> c.steps, zfs |-> c.zfs, timeout |-> c.timeout]
  /\ \A k \in 1..Len(c.steps) : /\ c.steps[k].kind # "zfs" /\ c.steps[k].time <= MaxSeconds
                                /\ c.steps[k] = [kind |-> c.steps[k].kind, time |-> c.steps[k].time]
                                /\ c.steps[k].kind \in Kinds /\ c.steps[k].time \in Nat
  /\ \A j, k \in 1..Len(c.steps) : c.steps[j].kind = c.steps[k].kind => j = k
  /\ Len(c.steps) # 0 \/ c.zfs

\* The first tokens of the text, in words that need no sequence operator.
Begins(text, c) ==
  /\ Len(text) \in Nat /\ Len(c.steps) <= Len(text)
  /\ \A i \in 1..Len(c.steps) :
       text[i] = [kind |-> "step", name |-> c.steps[i].kind, time |-> c.steps[i].time]

\* A step that is known, new and before zfs is appended.
LEMMA StepWritten ==
  ASSUME NEW c, Parsed(c), NEW i \in 1..Len(c.steps), NEW q, Written(c, q, i - 1), NEW t,
         t = [kind |-> "step", name |-> c.steps[i].kind, time |-> c.steps[i].time]
  PROVE  Written(c, Scan(q, t), i)
<1> DEFINE name == c.steps[i].kind
           time == c.steps[i].time
           step == [kind |-> name, time |-> time]
           q2   == [q EXCEPT !.seen = q.seen \cup {name}, !.steps = Append(q.steps, step)]
<1>1. /\ Len(c.steps) \in Nat /\ i \in Nat /\ 1 <= i /\ i <= Len(c.steps)
      /\ name \in Kinds /\ name # "zfs" /\ time \in Nat /\ time <= MaxSeconds /\ c.steps[i] = step
  BY DEF Parsed
<1>2. /\ q \in ScanRecord /\ ~q.bad /\ ~q.zfs /\ q.timeout = NoTime /\ Len(q.steps) = i - 1
      /\ \A k \in 1..(i - 1) : q.steps[k] = c.steps[k]
      /\ \A x : x \in q.seen <=> \E k \in 1..(i - 1) : x = c.steps[k].kind
  BY DEF Written
<1>3. Canonical(name) = name
  BY <1>1 DEF Canonical, Kinds
<1>4. name \notin q.seen
  <2>1. \A j, k \in 1..Len(c.steps) : c.steps[j].kind = c.steps[k].kind => j = k
    BY DEF Parsed
  <2>2. \A k \in 1..(i - 1) : k \in 1..Len(c.steps) /\ k # i
    BY <1>1
  <2> QED
    BY <1>1, <1>2, <2>1, <2>2
<1>5. ~(time > MaxSeconds)
  BY <1>1 DEF MaxSeconds
<1>6. t.kind = "step" /\ t.name = name /\ t.time = time
  OBVIOUS
<1> HIDE DEF name, time
<1>7. Scan(q, t) = q2
  BY <1>1, <1>2, <1>3, <1>4, <1>5, <1>6 DEF Scan, StepToken
<1>8. /\ q.steps \in Seq([kind : Kinds, time : Nat]) /\ q.seen \subseteq Kinds
      /\ q = [steps |-> q.steps, zfs |-> q.zfs, timeout |-> q.timeout, seen |-> q.seen, bad |-> q.bad]
      /\ q.zfs \in BOOLEAN /\ q.bad \in BOOLEAN /\ q.timeout \in Nat
  BY <1>2 DEF ScanRecord
<1> DEFINE steps2 == Append(q.steps, step)
<1>9. /\ steps2 \in Seq([kind : Kinds, time : Nat]) /\ Len(steps2) = Len(q.steps) + 1
      /\ steps2[Len(q.steps) + 1] = step
      /\ \A k \in 1..Len(q.steps) : steps2[k] = q.steps[k]
  BY <1>1, <1>8, OneMoreItem
<1> HIDE DEF steps2
<1>10. /\ q2 \in ScanRecord /\ q2.bad = q.bad /\ q2.zfs = q.zfs /\ q2.timeout = q.timeout
       /\ q2.steps = steps2 /\ q2.seen = q.seen \cup {name}
  BY <1>1, <1>8, <1>9 DEF ScanRecord, steps2
<1> HIDE DEF q2
<1>11. \A k \in 1..i : q2.steps[k] = c.steps[k]
  <2> SUFFICES ASSUME NEW k \in 1..i PROVE q2.steps[k] = c.steps[k]
    OBVIOUS
  <2>1. CASE k = i
    BY <1>1, <1>2, <1>9, <1>10, <2>1
  <2>2. CASE k # i
    <3>1. k \in 1..(i - 1)
      BY <1>1, <2>2
    <3> QED
      BY <1>2, <1>9, <1>10, <3>1
  <2> QED
    BY <2>1, <2>2
<1>12. \A x : x \in q2.seen <=> \E k \in 1..i : x = c.steps[k].kind
  <2>1. \A k : k \in 1..i <=> k \in 1..(i - 1) \/ k = i
    BY <1>1
  <2> QED
    BY <1>2, <1>10, <2>1 DEF name
<1>13. Len(q2.steps) = i
  BY <1>1, <1>2, <1>9, <1>10
<1> QED
  BY <1>2, <1>7, <1>10, <1>11, <1>12, <1>13 DEF Written

\* So all of them are, by induction.
LEMMA AllWritten ==
  ASSUME NEW c, Parsed(c), NEW text, Begins(text, c)
  PROVE  Written(c, Scans(text)[Len(c.steps)], Len(c.steps))
<1> DEFINE m == Len(c.steps)
           s == Scans(text)
           T == {i \in 0..m : ~Written(c, s[i], i)}
<1>1. m \in Nat /\ Len(text) \in Nat /\ m <= Len(text)
  BY DEF Parsed, Begins
<1>2. s[0] = EmptyScan /\ \A i \in 1..m : s[i] = Scan(s[i - 1], text[i])
  BY <1>1, ScansStep
<1> HIDE DEF m, s
<1>3. Written(c, s[0], 0)
  <2>1. EmptyScan \in ScanRecord
    BY DEF EmptyScan, ScanRecord, NoTime
  <2>2. Len(EmptyScan.steps) = 0 /\ ~EmptyScan.bad /\ ~EmptyScan.zfs /\ EmptyScan.timeout = NoTime
    BY DEF EmptyScan
  <2>3. \A k : k \notin 1..0
    OBVIOUS
  <2>4. EmptyScan.seen = {}
    BY DEF EmptyScan
  <2> QED
    BY <1>2, <2>1, <2>2, <2>3, <2>4 DEF Written
<1>4. T = {}
  <2> SUFFICES ASSUME T # {} PROVE FALSE
    OBVIOUS
  <2>1. PICK i \in T : \A k \in T : i <= k
    <3>1. T \in SUBSET Nat
      OBVIOUS
    <3> HIDE DEF T
    <3> QED
      BY <3>1, LeastNumber
  <2>2. i \in 0..m /\ ~Written(c, s[i], i)
    OBVIOUS
  <2>3. i # 0
    BY <1>3, <2>2
  <2>4. i \in 1..m /\ i - 1 \in 0..m /\ i - 1 \notin T
    BY <1>1, <2>1, <2>2, <2>3
  <2>5. Written(c, s[i - 1], i - 1)
    BY <2>4
  <2>6. text[i] = [kind |-> "step", name |-> c.steps[i].kind, time |-> c.steps[i].time]
    BY <2>4 DEF Begins, m
  <2>7. Written(c, Scan(s[i - 1], text[i]), i)
    BY <2>4, <2>5, <2>6, StepWritten DEF m
  <2> QED
    BY <1>2, <2>2, <2>4, <2>7
<1>5. m \in 0..m
  BY <1>1
<1>6. Written(c, s[m], m)
  BY <1>4, <1>5
<1> QED
  BY <1>6 DEF m, s

\* The text of a chain: its steps, zfs, and its own timeout.
LEMMA TextOfParts ==
  ASSUME NEW c, Parsed(c)
  PROVE  LET text == TextOf(c)
             m == Len(c.steps)
             z == IF c.zfs THEN 1 ELSE 0
             w == IF c.timeout # NoTime THEN 1 ELSE 0
         IN  /\ Begins(text, c) /\ Len(text) = m + z + w
             /\ c.zfs => text[m + 1] = [kind |-> "step", name |-> "zfs", time |-> NoTime]
             /\ c.timeout # NoTime => text[m + z + 1] = [kind |-> "seconds", time |-> c.timeout]
<1> DEFINE m == Len(c.steps)
           z == IF c.zfs THEN 1 ELSE 0
           w == IF c.timeout # NoTime THEN 1 ELSE 0
           T == [kind : {"step"}, name : Kinds \cup {"zfs"}, time : Nat]
                  \cup [kind : {"seconds"}, time : Nat]
           Zfs == [kind |-> "step", name |-> "zfs", time |-> NoTime]
           Secs == [kind |-> "seconds", time |-> c.timeout]
           A == StepsText(c)
           B == IF c.zfs THEN <<Zfs>> ELSE <<>>
           D == IF c.timeout # NoTime THEN <<Secs>> ELSE <<>>
<1>1. /\ m \in Nat /\ c.zfs \in BOOLEAN /\ c.timeout \in Nat
      /\ \A k \in 1..m : c.steps[k].kind \in Kinds /\ c.steps[k].time \in Nat
  <2>1. c.steps \in Seq([kind : Kinds, time : Nat]) /\ c.zfs \in BOOLEAN /\ c.timeout \in Nat
    BY DEF Parsed
  <2>2. \A k \in 1..m : c.steps[k].kind \in Kinds /\ c.steps[k].time \in Nat
    BY DEF Parsed
  <2> QED
    BY <2>1, <2>2
<1>2. A \in Seq(T) /\ Len(A) = m
      /\ \A k \in 1..m : A[k] = [kind |-> "step", name |-> c.steps[k].kind, time |-> c.steps[k].time]
  <2>1. A = [k \in 1..m |-> [kind |-> "step", name |-> c.steps[k].kind, time |-> c.steps[k].time]]
    BY DEF StepsText
  <2>2. A \in [1..m -> T]
    BY <1>1, <2>1
  <2> QED
    BY <1>1, <2>1, <2>2
<1>3. Zfs \in T /\ Secs \in T
  BY <1>1 DEF NoTime
<1>4. TextOf(c) = (A \o B) \o D
  BY DEF TextOf
<1> HIDE DEF A, Zfs, Secs, T
<1>5. B \in Seq(T) /\ Len(B) = z /\ (c.zfs => B[1] = Zfs)
  BY <1>3
<1>6. D \in Seq(T) /\ Len(D) = w /\ (c.timeout # NoTime => D[1] = Secs)
  BY <1>3
<1>7. z \in {0, 1} /\ w \in {0, 1} /\ (c.zfs => z = 1) /\ (c.timeout # NoTime => w = 1)
  OBVIOUS
<1> DEFINE AB == A \o B
<1>8. /\ AB \in Seq(T) /\ Len(AB) = m + z
      /\ \A i \in 1..(m + z) : AB[i] = IF i <= m THEN A[i] ELSE B[i - m]
  <2> HIDE DEF B, D, z, w, m
  <2>1. /\ A \o B \in Seq(T) /\ Len(A \o B) = Len(A) + Len(B)
        /\ \A i \in 1..(Len(A) + Len(B)) : (A \o B)[i] = IF i <= Len(A) THEN A[i] ELSE B[i - Len(A)]
    BY <1>2, <1>5, ConcatProperties
  <2> QED
    BY <1>2, <1>5, <2>1
<1> HIDE DEF AB, B, D, z, w, m
<1>9. /\ Len(AB \o D) = m + z + w
      /\ \A i \in 1..(m + z + w) : (AB \o D)[i] = IF i <= m + z THEN AB[i] ELSE D[i - (m + z)]
  <2>1. /\ Len(AB \o D) = Len(AB) + Len(D)
        /\ \A i \in 1..(Len(AB) + Len(D)) :
             (AB \o D)[i] = IF i <= Len(AB) THEN AB[i] ELSE D[i - Len(AB)]
    BY <1>6, <1>8, ConcatProperties
  <2> QED
    BY <1>6, <1>8, <2>1
<1>10. TextOf(c) = AB \o D
  BY <1>4 DEF AB
<1> DEFINE text == AB \o D
<1> HIDE DEF text
<1>11. /\ Len(text) = m + z + w
       /\ \A i \in 1..(m + z + w) : text[i] = IF i <= m + z THEN AB[i] ELSE D[i - (m + z)]
  BY <1>9 DEF text
<1>12. \A k \in 1..m : text[k] = [kind |-> "step", name |-> c.steps[k].kind, time |-> c.steps[k].time]
  <2>1. ASSUME NEW k \in 1..m PROVE text[k] = A[k]
    <3>1. k \in 1..(m + z + w) /\ k \in 1..(m + z) /\ k <= m + z /\ k <= m
      BY <1>1, <1>7
    <3> QED
      BY <1>8, <1>11, <3>1
  <2> QED
    BY <1>2, <2>1
<1>13. c.zfs => text[m + 1] = Zfs
  <2> SUFFICES ASSUME c.zfs PROVE text[m + 1] = Zfs
    OBVIOUS
  <2>1. m + 1 \in 1..(m + z + w) /\ m + 1 \in 1..(m + z) /\ m + 1 <= m + z /\ ~(m + 1 <= m)
    BY <1>1, <1>7
  <2>2. (m + 1) - m = 1
    BY <1>1
  <2> QED
    BY <1>5, <1>8, <1>11, <2>1, <2>2
<1>14. c.timeout # NoTime => text[m + z + 1] = Secs
  <2> SUFFICES ASSUME c.timeout # NoTime PROVE text[m + z + 1] = Secs
    OBVIOUS
  <2>1. m + z + 1 \in 1..(m + z + w) /\ ~(m + z + 1 <= m + z)
    BY <1>1, <1>7
  <2>2. (m + z + 1) - (m + z) = 1
    BY <1>1, <1>7
  <2> QED
    BY <1>6, <1>11, <2>1, <2>2
<1>15. Begins(text, c)
  BY <1>1, <1>7, <1>11, <1>12 DEF Begins, m
<1> QED
  BY <1>10, <1>11, <1>13, <1>14, <1>15 DEF text, m, z, w, Zfs, Secs

\* The last tokens, zfs and the timeout, end with the chain itself.
LEMMA TextReadBack ==
  ASSUME NEW c, Parsed(c)
  PROVE  LET again == Scans(TextOf(c))[Len(TextOf(c))]
         IN  Accepts(again) /\ ChainOf(again) = c
<1> DEFINE text == TextOf(c)
           m == Len(c.steps)
           z == IF c.zfs THEN 1 ELSE 0
           w == IF c.timeout # NoTime THEN 1 ELSE 0
           s == Scans(text)
           Zfs == [kind |-> "step", name |-> "zfs", time |-> NoTime]
           Secs == [kind |-> "seconds", time |-> c.timeout]
<1>1. /\ Begins(text, c) /\ Len(text) = m + z + w
      /\ c.zfs => text[m + 1] = Zfs
      /\ c.timeout # NoTime => text[m + z + 1] = Secs
  BY TextOfParts
<1>2. /\ m \in Nat /\ c.zfs \in BOOLEAN /\ c.timeout \in Nat
      /\ c.steps \in Seq([kind : Kinds, time : Nat]) /\ (m # 0 \/ c.zfs)
      /\ c = [steps |-> c.steps, zfs |-> c.zfs, timeout |-> c.timeout]
  BY DEF Parsed
<1>3. /\ z \in {0, 1} /\ w \in {0, 1} /\ (z = 1 <=> c.zfs) /\ (w = 1 <=> c.timeout # NoTime)
  BY <1>2
<1>4. Written(c, s[m], m)
  BY <1>1, AllWritten
<1> HIDE DEF text, m, z, w, s
<1>5. \A i \in 1..(m + z + w) : s[i] = Scan(s[i - 1], text[i])
  <2>1. Len(text) \in Nat
    BY <1>1, <1>2, <1>3
  <2> QED
    BY <1>1, <2>1, ScansStep DEF s
<1>6. /\ s[m] \in ScanRecord /\ ~s[m].bad /\ ~s[m].zfs /\ s[m].timeout = NoTime
      /\ s[m].steps = c.steps /\ "zfs" \notin s[m].seen
  <2>1. /\ s[m] \in ScanRecord /\ ~s[m].bad /\ ~s[m].zfs /\ s[m].timeout = NoTime
        /\ Len(s[m].steps) = m /\ \A k \in 1..m : s[m].steps[k] = c.steps[k]
        /\ \A x : x \in s[m].seen <=> \E k \in 1..m : x = c.steps[k].kind
    BY <1>4 DEF Written
  <2>2. s[m].steps \in Seq([kind : Kinds, time : Nat])
    BY <2>1 DEF ScanRecord
  <2>3. s[m].steps = c.steps
    BY <1>2, <2>1, <2>2, SeqEqual DEF m
  <2>4. \A k \in 1..m : c.steps[k].kind # "zfs"
    BY DEF Parsed, m
  <2> QED
    BY <2>1, <2>3, <2>4
<1>7. /\ s[m + z] \in ScanRecord /\ ~s[m + z].bad /\ s[m + z].zfs = c.zfs
      /\ s[m + z].timeout = NoTime /\ s[m + z].steps = c.steps
  <2>1. CASE ~c.zfs
    <3>1. m + z = m
      BY <1>2, <1>3, <2>1
    <3>2. s[m].zfs \in BOOLEAN
      BY <1>6 DEF ScanRecord
    <3> QED
      BY <1>2, <1>6, <2>1, <3>1, <3>2
  <2>2. CASE c.zfs
    <3>1. m + z = m + 1 /\ m + 1 \in 1..(m + z + w) /\ (m + 1) - 1 = m
      BY <1>2, <1>3, <2>2
    <3>2. s[m + 1] = Scan(s[m], Zfs)
      BY <1>1, <1>5, <2>2, <3>1
    <3>3. ~(NoTime > MaxSeconds) /\ Canonical("zfs") = "zfs" /\ "zfs" \in Kinds
      BY DEF NoTime, MaxSeconds, Canonical, Kinds
    <3>4. Scan(s[m], Zfs) = [s[m] EXCEPT !.seen = s[m].seen \cup {"zfs"}, !.zfs = TRUE]
      BY <1>6, <3>3 DEF Scan, StepToken
    <3>5. /\ s[m].seen \subseteq Kinds /\ s[m].bad \in BOOLEAN /\ s[m].timeout \in Nat
          /\ s[m].steps \in Seq([kind : Kinds, time : Nat])
          /\ s[m] = [steps |-> s[m].steps, zfs |-> s[m].zfs, timeout |-> s[m].timeout,
                     seen |-> s[m].seen, bad |-> s[m].bad]
      BY <1>6 DEF ScanRecord
    <3> DEFINE q == [s[m] EXCEPT !.seen = s[m].seen \cup {"zfs"}, !.zfs = TRUE]
    <3>6. /\ q \in ScanRecord /\ q.bad = s[m].bad /\ q.zfs = TRUE
          /\ q.timeout = s[m].timeout /\ q.steps = s[m].steps
      BY <3>3, <3>5 DEF ScanRecord
    <3>7. s[m + z] = q
      BY <3>1, <3>2, <3>4
    <3> HIDE DEF q
    <3> QED
      BY <1>6, <2>2, <3>6, <3>7
  <2> QED
    BY <2>1, <2>2
<1>8. /\ ~s[m + z + w].bad /\ s[m + z + w].zfs = c.zfs
      /\ s[m + z + w].timeout = c.timeout /\ s[m + z + w].steps = c.steps
  <2>1. CASE c.timeout = NoTime
    <3>1. m + z + w = m + z
      BY <1>2, <1>3, <2>1
    <3> QED
      BY <1>7, <2>1, <3>1
  <2>2. CASE c.timeout # NoTime
    <3>1. /\ m + z + w = m + z + 1 /\ m + z + 1 \in 1..(m + z + w)
          /\ (m + z + 1) - 1 = m + z
      BY <1>2, <1>3, <2>2
    <3>2. s[m + z + 1] = Scan(s[m + z], Secs)
      BY <1>1, <1>5, <2>2, <3>1
    <3>3. Scan(s[m + z], Secs) = [s[m + z] EXCEPT !.timeout = c.timeout]
      BY <1>7 DEF Scan
    <3> QED
      BY <1>7, <3>1, <3>2, <3>3 DEF ScanRecord
  <2> QED
    BY <2>1, <2>2
<1> DEFINE again == s[m + z + w]
<1>9. again = Scans(TextOf(c))[Len(TextOf(c))]
  BY <1>1 DEF s, text
<1>10. ChainOf(again) = c
  BY <1>2, <1>8 DEF ChainOf
<1>11. Accepts(again)
  <2>1. c.steps = <<>> <=> m = 0
    BY <1>2 DEF m
  <2> QED
    BY <1>2, <1>8, <2>1 DEF Accepts
<1> QED
  BY <1>9, <1>10, <1>11

\* What ParseChain accepts is such a chain.
LEMMA AcceptedIsParsed ==
  ASSUME ChainInv, verdict = "ok"
  PROVE  Parsed(ChainOf(scan))
<1> DEFINE c == ChainOf(scan)
<1>1. /\ scan \in ScanRecord /\ Accepts(scan) /\ Says(read, scan)
  BY DEF ChainInv
<1>2. ~scan.bad /\ WellOrdered(read) /\ Means(read, c)
  BY <1>1 DEF Accepts, Says, ScanRecord
<1>3. /\ c.steps = scan.steps /\ c.zfs = scan.zfs /\ c.timeout = scan.timeout
      /\ c = [steps |-> c.steps, zfs |-> c.zfs, timeout |-> c.timeout]
  BY DEF ChainOf
<1>4. /\ c.steps \in Seq([kind : Kinds, time : Nat]) /\ c.zfs \in BOOLEAN /\ c.timeout \in Nat
  BY <1>1, <1>3 DEF ScanRecord
<1>5. Len(c.steps) # 0 \/ c.zfs
  <2>1. c.steps = <<>> <=> Len(c.steps) = 0
    BY <1>4
  <2> QED
    BY <1>1, <1>3, <2>1 DEF Accepts
<1> HIDE DEF c
<1>6. PICK at \in [1..Len(c.steps) -> Freezing(read)] : InOrder(read, c.steps, at)
  BY <1>2 DEF Means
<1>7. /\ \A j, k \in 1..Len(c.steps) : j < k => at[j] < at[k]
      /\ \A k \in 1..Len(c.steps) :
           c.steps[k] = [kind |-> NameAt(read, at[k]), time |-> read[at[k]].time]
  BY <1>6 DEF InOrder
<1>8. \A i \in Freezing(read) : /\ i \in StepsIn(read) /\ i \in Nat
                                /\ NameAt(read, i) # "zfs" /\ read[i].time <= MaxSeconds
  BY <1>2 DEF Freezing, StepsIn, WellOrdered
<1>9. \A k \in 1..Len(c.steps) :
        /\ at[k] \in Freezing(read)
        /\ c.steps[k].kind = NameAt(read, at[k]) /\ c.steps[k].time = read[at[k]].time
        /\ c.steps[k] = [kind |-> c.steps[k].kind, time |-> c.steps[k].time]
        /\ c.steps[k].kind \in Kinds /\ c.steps[k].time \in Nat
  <2>1. \A k \in 1..Len(c.steps) : c.steps[k] \in [kind : Kinds, time : Nat]
    BY <1>4, ElementOfSeq
  <2>2. \A k \in 1..Len(c.steps) : at[k] \in Freezing(read)
    BY <1>6
  <2>3. ASSUME NEW k \in 1..Len(c.steps)
        PROVE  /\ c.steps[k].kind = NameAt(read, at[k]) /\ c.steps[k].time = read[at[k]].time
               /\ c.steps[k] = [kind |-> c.steps[k].kind, time |-> c.steps[k].time]
    <3>1. c.steps[k] = [kind |-> NameAt(read, at[k]), time |-> read[at[k]].time]
      BY <1>7
    <3> QED
      BY <3>1
  <2>4. ASSUME NEW k \in 1..Len(c.steps)
        PROVE  c.steps[k].kind \in Kinds /\ c.steps[k].time \in Nat
    <3>1. c.steps[k] \in [kind : Kinds, time : Nat]
      BY <2>1
    <3> QED
      BY <3>1
  <2> QED
    BY <2>2, <2>3, <2>4
<1>10. ASSUME NEW j \in 1..Len(c.steps), NEW k \in 1..Len(c.steps),
              c.steps[j].kind = c.steps[k].kind
       PROVE  j = k
  <2>1. at[j] = at[k]
    <3>1. \A i, h \in StepsIn(read) : NameAt(read, h) = NameAt(read, i) => i = h
      BY <1>2 DEF WellOrdered
    <3>2. at[j] \in StepsIn(read) /\ at[k] \in StepsIn(read)
      BY <1>8, <1>9
    <3>3. NameAt(read, at[j]) = NameAt(read, at[k])
      BY <1>9, <1>10
    <3> QED
      BY <3>1, <3>2, <3>3
  <2>2. ~(at[j] < at[k]) /\ ~(at[k] < at[j])
    BY <1>8, <1>9, <2>1
  <2>3. j \in Int /\ k \in Int
    OBVIOUS
  <2> QED
    BY <1>7, <2>2, <2>3
<1>11. Parsed(c)
  BY <1>3, <1>4, <1>5, <1>8, <1>9, <1>10 DEF Parsed
<1> QED
  BY <1>11 DEF c

\* A chain can be given back to --policy: the text Chain.String makes of one that was
\* accepted is accepted and is the same chain (ParseChain, Chain.String, policy.go).
THEOREM ChainsCanBeGivenBack == ChainSpec => []TextFormIsTheChain
<1>1. ChainInv => TextFormIsTheChain
  BY AcceptedIsParsed, TextReadBack DEF TextFormIsTheChain
<1>2. ChainSpec => []ChainInv
  BY InitChainInv, NextChainInv, PTL DEF ChainSpec
<1> QED
  BY <1>1, <1>2, PTL
=============================================================================
