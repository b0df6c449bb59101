------------------------- MODULE EsxiCommand_proofs -------------------------
(***************************************************************************)
(* Proofs about EsxiCommand, for any cfg files, environments and flags,    *)
(* any host and any number of changes of it.                               *)
(***************************************************************************)
EXTENDS EsxiCommand, SequenceTheorems, WellFoundedInduction, TLAPS

(***************************************************************************)
(* The inductive invariant of DiscoverNFS.  ever has what each VM is now,  *)
(* and a VM that has stayed was on the export at each of its moments       *)
(* (PastInv).  What was listed names the datastores apart, by the names    *)
(* they were listed with over soap, by those they have had all the time    *)
(* over ssh (ListedInv).  What was read of a VM it was at some moment, its *)
(* power state and its datastores over ssh at two (ReadInv).               *)
(***************************************************************************)
Reading == {"queries", "judge", "done"}
Listed  == {"nfs41", "select", "vms"} \cup Reading

PastInv ==
  /\ ever \in [Vm -> SUBSET [power : Power, files : SUBSET Store]]
  /\ \A v \in Vm : [power |-> power[v], files |-> files[v]] \in ever[v]
  /\ \A v \in stayed : v \in registered /\ \A m \in ever[v] : m.files \cap Export # {}
  /\ ~renamed => name = [s \in Store |-> s]

ListedInv ==
  /\ pc \in {"nfs41", "queries"} => proto = "ssh"
  /\ pc \in Listed =>
       /\ proto \in {"soap", "ssh"}
       /\ proto = "soap" => DOMAIN listed = Store /\ IsInjective(listed)
       /\ proto = "ssh" /\ ~renamed => \A s \in DOMAIN listed : listed[s] = s

SoapRead(v) ==
  \E m \in ever[v] : read[v] = [power |-> m.power, names |-> {listed[s] : s \in m.files}]

SshRead(v) ==
  /\ query[v] \in {"started", "power read", "ok", "error"}
  /\ pc # "queries" => query[v] = "ok"
  /\ read[v].power # "unknown" => \E m \in ever[v] : m.power = read[v].power
  /\ query[v] = "ok" /\ ~renamed => \E m \in ever[v] : m.files = read[v].names

ReadInv ==
  /\ pc \notin Reading \cup {"failed"} => \A v \in Vm : query[v] = "none"
  /\ \A v \in Vm : query[v] # "none" => proto = "ssh"
  /\ pc \in Reading =>
       /\ stayed \subseteq all \cup unread
       /\ \A v \in Vm : query[v] # "none" => v \in all
       /\ proto = "soap" => \A v \in all : SoapRead(v)
       /\ proto = "ssh"  => \A v \in all : SshRead(v)

ClassInv == pc = "done" => class = [v \in Vm |-> ClassOf(v)]

DiscInv == DiscTypeOK /\ PastInv /\ ListedInv /\ ReadInv /\ ClassInv

-----------------------------------------------------------------------------
\* As long as no datastore has been renamed, a set of names is the set itself.
LEMMA NamesAreStores ==
  ASSUME NEW F \in SUBSET Store, NEW f, F \subseteq DOMAIN f, \A s \in DOMAIN f : f[s] = s
  PROVE  {f[s] : s \in F} = F
  OBVIOUS

\* What DiscoverNFS finds when it is called.
LEMMA InitDiscInv == DiscInit => DiscInv
<1> SUFFICES ASSUME DiscInit PROVE DiscInv
  OBVIOUS
<1> USE StoresAssumption, PoolAssumption, BoundAssumption DEF DiscInit, HostInit
<1>1. PICK i \in Inventory : /\ power = [v \in Vm |-> i[v].power]
                             /\ files = [v \in Vm |-> i[v].files]
  OBVIOUS
<1>2. \A v \in Vm : i[v] \in [power : Power, files : SUBSET Store]
  BY <1>1
<1>3. power \in [Vm -> Power] /\ files \in [Vm -> SUBSET Store]
  BY <1>1, <1>2
<1>4. DiscTypeOK
  <2>1. name \in [Store -> Name] /\ IsInjective(name)
    BY DEF Name, IsInjective
  <2>2. read \in [Vm -> [power : Power \cup {"unknown"}, names : SUBSET Name]]
    BY DEF NoRead
  <2>3. DOMAIN listed \subseteq Store /\ Range(listed) \subseteq Name
    BY DEF Range
  <2>4. Pool!PoolTypeOK
    BY DEF Pool!PoolInit, Pool!PoolTypeOK
  <2>5. query \in [Vm -> {"none", "started", "power read", "ok", "error"}]
    OBVIOUS
  <2>6. class \in [Vm -> {"none", "absent", "elsewhere", "unwanted", "off", "suspended",
                         "mixed", "taken"}]
    OBVIOUS
  <2>7. stayed \subseteq Vm /\ registered \subseteq Vm /\ all \subseteq Vm /\ changes \in 0..MaxChanges
    OBVIOUS
  <2> QED
    BY <1>3, <2>1, <2>2, <2>3, <2>4, <2>5, <2>6, <2>7 DEF DiscTypeOK
<1>5. PastInv
  <2>1. ever \in [Vm -> SUBSET [power : Power, files : SUBSET Store]]
    BY <1>3
  <2>2. \A v \in stayed : v \in registered /\ \A m \in ever[v] : m.files \cap Export # {}
    BY DEF Here
  <2> QED
    BY <2>1, <2>2 DEF PastInv
<1>6. ListedInv
  BY DEF ListedInv, Listed, Reading, IsInjective
<1> QED
  BY <1>4, <1>5, <1>6 DEF DiscInv, ReadInv, Reading, ClassInv

-----------------------------------------------------------------------------
(* The host changes. *)

\* Export does not depend on what changes.
LEMMA SameExport == opt' = opt => Export' = Export
  BY DEF Export, OnExport

\* What a change of the host does to what has been so.
LEMMA PastKept ==
  ASSUME DiscTypeOK, PastInv, Past, opt' = opt,
         power' \in [Vm -> Power], files' \in [Vm -> SUBSET Store],
         registered' \subseteq registered,
         name' = name \/ name' # name
  PROVE  /\ PastInv' /\ \A v \in Vm : ever[v] \subseteq ever'[v]
         /\ stayed' \subseteq stayed /\ (~renamed' => ~renamed) /\ renamed' \in BOOLEAN
<1>1. Export' = Export
  BY SameExport
<1>2. /\ ever' = [v \in Vm |-> ever[v] \cup {[power |-> power'[v], files |-> files'[v]]}]
      /\ stayed' = {v \in stayed : v \in registered' /\ files'[v] \cap Export # {}}
      /\ renamed' = (renamed \/ name' # name)
  BY DEF Past
<1>3. stayed' \subseteq stayed /\ renamed' \in BOOLEAN /\ (~renamed' => ~renamed /\ name' = name)
  BY <1>2
<1>4. \A v \in Vm : ever[v] \subseteq ever'[v] /\ [power |-> power'[v], files |-> files'[v]] \in ever'[v]
  BY <1>2
<1>5. \A v \in stayed' : v \in registered' /\ \A m \in ever'[v] : m.files \cap Export # {}
  <2> SUFFICES ASSUME NEW v \in stayed', NEW m \in ever'[v]
               PROVE  v \in registered' /\ m.files \cap Export # {}
    BY <1>2
  <2>1. v \in stayed /\ v \in Vm /\ v \in registered' /\ files'[v] \cap Export # {}
    BY <1>2 DEF DiscTypeOK
  <2>2. CASE m \in ever[v]
    BY <2>1, <2>2 DEF PastInv
  <2>3. CASE m = [power |-> power'[v], files |-> files'[v]]
    BY <2>1, <2>3
  <2> QED
    BY <1>2, <2>1, <2>2, <2>3
<1>6. ever' \in [Vm -> SUBSET [power : Power, files : SUBSET Store]]
  BY <1>2 DEF PastInv
<1>7. ~renamed' => name' = [s \in Store |-> s]
  BY <1>3 DEF PastInv
<1> QED
  BY <1>1, <1>3, <1>4, <1>5, <1>6, <1>7 DEF PastInv

\* What was read stays true of some moment.
LEMMA ReadKept ==
  ASSUME DiscTypeOK, ListedInv, ReadInv, ClassInv, UNCHANGED discVars,
         \A v \in Vm : ever[v] \subseteq ever'[v],
         stayed' \subseteq stayed, ~renamed' => ~renamed
  PROVE  ListedInv' /\ ReadInv' /\ ClassInv'
<1> USE DEF discVars
<1>1. ListedInv'
  BY DEF ListedInv, IsInjective
<1>2. ReadInv'
  <2>1. \A v \in all : SoapRead(v) => SoapRead(v)'
    BY DEF SoapRead, DiscTypeOK
  <2>2. \A v \in all : SshRead(v) => SshRead(v)'
    BY DEF SshRead, DiscTypeOK
  <2> QED
    BY <2>1, <2>2 DEF ReadInv
<1>3. ClassInv'
  <2>1. Selected' = Selected
    BY SameExport DEF Selected
  <2>2. \A v \in Vm : ClassOf(v)' = ClassOf(v)
    BY <2>1 DEF ClassOf
  <2> QED
    BY <2>2 DEF ClassInv
<1> QED
  BY <1>1, <1>2, <1>3

\* A change of the host: everything read of it stays what it was at some moment.
LEMMA ChangeDiscInv == DiscInv /\ Change => DiscInv'
<1> SUFFICES ASSUME DiscInv, Change PROVE DiscInv'
  OBVIOUS
<1> USE BoundAssumption DEF DiscInv
<1>1. Past /\ UNCHANGED discVars
  BY DEF Change
<1>a. opt' = opt
  BY <1>1 DEF discVars
<1>b. changes' \in 0..MaxChanges
  <2>1. changes \in 0..MaxChanges /\ changes < MaxChanges /\ changes' = changes + 1
    BY DEF Change, DiscTypeOK
  <2> QED
    BY <2>1
<1> DEFINE Ranges == /\ registered' \subseteq registered /\ power' \in [Vm -> Power]
                     /\ files' \in [Vm -> SUBSET Store]
                     /\ name' \in [Store -> Name] /\ IsInjective(name')
<1>2. Ranges
  <2>0. /\ registered \subseteq Vm /\ power \in [Vm -> Power] /\ files \in [Vm -> SUBSET Store]
        /\ name \in [Store -> Name] /\ IsInjective(name)
    BY DEF DiscTypeOK
  <2>1. ASSUME NEW v \in registered, NEW p \in Power, power' = [power EXCEPT ![v] = p],
               UNCHANGED <<registered, files, name>>
        PROVE  Ranges
    BY <2>0, <2>1
  <2>2. ASSUME NEW v \in registered, NEW s \in Store,
               files' = [files EXCEPT ![v] = IF s \in @ THEN @ \ {s} ELSE @ \cup {s}],
               UNCHANGED <<registered, power, name>>
        PROVE  Ranges
    <3>1. files' \in [Vm -> SUBSET Store]
      BY <2>0, <2>2
    <3> QED
      BY <2>0, <2>2, <3>1
  <2>3. ASSUME NEW v \in registered, registered' = registered \ {v},
               UNCHANGED <<power, files, name>>
        PROVE  Ranges
    BY <2>0, <2>3
  <2>4. ASSUME NEW s \in Store, NEW n \in Name \ Range(name), name' = [name EXCEPT ![s] = n],
               UNCHANGED <<registered, power, files>>
        PROVE  Ranges
    <3>1. IsInjective(name')
      BY <2>0, <2>4 DEF IsInjective, Range
    <3> QED
      BY <2>0, <2>4, <3>1
  <2> QED
    BY <2>1, <2>2, <2>3, <2>4 DEF Change
<1>3. /\ PastInv' /\ \A v \in Vm : ever[v] \subseteq ever'[v]
      /\ stayed' \subseteq stayed /\ (~renamed' => ~renamed) /\ renamed' \in BOOLEAN
  BY <1>1, <1>a, <1>2, PastKept
<1>4. ListedInv' /\ ReadInv' /\ ClassInv'
  BY <1>1, <1>3, ReadKept
<1>5. DiscTypeOK'
  BY <1>1, <1>b, <1>2, <1>3 DEF DiscTypeOK, discVars, Pool!PoolTypeOK
<1> QED
  BY <1>3, <1>4, <1>5

-----------------------------------------------------------------------------
(* The calls.  They leave the host and what has been so alone. *)

\* What a step of DiscoverNFS leaves alone.
Calling == UNCHANGED <<hostVars, pastVars, opt>>

\* PastInv and what the other parts say of the host stay as they are.
LEMMA PastUntouched ==
  ASSUME PastInv, Calling
  PROVE  PastInv' /\ Export' = Export /\ renamed' = renamed /\ ever' = ever /\ stayed' = stayed
<1>1. Export' = Export
  BY SameExport DEF Calling
<1> QED
  BY <1>1 DEF PastInv, Calling, hostVars, pastVars

\* Slots and sessions come and go beside what the invariant is about.
LEMMA PoolDiscInv ==
  ASSUME DiscInv, \/ UNCHANGED vars
                  \/ \E c \in Vm \cup {Main} : TakeSlot(c) \/ Opens(c)
  PROVE  DiscInv'
<1> USE DEF DiscInv
<1> DEFINE PoolOnly == /\ Calling /\ UNCHANGED <<proto, pc, listed, all, unread, read, query, class>>
                       /\ Pool!PoolTypeOK'
<1>1. PoolOnly
  <2>1. CASE UNCHANGED vars
    BY <2>1 DEF Calling, vars, hostVars, pastVars, discVars, DiscTypeOK, Pool!PoolTypeOK
  <2>2. ASSUME NEW c \in Vm \cup {Main}, TakeSlot(c) \/ Opens(c) PROVE PoolOnly
    <3>1. Pool!TakeSlot(c) \/ Pool!HostAnswers(c)
      BY <2>2 DEF TakeSlot, Opens
    <3>2. Pool!PoolTypeOK'
      BY <3>1 DEF Pool!TakeSlot, Pool!HostAnswers, Pool!PoolTypeOK, DiscTypeOK
    <3> QED
      BY <2>2, <3>2 DEF TakeSlot, Opens, Calling
  <2> QED
    BY <2>1, <2>2
<1>2. PastInv' /\ Export' = Export /\ renamed' = renamed /\ ever' = ever /\ stayed' = stayed
  BY <1>1, PastUntouched
<1>a. ListedInv'
  BY <1>1, <1>2 DEF ListedInv
<1>b. \A v \in Vm : (SoapRead(v)' <=> SoapRead(v)) /\ (SshRead(v)' <=> SshRead(v))
  BY <1>1, <1>2 DEF SoapRead, SshRead
<1>3. ReadInv'
  <2>1. all \subseteq Vm
    BY DEF DiscTypeOK
  <2> QED
    BY <1>1, <1>2, <1>b, <2>1 DEF ReadInv
<1>4. ClassInv'
  BY <1>1, <1>2 DEF Calling, ClassInv, ClassOf, Selected
<1>5. DiscTypeOK'
  BY <1>1 DEF Calling, hostVars, pastVars, DiscTypeOK
<1> QED
  BY <1>2, <1>a, <1>3, <1>4, <1>5

\* A slot that is given back, or none.
LEMMA GiveBackTypeOK ==
  ASSUME NEW c, Pool!PoolTypeOK, \/ Pool!GiveBack(c) \/ channel' = channel
  PROVE  Pool!PoolTypeOK'
  BY DEF Pool!GiveBack, Pool!PoolTypeOK

\* A step that ends in failure, or is taken before anything is read, has only its own
\* part of the invariant to keep.
LEMMA EarlyReadInv ==
  ASSUME pc' \notin Reading,
         \/ \A v \in Vm : query'[v] = "none"
         \/ pc' = "failed" /\ \A v \in Vm : query'[v] # "none" => proto' = "ssh"
  PROVE  ReadInv' /\ ClassInv'
  BY DEF Reading, ReadInv, ClassInv

\* A call that failed: DiscoverNFS returns its error.
LEMMA FailDiscInv ==
  ASSUME DiscInv, Calling, proto' = proto, NEW c, Pool!GiveBack(c), Fail
  PROVE  DiscInv'
<1> USE DEF DiscInv
<1>1. pc' = "failed" /\ UNCHANGED <<listed, all, unread, read, query, class>>
  BY DEF Fail
<1>2. PastInv'
  BY PastUntouched
<1>3. ReadInv' /\ ClassInv'
  <2>1. \A v \in Vm : query'[v] # "none" => proto' = "ssh"
    BY <1>1 DEF ReadInv
  <2> QED
    BY <1>1, <2>1, EarlyReadInv DEF Reading
<1>4. ListedInv'
  BY <1>1 DEF ListedInv, Listed, Reading
<1>5. DiscTypeOK'
  BY <1>1, GiveBackTypeOK DEF Calling, hostVars, pastVars, DiscTypeOK
<1> QED
  BY <1>2, <1>3, <1>4, <1>5

\* DiscoverNFS is called with a transport.
LEMMA BeginDiscInv ==
  ASSUME NEW transport \in {"soap", "ssh"}, DiscInv, Begin(transport)
  PROVE  DiscInv'
<1> USE DEF DiscInv, Begin
<1>1. Calling
  BY DEF Calling
<1>2. PastInv'
  BY <1>1, PastUntouched
<1>3. ReadInv' /\ ClassInv'
  <2>1. \A v \in Vm : query'[v] = "none"
    BY DEF ReadInv, Reading
  <2> QED
    BY <2>1, EarlyReadInv DEF Reading
<1>4. ListedInv'
  BY DEF ListedInv, Listed, Reading
<1>5. DiscTypeOK'
  BY GiveBackTypeOK DEF Calling, hostVars, pastVars, DiscTypeOK
<1> QED
  BY <1>2, <1>3, <1>4, <1>5

\* The NFS 3 mounts, or over soap all datastores: named as they are called now.
LEMMA DatastoresDiscInv == DiscInv /\ Datastores => DiscInv'
<1> SUFFICES ASSUME DiscInv, Datastores PROVE DiscInv'
  OBVIOUS
<1> USE DEF DiscInv
<1>1. /\ Calling /\ proto' = proto /\ Pool!GiveBack(Main) /\ pc = "datastores"
  BY DEF Datastores, Calling
<1>2. CASE Fail
  BY <1>1, <1>2, FailDiscInv
<1>3. ASSUME NEW S \in SUBSET Store, listed' = Names(S), UNCHANGED <<all, unread, read, query, class>>,
             \/ proto = "soap" /\ S = Store /\ pc' = "select"
             \/ proto = "ssh" /\ pc' = "nfs41"
      PROVE  DiscInv'
  <2>1. PastInv' /\ renamed' = renamed
    BY <1>1, PastUntouched
  <2>2. ReadInv' /\ ClassInv'
    <3>1. \A v \in Vm : query'[v] = "none"
      BY <1>1, <1>3 DEF ReadInv, Reading
    <3> QED
      BY <1>3, <3>1, EarlyReadInv DEF Reading
  <2>3. name \in [Store -> Name] /\ IsInjective(name) /\ (~renamed => name = [s \in Store |-> s])
    BY DEF DiscTypeOK, PastInv
  <2>4. DOMAIN listed' = S /\ \A s \in S : listed'[s] = name[s]
    BY <1>3 DEF Names
  <2>5. IsInjective(listed')
    BY <2>3, <2>4 DEF IsInjective
  <2>6. ListedInv'
    BY <1>1, <1>3, <2>1, <2>3, <2>4, <2>5 DEF ListedInv, Listed, Reading
  <2>7. DOMAIN listed' \subseteq Store /\ Range(listed') \subseteq Name
    BY <2>3, <2>4 DEF Range
  <2>8. DiscTypeOK'
    <3>1. pc' \in {"select", "nfs41"}
      BY <1>3
    <3>2. Pool!PoolTypeOK'
      BY <1>1, GiveBackTypeOK DEF DiscTypeOK
    <3> QED
      BY <1>1, <1>3, <2>7, <3>1, <3>2 DEF Calling, hostVars, pastVars, DiscTypeOK
  <2> QED
    BY <2>1, <2>2, <2>6, <2>8
<1> QED
  BY <1>2, <1>3 DEF Datastores

\* The NFS 4.1 mounts are added, or not.
LEMMA Datastores41DiscInv == DiscInv /\ Datastores41 => DiscInv'
<1> SUFFICES ASSUME DiscInv, Datastores41 PROVE DiscInv'
  OBVIOUS
<1> USE DEF DiscInv
<1>1. /\ Calling /\ Pool!GiveBack(Main) /\ pc = "nfs41" /\ pc' = "select"
      /\ UNCHANGED <<proto, all, unread, read, query, class>>
  BY DEF Datastores41, Calling
<1>2. PastInv' /\ renamed' = renamed
  BY <1>1, PastUntouched
<1>3. ReadInv' /\ ClassInv'
  <2>1. \A v \in Vm : query'[v] = "none"
    BY <1>1 DEF ReadInv, Reading
  <2> QED
    BY <1>1, <2>1, EarlyReadInv DEF Reading
<1>4. /\ DOMAIN listed \subseteq Store /\ DOMAIN listed' \subseteq Store
      /\ \A s \in DOMAIN listed' : listed'[s] = IF s \in DOMAIN listed THEN listed[s] ELSE name[s]
  BY DEF Datastores41, DiscTypeOK
<1>5. ListedInv'
  <2>1. ~renamed => \A s \in DOMAIN listed' : listed'[s] = s
    <3>1. ~renamed => /\ name = [s \in Store |-> s]
                      /\ \A s \in DOMAIN listed : listed[s] = s
      BY <1>1 DEF ListedInv, Listed, PastInv
    <3> QED
      BY <1>4, <3>1
  <2> QED
    BY <1>1, <1>2, <2>1 DEF ListedInv, Listed
<1>6. DiscTypeOK'
  <2>1. Range(listed') \subseteq Name
    <3>1. name \in [Store -> Name] /\ \A s \in DOMAIN listed : listed[s] \in Name
      BY DEF DiscTypeOK, Range
    <3> QED
      BY <1>4, <3>1 DEF Range
  <2>2. Pool!PoolTypeOK'
    BY <1>1, GiveBackTypeOK DEF DiscTypeOK
  <2> QED
    BY <1>1, <1>4, <2>1, <2>2 DEF Calling, hostVars, pastVars, DiscTypeOK
<1> QED
  BY <1>2, <1>3, <1>5, <1>6

\* The datastores that match are counted.
LEMMA SelectDiscInv == DiscInv /\ Select => DiscInv'
<1> SUFFICES ASSUME DiscInv, Select PROVE DiscInv'
  OBVIOUS
<1> USE DEF DiscInv
<1>1. /\ Calling /\ pc = "select" /\ pc' \in {"failed", "vms"}
      /\ UNCHANGED <<proto, listed, all, unread, read, query, channel, class>>
  BY DEF Select, Calling
<1>2. PastInv' /\ renamed' = renamed
  BY <1>1, PastUntouched
<1>3. ReadInv' /\ ClassInv'
  <2>1. \A v \in Vm : query'[v] = "none"
    BY <1>1 DEF ReadInv, Reading
  <2> QED
    BY <1>1, <2>1, EarlyReadInv DEF Reading
<1>4. ListedInv'
  BY <1>1, <1>2 DEF ListedInv, Listed, Reading
<1>5. DiscTypeOK'
  BY <1>1 DEF Calling, hostVars, pastVars, DiscTypeOK, Pool!PoolTypeOK
<1> QED
  BY <1>2, <1>3, <1>4, <1>5

\* The VMs are listed: over soap each is read at this moment.
LEMMA ListVmsDiscInv == DiscInv /\ ListVms => DiscInv'
<1> SUFFICES ASSUME DiscInv, ListVms PROVE DiscInv'
  OBVIOUS
<1> USE DEF DiscInv
<1>1. Calling /\ proto' = proto /\ Pool!GiveBack(Main) /\ pc = "vms"
  BY DEF ListVms, Calling
<1>2. CASE Fail
  BY <1>1, <1>2, FailDiscInv
<1>3. ASSUME unread' \in SUBSET (Garbled \cap registered), all' = registered \ unread',
             read' = [v \in Vm |-> IF v \in all' THEN FirstRead(v) ELSE NoRead],
             query' = [v \in Vm |-> IF proto = "ssh" /\ v \in all' THEN "started" ELSE "none"],
             pc' = IF proto = "soap" THEN "judge" ELSE "queries",
             UNCHANGED <<listed, class>>
      PROVE  DiscInv'
  <2>1. PastInv' /\ renamed' = renamed /\ ever' = ever /\ stayed' = stayed
    BY <1>1, PastUntouched
  <2>2. /\ proto \in {"soap", "ssh"} /\ registered \subseteq Vm
        /\ proto = "soap" => DOMAIN listed = Store
        /\ files \in [Vm -> SUBSET Store] /\ power \in [Vm -> Power] /\ name \in [Store -> Name]
        /\ Range(listed) \subseteq Name
    BY <1>1 DEF ListedInv, Listed, DiscTypeOK
  <2>3. ListedInv'
    BY <1>1, <1>3, <2>1, <2>2 DEF ListedInv, Listed, Reading
  <2>4. ReadInv'
    <3>1. stayed' \subseteq all' \cup unread'
      BY <1>3, <2>1 DEF PastInv
    <3>2. ASSUME proto = "soap", NEW v \in all' PROVE SoapRead(v)'
      <4>1. read'[v] = [power |-> power[v], names |-> {listed[s] : s \in files[v]}]
        BY <1>3, <2>2, <3>2 DEF FirstRead, NamesOf
      <4>2. [power |-> power[v], files |-> files[v]] \in ever'[v]
        BY <1>3, <2>1, <2>2 DEF PastInv
      <4>3. listed' = listed
        BY <1>3
      <4> QED
        BY <4>1, <4>2, <4>3 DEF SoapRead
    <3>3. ASSUME proto = "ssh", NEW v \in all' PROVE SshRead(v)'
      <4>1. read'[v].power = "unknown"
        BY <1>3, <2>2, <3>3 DEF FirstRead, NoRead
      <4> QED
        BY <1>3, <2>2, <3>3, <4>1 DEF SshRead
    <3> QED
      BY <1>1, <1>3, <2>2, <3>1, <3>2, <3>3 DEF ReadInv, Reading
  <2>5. ClassInv'
    BY <1>3 DEF ClassInv
  <2>6. DiscTypeOK'
    <3>1. \A v \in Vm : FirstRead(v) \in [power : Power \cup {"unknown"}, names : SUBSET Name]
      <4> SUFFICES ASSUME NEW v \in Vm
                   PROVE  FirstRead(v) \in [power : Power \cup {"unknown"}, names : SUBSET Name]
        OBVIOUS
      <4>1. proto = "soap" => NamesOf(v) \subseteq Name
        BY <2>2 DEF NamesOf, Range
      <4>2. name[Home[v]] \in Name
        BY <2>2, StoresAssumption
      <4> QED
        BY <2>2, <4>1, <4>2 DEF FirstRead, NoRead
    <3>2. Pool!PoolTypeOK'
      BY <1>1, GiveBackTypeOK DEF DiscTypeOK
    <3>3. read' \in [Vm -> [power : Power \cup {"unknown"}, names : SUBSET Name]]
      BY <1>3, <3>1 DEF NoRead
    <3>4. /\ query' \in [Vm -> {"none", "started", "power read", "ok", "error"}]
          /\ pc' \in {"judge", "queries"}
      BY <1>3
    <3> QED
      BY <1>1, <1>3, <2>2, <3>2, <3>3, <3>4 DEF Calling, hostVars, pastVars, DiscTypeOK
  <2> QED
    BY <2>1, <2>3, <2>4, <2>5, <2>6
<1> QED
  BY <1>2, <1>3 DEF ListVms

\* All queries have ended, none with an error, or the listing fails.
LEMMA CollectDiscInv == DiscInv /\ Collect => DiscInv'
<1> SUFFICES ASSUME DiscInv, Collect PROVE DiscInv'
  OBVIOUS
<1> USE DEF DiscInv
<1>1. /\ Calling /\ pc = "queries"
      /\ UNCHANGED <<proto, listed, all, unread, read, query, channel, class>>
      /\ pc' = "failed" \/ (pc' = "judge" /\ \A v \in all : query[v] = "ok")
  BY DEF Collect, Calling
<1>2. PastInv' /\ renamed' = renamed /\ ever' = ever /\ stayed' = stayed
  BY <1>1, PastUntouched
<1>3. ListedInv' /\ ClassInv'
  BY <1>1, <1>2 DEF ListedInv, Listed, Reading, ClassInv
<1>4. ReadInv'
  <2>1. CASE pc' = "failed"
    <3>1. \A v \in Vm : query'[v] # "none" => proto' = "ssh"
      BY <1>1 DEF ReadInv
    <3> QED
      BY <2>1, <3>1, EarlyReadInv DEF Reading
  <2>2. CASE pc' = "judge" /\ \A v \in all : query[v] = "ok"
    <3>1. proto = "ssh" /\ \A v \in all : SshRead(v)
      BY <1>1 DEF ListedInv, ReadInv, Reading
    <3>2. \A v \in all : SshRead(v)'
      BY <1>1, <1>2, <2>2, <3>1 DEF SshRead
    <3> QED
      BY <1>1, <1>2, <2>2, <3>1, <3>2 DEF ReadInv, Reading
  <2> QED
    BY <1>1, <2>1, <2>2
<1>5. DiscTypeOK'
  BY <1>1 DEF Calling, hostVars, pastVars, DiscTypeOK, Pool!PoolTypeOK
<1> QED
  BY <1>2, <1>3, <1>4, <1>5

\* Each VM is put where it belongs by what was read.
LEMMA JudgeDiscInv == DiscInv /\ Judge => DiscInv'
<1> SUFFICES ASSUME DiscInv, Judge PROVE DiscInv'
  OBVIOUS
<1> USE DEF DiscInv
<1>1. /\ Calling /\ pc = "judge" /\ pc' = "done" /\ opt' = opt
      /\ UNCHANGED <<proto, listed, all, unread, read, query, channel>>
      /\ class' = [v \in Vm |-> ClassOf(v)]
  BY DEF Judge, Calling
<1>2. /\ PastInv' /\ Export' = Export
      /\ renamed' = renamed /\ ever' = ever /\ stayed' = stayed
  BY <1>1, PastUntouched
<1>3. ListedInv'
  BY <1>1, <1>2 DEF ListedInv, Listed, Reading
<1>4. ReadInv'
  <2>1. \A v \in Vm : (SoapRead(v)' <=> SoapRead(v)) /\ (SshRead(v)' <=> SshRead(v))
    BY <1>1, <1>2 DEF SoapRead, SshRead
  <2>2. all \subseteq Vm
    BY DEF DiscTypeOK
  <2> QED
    BY <1>1, <1>2, <2>1, <2>2 DEF ReadInv, Reading
<1>5. ClassInv'
  <2>1. \A v \in Vm : ClassOf(v)' = ClassOf(v)
    BY <1>1, <1>2 DEF ClassOf, Selected
  <2> QED
    BY <1>1, <2>1 DEF ClassInv
<1>6. DiscTypeOK'
  <2>1. \A v \in Vm : ClassOf(v) \in {"none", "absent", "elsewhere", "unwanted", "off", "suspended",
                                      "mixed", "taken"}
    BY DEF ClassOf
  <2> QED
    BY <1>1, <2>1 DEF Calling, hostVars, pastVars, DiscTypeOK, Pool!PoolTypeOK
<1> QED
  BY <1>2, <1>3, <1>4, <1>5, <1>6

\* What was read of a VM while nothing happens to it.
LEMMA SshReadSame ==
  ASSUME NEW u, SshRead(u), read'[u] = read[u], query'[u] = query[u],
         pc' = pc, ever' = ever, renamed' = renamed
  PROVE  SshRead(u)'
  BY DEF SshRead

\* What is read of a VM at a moment, with what was read of it before.
LEMMA SshReadNext ==
  ASSUME NEW v, SshRead(v), pc = "queries", pc' = pc, ever' = ever, renamed' = renamed,
         query'[v] \in {"power read", "ok", "error"},
         read'[v].power \notin {"unknown", read[v].power} => \E m \in ever[v] : m.power = read'[v].power,
         query'[v] = "ok" /\ ~renamed => \E m \in ever[v] : m.files = read'[v].names
  PROVE  SshRead(v)'
  BY DEF SshRead

\* One step of the query of a VM, which reads what the VM is at this moment.
LEMMA ReadsDiscInv ==
  ASSUME DiscInv, NEW v \in Vm, Calling, query[v] \in {"started", "power read"},
         UNCHANGED <<proto, pc, listed, all, unread, class>>, Pool!GiveBack(v) \/ channel' = channel,
         NEW r \in [power : Power \cup {"unknown"}, names : SUBSET Name],
         NEW q \in {"power read", "ok", "error"},
         read' = [read EXCEPT ![v] = r], query' = [query EXCEPT ![v] = q],
         r.power \notin {"unknown", read[v].power} => \E m \in ever[v] : m.power = r.power,
         pc \in Reading /\ q = "ok" /\ ~renamed => \E m \in ever[v] : m.files = r.names
  PROVE  DiscInv'
<1> USE DEF DiscInv
<1>1. /\ PastInv' /\ renamed' = renamed /\ ever' = ever /\ stayed' = stayed
  BY PastUntouched
<1>2. pc \in Reading \cup {"failed"}
  BY DEF ReadInv
<1>3. ListedInv'
  BY <1>1 DEF ListedInv
<1>4. ReadInv' /\ ClassInv'
  <2>1. CASE pc = "failed"
    <3>1. \A u \in Vm : query'[u] # "none" => proto' = "ssh"
      BY DEF ReadInv
    <3> QED
      BY <2>1, <3>1, EarlyReadInv DEF Reading
  <2>2. CASE pc \in Reading
    <3>1. proto = "ssh" /\ v \in all
      BY <2>2 DEF ReadInv
    <3>2. \A u \in all : SshRead(u)
      BY <2>2, <3>1 DEF ReadInv
    <3>3. pc = "queries"
      BY <2>2, <3>1, <3>2 DEF SshRead
    <3>4. /\ all \subseteq Vm /\ \A u \in Vm : u # v => read'[u] = read[u] /\ query'[u] = query[u]
          /\ read'[v] = r /\ query'[v] = q
      BY DEF DiscTypeOK
    <3>5. \A u \in all : SshRead(u)'
      <4>1. SshRead(v)'
        BY <1>1, <2>2, <3>1, <3>2, <3>3, <3>4, SshReadNext
      <4>2. \A u \in all : u # v => SshRead(u)'
        BY <1>1, <3>2, <3>4, SshReadSame
      <4> QED
        BY <4>1, <4>2
    <3>6. ReadInv'
      BY <1>1, <2>2, <3>1, <3>2, <3>3, <3>4, <3>5 DEF ReadInv, Reading
    <3> QED
      BY <3>3, <3>6 DEF ClassInv
  <2> QED
    BY <1>2, <2>1, <2>2
<1>5. DiscTypeOK'
  <2>1. Pool!PoolTypeOK'
    BY GiveBackTypeOK DEF DiscTypeOK
  <2>2. /\ read' \in [Vm -> [power : Power \cup {"unknown"}, names : SUBSET Name]]
        /\ query' \in [Vm -> {"none", "started", "power read", "ok", "error"}]
    BY DEF DiscTypeOK
  <2> QED
    BY <2>1, <2>2 DEF Calling, hostVars, pastVars, DiscTypeOK
<1> QED
  BY <1>1, <1>3, <1>4, <1>5

\* The query of a VM: its power state, its datastores, or an error.
LEMMA QueryDiscInv == ASSUME NEW v \in Vm, DiscInv, Query(v) PROVE DiscInv'
<1>1. /\ Calling /\ UNCHANGED <<proto, pc, listed, all, unread, class>>
      /\ Pool!GiveBack(v) \/ channel' = channel
      /\ query[v] \in {"started", "power read"}
  BY DEF Query, QueryPower, QueryFiles, QueryFails, Calling
<1>2. /\ read \in [Vm -> [power : Power \cup {"unknown"}, names : SUBSET Name]]
      /\ power[v] \in Power /\ files \in [Vm -> SUBSET Store] /\ name \in [Store -> Name]
  BY DEF DiscInv, DiscTypeOK
<1>3. [power |-> power[v], files |-> files[v]] \in ever[v] /\ (~renamed => name = [s \in Store |-> s])
  BY DEF DiscInv, PastInv
<1>4. CASE QueryPower(v)
  <2>1. PICK p \in {power[v], "unknown"} : read' = [read EXCEPT ![v].power = p]
    BY <1>4 DEF QueryPower
  <2> DEFINE r == [read[v] EXCEPT !.power = p]
  <2>2. /\ r \in [power : Power \cup {"unknown"}, names : SUBSET Name] /\ r.power = p
        /\ read' = [read EXCEPT ![v] = r] /\ query' = [query EXCEPT ![v] = "power read"]
    <3>1. p \in Power \cup {"unknown"}
      BY <1>2, <2>1
    <3>2. read[v] \in [power : Power \cup {"unknown"}, names : SUBSET Name]
      BY <1>2
    <3>3. r \in [power : Power \cup {"unknown"}, names : SUBSET Name] /\ r.power = p
      BY <3>1, <3>2
    <3>4. query' = [query EXCEPT ![v] = "power read"]
      BY <1>4 DEF QueryPower
    <3> QED
      BY <2>1, <3>3, <3>4
  <2>3. p # "unknown" => \E m \in ever[v] : m.power = p
    BY <1>3
  <2> HIDE DEF r
  <2> QED
    BY <1>1, <2>2, <2>3, ReadsDiscInv
<1>5. CASE QueryFiles(v)
  <2> DEFINE r == [read[v] EXCEPT !.names = NamesOf(v)]
  <2>1. proto = "ssh"
    BY <1>1 DEF DiscInv, ReadInv
  <2>2. NamesOf(v) = {name[s] : s \in files[v]}
    BY <2>1 DEF NamesOf
  <2>3. r \in [power : Power \cup {"unknown"}, names : SUBSET Name]
    BY <1>2, <2>2
  <2>4. r.power = read[v].power /\ r.names = NamesOf(v)
    BY <1>2
  <2>5. read' = [read EXCEPT ![v] = r] /\ query' = [query EXCEPT ![v] = "ok"]
    BY <1>2, <1>5 DEF QueryFiles
  <2>6. ~renamed => \E m \in ever[v] : m.files = r.names
    <3> SUFFICES ASSUME ~renamed PROVE \E m \in ever[v] : m.files = r.names
      OBVIOUS
    <3>1. files[v] \in SUBSET Store /\ name = [s \in Store |-> s]
      BY <1>2, <1>3
    <3>2. NamesOf(v) = files[v]
      BY <2>2, <3>1
    <3> QED
      BY <1>3, <2>4, <3>2
  <2> HIDE DEF r
  <2> QED
    BY <1>1, <2>3, <2>4, <2>5, <2>6, ReadsDiscInv
<1>6. CASE QueryFails(v)
  <2> DEFINE r == [read[v] EXCEPT !.power = "unknown"]
  <2>1. /\ r \in [power : Power \cup {"unknown"}, names : SUBSET Name] /\ r.power = "unknown"
        /\ read' = [read EXCEPT ![v] = r] /\ query' = [query EXCEPT ![v] = "error"]
    BY <1>2, <1>6 DEF QueryFails
  <2> HIDE DEF r
  <2> QED
    BY <1>1, <2>1, ReadsDiscInv
<1> QED
  BY <1>4, <1>5, <1>6 DEF Query

\* DiscoverNFS keeps its invariant, with everything beside it.
LEMMA DiscoveringDiscInv == DiscInv /\ [DiscNext]_vars => DiscInv'
<1> SUFFICES ASSUME DiscInv, [DiscNext]_vars PROVE DiscInv'
  OBVIOUS
<1>1. CASE Discover
  BY <1>1, DatastoresDiscInv, Datastores41DiscInv, SelectDiscInv, ListVmsDiscInv,
     CollectDiscInv, JudgeDiscInv DEF Discover
<1> QED
  BY <1>1, ChangeDiscInv, PoolDiscInv, QueryDiscInv DEF DiscNext

-----------------------------------------------------------------------------
(* What the invariant says when DiscoverNFS is done. *)

\* What was read of a VM tells truly of one moment whether its files were on the export,
\* and whether all of them were; and of one moment what its power state was.
LEMMA ReadTellsTruly ==
  ASSUME DiscInv, pc = "done", NamesHold, NEW v \in all
  PROVE  /\ \E m \in ever[v] : /\ m.files \in SUBSET Store
                               /\ read[v].names \cap Selected = {} <=> m.files \cap Export = {}
                               /\ read[v].names \ Selected = {} <=> m.files \subseteq Export
         /\ read[v].power # "unknown" => \E m \in ever[v] : m.power = read[v].power
<1>1. v \in Vm /\ \A m \in ever[v] : m.files \in SUBSET Store
  <2>1. v \in Vm /\ ever \in [Vm -> SUBSET [power : Power, files : SUBSET Store]]
    BY DEF DiscInv, DiscTypeOK, PastInv
  <2> QED
    BY <2>1
<1>2. /\ Export \subseteq Store /\ Export \subseteq DOMAIN listed
      /\ Selected = {listed[s] : s \in Export}
  <2>1. Export \subseteq Store
    BY DEF Export
  <2>2. DOMAIN listed \cap Export = Export
    BY DEF NamesHold
  <2> QED
    BY <2>1, <2>2 DEF Selected
<1>3. CASE proto = "soap"
  <2>1. DOMAIN listed = Store /\ IsInjective(listed) /\ SoapRead(v)
    BY <1>3 DEF DiscInv, ListedInv, ReadInv, Listed, Reading
  <2>2. PICK m \in ever[v] : read[v] = [power |-> m.power, names |-> {listed[s] : s \in m.files}]
    BY <2>1 DEF SoapRead
  <2>3. /\ read[v].names \cap Selected = {} <=> m.files \cap Export = {}
        /\ read[v].names \ Selected = {} <=> m.files \subseteq Export
    <3>1. m.files \subseteq DOMAIN listed /\ Export \subseteq DOMAIN listed
      BY <1>1, <1>2, <2>1
    <3>2. read[v].names = {listed[s] : s \in m.files}
      BY <2>2
    <3>3. \A s \in m.files : listed[s] \in Selected <=> s \in Export
      BY <1>2, <2>1, <3>1 DEF IsInjective
    <3>4. \A x : x \in read[v].names <=> \E s \in m.files : x = listed[s]
      BY <3>2
    <3>5. read[v].names \cap Selected = {} <=> m.files \cap Export = {}
      BY <3>3, <3>4
    <3>6. read[v].names \ Selected = {} <=> m.files \subseteq Export
      BY <3>3, <3>4
    <3> QED
      BY <3>5, <3>6
  <2> QED
    BY <1>1, <2>2, <2>3
<1>4. CASE proto = "ssh"
  <2>1. /\ ~renamed /\ SshRead(v)
        /\ \A s \in DOMAIN listed : listed[s] = s
    BY <1>4 DEF NamesHold, DiscInv, ListedInv, ReadInv, Listed, Reading
  <2>2. PICK m \in ever[v] : m.files = read[v].names
    BY <2>1 DEF SshRead
  <2>3. Selected = Export
    BY <1>2, <2>1, NamesAreStores
  <2>4. /\ read[v].names \cap Selected = {} <=> m.files \cap Export = {}
        /\ read[v].names \ Selected = {} <=> m.files \subseteq Export
    BY <2>2, <2>3
  <2>5. read[v].power # "unknown" => \E k \in ever[v] : k.power = read[v].power
    BY <2>1 DEF SshRead
  <2> QED
    BY <1>1, <2>4, <2>5
<1> QED
  BY <1>3, <1>4 DEF DiscInv, ListedInv, Listed, Reading

\* A VM that stayed on the export was there whenever it was read.
LEMMA DiscInvNothingLost == DiscInv => NothingLost
<1> SUFFICES ASSUME DiscInv, pc = "done", NamesHold, NEW v \in stayed \ unread
             PROVE  class[v] \notin {"absent", "elsewhere"}
  BY DEF NothingLost
<1>1. v \in Vm /\ v \in all /\ class[v] = ClassOf(v)
  BY DEF DiscInv, DiscTypeOK, ReadInv, Reading, ClassInv
<1>2. read[v].names \cap Selected # {}
  BY <1>1, ReadTellsTruly DEF DiscInv, PastInv
<1> QED
  BY <1>1, <1>2 DEF ClassOf

\* A VM is in its class for what it was when it was read.
LEMMA DiscInvJudgedAsSeen == DiscInv => JudgedAsSeen
<1> SUFFICES ASSUME DiscInv, pc = "done", NamesHold, NEW v \in Vm
             PROVE  /\ class[v] = "taken" /\ ~opt.allowMixed => \E m \in ever[v] : m.files \subseteq Export
                    /\ class[v] = "mixed" => \E m \in ever[v] : ~(m.files \subseteq Export)
                    /\ class[v] \in {"off", "suspended"} => \E m \in ever[v] : m.power = class[v]
                    /\ class[v] = "elsewhere" => \E m \in ever[v] : m.files \cap Export = {}
  BY DEF JudgedAsSeen
<1>1. class[v] = ClassOf(v)
  BY DEF DiscInv, ClassInv
<1>2. CASE v \notin all
  BY <1>1, <1>2 DEF ClassOf
<1>3. CASE v \in all
  <2>1. PICK m \in ever[v] : /\ read[v].names \cap Selected = {} <=> m.files \cap Export = {}
                             /\ read[v].names \ Selected = {} <=> m.files \subseteq Export
    BY <1>3, ReadTellsTruly
  <2>2. class[v] \in {"off", "suspended"} => class[v] = read[v].power
    BY <1>1, <1>3 DEF ClassOf
  <2>3. class[v] \in {"off", "suspended"} => \E k \in ever[v] : k.power = class[v]
    BY <1>3, <2>2, ReadTellsTruly
  <2>4. /\ class[v] = "elsewhere" => read[v].names \cap Selected = {}
        /\ class[v] = "mixed" => read[v].names \ Selected # {}
        /\ class[v] = "taken" /\ ~opt.allowMixed => read[v].names \ Selected = {}
    BY <1>1, <1>3 DEF ClassOf
  <2> QED
    BY <2>1, <2>3, <2>4
<1> QED
  BY <1>2, <1>3

-----------------------------------------------------------------------------
(* The cfg file.  A search for the last line of a key finds one of its lines. *)

\* A set of numbers that is not empty has a least one.
LEMMA MinExists ==
  ASSUME NEW T \in SUBSET Nat, T # {}
  PROVE  \E x \in T : \A y \in T : x <= y
<1> DEFINE Less == OpToRel(<, Nat)
<1>1. IsWellFoundedOn(Less, Nat)
  BY NatLessThanWellFounded
<1> HIDE DEF Less
<1>2. PICK x \in T : \A y \in T : ~(<<y, x>> \in Less)
  BY <1>1, WFMin
<1>3. \A y \in T : ~(y < x)
  BY <1>2 DEF Less, OpToRel
<1> QED
  BY <1>3

\* And one of places in a sequence has a last one.
LEMMA LastExists ==
  ASSUME NEW n \in Nat, NEW S \in SUBSET (1..n), S # {}
  PROVE  \E i \in S : \A j \in S : j <= i
<1> DEFINE T == {n - i : i \in S}
<1>1. \A j \in S : n - j \in T
  OBVIOUS
<1>2. T \in SUBSET Nat
  OBVIOUS
<1>3. T # {}
  BY <1>1
<1>4. PICK x \in T : \A y \in T : x <= y
  BY <1>2, <1>3, MinExists
<1>5. PICK i \in S : x = n - i
  OBVIOUS
<1>6. \A j \in S : n - i <= n - j
  BY <1>1, <1>4, <1>5
<1> QED
  BY <1>6

\* A line has as many fields with its comment as without.
LEMMA FieldsOfALine ==
  ASSUME NEW f \in Files, NEW i \in 1..Len(f.lines)
  PROVE  LET l == f.lines[i]
         IN  /\ Conn!Fields(l) \in Seq(Text) /\ Len(Conn!Fields(l)) = Len(l.fields)
             /\ Len(l.fields) \in Nat \ {0}
<1> DEFINE l == f.lines[i]
           n == Len(l.fields)
<1>1. /\ l.fields \in Seq(Text) /\ l.fields # <<>>
      /\ Conn!Fields(l) \in Seq(Text)
  <2>1. f.lines \in Seq([fields : Seq(Text) \ {<<>>}, comment : BOOLEAN])
    BY FilesAssumption
  <2>2. l \in [fields : Seq(Text) \ {<<>>}, comment : BOOLEAN]
    BY <2>1, ElementOfSeq
  <2>3. i \in DOMAIN f.lines
    BY <2>1
  <2> QED
    BY <2>2, <2>3, FilesAssumption
<1>2. n \in Nat \ {0} /\ DOMAIN l.fields = 1..n
  BY <1>1
<1>3. DOMAIN Conn!Fields(l) = DOMAIN l.fields
  BY DEF Conn!Fields
<1>4. Len(Conn!Fields(l)) = n
  BY <1>1, <1>2, <1>3
<1> QED
  BY <1>1, <1>2, <1>4

-----------------------------------------------------------------------------
(***************************************************************************)
(* The inductive invariant of a connection attempt.  A secret in the       *)
(* Config is the environment's or is in the file for the Config's host     *)
(* (SecretsInv), and the host becomes the one asked for (HostInv).  Each   *)
(* login is sent with a secret that is there (AuthInv), and what is tried  *)
(* after it only if it was rejected and was of another kind (RejectedInv). *)
(***************************************************************************)
Opened     == {"open", "soap", "soap login", "ssh", "key", "password",
               "keyboard-interactive", "connected"}
Unsent     == {"load", "override", "policy", "open", "soap", "soap login", "ssh", "key"}

SecretsInv ==
  /\ conf.password \in {"", env.password} \cup Conn!GivenFor(conf.host)
  /\ conf.key \in {""} \cup Conn!GivenFor(conf.host)

HostInv ==
  /\ cpc = "load" => conf = Conn!NoConfig
  /\ cpc = "override" /\ file.form # "key=value" /\ Conn!Asked # "" => conf.host = Conn!Asked
  /\ cpc \in Opened \cup {"policy"} =>
       /\ Conn!Asked # "" => conf.host = Conn!Asked
       /\ Conn!Or(flags.user, env.user) # "" => conf.user = Conn!Or(flags.user, env.user)
  /\ cpc \in Opened => policy = conf.host

AuthInv ==
  /\ cpc \in {"soap", "soap login", "password", "keyboard-interactive"} => conf.password # ""
  /\ cpc = "ssh" => conf.password # "" \/ conf.key # ""
  /\ cpc = "key" => conf.key # ""

RejectedInv ==
  /\ cpc \in Unsent => logins = <<>>
  /\ cpc = "password" =>
       Len(logins) <= 1 /\ \A i \in 1..Len(logins) : logins[i].via = "key"
  /\ cpc \in {"password", "keyboard-interactive"} =>
       \A i \in 1..Len(logins) : /\ logins[i].answer = "rejected"
                                 /\ logins[i].via \in {"key"} \cup (Offered \cap {"password"})

ConnCore == Conn!ConnTypeOK /\ SecretsInv /\ HostInv /\ AuthInv /\ RejectedInv /\ LoginsBelong

ConnInv == IF cpc = "returned" THEN logins = <<>> ELSE ConnCore

\* Nothing is known and nothing sent when connect begins.
LEMMA InitConnInv == Conn!ConnInit => ConnInv
<1> SUFFICES ASSUME Conn!ConnInit PROVE ConnInv
  OBVIOUS
<1> USE DEF Conn!ConnInit
<1>1. conf \in [Conn!ConfigKey -> Text]
  BY TextAssumption DEF Conn!NoConfig
<1>2. policy \in Text
  BY TextAssumption
<1>a. logins \in Seq(Conn!Login) /\ Len(logins) = 0
  BY EmptySeq
<1>3. Conn!ConnTypeOK
  BY <1>1, <1>2, <1>a DEF Conn!ConnTypeOK
<1>4. SecretsInv /\ HostInv /\ AuthInv
  BY DEF SecretsInv, HostInv, AuthInv, Opened, Conn!NoConfig, Conn!ConfigKey
<1>5. RejectedInv
  BY DEF RejectedInv, Unsent
<1> HIDE DEF Conn!ConnInit
<1>6. LoginsBelong
  <2>1. 1..Len(logins) = {}
    BY <1>a
  <2> QED
    BY <2>1 DEF LoginsBelong, Conn!LoginsBelong
<1> QED
  BY <1>3, <1>4, <1>5, <1>6 DEF ConnInv, ConnCore, Conn!ConnInit

\* The cfg file, the environment and the flags stay what they are.
LEMMA GivenStays ==
  ASSUME UNCHANGED <<file, env, flags>>
  PROVE  Conn!Asked' = Conn!Asked /\ \A h : Conn!GivenFor(h)' = Conn!GivenFor(h)
  BY DEF Conn!Asked, Conn!GivenFor

\* A step within Open that sends nothing, or any step that gives up.
LEMMA MovesConnCore ==
  ASSUME ConnCore, UNCHANGED <<file, env, flags, conf, policy, logins>>, auto' \in BOOLEAN,
         \/ cpc' \in {"failed", "crashed"}
         \/ cpc \in Opened /\ cpc' \in Opened /\ AuthInv' /\ RejectedInv'
  PROVE  ConnCore'
<1> USE DEF ConnCore
<1>1. Conn!ConnTypeOK'
  BY DEF Conn!ConnTypeOK, Conn!Ended, Opened
<1>2. SecretsInv'
  BY GivenStays DEF SecretsInv
<1>a. LoginsBelong'
  BY GivenStays DEF LoginsBelong, Conn!LoginsBelong
<1>3. HostInv'
  BY GivenStays DEF HostInv, Opened
<1>4. AuthInv' /\ RejectedInv'
  BY DEF AuthInv, RejectedInv, Unsent
<1> QED
  BY <1>1, <1>2, <1>a, <1>3, <1>4

\* A table that is loaded has no bad line.
LEMMA GoodLines ==
  ASSUME NEW ls, Conn!TableVerdict(ls) = "good"
  PROVE  \A i \in 1..Len(ls) : ~Conn!LineIsBad(ls[i])
  BY DEF Conn!TableVerdict

\* What a key=value file gives.
LEMMA KeyValueIsText ==
  ASSUME NEW f \in Files, f.form = "key=value"
  PROVE  LET kv == Conn!KeyValue(f.lines)
         IN  /\ kv \in [Conn!ConfigKey -> Text]
             /\ \A k \in Conn!ConfigKey : kv[k] # "" =>
                  \E i \in 1..Len(f.lines) : /\ Conn!Fields(f.lines[i])[1] = k
                                             /\ kv[k] = Conn!Fields(f.lines[i])[2]
<1> DEFINE ls  == f.lines
           kv  == Conn!KeyValue(ls)
           set(k) == {i \in 1..Len(ls) : Conn!Fields(ls[i])[1] = k}
           last(k) == CHOOSE i \in set(k) : \A j \in set(k) : j <= i
<1>1. ls \in Seq([fields : Seq(Text) \ {<<>>}, comment : BOOLEAN]) /\ Len(ls) \in Nat
  <2>1. ls \in Seq([fields : Seq(Text) \ {<<>>}, comment : BOOLEAN])
    BY FilesAssumption
  <2> QED
    BY <2>1, LenProperties
<1>2. \A i \in 1..Len(ls) : Conn!Fields(ls[i])[2] \in Text
  <2> SUFFICES ASSUME NEW i \in 1..Len(ls) PROVE Conn!Fields(ls[i])[2] \in Text
    OBVIOUS
  <2>1. Len(ls[i].fields) = 2
    BY <1>1, FilesAssumption
  <2>2. Conn!Fields(ls[i]) \in Seq(Text) /\ Len(Conn!Fields(ls[i])) = 2
    BY <2>1, FieldsOfALine
  <2> QED
    BY <2>2
<1>3. ASSUME NEW k \in Conn!ConfigKey, set(k) # {} PROVE last(k) \in set(k)
  BY <1>1, <1>3, LastExists
<1>4. kv = [k \in Conn!ConfigKey |-> IF set(k) = {} THEN "" ELSE Conn!Fields(ls[last(k)])[2]]
  BY DEF Conn!KeyValue
<1> HIDE DEF kv, last
<1>5. \A k \in Conn!ConfigKey : kv[k] = IF set(k) = {} THEN "" ELSE Conn!Fields(ls[last(k)])[2]
  BY <1>4
<1>6. \A k \in Conn!ConfigKey : kv[k] # "" =>
        \E i \in 1..Len(ls) : Conn!Fields(ls[i])[1] = k /\ kv[k] = Conn!Fields(ls[i])[2]
  BY <1>3, <1>5
<1>7. kv \in [Conn!ConfigKey -> Text]
  BY <1>2, <1>3, <1>4, TextAssumption
<1> QED
  BY <1>6, <1>7 DEF kv

\* The entry of a table's line: its host, and its secrets are in the line.
LEMMA EntryOfALine ==
  ASSUME NEW f \in Files, NEW i \in 1..Len(f.lines), ~Conn!LineIsBad(f.lines[i])
  PROVE  LET l == f.lines[i]
             e == Conn!Entry(l)
             given == Conn!SecretsOf(l)
         IN  /\ e \in [Conn!ConfigKey -> Text]
             /\ e.host = Conn!Fields(l)[1]
             /\ e.password \in {""} \cup given /\ e.key \in {""} \cup given
<1> DEFINE l == f.lines[i]
           e == Conn!Entry(l)
           x == Conn!Fields(l)
           n == Len(l.fields)
           given == Conn!SecretsOf(l)
<1>1. x \in Seq(Text) /\ Len(x) = n /\ n \in Nat
  BY FieldsOfALine
<1>2. n >= 2
  <2>1. ~(Len(x) < 2)
    BY DEF Conn!LineIsBad
  <2> QED
    BY <1>1, <2>1
<1>3. /\ x[1] \in Text /\ x[2] \in Text
      /\ n # 2 => x[3] \in Text /\ x[3] \in given
      /\ n > 3 => x[4] \in Text /\ x[4] \in given
      /\ "default" \in given
  <2>0. given = {x[k] : k \in 3..n} \cup {"default"}
    BY DEF Conn!SecretsOf
  <2> HIDE DEF x, n, given
  <2>1. \A k \in 1..n : x[k] \in Text
    BY <1>1
  <2>2. \A k \in 3..n : x[k] \in given
    BY <2>0
  <2>3. "default" \in given
    BY <2>0
  <2> QED
    BY <1>1, <1>2, <2>1, <2>2, <2>3
<1>4. /\ {"", "root", "default"} \subseteq Text /\ Conn!NoConfig \in [Conn!ConfigKey -> Text]
      /\ Conn!NoConfig.password = "" /\ Conn!NoConfig.key = ""
  BY TextAssumption DEF Conn!NoConfig, Conn!ConfigKey
<1>5. e = IF n = 2
          THEN [Conn!NoConfig EXCEPT !.host = x[1], !.user = "root", !.key = "default"]
          ELSE IF x[3] = "cert"
          THEN [Conn!NoConfig EXCEPT !.host = x[1], !.user = x[2],
                                     !.key = IF n > 3 THEN x[4] ELSE "default"]
          ELSE [Conn!NoConfig EXCEPT !.host = x[1], !.user = x[2], !.password = x[3]]
  BY <1>1 DEF Conn!Entry
<1> SUFFICES /\ e \in [Conn!ConfigKey -> Text] /\ e.host = x[1]
             /\ e.password \in {""} \cup given /\ e.key \in {""} \cup given
  OBVIOUS
<1> HIDE DEF x, e, n, given
<1>6. CASE n = 2
  BY <1>3, <1>4, <1>5, <1>6 DEF Conn!ConfigKey
<1>7. CASE n # 2 /\ x[3] = "cert"
  <2> DEFINE key == IF n > 3 THEN x[4] ELSE "default"
  <2>1. key \in Text /\ key \in given
    BY <1>3, <1>4
  <2>2. e = [Conn!NoConfig EXCEPT !.host = x[1], !.user = x[2], !.key = key]
    BY <1>5, <1>7
  <2> HIDE DEF key
  <2> QED
    BY <1>3, <1>4, <2>1, <2>2 DEF Conn!ConfigKey
<1>8. CASE n # 2 /\ x[3] # "cert"
  <2>1. e = [Conn!NoConfig EXCEPT !.host = x[1], !.user = x[2], !.password = x[3]]
    BY <1>5, <1>8
  <2> QED
    BY <1>3, <1>4, <1>8, <2>1 DEF Conn!ConfigKey
<1> QED
  BY <1>6, <1>7, <1>8

\* The options of a host change what it is connected by and nothing else.
LEMMA OptionsKeepSecrets ==
  ASSUME file \in Files, NEW e \in [Conn!ConfigKey -> Text]
  PROVE  LET o == Conn!WithOptions(e)
         IN  /\ o \in [Conn!ConfigKey -> Text]
             /\ o.host = e.host /\ o.password = e.password /\ o.key = e.key
<1> DEFINE mine == {i \in 1..Len(file.options) : file.options[i].host = e.host}
           last == CHOOSE i \in mine : \A j \in mine : j <= i
<1>1. file.options \in Seq([host : Text, proto : Text])
  BY FilesAssumption
<1>2. Len(file.options) \in Nat
  BY <1>1, LenProperties
<1>3. ASSUME mine # {} PROVE file.options[last].proto \in Text
  <2>1. last \in 1..Len(file.options)
    BY <1>2, <1>3, LastExists
  <2>2. file.options[last] \in [host : Text, proto : Text]
    BY <1>1, <2>1, ElementOfSeq
  <2> QED
    BY <2>2
<1>4. Conn!WithOptions(e) = IF mine = {} THEN e
                            ELSE [e EXCEPT !.proto = file.options[last].proto]
  BY DEF Conn!WithOptions
<1> HIDE DEF mine, last
<1> QED
  BY <1>3, <1>4 DEF Conn!ConfigKey

\* The file has been read, and the Config is what it gives.
LEMMA LoadedConnCore ==
  ASSUME ConnCore, cpc = "load", cpc' = "override",
         UNCHANGED <<file, env, flags, policy, auto, logins>>,
         conf' \in [Conn!ConfigKey -> Text],
         file.form # "key=value" /\ Conn!Asked # "" => conf'.host = Conn!Asked,
         {conf'.password, conf'.key} \subseteq {""} \cup Conn!GivenFor(conf'.host)
  PROVE  ConnCore'
<1> USE DEF ConnCore
<1>1. Conn!ConnTypeOK'
  BY DEF Conn!ConnTypeOK
<1>2. SecretsInv'
  BY GivenStays DEF SecretsInv
<1>3. LoginsBelong'
  BY GivenStays DEF LoginsBelong, Conn!LoginsBelong
<1>4. HostInv'
  BY GivenStays DEF HostInv, Opened
<1>5. AuthInv' /\ RejectedInv'
  BY DEF AuthInv, RejectedInv, Unsent
<1> QED
  BY <1>1, <1>2, <1>3, <1>4, <1>5

\* LoadConfigFor: no file, a file of one server, or the line of a table.
LEMMA LoadConnCore == ASSUME ConnCore, Conn!Load PROVE ConnCore'
<1>1. /\ cpc = "load" /\ UNCHANGED <<file, env, flags, policy, auto, logins>>
      /\ file \in Files /\ conf = Conn!NoConfig /\ auto \in BOOLEAN
      /\ Conn!Asked \in Text
  <2>1. /\ cpc = "load" /\ UNCHANGED <<file, env, flags, policy, auto, logins>>
    BY DEF Conn!Load
  <2>2. file \in Files /\ auto \in BOOLEAN /\ env \in Envs /\ flags \in FlagSets
    BY DEF ConnCore, Conn!ConnTypeOK
  <2>3. Conn!Asked \in Text
    BY <2>2, TextAssumption DEF Conn!Asked, Conn!Or
  <2> QED
    BY <2>1, <2>2, <2>3 DEF ConnCore, HostInv
<1>2. CASE cpc' \in {"failed", "crashed"} /\ conf' = conf
  BY <1>1, <1>2, MovesConnCore
<1>3. CASE /\ file.form = "none"
           /\ conf' = [Conn!NoConfig EXCEPT !.host = Conn!Asked] /\ cpc' = "override"
  <2>1. /\ conf' \in [Conn!ConfigKey -> Text]
        /\ conf'.host = Conn!Asked /\ conf'.password = "" /\ conf'.key = ""
    BY <1>1, <1>3, TextAssumption DEF Conn!NoConfig, Conn!ConfigKey
  <2> QED
    BY <1>1, <1>3, <2>1, LoadedConnCore
<1>4. CASE /\ file.form = "key=value"
           /\ conf' = Conn!KeyValue(file.lines) /\ cpc' = "override"
  <2>1. /\ conf' \in [Conn!ConfigKey -> Text]
        /\ \A k \in Conn!ConfigKey : conf'[k] # "" =>
             \E i \in 1..Len(file.lines) : /\ Conn!Fields(file.lines[i])[1] = k
                                           /\ conf'[k] = Conn!Fields(file.lines[i])[2]
    <3> DEFINE kv == Conn!KeyValue(file.lines)
    <3>1. /\ kv \in [Conn!ConfigKey -> Text]
          /\ \A k \in Conn!ConfigKey : kv[k] # "" =>
               \E i \in 1..Len(file.lines) : /\ Conn!Fields(file.lines[i])[1] = k
                                             /\ kv[k] = Conn!Fields(file.lines[i])[2]
      BY <1>1, <1>4, KeyValueIsText, Zenon
    <3>2. conf' = kv
      BY <1>4
    <3> HIDE DEF kv
    <3> QED
      BY <3>1, <3>2
  <2>2. \A h : Conn!GivenFor(h) =
          {Conn!Fields(file.lines[i])[2] :
             i \in {j \in 1..Len(file.lines) :
                      Conn!Fields(file.lines[j])[1] \in {"password", "key"}}}
    BY <1>4 DEF Conn!GivenFor
  <2>3. {conf'.password, conf'.key} \subseteq {""} \cup Conn!GivenFor(conf'.host)
    <3>1. "password" \in Conn!ConfigKey /\ "key" \in Conn!ConfigKey
      BY DEF Conn!ConfigKey
    <3>2. \A h : \A i \in 1..Len(file.lines) :
            Conn!Fields(file.lines[i])[1] \in {"password", "key"} =>
              Conn!Fields(file.lines[i])[2] \in Conn!GivenFor(h)
      BY <2>2
    <3>3. \A h : conf'["password"] \in {""} \cup Conn!GivenFor(h)
      BY <2>1, <3>1, <3>2
    <3>4. \A h : conf'["key"] \in {""} \cup Conn!GivenFor(h)
      BY <2>1, <3>1, <3>2
    <3> QED
      BY <3>3, <3>4
  <2> QED
    BY <1>1, <1>4, <2>1, <2>3, LoadedConnCore
<1>5. ASSUME file.form = "table", Conn!TableVerdict(file.lines) = "good",
             NEW i \in 1..Len(file.lines),
             Conn!Asked # "" => Conn!Fields(file.lines[i])[1] = Conn!Asked,
             conf' = Conn!WithOptions(Conn!Entry(file.lines[i])), cpc' = "override"
      PROVE  ConnCore'
  <2> DEFINE l == file.lines[i]
             given == Conn!SecretsOf(l)
             mine == {j \in 1..Len(file.lines) :
                        Conn!Fields(file.lines[j])[1] = Conn!Fields(l)[1]}
  <2>1. ~Conn!LineIsBad(l)
    BY <1>5, GoodLines
  <2>2. /\ Conn!Entry(l) \in [Conn!ConfigKey -> Text]
        /\ Conn!Entry(l).host = Conn!Fields(l)[1]
        /\ Conn!Entry(l).password \in {""} \cup given /\ Conn!Entry(l).key \in {""} \cup given
    BY <1>1, <2>1, EntryOfALine
  <2>3. /\ conf' \in [Conn!ConfigKey -> Text]
        /\ conf'.host = Conn!Fields(l)[1]
        /\ conf'.password \in {""} \cup given /\ conf'.key \in {""} \cup given
    BY <1>1, <1>5, <2>2, OptionsKeepSecrets
  <2>4. given \subseteq Conn!GivenFor(Conn!Fields(l)[1])
    <3>1. Conn!GivenFor(Conn!Fields(l)[1]) = UNION {Conn!SecretsOf(file.lines[j]) : j \in mine}
      BY <1>5 DEF Conn!GivenFor
    <3>2. i \in mine
      OBVIOUS
    <3> HIDE DEF mine
    <3> QED
      BY <3>1, <3>2
  <2> HIDE DEF given
  <2> QED
    BY <1>1, <1>5, <2>3, <2>4, LoadedConnCore
<1>6. CASE file.form = "table"
  <2> DEFINE ls == file.lines
             found == {i \in 1..Len(ls) : IF Conn!Asked = "" THEN Len(ls) = 1
                                           ELSE Conn!Fields(ls[i])[1] = Conn!Asked}
  <2>1. Conn!TableVerdict(ls) \in {"good", "failed", "crashed"}
    BY DEF Conn!TableVerdict
  <2>2. \/ Conn!TableVerdict(ls) # "good" /\ cpc' = Conn!TableVerdict(ls) /\ UNCHANGED conf
        \/ cpc' = "failed" /\ UNCHANGED conf
        \/ /\ Conn!TableVerdict(ls) = "good"
           /\ \E i \in found : conf' = Conn!WithOptions(Conn!Entry(ls[i])) /\ cpc' = "override"
    BY <1>6 DEF Conn!Load
  <2>3. CASE \/ Conn!TableVerdict(ls) # "good" /\ cpc' = Conn!TableVerdict(ls) /\ UNCHANGED conf
             \/ cpc' = "failed" /\ UNCHANGED conf
    BY <1>2, <2>1, <2>3
  <2>4. CASE /\ Conn!TableVerdict(ls) = "good"
             /\ \E i \in found : /\ conf' = Conn!WithOptions(Conn!Entry(ls[i]))
                                 /\ cpc' = "override"
    BY <1>5, <1>6, <2>4
  <2> QED
    BY <2>2, <2>3, <2>4
<1>7. CASE file.form # "table"
  <2>1. \/ cpc' = "failed" /\ UNCHANGED conf
        \/ /\ file.form = "none"
           /\ conf' = [Conn!NoConfig EXCEPT !.host = Conn!Asked] /\ cpc' = "override"
        \/ /\ file.form = "key=value"
           /\ conf' = Conn!KeyValue(file.lines) /\ cpc' = "override"
    BY <1>1, <1>7, FilesAssumption DEF Conn!Load
  <2> QED
    BY <1>2, <1>3, <1>4, <2>1
<1> QED
  BY <1>6, <1>7

\* ApplyEnv and the flags: the secrets stay those given for the host.
LEMMA OverrideConnCore == ASSUME ConnCore, Conn!Override PROVE ConnCore'
<1>1. /\ cpc = "override" /\ cpc' = "policy" /\ UNCHANGED <<file, env, flags, policy, auto, logins>>
      /\ conf' = [conf EXCEPT !.host = Conn!Or(flags.host, Conn!Or(env.host, @)),
                              !.user = Conn!Or(flags.user, Conn!Or(env.user, @)),
                              !.password = Conn!Or(env.password, @),
                              !.proto = Conn!Or(flags.proto, @)]
  BY DEF Conn!Override
<1>2. /\ file \in Files /\ conf \in [Conn!ConfigKey -> Text]
      /\ env \in [host : Text, user : Text, password : Text]
      /\ flags \in [host : Text, user : Text, proto : Text]
  BY TextAssumption DEF ConnCore, Conn!ConnTypeOK
<1>3. /\ conf'.host = Conn!Or(flags.host, Conn!Or(env.host, conf.host))
      /\ conf'.user = Conn!Or(flags.user, Conn!Or(env.user, conf.user))
      /\ conf'.password = Conn!Or(env.password, conf.password)
      /\ conf'.key = conf.key
  BY <1>1, <1>2 DEF Conn!ConfigKey
<1>4. conf' \in [Conn!ConfigKey -> Text]
  <2>1. /\ Conn!Or(flags.host, Conn!Or(env.host, conf.host)) \in Text
        /\ Conn!Or(flags.user, Conn!Or(env.user, conf.user)) \in Text
        /\ Conn!Or(env.password, conf.password) \in Text
        /\ Conn!Or(flags.proto, conf.proto) \in Text
    BY <1>2 DEF Conn!Or, Conn!ConfigKey
  <2> QED
    BY <1>1, <1>2, <2>1 DEF Conn!ConfigKey
<1>5. /\ Conn!Asked # "" => conf'.host = Conn!Asked
      /\ Conn!Asked = "" => conf'.host = conf.host
      /\ Conn!Or(flags.user, env.user) # "" => conf'.user = Conn!Or(flags.user, env.user)
  BY <1>3 DEF Conn!Asked, Conn!Or
<1>6. Conn!GivenFor(conf'.host) = Conn!GivenFor(conf.host)
  <2>1. CASE file.form = "key=value"
    BY <2>1 DEF Conn!GivenFor
  <2>2. CASE file.form # "key=value"
    BY <1>1, <1>5, <2>2 DEF ConnCore, HostInv
  <2> QED
    BY <2>1, <2>2
<1>7. Conn!ConnTypeOK'
  BY <1>1, <1>4 DEF ConnCore, Conn!ConnTypeOK
<1>8. SecretsInv'
  BY <1>1, <1>3, <1>6, GivenStays DEF ConnCore, SecretsInv, Conn!Or
<1>9. HostInv'
  BY <1>1, <1>5, GivenStays DEF HostInv, Opened
<1>10. AuthInv' /\ RejectedInv'
  BY <1>1 DEF ConnCore, AuthInv, RejectedInv, Unsent
<1>11. LoginsBelong'
  <2>1. logins' = <<>>
    BY <1>1 DEF ConnCore, RejectedInv, Unsent
  <2>2. Len(logins') = 0
    BY <2>1, EmptySeq
  <2>3. (1..Len(logins))' = {}
    BY <2>2
  <2> QED
    BY <2>3 DEF LoginsBelong, Conn!LoginsBelong
<1> QED
  BY <1>7, <1>8, <1>9, <1>10, <1>11 DEF ConnCore

\* loadPolicy: the chains are those of the host that is then connected to.
LEMMA PolicyConnCore == ASSUME ConnCore, Conn!LoadPolicy PROVE ConnCore'
<1>1. cpc = "policy" /\ UNCHANGED <<file, env, flags, conf, auto, logins>> /\ auto \in BOOLEAN
  BY DEF Conn!LoadPolicy, ConnCore, Conn!ConnTypeOK
<1>2. CASE cpc' = "failed" /\ UNCHANGED policy
  BY <1>1, <1>2, MovesConnCore
<1>3. CASE policy' = conf.host /\ cpc' = "open"
  <2>0. logins = <<>> /\ logins' = <<>>
    BY <1>1 DEF ConnCore, RejectedInv, Unsent
  <2>1. Conn!ConnTypeOK'
    BY <1>1, <1>3 DEF ConnCore, Conn!ConnTypeOK, Conn!ConfigKey
  <2>2. SecretsInv' /\ HostInv'
    BY <1>1, <1>3, GivenStays DEF ConnCore, SecretsInv, HostInv, Opened
  <2>3. AuthInv' /\ RejectedInv'
    BY <1>1, <1>3, <2>0 DEF AuthInv, RejectedInv, Unsent
  <2>4. LoginsBelong'
    <3>1. Len(logins') = 0
      BY <2>0, EmptySeq
    <3>2. (1..Len(logins))' = {}
      BY <3>1
    <3> QED
      BY <3>2 DEF LoginsBelong, Conn!LoginsBelong
  <2> QED
    BY <2>1, <2>2, <2>3, <2>4 DEF ConnCore
<1> QED
  BY <1>2, <1>3 DEF Conn!LoadPolicy

\* Open, the exchange before the login over soap, and the dial of ssh send no login.
LEMMA DialsConnCore ==
  ASSUME ConnCore, Conn!Open \/ Conn!SoapContent \/ Conn!SshDial PROVE ConnCore'
<1>1. /\ UNCHANGED <<file, env, flags, conf, policy, logins>> /\ auto' \in BOOLEAN
      /\ cpc \in {"open", "soap", "ssh"} /\ logins = <<>> /\ AuthInv
  BY DEF Conn!Open, Conn!SoapContent, Conn!SshDial, ConnCore, Conn!ConnTypeOK, RejectedInv, Unsent
<1>2. Len(logins) = 0 /\ 1..Len(logins) = {}
  BY <1>1, EmptySeq
<1>3. CASE cpc' = "failed"
  BY <1>1, <1>3, MovesConnCore
<1>4. CASE cpc' # "failed"
  <2>1. /\ cpc' \in {"soap", "soap login", "ssh", "key", "password"}
        /\ AuthInv'
    <3>1. CASE Conn!Open
      BY <1>1, <1>4, <3>1 DEF Conn!Open, Conn!Opening, AuthInv
    <3>2. CASE Conn!SoapContent
      BY <1>1, <1>4, <3>2 DEF Conn!SoapContent, AuthInv
    <3>3. CASE Conn!SshDial
      BY <1>1, <1>4, <3>3 DEF Conn!SshDial, AuthInv
    <3> QED
      BY <3>1, <3>2, <3>3
  <2>2. RejectedInv'
    <3>1. logins' = <<>> /\ Len(logins') = 0
      BY <1>1, <1>2
    <3>2. Len(logins') <= 1 /\ 1..Len(logins') = {}
      BY <3>1
    <3>3. cpc' \in Unsent => logins' = <<>>
      BY <3>1
    <3> QED
      BY <3>2, <3>3 DEF RejectedInv
  <2> QED
    BY <1>1, <2>1, <2>2, MovesConnCore DEF Opened
<1> QED
  BY <1>3, <1>4

\* Before the first login there is none.
LEMMA NothingSent ==
  ASSUME ConnCore, cpc \in Unsent PROVE Len(logins) = 0 /\ 1..Len(logins) = {}
<1>1. Len(logins) = 0
  BY EmptySeq DEF ConnCore, RejectedInv
<1> QED
  BY <1>1

(***************************************************************************)
(* A login is sent: the logins are one more, of the type of a login.       *)
(***************************************************************************)
OneMore(s, t, e) ==
  /\ t \in Seq(Conn!Login) /\ Len(s) \in Nat /\ Len(t) = Len(s) + 1
  /\ \A i \in 1..Len(s) : t[i] = s[i]
  /\ \A i \in 1..Len(t) : t[i] = e \/ (i \in 1..Len(s) /\ t[i] = s[i])

LEMMA SentLogin ==
  ASSUME Conn!ConnTypeOK, NEW via \in {"soap", "key", "password", "keyboard-interactive"},
         NEW secret \in Text, NEW answer \in {"accepted", "rejected", "lost"},
         Conn!Send(via, secret, answer)
  PROVE  OneMore(logins, logins', Conn!LoginBy(via, secret, answer))
<1> DEFINE l == Conn!LoginBy(via, secret, answer)
<1>1. logins \in Seq(Conn!Login) /\ conf \in [Conn!ConfigKey -> Text]
  BY DEF Conn!ConnTypeOK
<1>2. conf.host \in Text /\ Conn!Or(conf.user, "root") \in Text
  BY <1>1, TextAssumption DEF Conn!ConfigKey, Conn!Or
<1>3. l \in Conn!Login
  BY <1>2 DEF Conn!Login, Conn!LoginBy
<1>4. logins' = Append(logins, l)
  BY DEF Conn!Send
<1> HIDE DEF l
<1> DEFINE n == Len(logins)
           m == Len(logins')
<1>5. n \in Nat /\ m = n + 1 /\ logins' \in Seq(Conn!Login)
  BY <1>1, <1>3, <1>4
<1>6. logins'[n + 1] = l /\ \A i \in 1..n : logins'[i] = logins[i]
  BY <1>1, <1>3, <1>4
<1>7. \A i \in 1..m : logins'[i] = l \/ (i \in 1..n /\ logins'[i] = logins[i])
  <2> HIDE DEF n, m
  <2>1. \A i \in 1..m : i = n + 1 \/ i \in 1..n
    BY <1>5
  <2> QED
    BY <1>6, <2>1
<1> QED
  BY <1>5, <1>6, <1>7 DEF OneMore, l

\* After the first login there is one.
LEMMA FirstLogin ==
  ASSUME NEW e, OneMore(logins, logins', e), Len(logins) = 0
  PROVE  Len(logins') <= 1 /\ \A i \in 1..Len(logins') : logins'[i] = e
  BY DEF OneMore

\* The login belongs to the host: its secret is there, and is one given for it.
LEMMA SendBelongs ==
  ASSUME ConnCore, cpc \in Opened, UNCHANGED <<file, env, flags, policy>>,
         NEW via \in {"soap", "key", "password", "keyboard-interactive"},
         NEW secret \in {conf.password, conf.key}, secret # "",
         NEW answer \in {"accepted", "rejected", "lost"},
         Conn!Send(via, secret, answer)
  PROVE  LoginsBelong'
<1> DEFINE l == Conn!LoginBy(via, secret, answer)
           Belongs(m) == /\ Conn!Asked # "" => m.host = Conn!Asked
                         /\ Conn!Or(flags.user, env.user) # ""
                              => m.user = Conn!Or(flags.user, env.user)
                         /\ m.secret \in {env.password} \cup Conn!GivenFor(m.host)
                         /\ policy = m.host
<1>1. Conn!ConnTypeOK /\ secret \in Text
  BY DEF ConnCore, Conn!ConnTypeOK, Conn!ConfigKey
<1>2. OneMore(logins, logins', l)
  BY <1>1, SentLogin
<1>3. Belongs(l)
  BY DEF ConnCore, SecretsInv, HostInv, Conn!LoginBy, Conn!Or
<1>4. \A i \in 1..Len(logins) : Belongs(logins[i])
  BY DEF ConnCore, LoginsBelong, Conn!LoginsBelong
<1>5. ASSUME NEW m, Belongs(m) PROVE Belongs(m)'
  BY <1>5, GivenStays
<1> HIDE DEF l
<1>6. \A i \in 1..Len(logins') : Belongs(logins'[i])
  <2> HIDE DEF Belongs
  <2> QED
    BY <1>2, <1>3, <1>4 DEF OneMore
<1>7. /\ Conn!Asked' = Conn!Asked /\ UNCHANGED <<flags, env, policy>>
      /\ \A h : Conn!GivenFor(h)' = Conn!GivenFor(h)
  BY GivenStays
<1> QED
  BY <1>6, <1>7 DEF LoginsBelong, Conn!LoginsBelong

\* After a login, what a connection attempt still knows.
LEMMA SendConnCore ==
  ASSUME ConnCore, cpc \in Opened, UNCHANGED <<file, env, flags, conf, policy, auto>>,
         NEW via \in {"soap", "key", "password", "keyboard-interactive"},
         NEW secret \in {conf.password, conf.key}, secret # "",
         NEW answer \in {"accepted", "rejected", "lost"},
         Conn!Send(via, secret, answer),
         cpc' \in {"connected", "failed", "password", "keyboard-interactive"},
         cpc' \in {"password", "keyboard-interactive"} =>
           /\ conf.password # "" /\ answer = "rejected"
           /\ via \in {"key"} \cup (Offered \cap {"password"})
           /\ cpc \in {"key", "password"},
         cpc' = "password" => cpc = "key" /\ via = "key"
  PROVE  ConnCore'
<1> DEFINE l == Conn!LoginBy(via, secret, answer)
<1>1. Conn!ConnTypeOK /\ secret \in Text
  BY DEF ConnCore, Conn!ConnTypeOK, Conn!ConfigKey
<1>2. OneMore(logins, logins', l)
  BY <1>1, SentLogin
<1>3. Conn!ConnTypeOK'
  BY <1>1, <1>2 DEF Conn!ConnTypeOK, Conn!Ended, OneMore
<1>4. SecretsInv' /\ HostInv'
  BY GivenStays DEF ConnCore, SecretsInv, HostInv, Opened
<1>5. AuthInv'
  BY DEF AuthInv
<1>6. LoginsBelong'
  BY SendBelongs
<1>7. ASSUME cpc' \in {"password", "keyboard-interactive"}
      PROVE  \A i \in 1..Len(logins') : /\ logins'[i].answer = "rejected"
                                        /\ logins'[i].via \in {"key"} \cup (Offered \cap {"password"})
  <2>1. \A i \in 1..Len(logins) : /\ logins[i].answer = "rejected"
                                  /\ logins[i].via \in {"key"} \cup (Offered \cap {"password"})
    <3>1. CASE cpc = "key"
      BY <3>1, NothingSent DEF Unsent
    <3>2. CASE cpc = "password"
      BY <3>2 DEF ConnCore, RejectedInv
    <3> QED
      BY <1>7, <3>1, <3>2
  <2>2. l.answer = "rejected" /\ l.via \in {"key"} \cup (Offered \cap {"password"})
    BY <1>7 DEF Conn!LoginBy
  <2> HIDE DEF l
  <2> QED
    BY <1>2, <2>1, <2>2 DEF OneMore
<1>8. ASSUME cpc' = "password"
      PROVE  Len(logins') <= 1 /\ \A i \in 1..Len(logins') : logins'[i].via = "key"
  <2>1. Len(logins) = 0
    BY <1>8, NothingSent DEF Unsent
  <2>2. l.via = "key"
    BY <1>8 DEF Conn!LoginBy
  <2> HIDE DEF l
  <2> HIDE DEF l
  <2>3. Len(logins') <= 1 /\ \A i \in 1..Len(logins') : logins'[i] = l
    BY <1>2, <2>1, FirstLogin
  <2> QED
    BY <2>2, <2>3
<1>9. RejectedInv'
  BY <1>7, <1>8 DEF RejectedInv, Unsent
<1> QED
  BY <1>3, <1>4, <1>5, <1>6, <1>9 DEF ConnCore

\* The login over soap is the last.
LEMMA SoapLoginConnCore == ASSUME ConnCore, Conn!SoapLogin PROVE ConnCore'
<1>1. /\ cpc = "soap login" /\ UNCHANGED <<file, env, flags, conf, policy, auto>>
      /\ conf.password # ""
  BY DEF Conn!SoapLogin, ConnCore, AuthInv
<1>2. PICK a \in {"accepted", "rejected", "lost"} :
        /\ Conn!Send("soap", conf.password, a)
        /\ cpc' = IF a = "accepted" THEN "connected" ELSE "failed"
  BY DEF Conn!SoapLogin
<1> QED
  BY <1>1, <1>2, SendConnCore DEF Opened

\* A login over ssh: the next method is tried when this one was rejected.
LEMMA SshAuthConnCore ==
  ASSUME ConnCore, NEW via \in {"key", "password", "keyboard-interactive"}, Conn!SshAuth(via)
  PROVE  ConnCore'
<1>1. cpc = via /\ UNCHANGED <<file, env, flags, conf, policy, auto>> /\ auto \in BOOLEAN
  BY DEF Conn!SshAuth, ConnCore, Conn!ConnTypeOK
<1> DEFINE secret == IF via = "key" THEN conf.key ELSE conf.password
<1>2. secret # "" /\ secret \in {conf.password, conf.key}
  BY <1>1 DEF ConnCore, AuthInv
<1>3. CASE via = "key" \/ via \in Offered
  <2>1. PICK a \in {"accepted", "rejected", "lost"} :
          /\ Conn!Send(via, secret, a)
          /\ cpc' = CASE a = "accepted" -> "connected"
                      [] a = "rejected" -> Conn!After(via)
                      [] a = "lost"     -> "failed"
    BY <1>3 DEF Conn!SshAuth
  <2>2. CASE a # "rejected"
    BY <1>1, <1>2, <2>1, <2>2, SendConnCore DEF Opened
  <2>3. CASE a = "rejected"
    <3>1. /\ cpc' \in {"failed", "password", "keyboard-interactive"}
          /\ cpc' \in {"password", "keyboard-interactive"} =>
               conf.password # "" /\ via \in {"key", "password"}
          /\ cpc' = "password" => via = "key"
      BY <2>1, <2>3 DEF Conn!After
    <3> QED
      BY <1>1, <1>2, <1>3, <2>1, <2>3, <3>1, SendConnCore DEF Opened
  <2> QED
    BY <2>2, <2>3
<1>4. CASE ~(via = "key" \/ via \in Offered)
  <2>1. cpc' = Conn!After(via) /\ logins' = logins
    BY <1>4 DEF Conn!SshAuth
  <2>2. CASE cpc' = "failed"
    BY <1>1, <2>1, <2>2, MovesConnCore
  <2>3. CASE cpc' # "failed"
    <3>1. via = "password" /\ cpc' = "keyboard-interactive" /\ conf.password # ""
      BY <1>4, <2>1, <2>3 DEF Conn!After
    <3>2. AuthInv' /\ RejectedInv'
      BY <1>1, <2>1, <3>1 DEF ConnCore, AuthInv, RejectedInv, Unsent
    <3> QED
      BY <1>1, <2>1, <3>1, <3>2, MovesConnCore DEF Opened
  <2> QED
    BY <2>2, <2>3
<1> QED
  BY <1>3, <1>4

\* Without a login there is no second one.
LEMMA NoLoginsYet == logins = <<>> => NoSecondTry
<1> SUFFICES ASSUME logins = <<>> PROVE NoSecondTry
  OBVIOUS
<1>1. Len(logins) = 0
  BY EmptySeq
<1>2. 1..Len(logins) = {}
  BY <1>1
<1> QED
  BY <1>2 DEF NoSecondTry, Conn!NoSecondTry

\* Each step of connect keeps the invariant.
LEMMA ConnectConnCore == ConnCore /\ Conn!ConnNext => ConnCore'
  BY LoadConnCore, OverrideConnCore, PolicyConnCore, DialsConnCore, SoapLoginConnCore,
     SshAuthConnCore DEF Conn!ConnNext, Conn!Local, Conn!Soap, Conn!Ssh

\* What is tried after another login is tried after a login by key.
LEMMA ConnectNoSecondTry ==
  ASSUME ~({"password", "keyboard-interactive"} \subseteq Offered),
         ConnCore, Conn!ConnNext, NoSecondTry
  PROVE  NoSecondTry'
<1>1. ASSUME UNCHANGED logins PROVE NoSecondTry'
  BY <1>1 DEF NoSecondTry, Conn!NoSecondTry
<1>2. ASSUME NEW via \in {"soap", "key", "password", "keyboard-interactive"},
             NEW secret \in Text, NEW answer \in {"accepted", "rejected", "lost"},
             Conn!Send(via, secret, answer),
             \A i \in 1..Len(logins) : /\ logins[i].answer = "rejected"
                                       /\ logins[i].via = "key" /\ via # "key"
      PROVE  NoSecondTry'
  <2> DEFINE l == Conn!LoginBy(via, secret, answer)
  <2>1. OneMore(logins, logins', l)
    BY <1>2, SentLogin DEF ConnCore
  <2>2. l.via = via
    BY DEF Conn!LoginBy
  <2> HIDE DEF l
  <2>3. \A i, j \in 1..Len(logins) :
          i < j => logins[i].answer = "rejected" /\ ~Conn!Repeats(logins[i], logins[j])
    BY DEF NoSecondTry, Conn!NoSecondTry
  <2>4. \A i \in 1..Len(logins) :
          logins[i].answer = "rejected" /\ ~Conn!Repeats(logins[i], l)
    BY <1>2, <2>2 DEF Conn!Repeats
  <2>5. ASSUME NEW i \in 1..Len(logins'), NEW j \in 1..Len(logins'), i < j
        PROVE  logins'[i].answer = "rejected" /\ ~Conn!Repeats(logins'[i], logins'[j])
    <3>1. i \in 1..Len(logins)
      BY <2>1, <2>5 DEF OneMore
    <3>2. logins'[i] = logins[i]
      BY <2>1, <3>1 DEF OneMore
    <3>3. logins'[j] = l \/ (j \in 1..Len(logins) /\ logins'[j] = logins[j])
      BY <2>1 DEF OneMore
    <3> QED
      BY <2>3, <2>4, <2>5, <3>1, <3>2, <3>3
  <2> QED
    BY <2>5 DEF NoSecondTry, Conn!NoSecondTry, Conn!Repeats
<1>3. conf.password \in Text /\ conf.key \in Text
  BY DEF ConnCore, Conn!ConnTypeOK, Conn!ConfigKey
<1>4. CASE Conn!SoapLogin
  <2>1. \A i \in 1..Len(logins) : FALSE
    BY <1>4, NothingSent DEF Conn!SoapLogin, Unsent
  <2> QED
    BY <1>2, <1>3, <1>4, <2>1 DEF Conn!SoapLogin
<1>5. ASSUME NEW via \in {"key", "password", "keyboard-interactive"}, Conn!SshAuth(via)
      PROVE  NoSecondTry'
  <2>1. CASE UNCHANGED logins
    BY <1>1, <2>1
  <2>2. CASE ~UNCHANGED logins
    <3>1. /\ cpc = via /\ (via = "key" \/ via \in Offered)
          /\ \E a \in {"accepted", "rejected", "lost"} :
               Conn!Send(via, IF via = "key" THEN conf.key ELSE conf.password, a)
      BY <1>5, <2>2 DEF Conn!SshAuth
    <3>2. \A i \in 1..Len(logins) : /\ logins[i].answer = "rejected"
                                    /\ logins[i].via = "key" /\ via # "key"
      <4>1. CASE via = "key"
        BY <3>1, <4>1, NothingSent DEF Unsent
      <4>2. CASE via = "password"
        BY <3>1, <4>2 DEF ConnCore, RejectedInv
      <4>3. CASE via = "keyboard-interactive"
        BY <3>1, <4>3 DEF ConnCore, RejectedInv
      <4> QED
        BY <4>1, <4>2, <4>3
    <3> QED
      BY <1>2, <1>3, <3>1, <3>2
  <2> QED
    BY <2>1, <2>2
<1>6. CASE Conn!Local \/ Conn!SoapContent \/ Conn!SshDial
  BY <1>1, <1>6 DEF Conn!Local, Conn!Load, Conn!Override, Conn!LoadPolicy, Conn!Open,
                    Conn!SoapContent, Conn!SshDial
<1> QED
  BY <1>4, <1>5, <1>6 DEF Conn!ConnNext, Conn!Soap, Conn!Ssh

-----------------------------------------------------------------------------
(***************************************************************************)
(* The command: connect, then DiscoverNFS.                                 *)
(***************************************************************************)
CmdInv == DiscInv /\ ConnInv

\* Both parts hold their invariants at the beginning, and each keeps that of the other.
LEMMA InitCmdInv == CmdInit => CmdInv
  BY InitDiscInv, InitConnInv DEF CmdInit, CmdInv

\* Where connect stands still, so do the logins and all they are compared with.
LEMMA ConnStays == ConnInv /\ UNCHANGED connVars => ConnInv'
<1> SUFFICES ASSUME ConnInv, UNCHANGED connVars PROVE ConnInv'
  OBVIOUS
<1>1. UNCHANGED <<file, env, flags, conf, policy, auto, cpc, logins>>
  BY DEF connVars
<1>2. CASE cpc = "returned"
  BY <1>1, <1>2 DEF ConnInv
<1>3. CASE cpc # "returned"
  <2>1. ConnCore
    BY <1>3 DEF ConnInv
  <2>2. Conn!ConnTypeOK' /\ SecretsInv'
    BY <1>1, <2>1, GivenStays DEF ConnCore, Conn!ConnTypeOK, SecretsInv
  <2>3. HostInv'
    BY <1>1, <2>1, GivenStays DEF ConnCore, HostInv
  <2>4. AuthInv' /\ RejectedInv'
    BY <1>1, <2>1 DEF ConnCore, AuthInv, RejectedInv
  <2>5. LoginsBelong'
    BY <1>1, <2>1, GivenStays DEF ConnCore, LoginsBelong, Conn!LoginsBelong
  <2> QED
    BY <1>1, <1>3, <2>2, <2>3, <2>4, <2>5 DEF ConnInv, ConnCore
<1> QED
  BY <1>2, <1>3

LEMMA NextCmdInv == CmdInv /\ [CmdNext]_cmdVars => CmdInv'
<1> SUFFICES ASSUME DiscInv, ConnInv, [CmdNext]_cmdVars PROVE DiscInv' /\ ConnInv'
  BY DEF CmdInv
<1>1. CASE Connect
  <2>1. cpc # "returned"
    BY <1>1 DEF Connect, Conn!ConnNext, Conn!Local, Conn!Soap, Conn!Ssh, Conn!Load,
                Conn!Override, Conn!LoadPolicy, Conn!Open,
                Conn!SoapContent, Conn!SoapLogin, Conn!SshDial, Conn!SshAuth
  <2>2. ConnCore'
    BY <1>1, <2>1, ConnectConnCore DEF Connect, ConnInv
  <2>3. cpc' # "returned"
    BY <2>2 DEF ConnCore, Conn!ConnTypeOK, Conn!Ended
  <2> QED
    BY <1>1, <2>2, <2>3, PoolDiscInv DEF Connect, ConnInv
<1>2. CASE Connected
  BY <1>2, BeginDiscInv DEF Connected, ConnInv
<1>3. CASE Discovering
  BY <1>3, DiscoveringDiscInv, ConnStays DEF Discovering
<1>4. CASE UNCHANGED cmdVars
  BY <1>4, PoolDiscInv, ConnStays DEF cmdVars
<1> QED
  BY <1>1, <1>2, <1>3, <1>4 DEF CmdNext

LEMMA CmdInvariant == CmdSpec => []CmdInv
  BY InitCmdInv, NextCmdInv, PTL DEF CmdSpec

\* Type correctness of connection and discovery.
THEOREM CmdTypeCorrect == CmdSpec => []CmdTypeOK
<1>1. CmdInv => CmdTypeOK
  BY DEF CmdInv, DiscInv, ConnInv, ConnCore, CmdTypeOK
<1> QED
  BY <1>1, CmdInvariant, PTL

\* Every login goes to the host asked for, as the user named most strongly, with a secret
\* given for that host, and the freeze chains are that host's (connect, esxicmd.go).
THEOREM CredentialsStayWithTheirServer == CmdSpec => []LoginsBelong
<1>1. CmdInv => LoginsBelong
  <2> SUFFICES ASSUME CmdInv, cpc = "returned" PROVE LoginsBelong
    BY DEF CmdInv, ConnInv, ConnCore
  <2>1. Len(logins) = 0
    BY EmptySeq DEF CmdInv, ConnInv
  <2>2. 1..Len(logins) = {}
    BY <2>1
  <2> QED
    BY <2>2 DEF LoginsBelong, Conn!LoginsBelong
<1> QED
  BY <1>1, CmdInvariant, PTL

\* A host that does not offer both ways of sending the password gets each password and each
\* key once, and none after one whose answer was lost (openAuto, auto.go; openSSH).
THEOREM NoSecretIsTriedTwice ==
  ASSUME ~({"password", "keyboard-interactive"} \subseteq Offered)
  PROVE  CmdSpec => []NoSecondTry
<1>1. CmdInit => NoSecondTry
  <2> SUFFICES ASSUME logins = <<>> PROVE NoSecondTry
    BY DEF CmdInit, Conn!ConnInit
  <2> QED
    BY NoLoginsYet
<1>2. CmdInv /\ NoSecondTry /\ [CmdNext]_cmdVars => NoSecondTry'
  <2> SUFFICES ASSUME CmdInv, NoSecondTry, [CmdNext]_cmdVars PROVE NoSecondTry'
    OBVIOUS
  <2>1. CASE Connect
    <3>1. cpc # "returned"
      BY <2>1 DEF Connect, Conn!ConnNext, Conn!Local, Conn!Soap, Conn!Ssh, Conn!Load,
                  Conn!Override, Conn!LoadPolicy, Conn!Open,
                  Conn!SoapContent, Conn!SoapLogin, Conn!SshDial, Conn!SshAuth
    <3> QED
      BY <2>1, <3>1, ConnectNoSecondTry DEF Connect, CmdInv, ConnInv
  <2>2. CASE Connected
    <3>1. Len(logins') = 0
      BY <2>2, EmptySeq DEF Connected
    <3>2. 1..Len(logins') = {}
      BY <3>1
    <3> QED
      BY <3>2 DEF NoSecondTry, Conn!NoSecondTry
  <2>3. CASE Discovering \/ UNCHANGED cmdVars
    BY <2>3 DEF Discovering, cmdVars, connVars, NoSecondTry, Conn!NoSecondTry
  <2> QED
    BY <2>1, <2>2, <2>3 DEF CmdNext
<1> QED
  BY <1>1, <1>2, CmdInvariant, PTL DEF CmdSpec

\* A VM that was on the export all the time, and whose entry in the listing was
\* understood, is never called absent or elsewhere, whatever changes at the host
\* meanwhile (DiscoverNFS, discover.go).
THEOREM DiscoveryLosesNoVm == CmdSpec => []NothingLost
  BY CmdInvariant, DiscInvNothingLost, PTL DEF CmdInv

\* Each VM is taken or skipped for what it was at some moment of the discovery
\* (DiscoverNFS, discover.go).
THEOREM VmsAreJudgedAsSeen == CmdSpec => []JudgedAsSeen
  BY CmdInvariant, DiscInvJudgedAsSeen, PTL DEF CmdInv
=============================================================================
