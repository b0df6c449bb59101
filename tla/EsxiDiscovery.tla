--------------------------- MODULE EsxiDiscovery ---------------------------
(***************************************************************************)
(* Which VMs live on an NFS export (esxi/discover.go, DiscoverNFS, with    *)
(* Datastores and VMs of esxi/soap.go and esxi/ssh.go).  The host is read  *)
(* piece by piece while it changes: datastores first, then the VMs; over   *)
(* ssh one query per VM, in parallel through the session pool, all under   *)
(* the context of the command.                                             *)
(***************************************************************************)
EXTENDS Naturals, FiniteSets, Functions

CONSTANTS
  Vm,           \* the VMs that may be registered
  Main,         \* the goroutine of DiscoverNFS, a caller of the session pool
  MaxSessions,  \* sshMaxSessions
  Store,        \* the datastores of the host
  Spare,        \* a name that no datastore has at first
  Home,         \* per VM: the datastore of its .vmx file
  Place,        \* per datastore: what it mounts, seen from --nfs-path
  Kind,         \* per datastore: "NFS", "NFS41" or "VMFS"
  Server,       \* per NFS datastore: the NFS server
  Option,       \* the DiscoverOpts considered
  Inventory,    \* the VMs' states at first that are considered
  Garbled,      \* the VMs whose entry in a listing may not be understood
  MaxChanges    \* bound on the changes of the host during a discovery

Power == {"on", "off", "suspended"}

ASSUME StoresAssumption ==
  /\ Home \in [Vm -> Store]
  /\ Place \in [Store -> {"root", "below", "elsewhere"}]
  /\ Kind \in [Store -> {"NFS", "NFS41", "VMFS"}]
  /\ DOMAIN Server = Store
  /\ Inventory \subseteq [Vm -> [power : Power, files : SUBSET Store]]
  /\ \A i \in Inventory, v \in Vm : Home[v] \in i[v].files
ASSUME GarbledAssumption == Garbled \subseteq Vm
ASSUME PoolAssumption == MaxSessions \in Nat \ {0} /\ Main \notin Vm
ASSUME BoundAssumption == MaxChanges \in Nat

VARIABLES
  \* The host.
  registered, \* the VMs it has
  power,      \* per VM: its power state
  files,      \* per VM: the datastores it has files on
  name,       \* per datastore: its name
  changes,    \* the number of changes so far
  \* What has been so since the discovery began.
  ever,       \* per VM: the [power, files] it had at some moment
  stayed,     \* the VMs that were registered with files on the export at every moment
  renamed,    \* a datastore has been renamed
  \* The discovery.
  proto,      \* the transport
  opt,        \* DiscoverOpts
  pc,         \* program counter of DiscoverNFS
  listed,     \* Datastores' answer: names by datastore
  all,        \* VMs' answer to begin with: the VMs listed
  unread,     \* history: the VMs whose entry in that listing was not understood
  read,       \* per VM: the power state and the datastore names read
  query,      \* per VM: the state of its query over ssh
  channel,    \* the sessions, see SshPool
  class       \* per VM: where DiscoverNFS put it

Pool == INSTANCE SshPool WITH Caller <- Vm \cup {Main}

hostVars == <<registered, power, files, name, changes>>
pastVars == <<ever, stayed, renamed>>
discVars == <<proto, opt, pc, listed, all, unread, read, query, channel, class>>
vars == <<hostVars, pastVars, discVars>>

Name   == Store \cup {Spare}
NoRead == [power |-> "unknown", names |-> {}]

\* The datastores the options ask for.
OnExport(s) ==
  /\ Kind[s] # "VMFS"
  /\ Place[s] = "root" \/ (opt.recursive /\ Place[s] = "below")
  /\ opt.server \in {"any", Server[s]}

Export == {s \in Store : OnExport(s)}

Here(v) == v \in registered /\ files[v] \cap Export # {}

HostInit ==
  /\ registered = Vm
  /\ \E i \in Inventory : power = [v \in Vm |-> i[v].power] /\ files = [v \in Vm |-> i[v].files]
  /\ name = [s \in Store |-> s]
  /\ changes = 0

\* DiscoverNFS, not called yet: there is no connection.
DiscInit ==
  /\ HostInit
  /\ proto = "none"
  /\ opt \in Option
  /\ ever = [v \in Vm |-> {[power |-> power[v], files |-> files[v]]}]
  /\ stayed = {v \in Vm : Here(v)}
  /\ renamed = FALSE
  /\ pc = "connect"
  /\ listed = <<>>
  /\ all = {} /\ unread = {}
  /\ read = [v \in Vm |-> NoRead]
  /\ query = [v \in Vm |-> "none"]
  /\ Pool!PoolInit
  /\ class = [v \in Vm |-> "none"]

-----------------------------------------------------------------------------
(* The host changes while it is asked. *)

Past ==
  /\ ever' = [v \in Vm |-> ever[v] \cup {[power |-> power'[v], files |-> files'[v]]}]
  /\ stayed' = {v \in stayed : v \in registered' /\ files'[v] \cap Export # {}}
  /\ renamed' = (renamed \/ name' # name)

Change ==
  /\ changes < MaxChanges /\ pc \notin {"connect", "done", "failed"}
  /\ changes' = changes + 1
  /\ \/ \E v \in registered :
          /\ \/ \E p \in Power \ {power[v]} : power' = [power EXCEPT ![v] = p] /\ UNCHANGED files
             \/ \E s \in Store \ {Home[v]} :
                  /\ files' = [files EXCEPT ![v] = IF s \in @ THEN @ \ {s} ELSE @ \cup {s}]
                  /\ UNCHANGED power
          /\ UNCHANGED <<registered, name>>
     \/ \E v \in registered : registered' = registered \ {v} /\ UNCHANGED <<power, files, name>>
     \/ \E s \in Store, n \in Name \ Range(name) :
          name' = [name EXCEPT ![s] = n] /\ UNCHANGED <<registered, power, files>>
  /\ Past
  /\ UNCHANGED discVars

\* The host answers a request for a session.
Opens(c) ==
  /\ Pool!HostAnswers(c)
  /\ UNCHANGED <<hostVars, pastVars, proto, opt, pc, listed, all, unread, read, query, class>>

-----------------------------------------------------------------------------
(* The calls. *)

\* A command of c is sent, or fails: the context ended before it had a slot or
\* while it ran, NewSession or the host refused, the connection broke.
Sends(c) == proto = "soap" \/ channel[c] = "answered"
Fails(c) == channel[c] # "opening"

Fail ==
  /\ pc' = "failed"
  /\ UNCHANGED <<listed, all, unread, read, query, class>>

\* run takes its slot: for a listing, or for the query of a VM.
TakeSlot(c) ==
  /\ proto = "ssh"
  /\ IF c = Main THEN pc \in {"datastores", "nfs41", "vms"}
                 ELSE pc = "queries" /\ query[c] = "started"
  /\ Pool!TakeSlot(c)
  /\ UNCHANGED <<hostVars, pastVars, proto, opt, pc, listed, all, unread, read, query, class>>

\* The call of DiscoverNFS with a transport; what the host did before makes it
\* another host of Inventory.
Begin(transport) ==
  /\ pc = "connect"
  /\ proto' = transport
  /\ pc' = "datastores"
  /\ UNCHANGED <<hostVars, pastVars, opt, listed, all, unread, read, query, channel, class>>

Names(stores) == [s \in stores |-> name[s]]

\* Datastores: everything at once over soap, the NFS 3 mounts first over ssh.
Datastores ==
  /\ pc = "datastores"
  /\ \/ /\ Sends(Main) /\ proto = "soap"
        /\ listed' = Names(Store) /\ pc' = "select"
        /\ UNCHANGED <<all, unread, read, query, class>>
     \/ /\ Sends(Main) /\ proto = "ssh"
        /\ listed' = Names({s \in Store : Kind[s] = "NFS"}) /\ pc' = "nfs41"
        /\ UNCHANGED <<all, unread, read, query, class>>
     \/ Fails(Main) /\ Fail
  /\ Pool!GiveBack(Main)
  /\ UNCHANGED <<hostVars, pastVars, proto, opt>>

\* The NFS 4.1 mounts; whatever goes wrong here is taken for a host without them.
Datastores41 ==
  /\ pc = "nfs41"
  /\ \/ /\ Sends(Main)
        /\ listed' = [s \in DOMAIN listed \cup {s \in Store : Kind[s] = "NFS41"} |->
                        IF s \in DOMAIN listed THEN listed[s] ELSE name[s]]
     \/ Fails(Main) /\ UNCHANGED listed
  /\ pc' = "select"
  /\ Pool!GiveBack(Main)
  /\ UNCHANGED <<hostVars, pastVars, proto, opt, all, unread, read, query, class>>

\* The datastores that match; there must be one, and one server only.
Select ==
  /\ pc = "select"
  /\ LET match == DOMAIN listed \cap Export
     IN  pc' = IF match = {} \/ Cardinality({Server[s] : s \in match}) > 1
               THEN "failed" ELSE "vms"
  /\ UNCHANGED <<hostVars, pastVars, proto, opt, listed, all, unread, read, query, channel, class>>

\* The names of the datastores a VM has files on: over soap they are references,
\* named by what Datastores has read; the ssh host prints what they are called now.
NamesOf(v) ==
  IF proto = "soap" THEN {listed[s] : s \in files[v]} ELSE {name[s] : s \in files[v]}

\* What the listing itself says of a VM: over soap all there is to know, over ssh
\* the datastore of its .vmx file.
FirstRead(v) ==
  IF proto = "soap" THEN [power |-> power[v], names |-> NamesOf(v)]
  ELSE [NoRead EXCEPT !.names = {name[Home[v]]}]

\* VMs; over ssh a goroutine per VM asks for the rest.  A VM is left out when its
\* line cannot be understood (ssh, without a word), or its id is no number (soap,
\* with a warning).
ListVms ==
  /\ pc = "vms"
  /\ \/ /\ Sends(Main)
        /\ unread' \in SUBSET (Garbled \cap registered)
        /\ all' = registered \ unread'
        /\ read' = [v \in Vm |-> IF v \in all' THEN FirstRead(v) ELSE NoRead]
        /\ query' = [v \in Vm |-> IF proto = "ssh" /\ v \in all' THEN "started" ELSE "none"]
        /\ pc' = IF proto = "soap" THEN "judge" ELSE "queries"
        /\ UNCHANGED <<listed, class>>
     \/ Fails(Main) /\ Fail
  /\ Pool!GiveBack(Main)
  /\ UNCHANGED <<hostVars, pastVars, proto, opt>>

\* The query of one VM: first its power state, which may be unreadable.
QueryPower(v) ==
  /\ query[v] = "started" /\ Sends(v)
  /\ \E p \in {power[v], "unknown"} : read' = [read EXCEPT ![v].power = p]
  /\ query' = [query EXCEPT ![v] = "power read"]
  /\ UNCHANGED <<hostVars, pastVars, proto, opt, pc, listed, all, unread, channel, class>>

\* Faulty: only datastores that getallvms did not give are wanted from the query.
QueryFilesHomeOnly(v) ==
  /\ query[v] = "power read" /\ v \in registered
  /\ query' = [query EXCEPT ![v] = "ok"]
  /\ Pool!GiveBack(v)
  /\ UNCHANGED <<hostVars, pastVars, proto, opt, pc, listed, all, unread, read, class>>

\* Then its datastores, with which the command ends; a VM that is gone has none.
QueryFiles(v) ==
  /\ query[v] = "power read" /\ v \in registered
  /\ read' = [read EXCEPT ![v].names = NamesOf(v)]
  /\ query' = [query EXCEPT ![v] = "ok"]
  /\ Pool!GiveBack(v)
  /\ UNCHANGED <<hostVars, pastVars, proto, opt, pc, listed, all, unread, class>>

QueryFails(v) ==
  /\ query[v] \in {"started", "power read"} /\ Fails(v)
  /\ query' = [query EXCEPT ![v] = "error"]
  /\ Pool!GiveBack(v)
  /\ read' = [read EXCEPT ![v].power = "unknown"]
  /\ UNCHANGED <<hostVars, pastVars, proto, opt, pc, listed, all, unread, class>>

\* Faulty: a VM that cannot be queried keeps what getallvms gave.
CollectSkipsErrors ==
  /\ pc = "queries"
  /\ \A v \in all : query[v] \in {"ok", "error"}
  /\ pc' = "judge"
  /\ UNCHANGED <<hostVars, pastVars, proto, opt, listed, all, unread, read, query, channel, class>>

\* One message per VM; an error of any VM is an error of the listing.
Collect ==
  /\ pc = "queries"
  /\ \A v \in all : query[v] \in {"ok", "error"}
  /\ pc' = IF \E v \in all : query[v] = "error" THEN "failed" ELSE "judge"
  /\ UNCHANGED <<hostVars, pastVars, proto, opt, listed, all, unread, read, query, channel, class>>

\* The loop over the VMs.
Selected == {listed[s] : s \in DOMAIN listed \cap Export}

ClassOf(v) ==
  LET r == read[v]
  IN  IF v \notin all THEN "absent"
      ELSE IF r.names \cap Selected = {} THEN "elsewhere"
      ELSE IF v \notin opt.wanted THEN "unwanted"
      ELSE IF r.power \in {"off", "suspended"} /\ ~opt.includeOff THEN r.power
      ELSE IF r.names \ Selected # {} /\ ~opt.allowMixed THEN "mixed"
      ELSE "taken"

Judge ==
  /\ pc = "judge"
  /\ class' = [v \in Vm |-> ClassOf(v)]
  /\ pc' = "done"
  /\ UNCHANGED <<hostVars, pastVars, proto, opt, listed, all, unread, read, query, channel>>

Discover == Datastores \/ Datastores41 \/ Select \/ ListVms \/ Collect \/ Judge

Query(v) == QueryPower(v) \/ QueryFiles(v) \/ QueryFails(v)

DiscNext ==
  \/ Change \/ Discover
  \/ \E c \in Vm \cup {Main} : TakeSlot(c) \/ Opens(c)
  \/ \E v \in Vm : Query(v)

(***************************************************************************)
(* Fairness: the goroutines run, a command ends at the latest with the     *)
(* context, and the host answers requests for a session (see EsxiRun).     *)
(***************************************************************************)
DiscFairness ==
  /\ WF_vars(Discover)
  /\ \A c \in Vm \cup {Main} : WF_vars(Opens(c))
  /\ \A v \in Vm : WF_vars(Query(v))

-----------------------------------------------------------------------------
\* Type invariant of host and discovery.
DiscTypeOK ==
  /\ registered \subseteq Vm /\ power \in [Vm -> Power] /\ files \in [Vm -> SUBSET Store]
  /\ name \in [Store -> Name] /\ IsInjective(name)
  /\ changes \in 0..MaxChanges /\ stayed \subseteq Vm /\ renamed \in BOOLEAN
  /\ proto \in {"none", "soap", "ssh"} /\ opt \in Option
  /\ pc \in {"connect", "datastores", "nfs41", "select", "vms", "queries", "judge", "done", "failed"}
  /\ DOMAIN listed \subseteq Store /\ Range(listed) \subseteq Name
  /\ all \subseteq Vm /\ unread \subseteq Garbled
  /\ read \in [Vm -> [power : Power \cup {"unknown"}, names : SUBSET Name]]
  /\ query \in [Vm -> {"none", "started", "power read", "ok", "error"}]
  /\ Pool!PoolTypeOK
  /\ class \in [Vm -> {"none", "absent", "elsewhere", "unwanted", "off", "suspended",
                       "mixed", "taken"}]

\* All that matches was listed, and over ssh, where VMs and datastores are matched
\* by name, no name has changed: what the two properties below presuppose.
NamesHold == Export \subseteq DOMAIN listed /\ (proto = "ssh" => ~renamed)

\* A VM that is on the export all the time and whose entry in the listing is
\* understood ends in VMs or, with a reason, in Skipped (discover.go:102-131), or
\* discovery fails: no error on the way and no change of the host lets it vanish,
\* and with it its VM snapshot.
NothingLost ==
  pc = "done" /\ NamesHold =>
    \A v \in stayed \ unread : class[v] \notin {"absent", "elsewhere"}

\* README.md:258-263 "Every VM with files on those datastores is a candidate ...
\* Skipped, with the reason in `skipped`": also one whose entry parse.go:21-29 or
\* soap.go:263-266 does not understand (cmd_gaps.cfg).
NoVmVanishes == pc = "done" /\ NamesHold => \A v \in stayed : class[v] # "absent"

\* Each VM is judged by how it really was at some moment of the discovery: taken
\* without --allow-mixed it was all on the export (discover.go:49-51), and skipped
\* it was in the state that the reason names.
JudgedAsSeen ==
  pc = "done" /\ NamesHold => \A v \in Vm :
    /\ class[v] = "taken" /\ ~opt.allowMixed => \E m \in ever[v] : m.files \subseteq Export
    /\ class[v] = "mixed" => \E m \in ever[v] : ~(m.files \subseteq Export)
    /\ class[v] \in {"off", "suspended"} => \E m \in ever[v] : m.power = class[v]
    /\ class[v] = "elsewhere" => \E m \in ever[v] : m.files \cap Export = {}

\* README.md:256-257 "The NFS datastores of the host whose export matches are
\* selected, plus the exports of child datasets with --recursive": a discovery that
\* succeeds has them all.
ExportSelected == pc = "done" => Export \subseteq DOMAIN listed
=============================================================================
