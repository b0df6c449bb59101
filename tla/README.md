# cs-freeze4snap in TLA+

cs-freeze4snap takes a ZFS snapshot of the storage of virtual machines and
containers while these are "frozen": it finds the guests on a dataset, freezes
all of them in parallel, takes one ZFS snapshot, and thaws them again.  On a
Proxmox host it talks to the QEMU guest agent, to QEMU's monitor, to `qm` and to
the kernel; for an ESXi host that mounts the dataset over NFS a VM snapshot
stands for the freeze and its removal for the thaw.

This directory holds TLA+ modules that model the program, TLC configurations
that check them on small instances, and TLAPS proofs of what matters most for
any number of guests.  Source references are relative to the repository.

    tlc -config session.cfg FreezeSession       # any run: tlc -config <cfg> <module>
    tlapm FreezeSession_proofs.tla              # any proof module

## 1. Inventory

| Part | Source | State it keeps | Operations |
|---|---|---|---|
| Freeze session | `freezer/session.go`, `freezer.go` | results, list of frozen guests, registry of freezers | FreezeAll, Thaw, RestoreSession |
| Proxmox `snap` | `main.go`, `freezer/zfs.go` | the result to report | runSnap |
| QEMU freezer | `freezer/qemu.go` | strategy, note and memory snapshot per VM | Freeze, Thaw, Note |
| LXC freezer | `freezer/lxc.go`, `fdtracker.go` | open descriptors per container | Freeze, Thaw |
| Memory snapshots | `freezer/qm.go` | none of its own: the VM's config, the zvols | pruneMem, memSnapshot, reapMem |
| Policy | `freezer/policy.go` | the installed policy | ParseChain, String, LoadPolicy, Merge, For, MemKeep |
| ESXi freezer | `freezer/esxi.go` | the VM snapshot per VM; the state file | Freeze, Thaw, State/Restore, CleanupESXi |
| ESXi commands | `esxicmd.go` | the result to report | snap, freeze, thaw, cleanup, discover |
| soap transport | `esxi/soap.go`, `xmltree.go` | connection, names of datastores | login, Datastores, VMs, Snapshots, CreateSnapshot, RemoveSnapshot |
| ssh transport | `esxi/ssh.go`, `parse.go` | connection, semaphore of five sessions | the same, by text that `esxcli` and `vim-cmd` print |
| Choice of transport | `esxi/auto.go` | none | Open with `--proto auto` |
| Proxmox discovery | `freezer/discover.go` | none | guests of a dataset, filters, disks on other pools |
| ESXi discovery | `esxi/discover.go` | none | VMs on an NFS export, with the reasons for those left out |
| Configuration | `esxi/config.go`, `hosttable.go`, `policyline.go` | the Config | both forms of the cfg file, environment |

How they interact: a command connects (ESXi: cfg file, environment and flags make
the Config, the transport logs in), installs the policy and discovers the guests,
reading a pool or a host that changes meanwhile; the
session starts a goroutine per guest, which asks the registered freezer; the
freezer walks down the guest's chain (`freeze`, `memory`, `plain`, `pause`,
`zfs`) until a step works; the command judges the results (strict chains,
`--forcefreeze`), takes the ZFS snapshot, and calls Thaw, explicitly and again by
defer.  Everything outside - agent, monitor, `qm`, the ESXi host - carries out
commands in its own time, also when the program has stopped waiting.  Processes
meet in the ESXi state file, in the VM's config (memory snapshots of parallel
jobs), at one VM's agent and monitor (parallel runs) and on the ESXi host (cleanup
beside freeze or thaw).

What is hard here, and what the properties are for: a fallback step after a
timeout whose command is carried out after all; a snapshot by the wrong owner
recorded or removed; thawing on every path and never twice; the ZFS snapshot
between freeze and thaw; what the JSON says against what was done; a lost answer
to a removal; pruning what a parallel run or a restore needs; crashes around the
state file; hanging devices and session slots; a disk or a VM that moves between
two looks; a password at the wrong host, or tried once too often.  `PROJECT.json`
lists them as hazards, each at its line, with the properties that cover it or the
reason why none does.

## 2. Modules

    SnapPromise                 what snap promises (abstract specification)
       ^            ^
       | implements | implements
    SnapRun       EsxiRun ------- EXTENDS FreezeSession, EsxiFreezer (INSTANCE SshPool)
       | EXTENDS FreezeSession
       ^
       | implements, EXTENDS SnapRun, QemuFreezer, LxcFreezer
    ProxmoxRun                  ParallelRuns   MemSnaps   ProxDiscovery

    EsxiCommand --- EXTENDS EsxiDiscovery (INSTANCE SshPool), INSTANCE EsxiConnect
    EsxiJob         VimOutput   ChainParser   Policy

**FreezeSession** - `session.go`.  One program counter per goroutine and guest
for FreezeAll (`freezeAt`) and for Thaw (`thawAt`).  The return of `Freeze` is a
step of its own (`FreezeReturn`, any outcome the `Freezer` interface allows) and
so is the append under the mutex (`FreezeRecord`).  `phase` says where the caller
is; `FreezeAllReturn` and `ThawAllReturn` are the two `wg.Wait`.  Thaw's mutex is
`thawMu`, held over the freezer's whole call as in the code.  `thawCalls` is a
history variable.  An outcome `held` or `degraded` is a strategy without or with
a note; the names of strategies appear in the freezers' modules only.

**SnapRun** - `runSnap` of `main.go`: a program counter whose actions either move
it alone or take a step of the session with it (`StartFreeze`, `EndFreeze`,
`StartThaw`, ...).  All that comes before FreezeAll is one step that works or
fails; ProxDiscovery has it in detail.  `report` is the JSON, with the guests as
they were when it was built.

**SnapPromise** - guests are collected into a held set, one attempt at a
snapshot is made while all of them are held, then they are let go, and the run
is over when none is held.  SnapRun and EsxiRun implement it under the mapping
`Stage` (from `pc`) and `Held` (on the list, not yet turned to by Thaw).

**QemuFreezer** - one Freeze or Thaw call per VM.  The chain is walked with
`step`; each step is dial, send, answer or deadline, as actions.  The devices
are in the same module: `agent`, `monitor` and `worker` hold a command that was
sent and may be carried out at any later time, or never, and an answer that
nobody is connected to receive is dropped (`Heard`).  An agent that says it froze
nothing is sent a thaw, whose answer does not matter (`QgaUndo`).  A VM of
`Switched` may be started or stopped once.  `QmpEvent` is a line QEMU sends on the
monitor of its own accord, which jsonRPCCall takes for the answer to `stop` or to
`cont`; when the command had not been carried out yet, the history variable
`misread` keeps the VM and the command, for the properties that it breaks.

**LxcFreezer** - FIFREEZE with the kept descriptor, else sync and the cgroup;
Thaw goes by the descriptor.

**ProxmoxRun** - SnapRun with these two: `FreezeCall` and `FreezeBegin`,
`FreezeReturn` and the freezer's return, and so on, are joint actions; between
them freezer and devices run on their own.

**ParallelRuns** - several `snap` processes on one VM.  An exchange with a socket
is one action here, what is kept apart is what the processes share: the agent,
which refuses a second freeze, and the CPUs, which have one switch for all.  The
agent's socket serves one connection at a time (`Free`), which is a property of
QEMU's chardev and external.  Commands that time out, a ping among them, stay in
`queue` and are carried out later, those sent to a paused VM when it runs again; the
next connection takes their answers for its own (`FreezeMisled`, `ThawQga`).  A
freeze of nothing is undone (`Undo`), and its thaw may be carried out later, too.
`late` and `misread` are histories.

**ProxDiscovery** - the beginning of `runSnap` in detail: the list of guests, the
filters, the cross-pool check, then the freeze of containers by dataset and the
snapshot, while disks are created, moved and deleted between these.

**MemSnaps** - the memory snapshots of one Proxmox VM over several overlapping
runs: pruning at the start (orphans), the run's own snapshot with leftover and
reap, the ZFS snapshot of disk and vmstate zvols, pruning at the end (orphans and
cap).  Retention, restore by rollback, late `qm` workers and the clock are
actions of their own; a run may take any time between two of its steps, and `slow`
remembers those whose ZFS snapshot came after the grace.  `Foreign` are snapshots
of others, some tagged but without a ZFS snapshot's name.  Queries that zfs may
leave unanswered are a constant.

**SshPool** - `sshTransport.run`: the semaphore, the request for a session, which
no deadline bounds, and the deferred release.  `channel` is where a call is.

**EsxiFreezer** - Freeze with its steps and `reap`, Thaw with its check for
"already gone", over either transport (`proto`): soap returns the id with the
task and cancels a task at the deadline; ssh goes through SshPool, looks the id
up by name and cannot cancel.  The host has at most one task per VM and finishes
it in its own time.  Within a run all snapshots of a VM have one name, so a
snapshot is identified by the step that made it.

**EsxiRun** - `runSnapESXi`: unlike `runSnap` it thaws before it reports an
abort, and goes on without the host if that cannot be reached (`FinishZFS`).

**EsxiConnect** - `connect`: the cfg file in either form, environment and flags
make the Config (`Load`, `Override`), the policy is loaded for its host, and the
transports are tried (`Open`, `SoapContent`, `SoapLogin`, `SshDial`, `SshAuth`).
The file is a sequence of lines that are sequences of fields; `logins` is the
history of the credentials sent, each with how it was answered.

**EsxiDiscovery** - `DiscoverNFS` over either transport.  The host's datastores
and VMs change while they are read; over ssh there is a goroutine per VM
(`query`), each with two readings, and the pool.  `ever` and `stayed` remember
what has been true since the discovery began.  The entry of a VM of `Garbled` may
not be understood, over either transport, and then the VM is left out (`unread`).

**EsxiCommand** - the two joined as `snap` and `freeze` do: `Connected` hands the
transport to the discovery and forgets what it was made from.

**VimOutput** - what `vim-cmd vmsvc/snapshot.get` prints of a tree of snapshots
(external), `parseSnapshotGet` line by line, and the lookup by name in
CreateSnapshot.  `order` is the order of printing, fixed at the start; `printed`
and `at` say how far the text has been read, and `Line` what stands there.  A
description is any list of lines, each other text or one that looks like a name,
an id or a description (`NameLike`, `IdLike`, `DescLike`), as the expressions of
parse.go are not anchored.

**EsxiJob** - `freeze`, `thaw` and `cleanup` as processes that share host and
state file.  Each VM's part is one step here; crashes can come between any two.
A step that was given up may leave a snapshot that is not recorded, or a task that
makes one later (`stray`, `unfinished`, `HostFinishes`): what EsxiFreezer has in
detail.  `cleanup` runs beside the others, one at a time.

**ChainParser**, **Policy** - the pure parts of `policy.go` as state machines
that read tokens and lines one by one, checked against declarative definitions
(`WellFormed`, `Means`, `LastOf`).

The `MC...` modules define constants that a cfg cannot write.  Operators whose
comment begins with "Faulty:" are plausible bugs, used to see that a property
notices them; no specification refers to them.

## 3. Runs

| Run (cfg, module) | Bounds | What it shows |
|---|---|---|
| session (`FreezeSession`) | 3 guests | session properties, calls return; 43 thousand states |
| prox (`MCProxmoxRun`) | 1 VM, 1 container, chains of 0 to 2 steps | results mean what they say at the devices; SnapRun and SnapPromise implemented; 306 thousand |
| esxi (`MCEsxiRun`) | 2 VMs, one with 2 steps, one with 1, 1 session slot | ownership and removal of VM snapshots, slots; SnapPromise implemented; 214 thousand |
| job (`EsxiJob`) | 2 VMs, 2 freeze runs, 1 transport; strays of one VM in the first run | state file and cleanup under crashes; 969 thousand |
| mem (`MCMemSnaps`) | 2 runs, 2 foreign snapshots, cap none or 1, clock 0..3, grace 2 | pruning; 1.2 million |
| policy (`MCPolicy`) | 11 tokens, 4 per text; 2 VMs, 2 cfg lines, 2 flags | parser, text form, resolution of chains; 970 thousand |
| cmd (`MCEsxiCommand`) | 14 cfg files of up to 4 lines, 2 hosts; 2 VMs, one of which may be unreadable, 4 datastores, 2 changes, 1 session slot | credentials and attempts, then discovery; 1.2 million |
| pdisc (`MCProxDiscovery`) | 1 VM, 1 container, 2 disks each, 2 moves | choice of guests and disks that are missed; 3.3 million |
| vim (`MCVimOutput`) | trees of up to 3 snapshots, 2 names, 7 descriptions of 1 to 3 lines | the parsed list and the lookup; 337 thousand |
| par (`MCParallelRuns`) | 3 runs, chains of 0 to 2 steps | a freeze belongs to one run; 2.7 million |
| prox_frozen, job_transport | as above or smaller | a statement of the documentation that the code does not keep (section 6) |

Why the bounds are enough.  Session: goroutines of different guests meet in
the results, the list, the mutex and the WaitGroups only, and three of them give
one inside, one waiting and one done.  Two guests give a run one that fails and
one that does not.  A chain matters through "first step", "fallback" and "no step
left", so two steps of different kinds are enough, and the chains of `prox`
contain every kind as a first or as a second step; one VM and one container
suffice because the freezers share nothing between guests (their maps are keyed
by VMID).  On ESXi the same holds but for the session slots, and with one slot two
VMs already have to wait for each other.  Two freeze runs give an old and a new
state file, and strays of the first are there when the second writes.  Two runs
with memory snapshots overlap in every way, and with two foreign snapshots that may
be tagged, a cap of 1 has one to keep and some to drop.  With grace 2 and the
clock up to 3 a run's ZFS snapshot may come within the grace or after it, and a
snapshot be pruned after either (three runs without foreign ones, 4.4 million
states, were checked once, too).  Three parallel runs give a pause and a freeze
that meet a third.  Two chains of two lines each give every pair of
scopes in either order, in one source or in both.  Four tokens give a duplicate
under an alias, a step after zfs and a second timeout together with a valid step.
Two servers in a table give a right and a wrong one.  Discovery reads a VM three
times at most (list, power, datastores), with two changes between; the four
datastores are one on the export, one below it by NFS 4.1, one local, and one of
another server with the same path.  Two disks per guest give one inside and one
outside, and two moves swap them.  A tree of three snapshots is the smallest in
which order of printing and of creation differ; the descriptions are plain ones with
and without the tag, and one with each imitation first and later.

CHECK_DEADLOCK is FALSE where the program ends (`prox`, `esxi`, `mem`, `cmd`,
`pdisc`, `par`) or the text is read (`policy`, `vim`).

The `*_gaps.cfg` and `esxi_hang.cfg` belong to section 6.  The type invariants, one
per specification, are checked there too.

Some properties exclude a case in which the code cannot keep them, named by a
history variable or a predicate, and never by leaving the step out: `misread` (an
event taken for an answer), `late` (a command carried out after it was given up),
`slow` (a run that outlasts the grace), `unread` (an entry nobody can read), `Plain`
(a description that imitates no field), `NamesHold` (no datastore renamed or
unlisted).  Section 6 has for each, but for renamed datastores, a property that says
the same of the excluded case, and is violated.

### Properties

* Session: `ThawTouchesOnlyFrozen` (at most one Thaw per guest, and only on a
  frozen one), `ClosedLeavesNobody`, `ResultsComplete`,
  `ResultsOnlyGainThaw` (action), `CallsReturn` (liveness).
* Proxmox: `SnapshotInsideFreeze` (action), `NothingLeftAtExit`,
  `ReportMatchesEnd`, `ImplementsPromise` (refinement), `QuietAtSnapshot`
  (action), `ThawedMeansRunning`, `ImplementsRun` (refinement of SnapRun),
  `RunEnds` (liveness).
* ESXi: `FrozenOwnsSnapshot`, `ThawedIsGone`, `LeftoverIsReported`,
  `ForceMeansFrozen`, `SlotsComeBack`, `ImplementsPromise`, `SnapshotInAnyCase`
  and `RunEnds` (liveness).
* Connection and discovery: `LoginsBelong`, `NoSecondTry`, `NothingLost`,
  `JudgedAsSeen`, `CommandEnds` (liveness).
* Proxmox discovery: `NoDiskMissedSilently`, `OneDiskAtRest`.
* Text of `vim-cmd`: `ListIsTheTree`, `LookupOnAChain`.
* Parallel runs: `QgaFreezeIsOwned`, `TogetherTheyThaw`.
* State file and cleanup: `NothingForgotten`, `CleanupIsComplete`,
  `ThawConverges` (liveness).
* Memory snapshots: `KeptWhileNeeded`, `CapKeepsNewest` (actions).
* Policy: `ParsesTheLanguage`, `TextFormIsTheChain`, `ResolvesByScope`.

### Fairness

* Weak fairness of the program's own steps: Go runs a goroutine that is not
  blocked.  Strong fairness where a goroutine waits for Thaw's mutex: a mutex in
  Go goes to every waiter in the end (starvation mode).  Likewise for the
  semaphore of the ssh sessions, a channel, whose waiters are served in order.
* `FreezersReturn` (session): the freezers' calls return.  In `prox` and
  `esxi` this is not assumed but follows, because each wait has a deadline whose
  action is always enabled; nothing is assumed of agent, monitor and qm worker,
  and of the ESXi host only the next point.
* ssh: NewSession and the handshake take no context.  `EsxiRunConnectedSpec` and
  `ConnFairness` assume that connecting ends, `EsxiRunAnsweredSpec` and
  `DiscFairness` that the host answers a request for a session; whether it does
  what it is asked is left open.  `esxi_hang.cfg` drops the second assumption.
* The container freezer has no deadlines: FIFREEZE and the cgroup write are
  assumed to return, and sync by the separate assumption `LxcSyncs`.
* `ThawConverges` says: if the host stays reachable from some time on, and
  crashes, failures of the host and failures to remove the file stop, then a
  state file is eventually gone.  It assumes that thaw is run again while there
  is a file, which is what its message asks for ("retry thaw", esxicmd.go:505).

## 4. Proofs

Eight modules:

    FreezeSession_proofs              FreezeSession
       ^ EXTENDS       ^ EXTENDS
    ProxmoxRun_proofs  EsxiRun_proofs SnapRun and ProxmoxRun; EsxiRun
    EsxiCommand_proofs                EsxiConnect, EsxiDiscovery, EsxiCommand
    EsxiJob_proofs                    EsxiJob; VimOutput
    Preparation_proofs                ProxDiscovery, ChainParser, Policy
    ParallelRuns_proofs               ParallelRuns
    MemSnaps_proofs                   MemSnaps

They hold for every value of the constants.  Every safety property that a passing
run lists is a theorem here.  The assumptions are those the modules state of
their constants: `NobodyAssumption`, the mutex's free value is not a guest; chains
are sequences of steps, numbers of steps, slots and changes are natural numbers;
VMs and containers together are the guests; the grace of a memory snapshot is not
zero; `TextAssumption` and `FilesAssumption`, what environment, flags and cfg files
are made of; `StoresAssumption` and `OwnerAssumption`, the datastores and whose
disk is whose; `PolicyConstants` and `ChainParserConstants`, what lines and tokens
are; `DescAssumption`, a description has a first line; `GarbledAssumption`, which
VMs' entries may be unreadable.  Beside these some theorems
have a hypothesis, which is stated with them: `OneTransport` for the state file,
`DistinctNames` and `StateIsKnown` for memory snapshots, and for
`NoSecretIsTriedTwice` that the host does not offer both ways of sending a
password.  Section 6 shows what happens without the first three; with the fourth
dropped, openSSH sends one password by either way, which `cmd` with `Offered` set
to both shows.

**Session.**  No property of the session is inductive alone.  `SessInv` is the
conjunction of `SessTypeOK`; `FreezeInv`, which ties each goroutine's counter in
FreezeAll to its result and to the list (a guest is on the list before Thaw only
if its result says frozen, and a result exists exactly when the counter has passed
the append, or the session was restored); `ThawInv`, which ties the counter in
Thaw to the number of calls (0 before the call, 1 after it, and after the end of a
Thaw the list is empty, so a second Thaw cannot start another call); and
`MutexInv` (a guest that is calling holds the mutex).  Theorem `SessInvariant` is
`SessSpec => []SessInv`, one step per action.  From it follow `SessTypeCorrect`,
`ThawIsIdempotent`, `ThawIsComplete`, `ResultsAreComplete`,
`ThawMutualExclusion` and, as an action property, `ResultsAreFinal`.

**Run.**  `RunUsesSession` shows `SnapSpec => SessSpec`: the run uses the session
in an order the session's specification allows, so that `SessInv` holds in it.
`SnapInvariant` adds which phase of the session belongs to which program point,
and what is settled there.  From it follow `SnapTypeCorrect`,
`SnapshotIsInsideFreeze`, `ExitLeavesNobody`, `ReportIsFinal`, and
`RunImplementsPromise`: each step of `SnapSpec` is a step of SnapPromise or
leaves its variables alone.

**Proxmox.**  `ProxInv` is `SnapInvariant`'s invariant and `FreezersInv`: for
each VM and each container what its freezer's program counter has to do with the
session's goroutine that called it, and what is on its way to which device.  The
hazard is a command that was sent, given up on, and is carried out later, so the
central fact is what cannot be there: once a strategy is remembered, nothing but
the thaw that undoes it can be under way to the same device (`AgentInv`,
`MonitorInv`), because a step that gives up on a device never makes that device's
strategy the remembered one.  An event that is taken for the monitor's answer
breaks that, and `misread` says of which VM and command: the rest is kept.  `SwitchInv` is what the VM's own starting and
stopping does to that: a VM that was on when its freeze began and is off later
has used the one switch allowed, so it does not come back running under the
snapshot.  `ProxInvariant` is proved by cases on who moves: the session and the
freezer together, or the freezer or the devices alone; a step writes at one guest
only (`QemuStepWrites`), so the others keep theirs.  With it:

* `ProxImplementsRun`: `ProxSpec => ImplementsRun`.  The freezers keep to the
  interface the session assumes of them, and so `ProxKeepsRunProperties`: what is
  proved of SnapRun, its refinement of SnapPromise included, holds with them.
* `SnapshotOfQuietGuests` (action property), `ThawedGuestRuns` and
  `ContainerThawKnowsHow`.
* `ProxTypeCorrect`: among the types is the place in the chain, which is never
  more than one past the last step.  For that `PlaceInv` says that a device is
  asked for an existing step only; that `Steps`, a loop, returns a list of a length
  at all is an induction by a least counterexample (`StepsAreCounted`).

**ESXi.**  `EsxiRunUsesSession` shows `EsxiRunSpec => SessSpec`, as above.
`GuestsInv` adds the freezer's call of each VM: `HostInv` has every id on the host
at most the number of the step, so the step's own is not there yet, and has the
one task that may still add it belong to a call that is still concerned with it;
`TaskInv` and `DoneInv` say what a task's answer stands for; `SlotInv` where a
call may hold a session.  What makes it more than bookkeeping is the task that is
given up on: over soap it is cancelled and may end all the same, over ssh it
cannot be cancelled, and a recorded snapshot must be on top with no task under way
(`Owned`).  It gives `FrozenGuestOwnsSnapshot`, `ThawedSnapshotIsGone` and
`SlotsAreReturned`.  `EsxiRunInv` adds where runSnapESXi stands, for
`LeftoversAreReported`, `ForcedSnapshotHasGuests`, `EsxiRunTypeCorrect` and
`EsxiRunImplementsPromise`, the refinement of SnapPromise.

**State file.**  `JobInv` says that while a freeze runs, its list `held` has every
recorded snapshot of the run (`RunInv`), that the file is of the run that wrote
last, and that what the host still makes for nobody is not recorded (`FileInv`), and
that a cleanup without an error has each snapshot, recorded or stray, yet to list,
yet to remove, or it is newer (`CleanInv`).  `CleanupRemovesAll` follows.
`NothingIsForgotten` and `DeletedFileIsDone` need `ThawedInv`: the file has every
recorded snapshot of its run, whatever crashed (`WrittenInv`), a thaw still holds or
has kept what it has not removed (`ThawInv`), and what is left was said (`SaidInv`).
It is inductive only if every login gets the same transport; with
two, a snapshot id of the other transport is refused, and thaw takes that for
"already gone".  That is the finding of run `job_transport` (section 6), so the
hypothesis cannot be dropped.

**Parallel runs.**  `ParInv` says that the agent's freeze has one owner, with
nothing but pings still queued (`OwnerInv`); that this is so already when a run is
about to freeze what is running (`FreezeInv`), that nobody owns a freeze while a run
undoes one of nothing (`UndoInv`), and one run talks to the agent (`TalkInv`); and
that whatever stands still has a run that is to let it go or has said that it could
not (`FrozenInv`, `PausedInv`).  It gives `FreezeIsOwned`, `AllThawedMeansRunning` and
`ParTypeCorrect`, for any number of runs.

**Memory snapshots.**  `KeptWhileNeeded` is not inductive: a list of names is made
at one time and worked off at another, while runs take snapshots of both kinds and
qm's late workers make more.  `MemInv` says that a run makes its memory snapshot
at most once, so that a doomed name does not come to stand for a newer one
(`OnceInv`); that a run has no ZFS snapshot before its own step for it (`ZfsInv`);
and that a doomed one is lost already: its ZFS snapshot is gone and cannot come
back, or is still to be taken, when the memory snapshot is older than the grace, so
that the run will be slow (`Lost`, `DoomedInv`).  `NeededSnapshotStays` follows for
any number of overlapping runs, however long each takes, and `CapLeavesNewest` from the rank of
a snapshot among the newer ones: ranks are distinct, so at most memkeep are below
memkeep (`RankFacts`, `AtMostCap`).  `DistinctNames` is needed, as pveSnapName may
give two runs one name, and `StateIsKnown`, as an unanswered query for the vmstate
zvol counts as gone (both in section 6).

**Connection and ESXi discovery.**  `CmdInv` is `ConnInv` and `DiscInv`.  That a
secret goes to its own host rests on facts that hold at every step between the
file and the login: what secrets the Config may hold, given the host it names
(`SecretsInv`), and when that host is the one asked for (`HostInv`).  Loading is a
loop over lines, so `SecretsInv` of its result needs an argument about each prefix
of the file.  `RejectedInv` says what must have been tried, and how it was
answered, before the next attempt is made.  It gives
`CredentialsStayWithTheirServer` and `NoSecretIsTriedTwice`.  A discovery reads in
pieces what changes meanwhile, so nothing it holds need be true now: `PastInv`
keeps the history, `ListedInv` says by which names datastores are told apart, and
`ReadInv` that each piece read was so at some moment - one moment over soap, over
ssh one for the power and one for the files.  `VmsAreJudgedAsSeen` and
`DiscoveryLosesNoVm` follow from that by the definition of the classes.

**Proxmox discovery.**  `ProxDiscInv`: beside the dataset of a disk nothing is
below it (`PlaceInv`), a frozen container is held by a mount that cannot be taken
away (`HeldInv`), and what the check saw outside is warned of (`SeenInv`).  For
`OneDiskIsAtRest` and `DisksAreNotMissedSilently`, with any number of moves.

**Policy and chains.**  `Tells(p, lines, isFlag)` says what a policy knows when
some lines have been read: for each scope the value of the last line that counts.
It holds of no lines, each line keeps it, and `ChainsResolveByScope` combines what
the two sources tell.  For `TheLanguageIsParsed` the loop's variables are
described for any prefix that has been read, an error included.
`ChainsCanBeGivenBack` speaks of a second text, the one Chain.String makes, which
the state does not hold; the loop over it is the recursive function `Scans`, and
the theorem is an induction over its tokens, done by taking the least number of
tokens at which it would fail (`LeastNumber`, `AllWritten`).

**Text of vim-cmd.**  The list and the snapshot in hand are each wrong for much of
the time: a line of a description that looks like a name flushes the snapshot early
and puts an imitation in its place, and lines that look like an id make the
imitation an entry of its own.  So `ReadSoFar` is about the list that a flush would
make now.  `of` marks with each entry the snapshot during which it was begun: for
one with a plain description there is exactly one, right once its id and first line
of description have passed; what comes of the others (`Astray`) stays with them, as
a printed snapshot begins with its name.  `ScanIsTheTree` follows at the last flush.  `NewestOfAChainIsFound` adds that a chain is printed in
the order of creation (`ChainOrder`), again by a least counterexample.

What proving changed in the model: guards of a CASE that overlap mean that TLC and
the prover may take different branches, so such definitions in EsxiConnect,
EsxiDiscovery and Policy are chains of IF, in the order of the code.

Only model-checked:

* Liveness (`CallsReturn`, both `RunEnds`, `CommandEnds`, `ThawConverges`,
  `SnapshotInAnyCase`): fairness and ENABLED are out of the prover's reach.
* That what `gaps` configurations violate is violated: a counterexample is found,
  not proved.
* `ThawMutualExclusion`, `ContainerThawKnowsHow`, `DeletedFileIsDone` and the theorems
  of type correctness and those about `SessSpec` state what no passing run lists;
  some of them the cfgs of section 6 check.

## 5. What is not modelled

* The command line, usage text, JSON formatting, debug output and the fake
  agents of the tests: no state.
* The wire: XML and its namespaces, TLS and pinned keys, JSON of agent and
  monitor, the column widths of `esxcli` and `getallvms`, shell quoting, the
  logout.
* Of the connection options only `proto` is kept; a timeout is a line that may
  be malformed.  `--vms` is the set of VMs it matches.
* Late answers on the agent's channel in ProxmoxRun, where a run has the VM for
  itself: an answer nobody is connected to receive is dropped.  The code sends no
  `guest-sync`, so a later connection could read it, or the answer to a command
  still queued; ParallelRuns has that.
* Names: VM snapshot names are distinct per run, although they are cut at 48
  (esxi.go:79) or 35 characters.  `ClashingNames` gives two runs one name
  (section 6).
* `--recursive=false` on Proxmox: guests below the dataset are still frozen
  (zfs.go:15); the cross-pool check is written for recursive snapshots.
* A datastore renamed between two ssh listings: VMs and datastores are matched
  by name there, so its VMs are lost; `NothingLost` and `JudgedAsSeen` exclude it
  (`NamesHold`).
* A crash of `snap`: nothing is persisted on Proxmox, so nothing recovers.  On
  ESXi what it leaves is what `cleanup` finds.
* The job model uses one transport for its passing run, because of
  job_transport below.

## 6. Where code and documentation disagree

Two disagreements are listed as runs and findings in PROJECT.json:

* **prox_frozen**: a timed-out freeze or pause command can be carried out late
  and is never undone; the VM stays frozen after a run that reports no failure.
* **job_transport**: thaw over the other transport deletes the state file and
  removes nothing.

The others are reproduced by the cfgs below.  Where one has several properties,

    tlc -workers 1 -continue -config X_gaps.cfg M | grep "is violated" | sort | uniq -c

names each property that is violated (a type invariant, and `CtThawKnowsHow`,
hold).

| cfg (module) | Property | The code | The statement |
|---|---|---|---|
| session_gaps (FreezeSession) | ThawsStartInParallel | session.go:135 takes the mutex over the freezer's call: thaws run one after the other, and one that hangs stops the rest | README.md:85 "then everything is thawed in parallel" |
| prox_gaps (MCProxmoxRun) | ReportedThawedIsReal | main.go:183-186 reports an abort before the deferred Thaw: frozen guests are shown as not thawed | main.go:201-202 "so Guests[].Thawed reflects reality in the JSON" |
| prox_gaps | StoppedIsQuietAtSnapshot | qemu.go:141-152 looks once; the VM may be started before the snapshot | README.md:133-134 "A Proxmox VM that is not running counts as consistent" |
| prox_gaps | NoMemLeftover | a worker of a killed `qm` ends after reapMem has looked, or reapMem fails | README.md:187 "A failed or timed-out `qm snapshot` is removed again" |
| prox_gaps | ThawedCpuRuns | qemu.go:362-367 takes the first line for the answer to `cont`, an event too: the VM is reported as thawed and stays paused | freezer.go:83 "Thaw resumes guest I/O" |
| prox_gaps | PauseStopsCpu | qemu.go:362-367 takes the first line for the answer to `stop`, an event too | qemu.go:41-44 "This pauses ALL vCPU execution" |
| prox with `ProxSyncHangsSpec` (MCProxmoxRun) | FreezePhaseEnds | lxc.go:124-128 runs sync without a timeout | README.md:136 "A step that runs out of time counts as failed and the next step starts" |
| par_gaps (MCParallelRuns) | PauseIsOwned | qemu.go:304, 318: `stop` succeeds on a stopped VM and `cont` resumes it whoever stopped it | README.md:108 "QMP `stop`/`cont` (the whole VM pauses)", README.md:181 "parallel jobs" |
| par_gaps | FreezeAnswerIsOwn | qemu.go:362-367 with no `guest-sync`: the answer to a command that another run left behind counts as the freeze's | main.go:2-4 "freezes their I/O ..., takes the ZFS snapshot" |
| pdisc_gaps (MCProxDiscovery) | AllDisksAtRest | discover.go:60 keeps the last subvolume of a container, only that one is held | discover.go:26-28 "freeze/thaw operates at the guest level, not per-disk" |
| pdisc_gaps | IncludeOnlyDecides | discover.go:142-150 picks among the discovered guests | README.md:48 "overrides discovery entirely" |
| pdisc_gaps | FailedCheckIsWarned | main.go:167-168 writes to stderr only | README.md:373 "non-fatal check failures" in `warnings` |
| mem with `NameOf <- ClashingNames` (MCMemSnaps) | KeptWhileNeeded | qm.go:67-76 maps different ZFS snapshot names to one VM snapshot name, and 332-339 deletes it as a leftover | qm.go:14-15 "The snapshot stays for as long as the ZFS snapshot named in its description exists" |
| mem_gaps (MCMemSnaps) | ForeignUntouched | reapMem, qm.go:363-368, looks at the name only | README.md:182 "Only snapshots named `cs4s_*` with the description `cs-freeze4snap ...` are ever touched" |
| mem_gaps | RestoreSnapshotKept | qm.go:243 drops an answer for the vmstate zvol that zfs could not give | qm.go:235 "known is false when zfs could not answer", README.md:182-183 "a snapshot a running restore still needs is kept" |
| mem_gaps | SlowRunKept | qm.go:283 compares ages only, and a step may take 86400 s (policy.go:194-203): a parallel run dooms the memory snapshot before the ZFS snapshot is taken, and removes it after | qm.go:14-15, as above; qm.go:51-53 "may not have taken its ZFS snapshot yet" |
| policy_gaps (MCPolicy) | FlagsBeatCfg | policy.go:248-256 merges per scope, and 218-235 takes the narrowest | README.md:120-121 "`--mode`, `--policy`, `host:vmid` line, `host:*` line, global" |
| policy_gaps | ServerMemKeepWins | policy.go:260-265 and 270-278: 0 cannot override a cap | policy.go:213 "mkServer ... wins over mkGlobal", README.md:184-185 "`0` = no cap" |
| esxi_gaps (MCEsxiRun) | NoLateSnapshot | esxi.go:163-185 looks once; the host may finish the snapshot later | README.md:137-138 "a snapshot the host may still create is removed" |
| esxi_gaps | StrictMeansFrozen | esxicmd.go:293-300 asks for `--forcefreeze` only when the host cannot be reached | README.md:131-133 "if no step works, the run aborts before the ZFS snapshot" |
| esxi_hang (MCEsxiRun) | SnapshotInAnyCase | ssh.go:109, NewSession, has no deadline and keeps the slot | README.md:139-141 "the ZFS snapshot is taken in any case" |
| cmd_gaps (MCEsxiCommand) | ExportSelected | ssh.go:174-177: every error of the NFS 4.1 listing counts as a host without such mounts | README.md:256-257 "The NFS datastores of the host whose export matches are selected" |
| cmd_gaps | CertUsesSsh | auto.go:28 goes by the password, which config.go:103-105 sets from CS_ESXI_PASSWORD | README.md:324 "Entries with `cert` use ssh directly." |
| cmd_gaps | CommentsDoNotCount | hosttable.go:75 takes all after the second comma | README.md:274-283 shows comments at the ends of lines |
| cmd_gaps | BadLinesAreReported | hosttable.go:54 slices a list of one field to two | hosttable.go:59-60, the error for that line |
| cmd_gaps | NoVmVanishes | parse.go:21-29 and soap.go:263-266 leave out a VM whose line or id they do not understand, with no entry in `skipped` | README.md:258-263 "Every VM with files on those datastores is a candidate" |
| vim_gaps (MCVimOutput) | LookupFindsNewest | ssh.go:267-272 takes the last of a name in a depth-first listing | ssh.go:270 "last one wins if the name was reused" |
| vim_gaps | TaggedAreOwn | parse.go:130-133: a later line with "Snapshot Desc... :" replaces the description, one with "Snapshot Id :" the id, so a foreign snapshot may count as tagged and be removed | esxicmd.go:61 "remove leftover VM snapshots created by this tool" |
| job_gaps (EsxiJob) | NoneLeaked | esxi.go:151-185: what a given-up step leaves is not recorded; esxi.go:294: the rename replaces the file of an earlier freeze | esxicmd.go:440-441 "take them off again right away rather than leaking them" |
| job_gaps | RemovedAgainIsTrue | esxicmd.go:453-457 does not look at Thaw's results | its own message "VM snapshots were removed again" |

## 7. What is left

The modules are complete with respect to section 5, and every safety property of
the passing runs is proved.  What could follow:

1. Liveness of the session from the fairness of its goroutines, with a prover that
   has ENABLED and the rules for fairness.
2. The XML of the soap transport (`xmltree.go`), whose scanner is the counterpart of
   VimOutput.
