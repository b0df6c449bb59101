--------------------------- MODULE EsxiRun_proofs ---------------------------
(***************************************************************************)
(* Proofs about EsxiRun, for any set of VMs, any chains and any number of  *)
(* ssh sessions.  The session's invariant is FreezeSession_proofs'; what   *)
(* is added is the Freezer's call, the host it leaves tasks on, and where  *)
(* runSnapESXi stands.                                                     *)
(***************************************************************************)
EXTENDS EsxiRun, FreezeSession_proofs, SequenceTheorems

-----------------------------------------------------------------------------
(***************************************************************************)
(* One call of the Freezer.  CallInv says what its program counter, the    *)
(* host and the host's task know of each other; at every point it has to   *)
(* allow for a task the call has given up on, which ends later.            *)
(***************************************************************************)
FreezePoint == {"step", "creating", "finding", "canceling", "reap", "reap next",
                "reaping"}
ThawPoint   == {"remove", "removing", "check"}

\* The VM's snapshot is the recorded one, on top, and no task is under way.
Owned(v) ==
  /\ snap[v] = step[v]
  /\ host[v] # <<>>
  /\ Last(host[v]) = snap[v]
  /\ task[v] = NoTask

\* It is gone, and no task is under way that makes one.
Gone(v) ==
  /\ snap[v] = 0
  /\ step[v] \notin ToSet(host[v])
  /\ task[v].op # "create"

\* The VM has seen neither Freeze nor Thaw.
Fresh(v) ==
  /\ at[v] = "idle" /\ step[v] = 1 /\ snap[v] = 0
  /\ host[v] = <<>> /\ task[v] = NoTask

StepInv(v) ==
  /\ step[v] \in 1..(steps[v] + 1)
  /\ at[v] \in FreezePoint => step[v] <= steps[v] /\ snap[v] = 0
  /\ at[v] \in ThawPoint => snap[v] # 0
  /\ snap[v] # 0 => snap[v] = step[v] /\ task[v].op # "create"

TaskInv(v) ==
  /\ task[v].state \in {"done", "failed"} => Waiting(v)
  /\ at[v] = "creating" => task[v].op = "create" /\ task[v].id = step[v]
  /\ at[v] = "finding"  => task[v] = NoTask
  /\ at[v] = "reaping"  => task[v].op = "remove"
  /\ at[v] = "removing" => task[v].op = "remove" /\ task[v].id = snap[v]

\* What is on the host, and what a create that is still running may add to it.
HostInv(v) ==
  /\ IsInjective(host[v])
  /\ \A id \in ToSet(host[v]) : id <= step[v]
  /\ at[v] = "step" => step[v] \notin ToSet(host[v])
  /\ task[v].op = "create" /\ task[v].state = "running" =>
       /\ task[v].id \notin ToSet(host[v])
       /\ task[v].id <= step[v]
       /\ task[v].id = step[v] =>
            at[v] \in {"creating", "canceling", "reap", "reap next"}

\* What an answer that is waiting for the call, or was just taken, stands for.
DoneInv(v) ==
  /\ task[v].state = "done" /\ task[v].op = "create" =>
       host[v] # <<>> /\ Last(host[v]) = step[v]
  /\ task[v].state = "done" /\ task[v].op = "remove" =>
       task[v].id \notin ToSet(host[v])
  /\ at[v] = "finding" => host[v] # <<>> /\ Last(host[v]) = step[v]
  /\ at[v] = "returned" /\ ret[v] \in Froze => Owned(v)
  /\ at[v] = "returned" /\ ret[v] = "ok" => Gone(v)
  /\ at[v] = "returned" /\ ret[v] \in {"zfs-only", "error"} => snap[v] = 0

SlotInv(v) ==
  channel[v] # "none" =>
    /\ at[v] \notin {"idle", "returned", "canceling"}
    /\ at[v] = "reap next" => todo[v] # {}

CallInv(v) ==
  StepInv(v) /\ TaskInv(v) /\ HostInv(v) /\ DoneInv(v) /\ SlotInv(v)

EsxiTypes ==
  /\ proto \in {"soap", "ssh"} /\ zfsOnly \subseteq Vm
  /\ steps \in [Vm -> {0} \cup SnapId]
  /\ \A v \in Vm : steps[v] <= MaxSteps[v]
  /\ host \in [Vm -> Seq(SnapId)]
  /\ task \in [Vm -> Task]
  /\ at \in [Vm -> {"idle", "returned"} \cup FreezePoint \cup ThawPoint]
  /\ step \in [Vm -> Nat]
  /\ todo \in [Vm -> SUBSET SnapId]
  /\ snap \in [Vm -> {0} \cup SnapId]
  /\ ret \in [Vm -> {"pending", "held", "degraded", "zfs-only", "error", "ok",
                     "failed"}]
  /\ channel \in [Vm -> {"none", "opening", "answered"}]

(***************************************************************************)
(* The call and the session: which of its two calls a Freezer is in, and   *)
(* what the snapshots say of the guest's result.                           *)
(***************************************************************************)
LinkInv(v) ==
  /\ at[v] \in FreezePoint => freezeAt[v] = "calling"
  /\ at[v] \in ThawPoint   => thawAt[v] = "calling"
  /\ at[v] = "idle" <=> freezeAt[v] # "calling" /\ thawAt[v] # "calling"
  /\ at[v] = "returned" /\ freezeAt[v] = "calling" =>
       ret[v] \in {"held", "degraded", "zfs-only", "error"}
  /\ at[v] = "returned" /\ thawAt[v] = "calling" => ret[v] \in {"ok", "failed"}

\* What the session has recorded holds on the host.
RecordInv(v) ==
  /\ freezeAt[v] \in {"idle", "start"} => Fresh(v)
  /\ freezeAt[v] = "record" =>
       IF outcome[v] \in Froze THEN Owned(v) ELSE snap[v] = 0
  /\ freezeAt[v] = "done" /\ ~result[v].frozen => snap[v] = 0
  /\ v \in frozen /\ thawAt[v] \in {"idle", "wait"} => Owned(v)
  /\ result[v].thawed =>
       Gone(v) /\ result[v].frozen /\ (v \in frozen => thawAt[v] = "done")

-----------------------------------------------------------------------------
(* The run. *)

RunTypes ==
  /\ registered = Guest
  /\ pc \in RunPc
  /\ force \in BOOLEAN
  /\ zfs \in {"none", "taken", "failed"}
  /\ report \in {NoReport} \cup
       [status : {"ok", "error"}, guests : [Guest -> Result], leftover : SUBSET Vm]

\* The phase of the session at each point of runSnapESXi.
PcInv ==
  /\ pc \in {"connect", "zfs alone", "freeze"} => phase = "new"
  /\ pc = "freezing"                           => phase = "freezing"
  /\ pc \in {"judge", "snapshot", "thaw"}      => phase = "open"
  /\ pc \in {"thawing", "deferring"}           => phase = "thawing"
  /\ pc \in {"report", "defer"}                => phase = "closed"
  /\ pc \in {"return", "exit"}                 => phase \in {"new", "closed"}

\* RestoreSession is not used here: a session that is past FreezeAll has run it.
AnswerInv ==
  phase \in {"open", "thawing", "closed"} => \A g \in Guest : freezeAt[g] = "done"

\* What runSnapESXi has decided by then.
Judged == \A g \in Guest :
            Answered(g) /\ (result[g].frozen \/ result[g].outcome = "zfs-only")

ForceInv ==
  /\ pc \in {"connect", "zfs alone", "freeze", "freezing", "judge", "snapshot"} =>
       zfs = "none"
  /\ pc = "zfs alone" => ~force
  /\ force /\ (pc = "snapshot" \/ zfs # "none") => Judged

ReportInv ==
  pc \in {"defer", "deferring", "return", "exit"} =>
    /\ report # NoReport
    /\ report.guests = result /\ report.leftover = Leftover /\ frozen = {}

-----------------------------------------------------------------------------
(* The host's list of snapshots. *)

\* A new snapshot is the last of the list and adds its id, and only that.
LEMMA AppendFacts ==
  ASSUME NEW S, NEW s \in Seq(S), NEW id \in S, id \notin ToSet(s), IsInjective(s)
  PROVE  /\ Append(s, id) \in Seq(S)
         /\ Append(s, id) # <<>>
         /\ Last(Append(s, id)) = id
         /\ ToSet(Append(s, id)) = ToSet(s) \cup {id}
         /\ IsInjective(Append(s, id))
<1> DEFINE t == Append(s, id)
<1>1. /\ t \in Seq(S) /\ t # <<>> /\ Len(t) = Len(s) + 1
      /\ \A i \in 1..Len(s) : t[i] = s[i]
      /\ t[Len(s) + 1] = id
  BY AppendProperties
<1>2. /\ Len(s) \in Nat /\ DOMAIN s = 1..Len(s)
      /\ DOMAIN t = 1..(Len(s) + 1)
  BY <1>1, LenProperties
<1> HIDE DEF t
<1>3. Last(t) = id
  BY <1>1 DEF Last
<1>4. ToSet(t) = ToSet(s) \cup {id}
  <2>1. ASSUME NEW x \in ToSet(t) PROVE x \in ToSet(s) \cup {id}
    <3>1. PICK i \in 1..(Len(s) + 1) : x = t[i]
      BY <1>2 DEF ToSet
    <3>2. CASE i = Len(s) + 1
      BY <1>1, <3>1, <3>2
    <3>3. CASE i \in 1..Len(s)
      BY <1>1, <1>2, <3>1, <3>3 DEF ToSet
    <3> QED BY <1>2, <3>2, <3>3
  <2>2. ASSUME NEW x \in ToSet(s) PROVE x \in ToSet(t)
    <3>1. PICK i \in 1..Len(s) : x = s[i]
      BY <1>2 DEF ToSet
    <3> QED BY <1>1, <1>2, <3>1 DEF ToSet
  <2>3. id \in ToSet(t)
    BY <1>1, <1>2 DEF ToSet
  <2> QED BY <2>1, <2>2, <2>3
<1>5. IsInjective(t)
  <2> SUFFICES ASSUME NEW i \in 1..(Len(s) + 1), NEW j \in 1..(Len(s) + 1), t[i] = t[j]
               PROVE  i = j
    BY <1>2 DEF IsInjective
  <2>1. \A k \in 1..Len(s) : t[k] = s[k] /\ t[k] # id
    BY <1>1, <1>2 DEF ToSet
  <2>2. CASE i \in 1..Len(s) /\ j \in 1..Len(s)
    BY <1>2, <2>1, <2>2 DEF IsInjective
  <2>3. CASE ~(i \in 1..Len(s) /\ j \in 1..Len(s))
    BY <1>1, <1>2, <2>1, <2>3
  <2> QED BY <2>2, <2>3
<1> QED BY <1>1, <1>3, <1>4, <1>5 DEF t

\* Removing a snapshot takes away its id, and only that.
LEMMA WithoutFacts ==
  ASSUME NEW S, NEW s \in Seq(S), NEW id, IsInjective(s)
  PROVE  /\ Without(s, id) \in Seq(S)
         /\ ToSet(Without(s, id)) = ToSet(s) \ {id}
         /\ IsInjective(Without(s, id))
<1>0. /\ Len(s) \in Nat /\ s \in [1..Len(s) -> S] /\ DOMAIN s = 1..Len(s)
  BY LenProperties
<1>1. CASE id \notin ToSet(s)
  BY <1>1 DEF Without
<1>2. CASE id \in ToSet(s)
  <2> DEFINE k == CHOOSE i \in DOMAIN s : s[i] = id
             p == SubSeq(s, 1, k - 1)
             q == SubSeq(s, k + 1, Len(s))
             t == p \o q
  <2>1. k \in 1..Len(s) /\ s[k] = id
    <3>1. \E i \in DOMAIN s : s[i] = id
      BY <1>2 DEF ToSet
    <3> QED BY <1>0, <3>1
  <2>2. Without(s, id) = t
    BY <1>2 DEF Without, RemoveAt
  <2> HIDE DEF k
  <2>3. /\ p \in Seq(S) /\ Len(p) = k - 1
        /\ \A i \in 1..(k - 1) : p[i] = s[i]
    <3>1. 1 \in Int /\ k - 1 \in Int /\ (\A i \in 1..(k - 1) : s[i] \in S)
      BY <1>0, <2>1
    <3>2. /\ p \in Seq(S) /\ Len(p) = (IF 1 <= k - 1 THEN k - 1 - 1 + 1 ELSE 0)
          /\ \A i \in 1..(k - 1 - 1 + 1) : p[i] = s[1 + i - 1]
      BY <3>1, SubSeqProperties
    <3> QED BY <1>0, <2>1, <3>2
  <2>4. /\ q \in Seq(S) /\ Len(q) = Len(s) - k
        /\ \A i \in 1..(Len(s) - k) : q[i] = s[k + i]
    <3>1. k + 1 \in Int /\ Len(s) \in Int /\ (\A i \in (k + 1)..Len(s) : s[i] \in S)
      BY <1>0, <2>1
    <3>2. /\ q \in Seq(S)
          /\ Len(q) = (IF k + 1 <= Len(s) THEN Len(s) - (k + 1) + 1 ELSE 0)
          /\ \A i \in 1..(Len(s) - (k + 1) + 1) : q[i] = s[k + 1 + i - 1]
      BY <3>1, SubSeqProperties
    <3> QED BY <1>0, <2>1, <3>2
  <2> HIDE DEF p, q
  <2>5. /\ t \in Seq(S) /\ Len(t) = Len(s) - 1
        /\ \A i \in 1..(Len(s) - 1) : t[i] = IF i < k THEN s[i] ELSE s[i + 1]
    <3>1. /\ t \in Seq(S) /\ Len(t) = Len(p) + Len(q)
          /\ \A i \in 1..(Len(p) + Len(q)) :
               t[i] = IF i <= Len(p) THEN p[i] ELSE q[i - Len(p)]
      BY <2>3, <2>4, ConcatProperties
    <3> HIDE DEF t
    <3>2. Len(t) = Len(s) - 1
      BY <1>0, <2>1, <2>3, <2>4, <3>1
    <3>3. ASSUME NEW i \in 1..(Len(s) - 1)
          PROVE  t[i] = IF i < k THEN s[i] ELSE s[i + 1]
      <4>1. t[i] = IF i <= k - 1 THEN p[i] ELSE q[i - (k - 1)]
        <5>1. i \in 1..(Len(p) + Len(q))
          BY <1>0, <2>1, <2>3, <2>4
        <5> QED BY <2>3, <3>1, <5>1
      <4>2. CASE i < k
        <5>1. i \in 1..(k - 1) /\ i <= k - 1
          BY <1>0, <2>1, <4>2
        <5> QED BY <2>3, <4>1, <4>2, <5>1
      <4>3. CASE ~(i < k)
        <5>1. i - (k - 1) \in 1..(Len(s) - k) /\ ~(i <= k - 1)
          BY <1>0, <2>1, <4>3
        <5>2. k + (i - (k - 1)) = i + 1
          BY <1>0, <2>1
        <5>3. t[i] = s[k + (i - (k - 1))]
          BY <2>4, <4>1, <5>1
        <5> QED BY <4>3, <5>2, <5>3
      <4> QED BY <4>2, <4>3
    <3> QED BY <3>1, <3>2, <3>3
  <2>6. DOMAIN t = 1..(Len(s) - 1)
    BY <2>5, LenProperties
  <2> HIDE DEF t
  <2>7. ToSet(t) = ToSet(s) \ {id}
    <3>1. ASSUME NEW x \in ToSet(t) PROVE x \in ToSet(s) \ {id}
      <4>1. PICK i \in 1..(Len(s) - 1) : x = t[i]
        BY <2>6 DEF ToSet
      <4>2. PICK j \in 1..Len(s) : x = s[j] /\ j # k
        BY <1>0, <2>1, <2>5, <4>1
      <4> QED BY <1>0, <2>1, <4>2 DEF ToSet, IsInjective
    <3>2. ASSUME NEW x \in ToSet(s) \ {id} PROVE x \in ToSet(t)
      <4>1. PICK j \in 1..Len(s) : x = s[j] /\ j # k
        BY <1>0, <2>1 DEF ToSet
      <4>2. CASE j < k
        <5>1. j \in 1..(Len(s) - 1) /\ t[j] = x
          BY <1>0, <2>1, <2>5, <4>1, <4>2
        <5> QED BY <2>6, <5>1 DEF ToSet
      <4>3. CASE j > k
        <5>1. j - 1 \in 1..(Len(s) - 1) /\ t[j - 1] = x
          BY <1>0, <2>1, <2>5, <4>1, <4>3
        <5> QED BY <2>6, <5>1 DEF ToSet
      <4> QED BY <1>0, <2>1, <4>1, <4>2, <4>3
    <3> QED BY <3>1, <3>2
  <2>8. IsInjective(t)
    <3> SUFFICES ASSUME NEW i \in 1..(Len(s) - 1), NEW j \in 1..(Len(s) - 1), t[i] = t[j]
                 PROVE  i = j
      BY <2>6 DEF IsInjective
    <3>1. \A a, b \in 1..Len(s) : s[a] = s[b] => a = b
      BY <1>0 DEF IsInjective
    <3> QED BY <1>0, <2>1, <2>5, <3>1
  <2> QED BY <2>2, <2>5, <2>7, <2>8
<1> QED BY <1>1, <1>2

-----------------------------------------------------------------------------
(* Who a step touches. *)

\* Everything the Freezer and the host know of a VM is as it was.
SameCall(v) ==
  /\ UNCHANGED <<proto, steps, at[v], step[v], todo[v], snap[v], ret[v]>>
  /\ UNCHANGED <<host[v], task[v], channel[v]>>

FreezerStep(v) ==
  \/ EsxiCallStep(v) \/ HostWorks(v) \/ SessionAnswered(v)
  \/ EsxiFreezeBegin(v) \/ EsxiThawBegin(v) \/ Returned(v)

\* A step for one VM is no step for another.
LEMMA OthersSame ==
  ASSUME NEW w \in Vm, NEW v \in Vm, v # w, EsxiTypes, FreezerStep(w)
  PROVE  SameCall(v)
<1> USE DEF EsxiTypes, FreezerStep, EsxiCallStep, HostWorks, SessionTaken,
     SessionAnswered, EsxiFreezeBegin, EsxiThawBegin, Returned, CreateRefused,
     CreateSend, CreateAnswer, CreateTimeout, Cancel, Find, ReapList, ReapNext,
     ReapAnswer, StepFailed, RemoveRefused, RemoveSend, RemoveAnswer, RemoveTimeout,
     Check, hostVars, callVars
<1>1. UNCHANGED <<proto, steps>>
  OBVIOUS
<1>2. step'[v] = step[v]
  OBVIOUS
<1>3. todo'[v] = todo[v]
  OBVIOUS
<1>4. host'[v] = host[v]
  OBVIOUS
<1>5. snap'[v] = snap[v]
  BY DEF Record, Removed
<1>6. task'[v] = task[v]
  BY DEF Ask, Answer, GiveUp, TaskEnds
<1>7. channel'[v] = channel[v]
  BY DEF Pool!GiveBack, Pool!TakeSlot, Pool!HostAnswers
<1>8. at'[v] = at[v]
  BY DEF Goto, Returning, Record, Removed
<1>9. ret'[v] = ret[v]
  BY DEF Goto, Returning, Record, Removed
<1> QED BY <1>1, <1>2, <1>3, <1>4, <1>5, <1>6, <1>7, <1>8, <1>9 DEF SameCall

\* A VM that nothing touches keeps the invariant of its call.
LEMMA SameCallInv ==
  ASSUME NEW v \in Vm, CallInv(v), SameCall(v)
  PROVE  CallInv(v)'
<1> USE DEF CallInv, SameCall
<1>1. StepInv(v)'
  BY DEF StepInv
<1>2. TaskInv(v)'
  BY DEF TaskInv, Waiting
<1>3. HostInv(v)'
  BY DEF HostInv
<1>4. DoneInv(v)'
  BY DEF DoneInv, Owned, Gone
<1>5. SlotInv(v)'
  BY DEF SlotInv
<1> QED BY <1>1, <1>2, <1>3, <1>4, <1>5

\* Ids count from 1, and the step being tried is one.
LEMMA SnapIds ==
  /\ SnapId \subseteq Nat \ {0}
  /\ \A v \in Vm, n \in Nat : 1 <= n /\ n <= MaxSteps[v] => n \in SnapId
<1>1. \A v \in Vm : MaxSteps[v] \in Nat
  BY MaxStepsAssumption
<1>2. \A v \in Vm : 1..MaxSteps[v] \subseteq SnapId
  BY DEF SnapId
<1>3. ASSUME NEW id \in SnapId PROVE id \in Nat \ {0}
  <2>1. PICK v \in Vm : id \in 1..MaxSteps[v]
    BY DEF SnapId
  <2> QED BY <1>1, <2>1
<1> QED BY <1>1, <1>2, <1>3

\* The ids of a list are of its type, and so is the last one.
LEMMA ToSetFacts ==
  ASSUME NEW S, NEW s \in Seq(S)
  PROVE  /\ ToSet(s) \subseteq S
         /\ s = <<>> => ToSet(s) = {}
         /\ s # <<>> => Last(s) \in ToSet(s)
<1>1. /\ Len(s) \in Nat /\ s \in [1..Len(s) -> S] /\ DOMAIN s = 1..Len(s)
      /\ s # <<>> => Len(s) # 0
  BY LenProperties, EmptySeq
<1> QED BY <1>1 DEF ToSet, Last

LEMMA StepIsId ==
  ASSUME NEW v \in Vm, EsxiTypes, StepInv(v), step[v] <= steps[v]
  PROVE  step[v] \in SnapId
<1>1. step[v] \in Nat /\ steps[v] \in Nat
  <2>1. step[v] \in Nat /\ steps[v] \in {0} \cup SnapId
    BY DEF EsxiTypes
  <2>2. SnapId \subseteq Nat
    BY SnapIds
  <2>3. CASE steps[v] = 0
    BY <2>1, <2>3
  <2>4. CASE steps[v] \in SnapId
    BY <2>1, <2>2, <2>4
  <2> QED BY <2>1, <2>3, <2>4
<1>2. MaxSteps[v] \in Nat /\ steps[v] <= MaxSteps[v]
  BY MaxStepsAssumption DEF EsxiTypes
<1>3. 1 <= step[v]
  BY <1>1 DEF StepInv
<1>4. step[v] <= MaxSteps[v]
  BY <1>1, <1>2
<1> QED BY <1>1, <1>3, <1>4, SnapIds

\* What one step of the Freezer or of the host may write.
LEMMA FreezerStepWrites ==
  ASSUME NEW v \in Vm, EsxiTypes, CallInv(v), FreezerStep(v)
  PROVE  /\ UNCHANGED <<proto, steps, zfsOnly>>
         /\ \/ UNCHANGED step
            \/ step' = [step EXCEPT ![v] = @ + 1]
         /\ \/ UNCHANGED todo
            \/ todo' = [todo EXCEPT ![v] = ToSet(host[v])]
            \/ \E id \in todo[v] : todo' = [todo EXCEPT ![v] = @ \ {id}]
         /\ UNCHANGED host \/ HostWorks(v)
         /\ \/ UNCHANGED snap \/ Removed(v)
            \/ Record(v, task[v].id) /\ task[v].state = "done"
            \/ Record(v, Last(host[v])) /\ host[v] # <<>>
         /\ \/ UNCHANGED task \/ task' = [task EXCEPT ![v] = NoTask]
            \/ TaskEnds(v, "done") /\ task[v].state = "running"
            \/ TaskEnds(v, "failed") /\ task[v].state = "running"
            \/ \E op \in {"create", "remove"}, id \in SnapId : Ask(v, op, id)
         /\ \/ UNCHANGED channel \/ Pool!GiveBack(v)
            \/ Pool!TakeSlot(v) \/ Pool!HostAnswers(v)
         /\ UNCHANGED at \/ at' = [at EXCEPT ![v] = at'[v]]
         /\ \/ UNCHANGED ret
            \/ \E r \in {"held", "degraded", "zfs-only", "error", "ok", "failed"} :
                 Returning(v, r)
<1> USE DEF FreezerStep, EsxiCallStep, HostWorks, SessionTaken,
     SessionAnswered, EsxiFreezeBegin, EsxiThawBegin, Returned, CreateRefused,
     CreateSend, CreateAnswer, CreateTimeout, Cancel, Find, ReapList, ReapNext,
     ReapAnswer, StepFailed, RemoveRefused, RemoveSend, RemoveAnswer, RemoveTimeout,
     Check, hostVars, callVars
<1>1. UNCHANGED <<proto, steps, zfsOnly>>
  OBVIOUS
<1>2. \/ UNCHANGED step
      \/ step' = [step EXCEPT ![v] = @ + 1]
  OBVIOUS
<1>3. \/ UNCHANGED todo
      \/ todo' = [todo EXCEPT ![v] = ToSet(host[v])]
      \/ \E id \in todo[v] : todo' = [todo EXCEPT ![v] = @ \ {id}]
  OBVIOUS
<1>4. UNCHANGED host \/ HostWorks(v)
  OBVIOUS
<1>5. \/ UNCHANGED snap \/ Removed(v)
      \/ Record(v, task[v].id) /\ task[v].state = "done"
      \/ Record(v, Last(host[v])) /\ host[v] # <<>>
  OBVIOUS
<1>6. \/ UNCHANGED task \/ task' = [task EXCEPT ![v] = NoTask]
      \/ TaskEnds(v, "done") /\ task[v].state = "running"
      \/ TaskEnds(v, "failed") /\ task[v].state = "running"
      \/ \E op \in {"create", "remove"}, id \in SnapId : Ask(v, op, id)
  <2>1. CreateSend(v) => step[v] \in SnapId
    BY StepIsId DEF CallInv
  <2>2. RemoveSend(v) => snap[v] \in SnapId
    BY DEF EsxiTypes, CallInv, StepInv, ThawPoint, Sends
  <2>3. \A id \in todo[v] : id \in SnapId
    BY DEF EsxiTypes
  <2>4. GiveUp(v) => UNCHANGED task \/ task' = [task EXCEPT ![v] = NoTask]
    BY DEF GiveUp, EsxiTypes
  <2>5. CASE CreateSend(v) \/ RemoveSend(v)
    BY <2>1, <2>2, <2>5
  <2>6. CASE ReapNext(v)
    BY <2>3, <2>6
  <2>7. CASE FreezerStep(v) /\ ~(CreateSend(v) \/ RemoveSend(v) \/ ReapNext(v))
    BY <2>4, <2>7 DEF Answer
  <2> QED BY <2>5, <2>6, <2>7
<1>7. \/ UNCHANGED channel \/ Pool!GiveBack(v)
      \/ Pool!TakeSlot(v) \/ Pool!HostAnswers(v)
  OBVIOUS
<1>8. UNCHANGED at \/ at' = [at EXCEPT ![v] = at'[v]]
  BY DEF EsxiTypes, Goto, Returning, Record, Removed
<1>9. \/ UNCHANGED ret
      \/ \E r \in {"held", "degraded", "zfs-only", "error", "ok", "failed"} :
           Returning(v, r)
  BY DEF Goto, Record, Removed
<1> QED BY <1>1, <1>2, <1>3, <1>4, <1>5, <1>6, <1>7, <1>8, <1>9

\* What the host has done leaves a list of ids.
LEMMA HostWorksTypes ==
  ASSUME NEW v \in Vm, EsxiTypes, CallInv(v), HostWorks(v)
  PROVE  host' \in [Vm -> Seq(SnapId)]
<1>1. host[v] \in Seq(SnapId) /\ IsInjective(host[v])
  BY DEF EsxiTypes, CallInv, HostInv
<1>2. task[v].state = "running" /\ task[v].id \in SnapId
  BY DEF EsxiTypes, Task, NoTask, HostWorks
<1>3. task[v].op = "create" => task[v].id \notin ToSet(host[v])
  BY <1>2 DEF CallInv, HostInv
<1>4. task[v].op = "create" => Append(host[v], task[v].id) \in Seq(SnapId)
  BY <1>1, <1>2, <1>3, AppendFacts
<1>5. Without(host[v], task[v].id) \in Seq(SnapId)
  BY <1>1, WithoutFacts
<1> QED BY <1>4, <1>5 DEF HostWorks, EsxiTypes

\* Whatever the Freezer and the host do, the variables keep their types.
LEMMA FreezerStepTypes ==
  ASSUME NEW v \in Vm, EsxiTypes, CallInv(v), FreezerStep(v),
         at'[v] \in {"idle", "returned"} \cup FreezePoint \cup ThawPoint
  PROVE  EsxiTypes'
<1>1. /\ proto' \in {"soap", "ssh"} /\ zfsOnly' \subseteq Vm
      /\ steps' \in [Vm -> {0} \cup SnapId]
  BY FreezerStepWrites DEF EsxiTypes
<1>2. \A w \in Vm : steps'[w] <= MaxSteps[w]
  BY FreezerStepWrites DEF EsxiTypes
<1>3. step' \in [Vm -> Nat]
  <2>1. step \in [Vm -> Nat]
    BY DEF EsxiTypes
  <2>2. UNCHANGED step \/ step' = [step EXCEPT ![v] = @ + 1]
    BY FreezerStepWrites
  <2> QED BY <2>1, <2>2
<1>4. todo' \in [Vm -> SUBSET SnapId]
  <2>1. ToSet(host[v]) \subseteq SnapId
    BY ToSetFacts DEF EsxiTypes
  <2>2. todo \in [Vm -> SUBSET SnapId]
    BY DEF EsxiTypes
  <2>3. \/ UNCHANGED todo
        \/ todo' = [todo EXCEPT ![v] = ToSet(host[v])]
        \/ \E id \in todo[v] : todo' = [todo EXCEPT ![v] = @ \ {id}]
    BY FreezerStepWrites
  <2> QED BY <2>1, <2>2, <2>3
<1>5. host' \in [Vm -> Seq(SnapId)]
  BY FreezerStepWrites, HostWorksTypes DEF EsxiTypes
<1>6. snap' \in [Vm -> {0} \cup SnapId]
  <2>1. task[v].state = "done" => task[v].id \in SnapId
    BY DEF EsxiTypes, Task, NoTask
  <2>2. host[v] # <<>> => Last(host[v]) \in SnapId
    BY ToSetFacts DEF EsxiTypes
  <2>3. snap \in [Vm -> {0} \cup SnapId]
    BY DEF EsxiTypes
  <2> QED BY <2>1, <2>2, <2>3, FreezerStepWrites DEF Record, Removed
<1>7. task' \in [Vm -> Task]
  <2>1. task \in [Vm -> Task] /\ NoTask \in Task
    BY DEF EsxiTypes, Task
  <2>2. ASSUME NEW st \in {"done", "failed"}, task[v].state = "running"
        PROVE  [task[v] EXCEPT !.state = st] \in Task
    <3>1. task[v] \in [op : {"create", "remove"}, id : SnapId,
                       state : {"running", "done", "failed"}]
      BY <2>1, <2>2 DEF Task, NoTask
    <3> QED BY <3>1 DEF Task
  <2>3. \A op \in {"create", "remove"}, id \in SnapId :
          [op |-> op, id |-> id, state |-> "running"] \in Task
    BY DEF Task
  <2>4. CASE UNCHANGED task \/ task' = [task EXCEPT ![v] = NoTask]
    BY <2>1, <2>4
  <2>5. ASSUME NEW st \in {"done", "failed"}, TaskEnds(v, st), task[v].state = "running"
        PROVE  task' \in [Vm -> Task]
    BY <2>1, <2>2, <2>5 DEF TaskEnds
  <2>6. CASE \E op \in {"create", "remove"}, id \in SnapId : Ask(v, op, id)
    BY <2>1, <2>3, <2>6 DEF Ask
  <2> QED BY <2>4, <2>5, <2>6, FreezerStepWrites
<1>8. channel' \in [Vm -> {"none", "opening", "answered"}]
  BY FreezerStepWrites
     DEF EsxiTypes, Pool!GiveBack, Pool!TakeSlot, Pool!HostAnswers
<1>9. at' \in [Vm -> {"idle", "returned"} \cup FreezePoint \cup ThawPoint]
  <2>1. at \in [Vm -> {"idle", "returned"} \cup FreezePoint \cup ThawPoint]
    BY DEF EsxiTypes
  <2>2. UNCHANGED at \/ at' = [at EXCEPT ![v] = at'[v]]
    BY FreezerStepWrites
  <2> QED BY <2>1, <2>2
<1>10. ret' \in [Vm -> {"pending", "held", "degraded", "zfs-only", "error", "ok",
                        "failed"}]
  BY FreezerStepWrites DEF EsxiTypes, Returning
<1> QED BY <1>1, <1>2, <1>3, <1>4, <1>5, <1>6, <1>7, <1>8, <1>9, <1>10 DEF EsxiTypes

-----------------------------------------------------------------------------
(* The Freezer's call keeps its invariant. *)

\* The values that are compared are numbers.
LEMMA LocalTypes ==
  ASSUME NEW v \in Vm, EsxiTypes
  PROVE  /\ step[v] \in Nat /\ snap[v] \in Nat
         /\ steps[v] \in Nat
         /\ ToSet(host[v]) \subseteq Nat
         /\ task[v].id \in Nat
         /\ NoTask.state = "ended" /\ NoTask.op = "none"
<1>1. step[v] \in Nat
  BY DEF EsxiTypes
<1>2. \A n \in {0} \cup SnapId : n \in Nat
  BY SnapIds
<1>3. snap[v] \in {0} \cup SnapId /\ steps[v] \in {0} \cup SnapId
  BY DEF EsxiTypes
<1>4. ToSet(host[v]) \subseteq SnapId
  BY ToSetFacts DEF EsxiTypes
<1>5. task[v].id \in {0} \cup SnapId
  BY DEF EsxiTypes, Task, NoTask
<1>6. snap[v] \in Nat
  BY <1>2, <1>3
<1>7. steps[v] \in Nat
  BY <1>2, <1>3
<1>8. ToSet(host[v]) \subseteq Nat
  BY <1>2, <1>4
<1>9. task[v].id \in Nat
  BY <1>2, <1>5
<1>10. NoTask.state = "ended" /\ NoTask.op = "none"
  BY DEF NoTask
<1> QED BY <1>1, <1>6, <1>7, <1>8, <1>9, <1>10

LEMMA BelowNext ==
  ASSUME NEW m \in Nat, NEW n \in Nat, m <= n
  PROVE  /\ m <= n + 1 /\ m # n + 1
         /\ m + 1 \in 1..(n + 1)
         /\ m < n => m + 1 <= n
OBVIOUS

\* The call goes on without its task, whose answer it has or has given up.
LEMMA GoesOnInv ==
  ASSUME NEW v \in Vm, EsxiTypes, CallInv(v),
         UNCHANGED <<steps, step[v], host[v], snap[v]>>,
         task'[v] \in {task[v], NoTask}, task'[v].state \notin {"done", "failed"},
         channel'[v] = "none",
         \/ at[v] \in FreezePoint /\ at'[v] \in {"canceling", "reap", "reap next"}
         \/ at[v] \in ThawPoint /\ at'[v] = "check"
  PROVE  CallInv(v)'
<1> USE DEF CallInv
<1>1. NoTask.state = "ended" /\ NoTask.op = "none"
  BY DEF NoTask
<1>2. StepInv(v)'
  BY <1>1 DEF StepInv, FreezePoint, ThawPoint
<1>3. TaskInv(v)'
  BY DEF TaskInv
<1>4. HostInv(v)'
  <2>1. at[v] \in ThawPoint => task[v].op # "create"
    BY DEF StepInv
  <2> QED BY <1>1, <2>1 DEF HostInv
<1>5. DoneInv(v)'
  BY DEF DoneInv
<1>6. SlotInv(v)'
  BY DEF SlotInv
<1> QED BY <1>2, <1>3, <1>4, <1>5, <1>6

\* Freeze returns with the snapshot on top recorded.
LEMMA RecordInvariant ==
  ASSUME NEW v \in Vm, EsxiTypes, CallInv(v),
         UNCHANGED <<steps, step[v], host[v]>>,
         at[v] \in FreezePoint, at'[v] = "returned", ret'[v] \in Froze,
         host[v] # <<>>, Last(host[v]) = step[v], snap'[v] = step[v],
         task'[v] = NoTask, channel'[v] = "none"
  PROVE  CallInv(v)'
<1> USE DEF CallInv
<1>1. NoTask.state = "ended" /\ NoTask.op = "none"
  BY DEF NoTask
<1>2. StepInv(v)'
  BY <1>1 DEF StepInv, FreezePoint, ThawPoint
<1>3. TaskInv(v)'
  BY <1>1 DEF TaskInv
<1>4. HostInv(v)'
  BY <1>1 DEF HostInv
<1>5. DoneInv(v)'
  BY <1>1 DEF DoneInv, Owned, Froze
<1>6. SlotInv(v)'
  BY DEF SlotInv
<1> QED BY <1>2, <1>3, <1>4, <1>5, <1>6

\* Thaw returns, with the snapshot gone or with an error.
LEMMA ThawReturnsInv ==
  ASSUME NEW v \in Vm, EsxiTypes, CallInv(v),
         UNCHANGED <<steps, step[v], host[v]>>,
         at[v] \in ThawPoint, at'[v] = "returned",
         task'[v] \in {task[v], NoTask}, task'[v].state \notin {"done", "failed"},
         channel'[v] = "none",
         \/ ret'[v] = "failed" /\ snap'[v] = snap[v]
         \/ ret'[v] = "ok" /\ snap'[v] = 0 /\ snap[v] \notin ToSet(host[v])
  PROVE  CallInv(v)'
<1> USE DEF CallInv
<1>1. NoTask.state = "ended" /\ NoTask.op = "none"
  BY DEF NoTask
<1>2. snap[v] # 0 /\ snap[v] = step[v] /\ task'[v].op # "create"
  BY <1>1 DEF StepInv
<1>3. StepInv(v)'
  BY <1>2 DEF StepInv, FreezePoint, ThawPoint
<1>4. TaskInv(v)'
  BY DEF TaskInv
<1>5. HostInv(v)'
  BY <1>2 DEF HostInv
<1>6. DoneInv(v)'
  BY <1>2 DEF DoneInv, Gone, Froze
<1>7. SlotInv(v)'
  BY DEF SlotInv
<1> QED BY <1>3, <1>4, <1>5, <1>6, <1>7

\* The steps of Freeze up to its own timeouts and errors, without the send.
LEMMA GoesOnSteps ==
  ASSUME NEW v \in Vm, EsxiTypes, CallInv(v),
         \/ CreateRefused(v) \/ CreateTimeout(v) \/ Cancel(v) \/ ReapList(v)
         \/ ReapAnswer(v) \/ RemoveRefused(v)
  PROVE  CallInv(v)' /\ at'[v] \in FreezePoint \cup ThawPoint
<1> USE DEF CreateRefused, CreateTimeout, Cancel, ReapList, ReapAnswer, RemoveRefused
<1>1. UNCHANGED <<steps, step[v], host[v], snap[v]>>
  BY DEF hostVars
<1>2. \/ at[v] \in FreezePoint /\ at'[v] \in {"canceling", "reap", "reap next"}
      \/ at[v] \in ThawPoint /\ at'[v] = "check"
  BY DEF EsxiTypes, Fails, Sends, Goto, FreezePoint, ThawPoint
<1>3. channel'[v] = "none"
  BY DEF EsxiTypes, Pool!GiveBack, CallInv, SlotInv
<1>4. NoTask.state = "ended" /\ task \in [Vm -> Task]
  BY DEF EsxiTypes, NoTask
<1>5. task'[v] \in {task[v], NoTask}
  BY <1>4 DEF GiveUp, Answer, hostVars
<1>6. task'[v].state \notin {"done", "failed"}
  <2>1. CASE CreateTimeout(v)
    BY <1>4, <2>1 DEF GiveUp, EsxiTypes, Task
  <2>2. CASE ReapAnswer(v)
    BY <1>4, <2>2 DEF GiveUp, Answer, EsxiTypes, Task
  <2>3. CASE CreateRefused(v) \/ Cancel(v) \/ ReapList(v) \/ RemoveRefused(v)
    <3>1. ~Waiting(v)
      BY <2>3 DEF Waiting, Fails, Sends
    <3>2. task[v].state \notin {"done", "failed"}
      BY <3>1 DEF CallInv, TaskInv
    <3> QED BY <1>4, <1>5, <3>2
  <2> QED BY <2>1, <2>2, <2>3
<1>7. CallInv(v)'
  BY <1>1, <1>2, <1>3, <1>5, <1>6, GoesOnInv
<1> QED BY <1>2, <1>7 DEF FreezePoint, ThawPoint

\* Waiting for a session and getting it touch only the channel.
LEMMA ChannelSteps ==
  ASSUME NEW v \in Vm, EsxiTypes, CallInv(v), SessionTaken(v) \/ SessionAnswered(v)
  PROVE  CallInv(v)' /\ at'[v] = at[v]
<1> USE DEF SessionTaken, SessionAnswered, CallInv, hostVars, callVars
<1>1. UNCHANGED <<steps, step, host, snap, task, at, todo, ret>>
  OBVIOUS
<1>2. StepInv(v)' /\ TaskInv(v)'
  BY <1>1 DEF StepInv, TaskInv, Waiting
<1>3. HostInv(v)' /\ DoneInv(v)'
  BY <1>1 DEF HostInv, DoneInv, Owned, Gone
<1>4. SlotInv(v)'
  <2>1. CASE SessionTaken(v)
    BY <1>1, <2>1 DEF WantsSession, SlotInv
  <2>2. CASE SessionAnswered(v)
    <3>1. channel[v] # "none"
      BY <2>2 DEF Pool!HostAnswers
    <3> QED BY <1>1, <3>1 DEF SlotInv
  <2> QED BY <2>1, <2>2
<1> QED BY <1>1, <1>2, <1>3, <1>4

\* A command that goes out starts a task for a VM that has none.
LEMMA SendSteps ==
  ASSUME NEW v \in Vm, EsxiTypes, CallInv(v), CreateSend(v) \/ RemoveSend(v)
  PROVE  CallInv(v)' /\ at'[v] \in FreezePoint \cup ThawPoint
<1> USE DEF CreateSend, RemoveSend, CallInv
<1>1. UNCHANGED <<steps, step, host, snap, todo, channel>>
  OBVIOUS
<1>2. \/ /\ at[v] = "step" /\ at'[v] = "creating"
         /\ task'[v] = [op |-> "create", id |-> step[v], state |-> "running"]
      \/ /\ at[v] = "remove" /\ at'[v] = "removing"
         /\ task'[v] = [op |-> "remove", id |-> snap[v], state |-> "running"]
  BY DEF EsxiTypes, Sends, Goto, Ask
<1>3. StepInv(v)'
  <2>1. CASE at[v] = "step"
    <3>1. at'[v] = "creating" /\ snap[v] = 0 /\ step[v] <= steps[v]
      BY <1>2, <2>1 DEF StepInv, FreezePoint
    <3> QED BY <1>1, <3>1 DEF StepInv, FreezePoint, ThawPoint
  <2>2. CASE at[v] = "remove"
    <3>1. at'[v] = "removing" /\ snap[v] # 0 /\ task'[v].op = "remove"
      BY <1>2, <2>2 DEF StepInv, ThawPoint
    <3> QED BY <1>1, <3>1 DEF StepInv, FreezePoint, ThawPoint
  <2> QED BY <1>2, <2>1, <2>2
<1>4. TaskInv(v)'
  BY <1>1, <1>2 DEF TaskInv
<1>5. HostInv(v)'
  <2>1. step[v] <= step[v]
    <3>1. step[v] \in Nat
      BY LocalTypes
    <3> QED BY <3>1
  <2>2. task'[v].op = "create" => at[v] = "step" /\ task'[v].id = step[v]
    BY <1>2
  <2> QED BY <1>1, <1>2, <2>1, <2>2 DEF HostInv
<1>6. DoneInv(v)'
  BY <1>1, <1>2 DEF DoneInv
<1>7. SlotInv(v)'
  BY <1>1, <1>2 DEF SlotInv
<1> QED BY <1>2, <1>3, <1>4, <1>5, <1>6, <1>7 DEF FreezePoint, ThawPoint

\* The answer to a create: the snapshot is recorded, looked for, or reaped.
LEMMA CreateAnswerInv ==
  ASSUME NEW v \in Vm, EsxiTypes, CallInv(v), CreateAnswer(v)
  PROVE  CallInv(v)' /\ at'[v] \in {"returned"} \cup FreezePoint \cup ThawPoint
<1> USE DEF CreateAnswer
<1>1. /\ UNCHANGED <<steps, step, host>>
      /\ at[v] = "creating" /\ task'[v] = NoTask /\ channel'[v] = "none"
      /\ task[v].op = "create" /\ task[v].id = step[v]
      /\ NoTask.state = "ended" /\ NoTask.op = "none"
  BY DEF EsxiTypes, Answer, Pool!GiveBack, CallInv, TaskInv, NoTask
<1>2. CASE task[v].state = "done" /\ Record(v, task[v].id)
  <2>1. host[v] # <<>> /\ Last(host[v]) = step[v]
    BY <1>1, <1>2 DEF CallInv, DoneInv
  <2>2. at'[v] = "returned" /\ ret'[v] \in Froze /\ snap'[v] = step[v]
    BY <1>1, <1>2 DEF EsxiTypes, Record, Returning, Froze
  <2> QED BY <1>1, <2>1, <2>2, RecordInvariant DEF FreezePoint
<1>3. CASE task[v].state = "done" /\ Goto(v, "finding") /\ UNCHANGED snap
  <2>1. at'[v] = "finding" /\ UNCHANGED ret
    BY <1>3 DEF EsxiTypes, Goto
  <2>2. host[v] # <<>> /\ Last(host[v]) = step[v]
    BY <1>1, <1>3 DEF CallInv, DoneInv
  <2>3. StepInv(v)' /\ TaskInv(v)'
    BY <1>1, <1>3, <2>1 DEF CallInv, StepInv, TaskInv, FreezePoint, ThawPoint
  <2>4. HostInv(v)' /\ DoneInv(v)' /\ SlotInv(v)'
    BY <1>1, <1>3, <2>1, <2>2 DEF CallInv, HostInv, DoneInv, SlotInv
  <2> QED BY <2>1, <2>3, <2>4 DEF CallInv, FreezePoint
<1>4. CASE Goto(v, "reap") /\ UNCHANGED snap
  <2>1. at'[v] = "reap"
    BY <1>4 DEF EsxiTypes, Goto
  <2> QED BY <1>1, <1>4, <2>1, GoesOnInv DEF FreezePoint
<1> QED BY <1>2, <1>3, <1>4

\* Over ssh the last snapshot on the host is the one just made.
LEMMA FindInv ==
  ASSUME NEW v \in Vm, EsxiTypes, CallInv(v), Find(v)
  PROVE  CallInv(v)' /\ at'[v] \in {"returned"} \cup FreezePoint \cup ThawPoint
<1> USE DEF Find, hostVars
<1>1. /\ UNCHANGED <<steps, step, host, task>>
      /\ at[v] = "finding" /\ task[v] = NoTask /\ channel'[v] = "none"
      /\ host[v] # <<>> /\ Last(host[v]) = step[v]
      /\ NoTask.state = "ended" /\ NoTask.op = "none"
  BY DEF EsxiTypes, Sends, Fails, Pool!GiveBack, CallInv, TaskInv, DoneInv, NoTask
<1>2. CASE Record(v, Last(host[v]))
  <2>1. at'[v] = "returned" /\ ret'[v] \in Froze /\ snap'[v] = step[v]
    BY <1>1, <1>2 DEF EsxiTypes, Record, Returning, Froze
  <2> QED BY <1>1, <2>1, RecordInvariant DEF FreezePoint
<1>3. CASE Goto(v, "reap") /\ UNCHANGED snap
  <2>1. at'[v] = "reap"
    BY <1>3 DEF EsxiTypes, Goto
  <2> QED BY <1>1, <1>3, <2>1, GoesOnInv DEF FreezePoint
<1> QED BY <1>2, <1>3

\* reap takes the next snapshot of its list, and may fail to ask for its removal.
LEMMA ReapNextInv ==
  ASSUME NEW v \in Vm, EsxiTypes, CallInv(v), ReapNext(v)
  PROVE  CallInv(v)' /\ at'[v] \in FreezePoint \cup ThawPoint
<1> USE DEF ReapNext
<1>1. UNCHANGED <<steps, step, host, snap, ret>> /\ at[v] = "reap next"
  BY DEF Fails, Sends
<1>2. CASE Pool!GiveBack(v) /\ UNCHANGED <<task, at>>
  <2>1. task[v].state \notin {"done", "failed"}
    BY <1>1 DEF CallInv, TaskInv, Waiting
  <2>2. channel'[v] = "none"
    BY <1>2 DEF EsxiTypes, Pool!GiveBack
  <2> QED BY <1>1, <1>2, <2>1, <2>2, GoesOnInv DEF FreezePoint
<1>3. ASSUME NEW id \in todo[v], Ask(v, "remove", id), UNCHANGED channel,
             at' = [at EXCEPT ![v] = "reaping"]
      PROVE  CallInv(v)' /\ at'[v] \in FreezePoint \cup ThawPoint
  <2>1. at'[v] = "reaping"
    BY <1>3 DEF EsxiTypes
  <2>2. task'[v].op = "remove" /\ task'[v].state = "running"
    <3>1. task \in [Vm -> Task]
      BY DEF EsxiTypes
    <3> QED BY <1>3, <3>1 DEF Ask
  <2>3. StepInv(v)'
    BY <1>1, <2>1, <2>2 DEF CallInv, StepInv, FreezePoint, ThawPoint
  <2>4. TaskInv(v)'
    BY <2>1, <2>2 DEF TaskInv
  <2>5. HostInv(v)'
    BY <1>1, <2>1, <2>2 DEF CallInv, HostInv
  <2>6. DoneInv(v)'
    BY <2>1, <2>2 DEF DoneInv
  <2>7. SlotInv(v)'
    BY <2>1 DEF SlotInv
  <2> QED BY <2>1, <2>3, <2>4, <2>5, <2>6, <2>7 DEF CallInv, FreezePoint
<1> QED BY <1>2, <1>3

\* The next step has an id of its own, above all that may still appear.
LEMMA StepFailedInv ==
  ASSUME NEW v \in Vm, EsxiTypes, CallInv(v), StepFailed(v)
  PROVE  CallInv(v)' /\ at'[v] \in {"returned"} \cup FreezePoint \cup ThawPoint
<1> USE DEF StepFailed, CallInv, hostVars
<1>1. UNCHANGED <<steps, host, task, snap, channel>> /\ at[v] = "reap next"
  OBVIOUS
<1>2. step'[v] = step[v] + 1 /\ step[v] <= steps[v] /\ snap[v] = 0
  BY DEF EsxiTypes, StepInv, FreezePoint
<1>3. \/ at'[v] = "step" /\ step[v] < steps[v]
      \/ at'[v] = "returned" /\ ret'[v] = "error"
  BY DEF EsxiTypes, Goto, Returning
<1>4. StepInv(v)'
  <2>1. step[v] \in Nat /\ steps[v] \in Nat
    BY LocalTypes
  <2>2. step[v] + 1 \in 1..(steps[v] + 1) /\ (step[v] < steps[v] => step[v] + 1 <= steps[v])
    BY <1>2, <2>1, BelowNext
  <2> QED BY <1>1, <1>2, <1>3, <2>2 DEF StepInv, FreezePoint, ThawPoint
<1>5. TaskInv(v)'
  BY <1>1, <1>3 DEF TaskInv, Waiting
<1>6. HostInv(v)'
  <2>1. \A id \in ToSet(host[v]) : id <= step[v] + 1 /\ id # step[v] + 1
    <3>1. \A id \in ToSet(host[v]) : id \in Nat /\ id <= step[v]
      BY LocalTypes DEF HostInv
    <3>2. step[v] \in Nat
      BY LocalTypes
    <3> QED BY <3>1, <3>2, BelowNext
  <2>2. task[v].op = "create" /\ task[v].state = "running" =>
          /\ task[v].id \notin ToSet(host[v])
          /\ task[v].id <= step[v] + 1 /\ task[v].id # step[v] + 1
    BY LocalTypes, BelowNext DEF HostInv
  <2> QED BY <1>1, <1>2, <1>3, <2>1, <2>2 DEF HostInv
<1>7. DoneInv(v)'
  BY <1>1, <1>2, <1>3 DEF DoneInv, TaskInv, Waiting, Froze
<1>8. SlotInv(v)'
  BY <1>1, <1>3 DEF SlotInv, StepFailed
<1> QED BY <1>3, <1>4, <1>5, <1>6, <1>7, <1>8 DEF FreezePoint

\* The end of Thaw: only "ok" when the snapshot is gone.
LEMMA ThawEndSteps ==
  ASSUME NEW v \in Vm, EsxiTypes, CallInv(v),
         RemoveAnswer(v) \/ RemoveTimeout(v) \/ Check(v)
  PROVE  CallInv(v)' /\ at'[v] \in {"returned"} \cup FreezePoint \cup ThawPoint
<1> USE DEF RemoveAnswer, RemoveTimeout, Check
<1>1. UNCHANGED <<steps, step, host>> /\ at[v] \in ThawPoint
  BY DEF hostVars, Fails, Sends, ThawPoint
<1>2. channel'[v] = "none"
  BY DEF EsxiTypes, Pool!GiveBack
<1>3. NoTask.state = "ended" /\ task \in [Vm -> Task]
  BY DEF EsxiTypes, NoTask
<1>4. task'[v] \in {task[v], NoTask}
  BY <1>3 DEF GiveUp, Answer, hostVars
<1>5. task'[v].state \notin {"done", "failed"}
  <2>1. CASE RemoveAnswer(v)
    BY <1>3, <2>1 DEF Answer
  <2>2. CASE RemoveTimeout(v)
    BY <1>3, <2>2 DEF GiveUp, Task
  <2>3. CASE Check(v)
    <3>1. ~Waiting(v) /\ UNCHANGED task
      BY <2>3 DEF Waiting, Fails, Sends, hostVars
    <3> QED BY <3>1 DEF CallInv, TaskInv
  <2> QED BY <2>1, <2>2, <2>3
<1>6. CASE Goto(v, "check") /\ UNCHANGED snap
  <2>1. at'[v] = "check"
    BY <1>6 DEF EsxiTypes, Goto
  <2> QED BY <1>1, <1>2, <1>4, <1>5, <1>6, <2>1, GoesOnInv DEF ThawPoint
<1>7. CASE Returning(v, "failed") /\ UNCHANGED snap
  <2>1. at'[v] = "returned" /\ ret'[v] = "failed"
    BY <1>7 DEF EsxiTypes, Returning
  <2> QED BY <1>1, <1>2, <1>4, <1>5, <1>7, <2>1, ThawReturnsInv
<1>8. CASE Removed(v) /\ snap[v] \notin ToSet(host[v])
  <2>1. at'[v] = "returned" /\ ret'[v] = "ok" /\ snap'[v] = 0
    BY <1>8 DEF EsxiTypes, Removed, Returning
  <2> QED BY <1>1, <1>2, <1>4, <1>5, <1>8, <2>1, ThawReturnsInv
<1>9. RemoveAnswer(v) /\ task[v].state = "done" => snap[v] \notin ToSet(host[v])
  BY DEF CallInv, TaskInv, DoneInv
<1> QED BY <1>6, <1>7, <1>8, <1>9

\* Every step of a call keeps its invariant and leaves it inside the call.
LEMMA CallStepInv ==
  ASSUME NEW v \in Vm, EsxiTypes, CallInv(v), EsxiCallStep(v)
  PROVE  CallInv(v)' /\ at'[v] \in {"idle", "returned"} \cup FreezePoint \cup ThawPoint
<1>1. at[v] \in {"idle", "returned"} \cup FreezePoint \cup ThawPoint
  BY DEF EsxiTypes
<1>2. CASE SessionTaken(v)
  BY <1>1, <1>2, ChannelSteps
<1>3. CASE \/ CreateRefused(v) \/ CreateTimeout(v) \/ Cancel(v) \/ ReapList(v)
           \/ ReapAnswer(v) \/ RemoveRefused(v)
  BY <1>3, GoesOnSteps
<1>4. CASE CreateSend(v) \/ RemoveSend(v)
  BY <1>4, SendSteps
<1>5. CASE CreateAnswer(v)
  BY <1>5, CreateAnswerInv
<1>6. CASE Find(v)
  BY <1>6, FindInv
<1>7. CASE ReapNext(v)
  BY <1>7, ReapNextInv
<1>8. CASE StepFailed(v)
  BY <1>8, StepFailedInv
<1>9. CASE RemoveAnswer(v) \/ RemoveTimeout(v) \/ Check(v)
  BY <1>9, ThawEndSteps
<1> QED BY <1>2, <1>3, <1>4, <1>5, <1>6, <1>7, <1>8, <1>9 DEF EsxiCallStep

\* What a task does to the host when it ends, and what is left of the task.
LEMMA HostWorksFacts ==
  ASSUME NEW v \in Vm, EsxiTypes, CallInv(v), HostWorks(v)
  PROVE  /\ UNCHANGED <<proto, steps, step, snap, at, todo, ret, channel>>
         /\ task[v].state = "running" /\ IsInjective(host'[v])
         /\ IF Waiting(v)
            THEN /\ task'[v].state \in {"done", "failed"}
                 /\ task'[v].op = task[v].op /\ task'[v].id = task[v].id
            ELSE task'[v] = NoTask
         /\ \/ host'[v] = host[v] /\ task'[v].state # "done"
            \/ /\ task[v].op = "create" /\ host'[v] # <<>>
               /\ Last(host'[v]) = task[v].id
               /\ ToSet(host'[v]) = ToSet(host[v]) \cup {task[v].id}
            \/ /\ task[v].op = "remove"
               /\ ToSet(host'[v]) = ToSet(host[v]) \ {task[v].id}
<1> USE DEF HostWorks
<1>1. UNCHANGED <<proto, steps, step, snap, at, todo, ret, channel>>
      /\ task[v].state = "running"
  BY DEF callVars
<1>2. /\ host[v] \in Seq(SnapId) /\ IsInjective(host[v])
      /\ task[v] \in [op : {"create", "remove"}, id : SnapId,
                      state : {"running", "done", "failed"}]
      /\ task \in [Vm -> Task]
  <2>1. host[v] \in Seq(SnapId) /\ IsInjective(host[v])
    BY DEF EsxiTypes, CallInv, HostInv
  <2>2. task \in [Vm -> Task] /\ task[v] \in Task /\ task[v] # NoTask
    BY <1>1 DEF EsxiTypes, NoTask
  <2> QED BY <2>1, <2>2 DEF Task
<1>3. task[v].id \in SnapId /\ task[v].op \in {"create", "remove"}
  BY <1>2
<1>4. task[v].op = "create" => task[v].id \notin ToSet(host[v])
  BY <1>1 DEF CallInv, HostInv
<1>5. ASSUME NEW st \in {"done", "failed"}, TaskEnds(v, st)
      PROVE  IF Waiting(v)
             THEN /\ task'[v].state = st
                  /\ task'[v].op = task[v].op /\ task'[v].id = task[v].id
             ELSE task'[v] = NoTask
  <2>1. task'[v] = IF Waiting(v) THEN [task[v] EXCEPT !.state = st] ELSE NoTask
    BY <1>2, <1>5 DEF TaskEnds
  <2>2. CASE Waiting(v)
    BY <1>2, <2>1, <2>2
  <2>3. CASE ~Waiting(v)
    BY <2>1, <2>3
  <2> QED BY <2>2, <2>3
<1>6. CASE TaskEnds(v, "failed") /\ UNCHANGED host
  <2>1. task'[v].state # "done"
    BY <1>5, <1>6 DEF NoTask
  <2> QED BY <1>1, <1>2, <1>5, <1>6, <2>1
<1>7. CASE /\ TaskEnds(v, "done")
           /\ host' = [host EXCEPT ![v] =
                         IF task[v].op = "create" THEN Append(@, task[v].id)
                         ELSE Without(@, task[v].id)]
  <2>1. host \in [Vm -> Seq(SnapId)]
    BY DEF EsxiTypes
  <2>2. CASE task[v].op = "create"
    <3>1. host'[v] = Append(host[v], task[v].id)
      BY <1>7, <2>1, <2>2
    <3>2. /\ host'[v] # <<>> /\ Last(host'[v]) = task[v].id
          /\ ToSet(host'[v]) = ToSet(host[v]) \cup {task[v].id}
          /\ IsInjective(host'[v])
      BY <1>2, <1>3, <1>4, <2>2, <3>1, AppendFacts
    <3> QED BY <1>1, <1>5, <1>7, <2>2, <3>2
  <2>3. CASE task[v].op = "remove"
    <3>1. host'[v] = Without(host[v], task[v].id)
      BY <1>7, <2>1, <2>3
    <3>2. /\ ToSet(host'[v]) = ToSet(host[v]) \ {task[v].id}
          /\ IsInjective(host'[v])
      BY <1>2, <3>1, WithoutFacts
    <3> QED BY <1>1, <1>5, <1>7, <2>3, <3>2
  <2> QED BY <1>3, <2>2, <2>3
<1> QED BY <1>6, <1>7

\* The host ends a task: the call waits for it, has given it up, or is elsewhere.
LEMMA HostWorksInv ==
  ASSUME NEW v \in Vm, EsxiTypes, CallInv(v), HostWorks(v)
  PROVE  CallInv(v)'
<1> USE HostWorksFacts DEF CallInv
<1>1. NoTask.state = "ended" /\ NoTask.op = "none"
  BY DEF NoTask
<1>2. StepInv(v)'
  BY <1>1 DEF StepInv
<1>3. TaskInv(v)'
  BY <1>1 DEF TaskInv, Waiting
<1>4. task'[v].state # "running" /\ (task'[v].state = "done" => Waiting(v))
  BY <1>1
<1>5. HostInv(v)'
  <2>1. \A id \in ToSet(host'[v]) : id <= step[v]
    BY DEF HostInv
  <2>2. at[v] = "step" => step[v] \notin ToSet(host'[v])
    BY DEF HostInv
  <2>3. IsInjective(host'[v]) /\ UNCHANGED <<step, at>>
    OBVIOUS
  <2> QED BY <1>4, <2>1, <2>2, <2>3 DEF HostInv
<1>6. DoneInv(v)'
  <2>1. task[v] # NoTask
    BY <1>1
  <2>2. ASSUME task'[v].state = "done", task'[v].op = "create"
        PROVE  host'[v] # <<>> /\ Last(host'[v]) = step[v]
    <3>1. Waiting(v) /\ task[v].op = "create"
      BY <1>1, <2>2
    <3>2. at[v] = "creating" /\ task[v].id = step[v]
      BY <3>1 DEF Waiting, TaskInv
    <3> QED BY <2>2, <3>1, <3>2
  <2>3. ASSUME task'[v].state = "done", task'[v].op = "remove"
        PROVE  task'[v].id \notin ToSet(host'[v])
    BY <1>1, <2>3
  <2>4. at[v] # "finding"
    BY <2>1 DEF TaskInv
  <2>5. at[v] = "returned" => ret[v] \notin Froze
    BY <2>1 DEF DoneInv, Owned
  <2>6. ASSUME at[v] = "returned", ret[v] = "ok" PROVE Gone(v)'
    <3>1. Gone(v)
      BY <2>6 DEF DoneInv
    <3> QED BY <1>1, <3>1 DEF Gone
  <2>7. UNCHANGED <<at, ret, step, snap>>
    OBVIOUS
  <2> QED BY <2>2, <2>3, <2>4, <2>5, <2>6, <2>7 DEF DoneInv
<1>7. SlotInv(v)'
  BY DEF SlotInv
<1> QED BY <1>2, <1>3, <1>5, <1>6, <1>7

\* Freeze begins for a VM that has seen nothing yet.
LEMMA FreezeBeginInv ==
  ASSUME NEW v \in Vm, EsxiTypes, CallInv(v), Fresh(v), EsxiFreezeBegin(v)
  PROVE  /\ CallInv(v)'
         /\ \/ at'[v] = "step"
            \/ at'[v] = "returned" /\ ret'[v] \in {"zfs-only", "error"}
<1> USE DEF EsxiFreezeBegin, hostVars, Fresh
<1>1. UNCHANGED <<steps, host, task, step, snap, channel>>
  OBVIOUS
<1>2. \/ at'[v] = "step" /\ steps[v] # 0
      \/ at'[v] = "returned" /\ ret'[v] \in {"zfs-only", "error"}
  BY DEF EsxiTypes, Goto, Returning
<1>3. NoTask.state = "ended" /\ NoTask.op = "none"
  BY DEF NoTask
<1>4. StepInv(v)'
  <2>1. steps[v] # 0 => 1 <= steps[v]
    BY LocalTypes
  <2> QED BY <1>1, <1>2, <2>1 DEF CallInv, StepInv, FreezePoint, ThawPoint
<1>5. TaskInv(v)'
  BY <1>1, <1>2, <1>3 DEF TaskInv
<1>6. HostInv(v)'
  <2>1. ToSet(host[v]) = {}
    BY DEF ToSet
  <2> QED BY <1>1, <1>3, <2>1 DEF CallInv, HostInv
<1>7. DoneInv(v)'
  BY <1>1, <1>2, <1>3 DEF DoneInv, Froze
<1>8. SlotInv(v)'
  BY <1>1 DEF CallInv, SlotInv
<1> QED BY <1>2, <1>4, <1>5, <1>6, <1>7, <1>8 DEF CallInv

\* Thaw begins for a VM that has a snapshot recorded.
LEMMA ThawBeginInv ==
  ASSUME NEW v \in Vm, EsxiTypes, CallInv(v), snap[v] # 0, EsxiThawBegin(v)
  PROVE  CallInv(v)' /\ at'[v] = "remove"
<1> USE DEF EsxiThawBegin, hostVars
<1>1. UNCHANGED <<steps, host, task, step, snap, channel>> /\ at[v] = "idle"
  OBVIOUS
<1>2. at'[v] = "remove"
  BY DEF EsxiTypes, Goto
<1>3. StepInv(v)'
  BY <1>1, <1>2 DEF CallInv, StepInv, FreezePoint
<1>4. TaskInv(v)'
  BY <1>1, <1>2 DEF CallInv, TaskInv, Waiting
<1>5. HostInv(v)'
  BY <1>1, <1>2 DEF CallInv, HostInv
<1>6. DoneInv(v)'
  BY <1>1, <1>2 DEF CallInv, DoneInv
<1>7. SlotInv(v)'
  BY <1>1 DEF CallInv, SlotInv
<1> QED BY <1>2, <1>3, <1>4, <1>5, <1>6, <1>7 DEF CallInv

\* The session takes the result.
LEMMA ReturnedInv ==
  ASSUME NEW v \in Vm, EsxiTypes, CallInv(v), Returned(v)
  PROVE  CallInv(v)' /\ at'[v] = "idle"
<1> USE DEF Returned, hostVars
<1>1. UNCHANGED <<steps, host, task, step, snap, channel>> /\ at[v] = "returned"
  OBVIOUS
<1>2. at'[v] = "idle"
  BY DEF EsxiTypes
<1>3. StepInv(v)'
  BY <1>1, <1>2 DEF CallInv, StepInv, FreezePoint, ThawPoint
<1>4. TaskInv(v)'
  BY <1>1, <1>2 DEF CallInv, TaskInv, Waiting
<1>5. HostInv(v)'
  BY <1>1, <1>2 DEF CallInv, HostInv
<1>6. DoneInv(v)'
  BY <1>1, <1>2 DEF CallInv, DoneInv
<1>7. SlotInv(v)'
  BY <1>1 DEF CallInv, SlotInv
<1> QED BY <1>2, <1>3, <1>4, <1>5, <1>6, <1>7 DEF CallInv

-----------------------------------------------------------------------------
(* The call and the session. *)

\* What the session knows of a guest and what the Freezer knows of it stay.
LEMMA SameGuestInv ==
  ASSUME NEW v \in Vm, LinkInv(v), RecordInv(v), SameCall(v),
         UNCHANGED <<freezeAt[v], outcome[v], result[v], thawAt[v]>>,
         v \in frozen' <=> v \in frozen
  PROVE  LinkInv(v)' /\ RecordInv(v)'
<1> USE DEF SameCall
<1>1. LinkInv(v)'
  BY DEF LinkInv
<1>2. RecordInv(v)'
  BY DEF RecordInv, Owned, Gone, Fresh
<1> QED BY <1>1, <1>2

\* While a call runs, nothing the session has recorded speaks of the snapshot.
LEMMA BusyRecordInv ==
  ASSUME NEW v \in Vm, SessInv, LinkInv(v), RecordInv(v), at[v] # "idle",
         UNCHANGED sessVars
  PROVE  RecordInv(v)'
<1>1. v \in Guest /\ FreezeInv(v) /\ ThawInv(v)
  BY GuestsAreVms DEF SessInv
<1>2. freezeAt[v] = "calling" \/ thawAt[v] = "calling"
  BY DEF LinkInv
<1>3. thawAt[v] = "calling" => v \in frozen /\ result[v].frozen
  BY <1>1 DEF ThawInv
<1>4. result[v].frozen => Answered(v) /\ freezeAt[v] \notin {"start", "calling", "record"}
  BY <1>1 DEF FreezeInv, Answered, Froze
<1>5. phase = "thawing" /\ v \in frozen /\ thawAt[v] \in {"idle", "wait"} =>
        thawAt[v] = "wait"
  BY <1>1 DEF ThawInv
<1>6. thawAt[v] = "calling" => phase = "thawing"
  BY <1>1 DEF ThawInv
<1>7. freezeAt[v] = "calling" => phase = "freezing" /\ ~result[v].frozen /\ v \notin frozen
  BY <1>1, <1>4 DEF FreezeInv, ThawInv
<1>8. ~result[v].thawed
  BY <1>2, <1>3, <1>7 DEF RecordInv
<1>9. freezeAt[v] \notin {"idle", "start"}
  BY DEF RecordInv, Fresh
<1> QED BY <1>2, <1>3, <1>4, <1>7, <1>8, <1>9 DEF RecordInv, sessVars

\* A call ends with one of the results of the call that was made.
LEMMA CallStaysInCall ==
  ASSUME NEW v \in Vm, EsxiTypes, EsxiCallStep(v)
  PROVE  \/ /\ at[v] \in FreezePoint
            /\ \/ at'[v] \in FreezePoint
               \/ at'[v] = "returned" /\ ret'[v] \in {"held", "degraded", "error"}
         \/ /\ at[v] \in ThawPoint
            /\ \/ at'[v] \in ThawPoint
               \/ at'[v] = "returned" /\ ret'[v] \in {"ok", "failed"}
<1>1. CASE SessionTaken(v) \/ CreateRefused(v) \/ CreateSend(v) \/ CreateTimeout(v)
  BY <1>1 DEF EsxiTypes, FreezePoint, ThawPoint, SessionTaken, WantsSession, callVars,
     CreateRefused, CreateSend, CreateTimeout, Fails, Sends, Goto
<1>2. CASE CreateAnswer(v) \/ Find(v)
  BY <1>2 DEF EsxiTypes, FreezePoint, CreateAnswer, Find, Fails, Sends, Goto, Record,
     Returning
<1>3. CASE Cancel(v) \/ ReapList(v) \/ ReapNext(v) \/ ReapAnswer(v) \/ StepFailed(v)
  BY <1>3 DEF EsxiTypes, FreezePoint, Cancel, ReapList, ReapNext, ReapAnswer,
     StepFailed, Fails, Sends, Goto, Returning
<1>4. CASE RemoveRefused(v) \/ RemoveSend(v) \/ RemoveAnswer(v) \/ RemoveTimeout(v)
  BY <1>4 DEF EsxiTypes, ThawPoint, RemoveRefused, RemoveSend, RemoveAnswer,
     RemoveTimeout, Fails, Sends, Goto, Returning, Removed
<1>5. CASE Check(v)
  BY <1>5 DEF EsxiTypes, ThawPoint, Check, Fails, Sends, Returning, Removed
<1> QED BY <1>1, <1>2, <1>3, <1>4, <1>5 DEF EsxiCallStep

GuestInv(v) == CallInv(v) /\ LinkInv(v) /\ RecordInv(v)

\* A step of a call leaves the session where it is.
LEMMA CallGuestInv ==
  ASSUME NEW v \in Vm, SessInv, EsxiTypes, GuestInv(v), Call(v)
  PROVE  GuestInv(v)' /\ EsxiTypes'
<1> USE DEF GuestInv, Call
<1>1. EsxiCallStep(v) /\ UNCHANGED sessVars
  OBVIOUS
<1>2. CallInv(v)' /\ at'[v] \in {"idle", "returned"} \cup FreezePoint \cup ThawPoint
  BY <1>1, CallStepInv
<1>3. EsxiTypes'
  BY <1>1, <1>2, FreezerStepTypes DEF FreezerStep
<1>4. at[v] \in FreezePoint \cup ThawPoint
  BY <1>1, CallStaysInCall
<1>5. RecordInv(v)'
  BY <1>1, <1>4, BusyRecordInv DEF FreezePoint, ThawPoint
<1>6. LinkInv(v)'
  <2>1. UNCHANGED <<freezeAt, thawAt>>
    BY <1>1 DEF sessVars
  <2>2. ~(freezeAt[v] = "calling" /\ thawAt[v] = "calling")
    BY GuestsAreVms DEF SessInv, FreezeInv, ThawInv
  <2>3. CASE at[v] \in FreezePoint
    <3>1. freezeAt[v] = "calling"
      BY <2>3 DEF LinkInv
    <3>2. \/ at'[v] \in FreezePoint
          \/ at'[v] = "returned" /\ ret'[v] \in {"held", "degraded", "error"}
      BY <1>1, <2>3, CallStaysInCall DEF FreezePoint, ThawPoint
    <3> QED BY <2>1, <2>2, <3>1, <3>2 DEF LinkInv, FreezePoint, ThawPoint
  <2>4. CASE at[v] \in ThawPoint
    <3>1. thawAt[v] = "calling"
      BY <2>4 DEF LinkInv
    <3>2. \/ at'[v] \in ThawPoint
          \/ at'[v] = "returned" /\ ret'[v] \in {"ok", "failed"}
      BY <1>1, <2>4, CallStaysInCall DEF FreezePoint, ThawPoint
    <3> QED BY <2>1, <2>2, <3>1, <3>2 DEF LinkInv, FreezePoint, ThawPoint
  <2> QED BY <1>4, <2>3, <2>4
<1> QED BY <1>2, <1>3, <1>5, <1>6

\* So does the host, also with a task its call has given up.
LEMMA HostGuestInv ==
  ASSUME NEW v \in Vm, SessInv, EsxiTypes, GuestInv(v), Host(v)
  PROVE  GuestInv(v)' /\ EsxiTypes'
<1> USE DEF GuestInv, Host
<1>1. HostWorks(v) /\ UNCHANGED sessVars /\ UNCHANGED <<at, ret, step, snap>>
  BY HostWorksFacts
<1>2. CallInv(v)'
  BY <1>1, HostWorksInv
<1>3. EsxiTypes'
  BY <1>1, FreezerStepTypes DEF FreezerStep, EsxiTypes
<1>4. LinkInv(v)'
  BY <1>1 DEF LinkInv, sessVars
<1>5. RecordInv(v)'
  <2>1. CASE at[v] # "idle"
    BY <1>1, <2>1, BusyRecordInv
  <2>2. CASE at[v] = "idle"
    <3>1. task[v] # NoTask /\ NoTask.op = "none"
      BY <1>1, HostWorksFacts DEF NoTask
    <3>2. Gone(v) => Gone(v)'
      BY <1>1, <3>1, HostWorksFacts DEF Gone
    <3>3. ~Owned(v) /\ ~Fresh(v)
      BY <3>1 DEF Owned, Fresh
    <3> QED BY <1>1, <3>2, <3>3 DEF RecordInv, sessVars
  <2> QED BY <2>1, <2>2
<1> QED BY <1>2, <1>3, <1>4, <1>5

\* The host's answer to the request for a session touches neither.
LEMMA OpensGuestInv ==
  ASSUME NEW v \in Vm, SessInv, EsxiTypes, GuestInv(v), Opens(v)
  PROVE  GuestInv(v)' /\ EsxiTypes'
<1> USE DEF GuestInv, Opens
<1>1. SessionAnswered(v) /\ UNCHANGED <<host, task, at, ret, step, snap>>
  BY DEF SessionAnswered, hostVars, callVars
<1>2. CallInv(v)' /\ at'[v] = at[v]
  BY <1>1, ChannelSteps
<1>3. EsxiTypes'
  BY <1>1, <1>2, FreezerStepTypes DEF FreezerStep, EsxiTypes
<1>4. LinkInv(v)'
  BY <1>1 DEF LinkInv, sessVars
<1>5. RecordInv(v)'
  BY <1>1 DEF RecordInv, Owned, Gone, Fresh, sessVars
<1> QED BY <1>2, <1>3, <1>4, <1>5

\* Freeze is called for a guest nothing has been done to.
LEMMA FreezeCallGuestInv ==
  ASSUME NEW v \in Vm, SessInv, EsxiTypes, GuestInv(v),
         FreezeCall(v), EsxiFreezeBegin(v)
  PROVE  GuestInv(v)' /\ EsxiTypes'
<1> USE DEF GuestInv, FreezeCall
<1>1. v \in Guest /\ FreezeInv(v) /\ ThawInv(v)
  BY GuestsAreVms DEF SessInv
<1>2. /\ freezeAt[v] = "start" /\ freezeAt'[v] = "calling"
      /\ UNCHANGED <<thawAt, outcome, result, frozen>>
  BY <1>1 DEF SessInv, SessTypeOK
<1>3. Fresh(v)
  BY <1>2 DEF RecordInv
<1>4. /\ CallInv(v)'
      /\ \/ at'[v] = "step"
         \/ at'[v] = "returned" /\ ret'[v] \in {"zfs-only", "error"}
  BY <1>3, FreezeBeginInv
<1>5. EsxiTypes'
  BY <1>4, FreezerStepTypes DEF FreezerStep, FreezePoint
<1>6. ~result[v].frozen /\ v \notin frozen /\ thawAt[v] # "calling"
  BY <1>1, <1>2 DEF FreezeInv, ThawInv, Answered, Froze
<1>7. LinkInv(v)'
  BY <1>2, <1>4, <1>6 DEF LinkInv, FreezePoint, ThawPoint
<1>8. RecordInv(v)'
  BY <1>2, <1>6 DEF RecordInv
<1> QED BY <1>4, <1>5, <1>7, <1>8

\* Freeze's result is one of the outcomes, and snap[v] goes with it.
LEMMA FreezeReturnGuestInv ==
  ASSUME NEW v \in Vm, SessInv, EsxiTypes, GuestInv(v),
         FreezeReturn(v, ret[v]), Returned(v)
  PROVE  GuestInv(v)' /\ EsxiTypes' /\ ret[v] \in Returns
<1> USE DEF GuestInv, FreezeReturn
<1>1. v \in Guest /\ FreezeInv(v) /\ ThawInv(v)
  BY GuestsAreVms DEF SessInv
<1>2. /\ freezeAt[v] = "calling" /\ freezeAt'[v] = "record" /\ outcome'[v] = ret[v]
      /\ UNCHANGED <<thawAt, result, frozen>>
  BY <1>1 DEF SessInv, SessTypeOK
<1>3. at[v] = "returned" /\ UNCHANGED <<host, task, step, snap>>
  BY DEF Returned, hostVars
<1>4. ret[v] \in {"held", "degraded", "zfs-only", "error"}
  BY <1>2, <1>3 DEF LinkInv
<1>5. CallInv(v)' /\ at'[v] = "idle"
  BY ReturnedInv
<1>6. EsxiTypes'
  BY <1>5, FreezerStepTypes DEF FreezerStep
<1>7. ~result[v].frozen /\ v \notin frozen /\ thawAt[v] # "calling"
  BY <1>1, <1>2 DEF FreezeInv, ThawInv, Answered, Froze
<1>8. LinkInv(v)'
  BY <1>2, <1>5, <1>7 DEF LinkInv, FreezePoint, ThawPoint
<1>9. IF ret[v] \in Froze THEN Owned(v)' ELSE snap'[v] = 0
  <2>1. CASE ret[v] \in Froze
    <3>1. Owned(v)
      BY <1>3, <2>1 DEF CallInv, DoneInv
    <3> QED BY <1>3, <2>1, <3>1 DEF Owned
  <2>2. CASE ret[v] \notin Froze
    BY <1>3, <1>4, <2>2 DEF CallInv, DoneInv, Froze
  <2> QED BY <2>1, <2>2
<1>10. RecordInv(v)'
  BY <1>2, <1>7, <1>9 DEF RecordInv
<1> QED BY <1>4, <1>5, <1>6, <1>8, <1>10 DEF Returns, Froze

\* The goroutine appends the result; the guest is on the list if it froze.
LEMMA FreezeRecordGuestInv ==
  ASSUME NEW v \in Vm, SessInv, EsxiTypes, GuestInv(v),
         FreezeRecord(v), UNCHANGED esxiVars
  PROVE  GuestInv(v)' /\ EsxiTypes'
<1> USE DEF GuestInv, FreezeRecord
<1>1. v \in Guest /\ FreezeInv(v) /\ ThawInv(v) /\ outcome[v] \in Returns
  BY GuestsAreVms DEF SessInv, FreezeInv
<1>2. /\ freezeAt[v] = "record" /\ freezeAt'[v] = "done"
      /\ result'[v] = ResultOf(outcome[v]) /\ UNCHANGED <<thawAt, outcome>>
      /\ frozen' = IF outcome[v] \in Froze THEN frozen \cup {v} ELSE frozen
  BY <1>1 DEF SessInv, SessTypeOK
<1>3. ~result'[v].thawed /\ (result'[v].frozen <=> outcome[v] \in Froze)
  BY <1>1, <1>2, ResultOfFacts
<1>4. v \notin frozen
  BY <1>1, <1>2 DEF FreezeInv, ThawInv, Answered, Froze
<1>5. UNCHANGED <<host, task, at, ret, step, snap>> /\ SameCall(v)
  BY DEF esxiVars, hostVars, callVars, SameCall
<1>6. CallInv(v)'
  BY <1>5, SameCallInv
<1>7. LinkInv(v)'
  BY <1>2, <1>5 DEF LinkInv
<1>8. IF outcome[v] \in Froze THEN Owned(v)' ELSE snap'[v] = 0
  BY <1>2, <1>5 DEF RecordInv, Owned
<1>9. RecordInv(v)'
  BY <1>2, <1>3, <1>4, <1>8 DEF RecordInv
<1>10. EsxiTypes'
  BY DEF EsxiTypes, esxiVars, hostVars, callVars
<1> QED BY <1>6, <1>7, <1>9, <1>10

\* Thaw is called for a guest whose snapshot is on the host.
LEMMA ThawCallGuestInv ==
  ASSUME NEW v \in Vm, SessInv, EsxiTypes, GuestInv(v),
         ThawCall(v), EsxiThawBegin(v)
  PROVE  GuestInv(v)' /\ EsxiTypes'
<1> USE DEF GuestInv, ThawCall
<1>1. v \in Guest /\ FreezeInv(v) /\ ThawInv(v)
  BY GuestsAreVms DEF SessInv
<1>2. /\ thawAt[v] = "wait" /\ thawAt'[v] = "calling"
      /\ UNCHANGED <<freezeAt, outcome, result, frozen>>
  BY <1>1 DEF SessInv, SessTypeOK
<1>3. v \in frozen /\ result[v].frozen /\ ~result[v].thawed
  BY <1>1, <1>2 DEF ThawInv, RecordInv
<1>4. freezeAt[v] \notin {"start", "calling", "record"}
  BY <1>1, <1>3 DEF FreezeInv, Answered, Froze
<1>5. Owned(v) /\ freezeAt[v] # "idle"
  BY <1>2, <1>3 DEF RecordInv, Owned, Fresh
<1>6. snap[v] # 0
  BY <1>5, LocalTypes DEF Owned, CallInv, StepInv
<1>7. CallInv(v)' /\ at'[v] = "remove"
  BY <1>6, ThawBeginInv
<1>8. EsxiTypes'
  BY <1>7, FreezerStepTypes DEF FreezerStep, ThawPoint
<1>9. LinkInv(v)'
  BY <1>2, <1>4, <1>7 DEF LinkInv, FreezePoint, ThawPoint
<1>10. RecordInv(v)'
  BY <1>2, <1>3, <1>4, <1>5 DEF RecordInv
<1> QED BY <1>7, <1>8, <1>9, <1>10

\* Of a result Thaw writes either thawed or the warning.
LEMMA ThawReturnWrites ==
  ASSUME NEW g \in Guest, NEW ok \in BOOLEAN, SessTypeOK, ThawReturn(g, ok)
  PROVE  /\ result'[g].frozen = result[g].frozen
         /\ ~ok => result'[g].thawed = result[g].thawed
BY DEF ThawReturn, SessTypeOK, Result

\* Thaw returns: "ok" is written down only for a snapshot that is gone.
LEMMA ThawReturnGuestInv ==
  ASSUME NEW v \in Vm, SessInv, EsxiTypes, GuestInv(v),
         ThawReturn(v, ret[v] = "ok"), Returned(v)
  PROVE  GuestInv(v)' /\ EsxiTypes'
<1> USE DEF GuestInv, ThawReturn
<1>1. v \in Guest /\ FreezeInv(v) /\ ThawInv(v) /\ result[v] \in Result
  BY GuestsAreVms DEF SessInv, SessTypeOK
<1>2. /\ thawAt[v] = "calling" /\ thawAt'[v] = "done"
      /\ UNCHANGED <<freezeAt, outcome, frozen>>
  BY <1>1 DEF SessInv, SessTypeOK
<1>3. /\ result'[v].frozen = result[v].frozen
      /\ ret[v] # "ok" => result'[v].thawed = result[v].thawed
  BY GuestsAreVms, ThawReturnWrites DEF SessInv
<1>4. v \in frozen /\ result[v].frozen /\ freezeAt[v] \notin {"start", "calling", "record"}
  BY <1>1, <1>2 DEF FreezeInv, ThawInv, Answered, Froze
<1>5. ~result[v].thawed
  BY <1>2, <1>4 DEF RecordInv
<1>6. at[v] = "returned" /\ UNCHANGED <<host, task, step, snap>>
  BY DEF Returned, hostVars
<1>7. CallInv(v)' /\ at'[v] = "idle"
  BY ReturnedInv
<1>8. EsxiTypes'
  BY <1>7, FreezerStepTypes DEF FreezerStep
<1>9. LinkInv(v)'
  BY <1>2, <1>4, <1>7 DEF LinkInv, FreezePoint, ThawPoint
<1>10. ret[v] = "ok" => Gone(v)'
  BY <1>6 DEF CallInv, DoneInv, Gone
<1>11. freezeAt[v] # "idle"
  BY <1>6 DEF RecordInv, Fresh
<1>12. RecordInv(v)'
  BY <1>2, <1>3, <1>4, <1>5, <1>10, <1>11 DEF RecordInv
<1> QED BY <1>7, <1>8, <1>9, <1>12

GuestStep(v) == Session(v) \/ Call(v) \/ Host(v) \/ Opens(v)

\* A step for one guest: the Freezer's part is a step of its call, the session's
\* part one of its goroutine.
LEMMA GuestStepParts ==
  ASSUME NEW w \in Vm, SessInv, EsxiTypes, GuestInv(w), GuestStep(w)
  PROVE  /\ GuestInv(w)' /\ EsxiTypes'
         /\ FreezerStep(w) \/ UNCHANGED esxiVars
         /\ UNCHANGED sessVars \/ FreezeStep(w) \/ ThawStep(w)
<1>1. ASSUME FreezeCall(w), EsxiFreezeBegin(w)
      PROVE  GuestInv(w)' /\ EsxiTypes' /\ FreezerStep(w) /\ FreezeStep(w)
  BY <1>1, FreezeCallGuestInv DEF FreezerStep, FreezeStep
<1>2. ASSUME FreezeReturn(w, ret[w]), Returned(w)
      PROVE  GuestInv(w)' /\ EsxiTypes' /\ FreezerStep(w) /\ FreezeStep(w)
  BY <1>2, FreezeReturnGuestInv DEF FreezerStep, FreezeStep
<1>3. ASSUME FreezeRecord(w), UNCHANGED esxiVars
      PROVE  GuestInv(w)' /\ EsxiTypes' /\ FreezeStep(w)
  BY <1>3, FreezeRecordGuestInv DEF FreezeStep
<1>4. ASSUME ThawCall(w), EsxiThawBegin(w)
      PROVE  GuestInv(w)' /\ EsxiTypes' /\ FreezerStep(w) /\ ThawStep(w)
  BY <1>4, ThawCallGuestInv DEF FreezerStep, ThawStep
<1>5. ASSUME ThawReturn(w, ret[w] = "ok"), Returned(w)
      PROVE  GuestInv(w)' /\ EsxiTypes' /\ FreezerStep(w) /\ ThawStep(w)
  BY <1>5, ThawReturnGuestInv DEF FreezerStep, ThawStep
<1>6. CASE Session(w)
  BY <1>1, <1>2, <1>3, <1>4, <1>5, <1>6 DEF Session
<1>7. CASE Call(w)
  BY <1>7, CallGuestInv DEF Call, FreezerStep
<1>8. CASE Host(w)
  BY <1>8, HostGuestInv DEF Host, FreezerStep
<1>9. CASE Opens(w)
  BY <1>9, OpensGuestInv DEF Opens, FreezerStep
<1> QED BY <1>6, <1>7, <1>8, <1>9 DEF GuestStep

\* A goroutine writes nothing of another guest.
LEMMA OtherGuestsSame ==
  ASSUME NEW w \in Guest, NEW v \in Guest, v # w, SessTypeOK,
         UNCHANGED sessVars \/ FreezeStep(w) \/ ThawStep(w)
  PROVE  /\ UNCHANGED <<freezeAt[v], outcome[v], result[v], thawAt[v]>>
         /\ v \in frozen' <=> v \in frozen
<1> USE DEF sessVars, FreezeStep, ThawStep, FreezeUnsupported, FreezeCall,
     FreezeReturn, FreezeRecord, ThawCall, ThawReturn, SessTypeOK
<1>1. freezeAt'[v] = freezeAt[v] /\ thawAt'[v] = thawAt[v]
  OBVIOUS
<1>2. outcome'[v] = outcome[v] /\ result'[v] = result[v]
  OBVIOUS
<1>3. v \in frozen' <=> v \in frozen
  OBVIOUS
<1> QED BY <1>1, <1>2, <1>3

\* A step for one guest keeps the invariant of every guest.
LEMMA GuestStepInv ==
  ASSUME NEW w \in Vm, SessInv, EsxiTypes, \A v \in Vm : GuestInv(v), GuestStep(w)
  PROVE  EsxiTypes' /\ \A v \in Vm : GuestInv(v)'
<1>1. /\ GuestInv(w)' /\ EsxiTypes'
      /\ FreezerStep(w) \/ UNCHANGED esxiVars
      /\ UNCHANGED sessVars \/ FreezeStep(w) \/ ThawStep(w)
  BY GuestStepParts
<1>2. ASSUME NEW v \in Vm, v # w PROVE GuestInv(v)'
  <2>1. SameCall(v)
    <3>1. CASE FreezerStep(w)
      BY <1>2, <3>1, OthersSame
    <3>2. CASE UNCHANGED esxiVars
      BY <3>2 DEF esxiVars, hostVars, callVars, SameCall
    <3> QED BY <1>1, <3>1, <3>2
  <2>2. /\ UNCHANGED <<freezeAt[v], outcome[v], result[v], thawAt[v]>>
        /\ v \in frozen' <=> v \in frozen
    BY <1>1, <1>2, OtherGuestsSame, GuestsAreVms DEF SessInv
  <2>3. CallInv(v) /\ LinkInv(v) /\ RecordInv(v)
    BY DEF GuestInv
  <2>4. CallInv(v)'
    BY <2>1, <2>3, SameCallInv
  <2>5. LinkInv(v)' /\ RecordInv(v)'
    BY <2>1, <2>2, <2>3, SameGuestInv
  <2> QED BY <2>4, <2>5 DEF GuestInv
<1> QED BY <1>1, <1>2

\* A step of runSnapESXi itself does too: it starts the goroutines, or finds them
\* done.
LEMMA MainGuestInv ==
  ASSUME SessInv, EsxiTypes, \A v \in Vm : GuestInv(v), UNCHANGED esxiVars,
         \/ UNCHANGED sessVars \/ FreezeAll \/ FreezeAllReturn
         \/ Thaw \/ ThawAllReturn
  PROVE  EsxiTypes' /\ \A v \in Vm : GuestInv(v)'
<1>1. EsxiTypes'
  BY DEF EsxiTypes, esxiVars, hostVars, callVars
<1>2. ASSUME NEW v \in Vm PROVE GuestInv(v)'
  <2>1. /\ SameCall(v)
        /\ UNCHANGED <<host[v], task[v], at[v], ret[v], step[v], snap[v]>>
    BY DEF esxiVars, hostVars, callVars, SameCall
  <2>2. CallInv(v) /\ LinkInv(v) /\ RecordInv(v)
    BY DEF GuestInv
  <2>3. CallInv(v)'
    BY <2>1, <2>2, SameCallInv
  <2>4. v \in Guest /\ FreezeInv(v) /\ ThawInv(v)
    BY GuestsAreVms DEF SessInv
  <2>5. CASE UNCHANGED sessVars \/ FreezeAllReturn
    <3>1. UNCHANGED <<freezeAt, outcome, result, thawAt, frozen>>
      BY <2>5 DEF sessVars, FreezeAllReturn
    <3> QED BY <2>1, <2>2, <2>3, <3>1, SameGuestInv DEF GuestInv
  <2>6. CASE FreezeAll
    <3>1. /\ freezeAt[v] = "idle" /\ freezeAt'[v] = "start"
          /\ UNCHANGED <<outcome, result, thawAt, frozen>>
      BY <2>4, <2>6 DEF FreezeAll, FreezeInv
    <3>2. LinkInv(v)'
      BY <2>1, <2>2, <3>1 DEF LinkInv
    <3>3. Fresh(v)'
      BY <2>1, <2>2, <3>1 DEF RecordInv, Fresh
    <3>4. v \notin frozen /\ ~result[v].thawed
      BY <2>2, <2>4, <2>6 DEF FreezeAll, FreezeInv, ThawInv, RecordInv, Answered, Froze
    <3>5. RecordInv(v)'
      BY <3>1, <3>3, <3>4 DEF RecordInv
    <3> QED BY <2>3, <3>2, <3>5 DEF GuestInv
  <2>7. CASE Thaw
    <3>1. /\ thawAt'[v] = IF v \in frozen THEN "wait" ELSE "idle"
          /\ UNCHANGED <<freezeAt, outcome, result, frozen>>
          /\ phase \in {"open", "closed"}
      BY <2>4, <2>7 DEF Thaw
    <3>2. thawAt[v] # "calling" /\ (v \in frozen => thawAt[v] = "idle")
      BY <2>4, <3>1 DEF ThawInv
    <3>3. LinkInv(v)'
      BY <2>1, <2>2, <3>1, <3>2 DEF LinkInv, ThawPoint
    <3>4. RecordInv(v)'
      BY <2>1, <2>2, <3>1, <3>2 DEF RecordInv, Owned, Gone, Fresh
    <3> QED BY <2>3, <3>3, <3>4 DEF GuestInv
  <2>8. CASE ThawAllReturn
    <3>1. frozen' = {} /\ UNCHANGED <<freezeAt, outcome, result, thawAt>>
      BY <2>8 DEF ThawAllReturn
    <3>2. LinkInv(v)'
      BY <2>1, <2>2, <3>1 DEF LinkInv
    <3>3. RecordInv(v)'
      BY <2>1, <2>2, <3>1 DEF RecordInv, Owned, Gone, Fresh
    <3> QED BY <2>3, <3>2, <3>3 DEF GuestInv
  <2> QED BY <2>5, <2>6, <2>7, <2>8
<1> QED BY <1>1, <1>2

-----------------------------------------------------------------------------
(* The run. *)

GuestsInv ==
  SessInv /\ EsxiTypes /\ \A v \in Vm : GuestInv(v)

\* The whole invariant: the guests', and where runSnapESXi stands.
RunInv == RunTypes /\ PcInv /\ AnswerInv /\ ForceInv /\ ReportInv

EsxiRunInv == GuestsInv /\ RunInv

\* A step is one for a guest, or runSnapESXi's with at most one step of the session.
LEMMA NextCases ==
  ASSUME [EsxiRunNext]_esxiRunVars
  PROVE  \/ \E w \in Vm : GuestStep(w) /\ UNCHANGED runVars
         \/ /\ Connect \/ Main \/ UNCHANGED runVars
            /\ UNCHANGED esxiVars
            /\ \/ UNCHANGED sessVars \/ FreezeAll \/ FreezeAllReturn
               \/ Thaw \/ ThawAllReturn
<1>1. CASE \E w \in Vm : Session(w) \/ Call(w) \/ Host(w) \/ Opens(w)
  BY <1>1 DEF GuestStep, Session, Call, Host, Opens
<1>2. CASE Connect \/ Main
  BY <1>2 DEF Connect, Main, Connected, Unreachable, FinishZFS, StartFreeze, EndFreeze,
     Judge, TakeZFS, StartThaw, EndThaw, Report, Return
<1>3. CASE UNCHANGED esxiRunVars
  BY <1>3 DEF esxiRunVars
<1> QED BY <1>1, <1>2, <1>3 DEF EsxiRunNext

\* Each step of the run is a step of the session or leaves it alone.
LEMMA EsxiStepIsSessStep ==
  GuestsInv /\ [EsxiRunNext]_esxiRunVars => [SessNext]_sessVars
<1> SUFFICES ASSUME GuestsInv, [EsxiRunNext]_esxiRunVars PROVE [SessNext]_sessVars
  OBVIOUS
<1>1. ASSUME NEW w \in Vm, GuestStep(w) PROVE [SessNext]_sessVars
  <2>1. w \in Guest /\ (UNCHANGED sessVars \/ FreezeStep(w) \/ ThawStep(w))
    BY <1>1, GuestStepParts, GuestsAreVms DEF GuestsInv
  <2> QED BY <2>1 DEF SessNext
<1> QED BY <1>1, NextCases DEF SessNext

\* Before the run no VM has been touched.
LEMMA InitGuestsInv == EsxiRunInit => GuestsInv
<1> SUFFICES ASSUME EsxiRunInit PROVE GuestsInv
  OBVIOUS
<1>1. SessInv
  BY InitSessInv DEF EsxiRunInit
<1>2. EsxiInit /\ SessInit
  BY DEF EsxiRunInit
<1>3. EsxiTypes
  <2>1. host \in [Vm -> Seq(SnapId)]
    BY <1>2, EmptySeq DEF EsxiInit
  <2>2. task \in [Vm -> Task]
    BY <1>2 DEF EsxiInit, Task
  <2>3. step \in [Vm -> Nat]
    BY <1>2 DEF EsxiInit
  <2>4. /\ at \in [Vm -> {"idle", "returned"} \cup FreezePoint \cup ThawPoint]
        /\ snap \in [Vm -> {0} \cup SnapId]
        /\ todo \in [Vm -> SUBSET SnapId]
    BY <1>2 DEF EsxiInit
  <2>5. /\ ret \in [Vm -> {"pending", "held", "degraded", "zfs-only", "error", "ok",
                           "failed"}]
        /\ channel \in [Vm -> {"none", "opening", "answered"}]
    BY <1>2 DEF EsxiInit, Pool!PoolInit
  <2>6. /\ proto \in {"soap", "ssh"} /\ steps \in [Vm -> {0} \cup SnapId]
        /\ \A v \in Vm : steps[v] <= MaxSteps[v]
        /\ zfsOnly \subseteq Vm
    BY <1>2 DEF EsxiInit
  <2> QED BY <2>1, <2>2, <2>3, <2>4, <2>5, <2>6 DEF EsxiTypes
<1>4. ASSUME NEW v \in Vm PROVE GuestInv(v)
  <2>1. Fresh(v) /\ channel[v] = "none" /\ ret[v] = "pending"
    BY <1>2 DEF EsxiInit, Pool!PoolInit, Fresh
  <2>2. NoTask.state = "ended" /\ NoTask.op = "none"
    BY DEF NoTask
  <2>3. StepInv(v)
    <3>1. steps[v] \in Nat
      BY <1>3, LocalTypes
    <3>2. 1 \in 1..(steps[v] + 1)
      BY <3>1
    <3> QED BY <2>1, <3>2 DEF Fresh, StepInv, FreezePoint, ThawPoint
  <2>4. TaskInv(v)
    BY <2>1, <2>2 DEF Fresh, TaskInv
  <2>5. HostInv(v)
    <3>1. ToSet(<<>>) = {}
      BY DEF ToSet
    <3>2. IsInjective(<<>>)
      BY DEF IsInjective
    <3> QED BY <2>1, <2>2, <3>1, <3>2 DEF Fresh, HostInv
  <2>6. DoneInv(v)
    BY <2>1, <2>2 DEF Fresh, DoneInv
  <2>7. SlotInv(v)
    BY <2>1 DEF SlotInv
  <2>8. /\ freezeAt[v] = "idle" /\ thawAt[v] = "idle" /\ v \notin frozen
        /\ ~result[v].thawed
    BY <1>2, GuestsAreVms DEF SessInit, Unanswered
  <2>9. LinkInv(v)
    BY <2>1, <2>8 DEF Fresh, LinkInv, FreezePoint, ThawPoint
  <2>10. RecordInv(v)
    BY <2>1, <2>8 DEF RecordInv
  <2> QED BY <2>3, <2>4, <2>5, <2>6, <2>7, <2>9, <2>10 DEF GuestInv, CallInv
<1> QED BY <1>1, <1>3, <1>4 DEF GuestsInv

\* Every step of the run keeps the invariant of the guests.
LEMMA NextGuestsInv == GuestsInv /\ [EsxiRunNext]_esxiRunVars => GuestsInv'
<1> SUFFICES ASSUME GuestsInv, [EsxiRunNext]_esxiRunVars PROVE GuestsInv'
  OBVIOUS
<1>1. SessInv'
  BY EsxiStepIsSessStep, NextSessInv DEF GuestsInv
<1>2. SessInv /\ EsxiTypes /\ \A v \in Vm : GuestInv(v)
  BY DEF GuestsInv
<1>3. ASSUME NEW w \in Vm, GuestStep(w)
      PROVE  EsxiTypes' /\ \A v \in Vm : GuestInv(v)'
  BY <1>2, <1>3, GuestStepInv
<1>4. EsxiTypes' /\ \A v \in Vm : GuestInv(v)'
  BY <1>2, <1>3, NextCases, MainGuestInv
<1> QED BY <1>1, <1>4 DEF GuestsInv

\* The run drives its session as the session's own specification allows.
THEOREM EsxiRunUsesSession == EsxiRunSpec => SessSpec
<1>1. EsxiRunInit => SessInit
  BY DEF EsxiRunInit
<1> QED BY <1>1, InitGuestsInv, NextGuestsInv, EsxiStepIsSessStep, PTL
        DEF EsxiRunSpec, SessSpec

\* The session, the Freezer's calls and the host keep their invariant.
THEOREM GuestsInvariant == EsxiRunSpec => []GuestsInv
BY InitGuestsInv, NextGuestsInv, PTL DEF EsxiRunSpec

-----------------------------------------------------------------------------
\* A guest that is reported frozen owns, until its Thaw, the snapshot its step made.
THEOREM FrozenGuestOwnsSnapshot == EsxiRunSpec => []FrozenOwnsSnapshot
<1>1. GuestsInv => FrozenOwnsSnapshot
  BY DEF GuestsInv, GuestInv, RecordInv, Owned, FrozenOwnsSnapshot
<1> QED BY <1>1, GuestsInvariant, PTL

\* Whatever was refused, timed out or finished late: thawed means gone.
THEOREM ThawedSnapshotIsGone == EsxiRunSpec => []ThawedIsGone
<1>1. GuestsInv => ThawedIsGone
  BY DEF GuestsInv, GuestInv, RecordInv, Gone, ThawedIsGone
<1> QED BY <1>1, GuestsInvariant, PTL

\* A call that is over has given its ssh session back.
THEOREM SlotsAreReturned == EsxiRunSpec => []SlotsComeBack
<1>1. GuestsInv => SlotsComeBack
  BY DEF GuestsInv, GuestInv, CallInv, SlotInv, SlotsComeBack, Pool!HoldsSlot
<1> QED BY <1>1, GuestsInvariant, PTL

-----------------------------------------------------------------------------
(* Where runSnapESXi stands. *)

\* Nothing is known or done before the run.
LEMMA InitRunInv == EsxiRunInit => RunInv
<1> SUFFICES ASSUME EsxiRunInit PROVE RunInv
  OBVIOUS
<1>1. RunTypes /\ PcInv
  BY DEF EsxiRunInit, SessInit, RunTypes, RunPc, PcInv
<1>2. AnswerInv /\ ForceInv /\ ReportInv
  BY DEF EsxiRunInit, SessInit, AnswerInv, ForceInv, ReportInv
<1> QED BY <1>1, <1>2 DEF RunInv

\* While a guest's goroutine runs, FreezeAll or Thaw does.
LEMMA GuestStepPhase ==
  ASSUME NEW w \in Vm, GuestsInv, GuestStep(w)
  PROVE  /\ UNCHANGED <<registered, strict, phase>>
         /\ UNCHANGED sessVars \/ phase = "freezing" \/ (phase = "thawing" /\ frozen # {})
<1>1. w \in Guest /\ FreezeInv(w) /\ ThawInv(w)
  BY GuestsAreVms DEF GuestsInv, SessInv
<1>2. UNCHANGED sessVars \/ FreezeStep(w) \/ ThawStep(w)
  BY GuestStepParts DEF GuestsInv
<1>3. CASE UNCHANGED sessVars
  BY <1>3 DEF sessVars
<1>4. CASE FreezeStep(w)
  BY <1>1, <1>4 DEF FreezeStep, FreezeUnsupported, FreezeCall, FreezeReturn,
     FreezeRecord, FreezeInv
<1>5. CASE ThawStep(w)
  BY <1>1, <1>5 DEF ThawStep, ThawCall, ThawReturn, ThawInv
<1> QED BY <1>2, <1>3, <1>4, <1>5

\* What is judged stays judged: results only gain Thaw's fields.
LEMMA JudgedStays ==
  ASSUME SessInv, [SessNext]_sessVars, Judged
  PROVE  Judged'
<1> SUFFICES ASSUME NEW g \in Guest
             PROVE  Answered(g)' /\ (result'[g].frozen \/ result'[g].outcome = "zfs-only")
  BY DEF Judged
<1>1. Answered(g) /\ (result[g].frozen \/ result[g].outcome = "zfs-only")
  BY DEF Judged
<1>2. /\ result'[g].outcome = result[g].outcome
      /\ result'[g].frozen = result[g].frozen
  BY <1>1, StepOnlyGainsThaw DEF sessVars
<1> QED BY <1>1, <1>2 DEF Answered

\* A step of a guest's goroutine leaves runSnapESXi where it is.
LEMMA GuestStepRunInv ==
  ASSUME NEW w \in Vm, GuestsInv, RunInv, GuestStep(w), UNCHANGED runVars,
         [SessNext]_sessVars
  PROVE  RunInv'
<1> USE DEF RunInv, runVars
<1>1. /\ UNCHANGED <<registered, strict, phase>>
      /\ UNCHANGED sessVars \/ phase = "freezing" \/ (phase = "thawing" /\ frozen # {})
  BY GuestStepPhase
<1>2. RunTypes' /\ PcInv'
  BY <1>1 DEF RunTypes, PcInv
<1>3. AnswerInv'
  <2>1. UNCHANGED freezeAt \/ phase = "freezing"
    <3>1. UNCHANGED sessVars \/ FreezeStep(w) \/ ThawStep(w)
      BY GuestStepParts DEF GuestsInv
    <3>2. FreezeStep(w) => phase = "freezing"
      BY GuestsAreVms DEF GuestsInv, SessInv, FreezeInv, FreezeStep, FreezeUnsupported,
         FreezeCall, FreezeReturn, FreezeRecord
    <3> QED BY <3>1, <3>2 DEF sessVars, ThawStep, ThawCall, ThawReturn
  <2> QED BY <1>1, <2>1 DEF AnswerInv
<1>4. ForceInv'
  BY JudgedStays DEF ForceInv, GuestsInv
<1>5. ReportInv'
  <2>1. CASE UNCHANGED sessVars
    BY <2>1 DEF ReportInv, Leftover, sessVars
  <2>2. CASE phase = "freezing" \/ (phase = "thawing" /\ frozen # {})
    <3>1. pc \notin {"defer", "deferring", "return", "exit"}
      BY <2>2 DEF PcInv, ReportInv
    <3> QED BY <3>1 DEF ReportInv
  <2> QED BY <1>1, <2>1, <2>2
<1> QED BY <1>2, <1>3, <1>4, <1>5

\* Each step of runSnapESXi keeps where the session stands for its pc, and what
\* it has decided.
LEMMA MainRunInv ==
  ASSUME GuestsInv, RunInv, Connect \/ Main, [SessNext]_sessVars, GuestsInv'
  PROVE  RunInv'
<1> USE DEF RunInv, Connect, Main
<1>0. result \in [Guest -> Result] /\ result' \in [Guest -> Result]
      /\ frozen \subseteq Guest /\ Leftover \subseteq Vm
  BY DEF GuestsInv, SessInv, SessTypeOK, Leftover
<1>1. RunTypes'
  <2>1. registered' = Guest
    BY DEF RunTypes, Connected, Unreachable, FinishZFS, StartFreeze, EndFreeze, Judge,
       TakeZFS, StartThaw, EndThaw, Report, Return, sessVars, FreezeAll,
       FreezeAllReturn, Thaw, ThawAllReturn
  <2>2. pc' \in RunPc /\ force' \in BOOLEAN
    BY DEF RunTypes, RunPc, Connected, Unreachable, FinishZFS, StartFreeze, EndFreeze,
       Judge, TakeZFS, StartThaw, EndThaw, Report, Return
  <2>3. zfs' \in {"none", "taken", "failed"}
    BY DEF RunTypes, Connected, Unreachable, FinishZFS, StartFreeze, EndFreeze, Judge,
       TakeZFS, StartThaw, EndThaw, Report, Return
  <2>4. report' \in {NoReport} \cup
          [status : {"ok", "error"}, guests : [Guest -> Result], leftover : SUBSET Vm]
    <3>1. \A st \in {"ok", "error"} : ReportNow(st) \in
            [status : {"ok", "error"}, guests : [Guest -> Result], leftover : SUBSET Vm]
      BY <1>0 DEF ReportNow
    <3>2. UNCHANGED report \/ \E st \in {"ok", "error"} : report' = ReportNow(st)
      BY DEF Connected, Unreachable, FinishZFS, StartFreeze, EndFreeze, Judge,
         TakeZFS, StartThaw, EndThaw, Report, Return
    <3> QED BY <3>1, <3>2 DEF RunTypes
  <2> QED BY <2>1, <2>2, <2>3, <2>4 DEF RunTypes
<1>2. PcInv'
  BY DEF PcInv, Connected, Unreachable, FinishZFS, StartFreeze, EndFreeze, Judge,
     TakeZFS, StartThaw, EndThaw, Report, Return, sessVars, FreezeAll, FreezeAllReturn,
     Thaw, ThawAllReturn
<1>3. AnswerInv'
  BY DEF AnswerInv, Connected, Unreachable, FinishZFS, StartFreeze, EndFreeze, Judge,
     TakeZFS, StartThaw, EndThaw, Report, Return, sessVars, FreezeAll, FreezeAllReturn,
     Thaw, ThawAllReturn
<1>4. ForceInv'
  <2>1. pc' \in {"connect", "zfs alone", "freeze", "freezing", "judge", "snapshot"} =>
          zfs' = "none"
    BY DEF ForceInv, Connected, Unreachable, FinishZFS, StartFreeze, EndFreeze, Judge,
       TakeZFS, StartThaw, EndThaw, Report, Return
  <2>2. pc' = "zfs alone" => ~force'
    BY DEF ForceInv, Connected, Unreachable, FinishZFS, StartFreeze, EndFreeze, Judge,
       TakeZFS, StartThaw, EndThaw, Report, Return
  <2>3. ASSUME force', pc' = "snapshot" \/ zfs' # "none" PROVE Judged'
    <3>1. CASE Judge
      <4>1. AbortList = {} /\ force /\ phase = "open" /\ UNCHANGED result
        BY <2>3, <3>1 DEF Judge, ForceInv, PcInv, sessVars
      <4>2. \A g \in Guest : Answered(g)
        BY <4>1 DEF AnswerInv, GuestsInv, SessInv, FreezeInv
      <4>3. Judged
        BY <4>1, <4>2 DEF AbortList, Judged
      <4> QED BY <4>1, <4>3 DEF Judged, Answered
    <3>2. CASE ~Judge
      <4>1. force /\ (pc = "snapshot" \/ zfs # "none")
        BY <2>3, <3>2 DEF ForceInv, Connected, Unreachable, FinishZFS, StartFreeze,
           EndFreeze, TakeZFS, StartThaw, EndThaw, Report, Return
      <4> QED BY <4>1, JudgedStays DEF ForceInv, GuestsInv
    <3> QED BY <3>1, <3>2
  <2> QED BY <2>1, <2>2, <2>3 DEF ForceInv
<1>5. ReportInv'
  <2>1. CASE Unreachable \/ FinishZFS
    <3>1. phase = "new" /\ zfs = "none" /\ UNCHANGED <<frozen, result>>
      BY <2>1 DEF Unreachable, FinishZFS, PcInv, ForceInv, sessVars
    <3>2. \A v \in Vm : ~result[v].frozen
      BY <3>1, GuestsAreVms DEF GuestsInv, SessInv, FreezeInv, Answered, Froze
    <3>3. frozen = {}
      BY <1>0, <3>1 DEF GuestsInv, SessInv, ThawInv
    <3>4. Leftover = {} /\ Leftover' = {}
      BY <3>1, <3>2 DEF Leftover
    <3>5. pc' = "zfs alone" \/ \E st \in {"ok", "error"} : report' = ReportNow(st)
      BY <2>1 DEF Unreachable, FinishZFS
    <3>6. ASSUME NEW st \in {"ok", "error"}, report' = ReportNow(st)
          PROVE  /\ report' # NoReport /\ report'.guests = result'
                 /\ report'.leftover = Leftover'
      <4>1. report'.status = st /\ NoReport.status = "none"
        BY <3>6 DEF ReportNow, NoReport
      <4>2. report'.guests = result' /\ report'.leftover = Leftover'
        BY <3>1, <3>4, <3>6 DEF ReportNow
      <4> QED BY <4>1, <4>2
    <3> QED BY <3>1, <3>3, <3>5, <3>6 DEF ReportInv
  <2>2. CASE Report
    <3>1. frozen = {}
      BY <1>0, <2>2 DEF Report, PcInv, GuestsInv, SessInv, ThawInv
    <3>2. PICK st \in {"ok", "error"} : report' = ReportNow(st)
      BY <2>2 DEF Report
    <3>3. report'.status = st /\ NoReport.status = "none"
      BY <3>2 DEF ReportNow, NoReport
    <3>4. UNCHANGED <<result, zfs, frozen>>
      BY <2>2 DEF Report, sessVars
    <3>5. report'.guests = result' /\ report'.leftover = Leftover'
      BY <3>2, <3>4 DEF ReportNow, Leftover
    <3> QED BY <3>1, <3>3, <3>4, <3>5 DEF ReportInv
  <2>3. CASE \/ Connected \/ StartFreeze \/ EndFreeze \/ Judge \/ TakeZFS \/ Return
             \/ StartThaw \/ EndThaw
    BY <2>3 DEF ReportInv, Leftover, Connected, StartFreeze, EndFreeze, Judge, TakeZFS,
       Return, StartThaw, EndThaw, sessVars, Thaw, ThawAllReturn
  <2> QED BY <2>1, <2>2, <2>3
<1> QED BY <1>1, <1>2, <1>3, <1>4, <1>5

\* Every step of the run keeps the whole invariant.
LEMMA NextEsxiRunInv ==
  EsxiRunInv /\ [EsxiRunNext]_esxiRunVars => EsxiRunInv'
<1> SUFFICES ASSUME EsxiRunInv, [EsxiRunNext]_esxiRunVars PROVE EsxiRunInv'
  OBVIOUS
<1>1. GuestsInv /\ RunInv /\ GuestsInv' /\ [SessNext]_sessVars
  BY NextGuestsInv, EsxiStepIsSessStep DEF EsxiRunInv
<1>2. CASE \E w \in Vm : GuestStep(w) /\ UNCHANGED runVars
  BY <1>1, <1>2, GuestStepRunInv DEF EsxiRunInv
<1>3. CASE Connect \/ Main
  BY <1>1, <1>3, MainRunInv DEF EsxiRunInv
<1>4. CASE UNCHANGED esxiRunVars
  <2>1. UNCHANGED <<runVars, registered, strict, phase, freezeAt, result, frozen>>
    BY <1>4 DEF esxiRunVars, sessVars
  <2>2. RunInv'
    BY <1>1, <2>1 DEF RunInv, runVars, RunTypes, PcInv, AnswerInv, ForceInv, Judged,
       Answered, ReportInv, Leftover
  <2> QED BY <1>1, <2>2 DEF EsxiRunInv
<1>5. \/ \E w \in Vm : GuestStep(w) /\ UNCHANGED runVars
      \/ Connect \/ Main \/ UNCHANGED esxiRunVars
  BY DEF EsxiRunNext, GuestStep, Session, Call, Host, Opens
<1> QED BY <1>2, <1>3, <1>4, <1>5

\* The run with its session, its Freezer's calls and the host keeps the invariant.
THEOREM EsxiRunInvariant == EsxiRunSpec => []EsxiRunInv
<1>1. EsxiRunInit => EsxiRunInv
  BY InitGuestsInv, InitRunInv DEF EsxiRunInv
<1> QED BY <1>1, NextEsxiRunInv, PTL DEF EsxiRunSpec

\* Every variable of the run, the session and the Freezer keeps its type.
THEOREM EsxiRunTypeCorrect == EsxiRunSpec => []EsxiRunTypeOK
<1>1. ASSUME EsxiRunInv PROVE EsxiRunTypeOK
  <2>1. EsxiTypes /\ SessTypeOK /\ RunTypes
    BY <1>1 DEF EsxiRunInv, GuestsInv, SessInv, RunInv
  <2>2. \A v \in Vm : IsInjective(host[v]) /\ step[v] \in 1..(steps[v] + 1)
    BY <1>1 DEF EsxiRunInv, GuestsInv, GuestInv, CallInv, HostInv, StepInv
  <2>3. \A v \in Vm : ToSet(host[v]) \subseteq SnapId
    BY <2>1, ToSetFacts DEF EsxiTypes
  <2>4. at \in [Vm -> {"idle", "step", "creating", "finding", "canceling", "reap",
                       "reap next", "reaping", "remove", "removing", "check",
                       "returned"}]
    BY <2>1 DEF EsxiTypes, FreezePoint, ThawPoint
  <2>5. EsxiTypeOK
    BY <2>1, <2>2, <2>3, <2>4 DEF EsxiTypes, EsxiTypeOK, Pool!PoolTypeOK
  <2> QED BY <2>1, <2>5 DEF RunTypes, EsxiRunTypeOK
<1> QED BY <1>1, EsxiRunInvariant, PTL

\* A recorded snapshot that the run leaves on the host is in its report.
THEOREM LeftoversAreReported == EsxiRunSpec => []LeftoverIsReported
<1>1. ASSUME EsxiRunInv PROVE LeftoverIsReported
  <2> SUFFICES ASSUME pc = "exit", NEW v \in Vm, snap[v] # 0,
                      snap[v] \in ToSet(host[v])
               PROVE  /\ report.guests[v].warning = "thaw"
                      /\ zfs # "none" => v \in report.leftover
    BY DEF LeftoverIsReported
  <2>1. GuestsInv /\ PcInv /\ AnswerInv /\ ReportInv
    BY <1>1 DEF EsxiRunInv, RunInv
  <2>2. report.guests = result /\ report.leftover = Leftover /\ frozen = {}
    BY <2>1 DEF ReportInv
  <2>3. v \in Guest /\ FreezeInv(v) /\ ThawInv(v) /\ RecordInv(v)
    BY <2>1, GuestsAreVms DEF GuestsInv, SessInv, GuestInv
  <2>4. freezeAt[v] = "done"
    BY <2>1, <2>3 DEF PcInv, AnswerInv, FreezeInv, RecordInv, Fresh
  <2>5. result[v].frozen /\ ~result[v].thawed
    BY <2>3, <2>4 DEF RecordInv, Gone
  <2>6. result[v].warning = "thaw"
    BY <2>2, <2>3, <2>5 DEF ThawInv
  <2> QED BY <2>2, <2>5, <2>6 DEF Leftover
<1> QED BY <1>1, EsxiRunInvariant, PTL

\* With --forcefreeze no ZFS snapshot is taken without the guests.
THEOREM ForcedSnapshotHasGuests == EsxiRunSpec => []ForceMeansFrozen
<1>1. EsxiRunInv => ForceMeansFrozen
  BY DEF EsxiRunInv, RunInv, ForceInv, Judged, ForceMeansFrozen
<1> QED BY <1>1, EsxiRunInvariant, PTL

-----------------------------------------------------------------------------
(* The refinement. *)

\* Who is held changes only when a result is recorded, which adds the guest, and
\* when Thaw turns to it, which takes it away.
LEMMA GuestStepHeld ==
  ASSUME NEW w \in Vm, EsxiRunInv, GuestStep(w), UNCHANGED runVars
  PROVE  /\ UNCHANGED <<Stage, zfs>>
         /\ \/ Held' = Held
            \/ Stage = "hold" /\ Held' = Held \cup {w}
            \/ Stage = "release" /\ w \in Held /\ Held' = Held \ {w}
<1> USE DEF runVars
<1>1. UNCHANGED <<Stage, zfs>>
  BY DEF Stage
<1>2. /\ w \in Guest /\ FreezeInv(w) /\ ThawInv(w)
      /\ frozen \subseteq Guest /\ thawAt \in [Guest -> ThawAt]
      /\ PcInv /\ pc \in RunPc
  BY GuestsAreVms DEF EsxiRunInv, GuestsInv, SessInv, SessTypeOK, RunInv, RunTypes
<1>3. UNCHANGED sessVars \/ FreezeStep(w) \/ ThawStep(w)
  BY GuestStepParts DEF EsxiRunInv, GuestsInv
<1>4. CASE UNCHANGED <<frozen, thawAt>>
  BY <1>1, <1>4 DEF Held
<1>5. CASE FreezeRecord(w)
  <2>1. Stage = "hold"
    BY <1>2, <1>5 DEF FreezeInv, FreezeRecord, PcInv, RunPc, Stage
  <2>2. thawAt[w] = "idle" /\ thawAt' = thawAt
    BY <1>2, <1>5 DEF FreezeInv, ThawInv, FreezeRecord
  <2>3. Held' = Held \/ Held' = Held \cup {w}
    BY <1>5, <2>2 DEF Held, FreezeRecord
  <2> QED BY <1>1, <2>1, <2>3
<1>6. CASE ThawCall(w)
  <2>1. w \in frozen /\ phase = "thawing" /\ thawAt[w] = "wait" /\ frozen' = frozen
    BY <1>2, <1>6 DEF ThawInv, ThawCall
  <2>2. Stage = "release"
    BY <1>2, <2>1 DEF PcInv, RunPc, Stage
  <2>3. thawAt' = [thawAt EXCEPT ![w] = "calling"]
    BY <1>6 DEF ThawCall
  <2>4. w \in Held /\ Held' = Held \ {w}
    BY <1>2, <2>1, <2>3 DEF Held
  <2> QED BY <1>1, <2>2, <2>4
<1>7. CASE \E ok \in BOOLEAN : ThawReturn(w, ok)
  <2>1. thawAt[w] = "calling" /\ frozen' = frozen
        /\ thawAt' = [thawAt EXCEPT ![w] = "done"]
    BY <1>7 DEF ThawReturn
  <2>2. Held' = Held
    BY <1>2, <2>1 DEF Held
  <2> QED BY <1>1, <2>2
<1> QED BY <1>3, <1>4, <1>5, <1>6, <1>7 DEF FreezeStep, ThawStep, FreezeUnsupported,
           FreezeCall, FreezeReturn, sessVars

\* Each step of the run is a step of SnapPromise or leaves it unchanged.
LEMMA EsxiStepIsPromiseStep ==
  EsxiRunInv /\ [EsxiRunNext]_esxiRunVars => [Promise!Next]_(Promise!promiseVars)
<1> SUFFICES ASSUME EsxiRunInv, [EsxiRunNext]_esxiRunVars
             PROVE  Promise!Next \/ UNCHANGED <<Stage, Held, zfs>>
  BY DEF Promise!promiseVars
<1> USE DEF Promise!Next
<1>1. ASSUME NEW w \in Vm, GuestStep(w), UNCHANGED runVars
      PROVE  Promise!Next \/ UNCHANGED <<Stage, Held, zfs>>
  BY <1>1, GuestStepHeld, GuestsAreVms DEF Promise!Hold, Promise!Release
<1>2. CASE UNCHANGED esxiRunVars
  BY <1>2 DEF esxiRunVars, runVars, sessVars, Stage, Held
<1>3. CASE TakeZFS \/ FinishZFS
  BY <1>3 DEF TakeZFS, FinishZFS, Promise!TakeSnapshot, Stage, Held, sessVars
<1>4. CASE Unreachable \/ Judge
  BY <1>4 DEF Unreachable, Judge, Promise!GiveUp, Stage, Held, sessVars
<1>5. CASE Return
  <2>1. Held = {}
    BY <1>5 DEF Return, EsxiRunInv, RunInv, ReportInv, Held
  <2> QED BY <1>5, <2>1 DEF Return, Promise!End, Stage, Held, sessVars
<1>6. CASE Connected \/ Report
  BY <1>6 DEF Connected, Report, Stage, Held, sessVars
<1>7. CASE StartFreeze \/ EndFreeze
  BY <1>7 DEF StartFreeze, EndFreeze, FreezeAll, FreezeAllReturn, Stage, Held
<1>8. CASE StartThaw
  <2>1. phase \in {"open", "closed"} /\ frozen' = frozen
        /\ thawAt' = [g \in Guest |-> IF g \in frozen THEN "wait" ELSE "idle"]
    BY <1>8 DEF StartThaw, Thaw
  <2>2. \A g \in frozen : g \in Guest /\ thawAt[g] = "idle"
    BY <2>1 DEF EsxiRunInv, GuestsInv, SessInv, SessTypeOK, ThawInv
  <2>3. Held' = Held
    BY <2>1, <2>2 DEF Held
  <2>4. UNCHANGED <<Stage, zfs>>
    BY <1>8 DEF StartThaw, Stage
  <2> QED BY <2>3, <2>4
<1>9. CASE EndThaw
  <2>1. Held = {} /\ Held' = {}
    BY <1>9 DEF EndThaw, ThawAllReturn, Held
  <2>2. UNCHANGED <<Stage, zfs>>
    BY <1>9 DEF EndThaw, Stage
  <2> QED BY <2>1, <2>2
<1>10. \/ \E w \in Vm : GuestStep(w) /\ UNCHANGED runVars
       \/ Connected \/ Unreachable \/ Main \/ UNCHANGED esxiRunVars
  BY DEF EsxiRunNext, GuestStep, Session, Call, Host, Opens, Connect
<1> QED BY <1>1, <1>2, <1>3, <1>4, <1>5, <1>6, <1>7, <1>8, <1>9, <1>10 DEF Main

\* runSnapESXi implements the promise of "snap", step by step.
THEOREM EsxiRunImplementsPromise == EsxiRunSpec => ImplementsPromise
<1>1. EsxiRunInit => Promise!Init
  BY DEF EsxiRunInit, SessInit, Promise!Init, Stage, Held
<1> QED BY <1>1, EsxiRunInvariant, EsxiStepIsPromiseStep, PTL
        DEF EsxiRunSpec, ImplementsPromise, Promise!Spec
=============================================================================
