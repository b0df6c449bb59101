------------------------ MODULE ParallelRuns_proofs -------------------------
(***************************************************************************)
(* Proofs about ParallelRuns, for any set of runs and any chains.          *)
(***************************************************************************)
EXTENDS ParallelRuns, SequenceTheorems, TLAPS

(***************************************************************************)
(* The inductive invariant.  QgaFreezeIsOwned needs that, as long as no    *)
(* freeze came too late, a freeze has one owner, no thaw waits for the     *)
(* agent meanwhile (a run whose thaw is still queued has given the freeze  *)
(* up), and nobody else's "froze 0" is undone, since the agent has one     *)
(* connection at a time.  TogetherTheyThaw needs that whatever stands      *)
(* still has a run that is to let it go, or has said that it could not.    *)
(***************************************************************************)
Commands == {"ping", "freeze", "thaw"}

QgaHolder(r)   == strategy[r] = "qga" /\ pc[r] \in {"zfs", "thaw"}
PauseHolder(r) == strategy[r] = "qmp-pause" /\ pc[r] \in {"zfs", "thaw"}
Talking(r)     == pc[r] \in {"freeze", "misled", "undo"}

Only(s, S) == \A i \in 1..Len(s) : s[i] \in S

VmTypeOK ==
  /\ fs \in {"running", "frozen"} /\ cpu \in {"running", "paused"}
  /\ queue \in Seq(Commands) /\ late \in BOOLEAN /\ misread \in BOOLEAN

CallInv ==
  /\ chain \in [Run -> Chains]
  /\ pc \in [Run -> {"step", "freeze", "misled", "undo", "zfs", "thaw", "done"}]
  /\ strategy \in [Run -> {"unset", "qga", "qmp-pause", "none"}]
  /\ thaw \in [Run -> {"pending", "ok", "failed"}]
  /\ step \in [Run -> Nat]
  /\ \A r \in Run : step[r] \in 1..(Len(chain[r]) + 1)
  /\ \A r \in Run : Talking(r) => step[r] <= Len(chain[r])
  /\ \A r \in Run : pc[r] # "done" => thaw[r] = "pending"

TalkInv == \A r, q \in Run : Talking(r) /\ Talking(q) => q = r

OwnerInv ==
  ~late => \A r \in Run : QgaHolder(r) =>
    /\ fs = "frozen"
    /\ \A q \in Run : QgaHolder(q) => q = r
    /\ Only(queue, {"ping"})

\* Who is about to freeze a running filesystem has no thaw before it.
FreezeInv == ~late => \A r \in Run : pc[r] = "freeze" /\ fs = "running" => Only(queue, {"ping"})

UndoInv == ~late => \A r, q \in Run : pc[r] = "undo" => ~QgaHolder(q)

LateInv == ~late => Only(queue, {"ping", "thaw"})

FrozenInv ==
  fs = "frozen" /\ ~late => \E r \in Run : QgaHolder(r) \/ thaw[r] = "failed"

PausedInv ==
  cpu = "paused" /\ ~late /\ ~misread => \E r \in Run : PauseHolder(r) \/ thaw[r] = "failed"

AgentInv == TalkInv /\ OwnerInv /\ FreezeInv /\ UndoInv /\ LateInv /\ FrozenInv

ParInv == VmTypeOK /\ CallInv /\ AgentInv /\ PausedInv

-----------------------------------------------------------------------------
\* What a command added to the agent's queue makes of it.
LEMMA QueueAppend ==
  ASSUME NEW q \in Seq(Commands), NEW c \in Commands
  PROVE  /\ Append(q, c) \in Seq(Commands) /\ Append(q, c) # <<>>
         /\ \A S : Only(q, S) /\ c \in S => Only(Append(q, c), S)
<1>1. /\ Append(q, c) \in Seq(Commands)
      /\ Len(Append(q, c)) = Len(q) + 1
      /\ \A i \in 1..Len(q) : Append(q, c)[i] = q[i]
      /\ Append(q, c)[Len(q) + 1] = c
  BY AppendProperties
<1>2. Len(q) \in Nat
  BY LenProperties
<1>3. Append(q, c) # <<>>
  BY <1>1, <1>2, EmptySeq
<1> QED BY <1>1, <1>2, <1>3 DEF Only

\* What the agent finds first, and what it leaves.
LEMMA QueueTail ==
  ASSUME NEW q \in Seq(Commands), q # <<>>
  PROVE  /\ Tail(q) \in Seq(Commands) /\ Head(q) \in Commands
         /\ \A S : Only(q, S) => Head(q) \in S /\ Only(Tail(q), S)
<1>1. /\ Tail(q) \in Seq(Commands)
      /\ Len(Tail(q)) = Len(q) - 1
      /\ \A i \in 1..Len(Tail(q)) : Tail(q)[i] = q[i + 1]
  BY HeadTailProperties
<1>2. Len(q) \in Nat \ {0} /\ Head(q) = q[1] /\ Head(q) \in Commands
  BY EmptySeq, LenProperties, HeadTailProperties
<1>3. ASSUME NEW S, Only(q, S) PROVE Head(q) \in S /\ Only(Tail(q), S)
  <2>1. Head(q) \in S
    BY <1>2, <1>3 DEF Only
  <2>2. ASSUME NEW i \in 1..Len(Tail(q)) PROVE Tail(q)[i] \in S
    <3>1. i + 1 \in 1..Len(q)
      BY <1>1, <1>2
    <3> QED BY <1>1, <1>3, <3>1 DEF Only
  <2> QED BY <2>1, <2>2 DEF Only
<1> QED BY <1>1, <1>2, <1>3

\* The agent thaws at a thaw only, and freezes at a freeze only.
LEMMA AgentFacts ==
  ASSUME NEW command, NEW answer \in Answer, VmTypeOK, AgentDoes(command, answer)
  PROVE  /\ fs' \in {"running", "frozen"}
         /\ command \in {"ping", "thaw"} => fs' = fs \/ fs' = "running"
         /\ answer = "error" => fs' = fs
         /\ command \in {"ping", "thaw"} /\ answer # "error" => fs' = "running"
         /\ command \in {"ping"} => fs' = fs
         /\ command = "freeze" /\ answer = "some" => fs = "running" /\ fs' = "frozen"
         /\ command = "freeze" /\ answer = "none" => fs = "running" /\ fs' = "running"
BY DEF AgentDoes, VmTypeOK

\* A run that goes to the next step of its chain has not held anything, and the
\* other runs are as they were.
LEMMA NextStepFacts ==
  ASSUME NEW r \in Run, CallInv, NextStep(r), pc[r] = "step" \/ Talking(r),
         step[r] <= Len(chain[r])
  PROVE  /\ CallInv'
         /\ \A q \in Run : QgaHolder(q)' <=> QgaHolder(q)
         /\ \A q \in Run : PauseHolder(q)' <=> PauseHolder(q)
         /\ pc'[r] = "step" /\ \A q \in Run \ {r} : pc'[q] = pc[q]
         /\ thaw' = thaw
<1> USE DEF CallInv, NextStep, Talking
<1>1. Len(chain[r]) \in Nat
  BY ChainsAssumption, LenProperties
<1>2. step' \in [Run -> Nat] /\ step'[r] = step[r] + 1
      /\ \A q \in Run \ {r} : step'[q] = step[q]
  OBVIOUS
<1>3. ASSUME NEW q \in Run PROVE step'[q] \in 1..(Len(chain[q]) + 1)
  <2>1. CASE q = r
    <3>1. step[r] + 1 \in 1..(Len(chain[r]) + 1)
      BY <1>1
    <3> QED BY <1>2, <2>1, <3>1
  <2>2. CASE q # r
    BY <1>2, <2>2
  <2> QED BY <2>1, <2>2
<1>4. /\ pc' \in [Run -> {"step", "freeze", "misled", "undo", "zfs", "thaw", "done"}]
      /\ pc'[r] = "step" /\ \A q \in Run \ {r} : pc'[q] = pc[q]
      /\ UNCHANGED <<chain, strategy, thaw>>
  OBVIOUS
<1>5. CallInv'
  <2>1. \A q \in Run : step'[q] \in 1..(Len(chain'[q]) + 1)
    BY <1>3, <1>4
  <2>2. \A q \in Run : Talking(q)' => step'[q] <= Len(chain'[q])
    BY <1>2, <1>4
  <2>3. \A q \in Run : pc'[q] # "done" => thaw'[q] = "pending"
    BY <1>4
  <2> QED BY <1>2, <1>4, <2>1, <2>2, <2>3
<1> QED BY <1>4, <1>5 DEF QgaHolder, PauseHolder

\* A run that goes on talking to the agent holds nothing either.
LEMMA TalkFacts ==
  ASSUME NEW r \in Run, NEW where \in {"freeze", "misled", "undo"}, CallInv,
         pc' = [pc EXCEPT ![r] = where], UNCHANGED <<chain, step, strategy, thaw>>,
         pc[r] = "step" \/ Talking(r), step[r] <= Len(chain[r])
  PROVE  /\ CallInv'
         /\ \A q \in Run : QgaHolder(q)' <=> QgaHolder(q)
         /\ \A q \in Run : PauseHolder(q)' <=> PauseHolder(q)
         /\ pc'[r] = where /\ \A q \in Run \ {r} : pc'[q] = pc[q]
         /\ thaw' = thaw
<1>1. /\ pc' \in [Run -> {"step", "freeze", "misled", "undo", "zfs", "thaw", "done"}]
      /\ pc'[r] = where /\ \A q \in Run \ {r} : pc'[q] = pc[q]
  BY DEF CallInv
<1>2. CallInv'
  BY <1>1 DEF CallInv, Talking
<1> QED BY <1>1, <1>2 DEF QgaHolder, PauseHolder, Talking

\* A step that worked makes its run, and no other, a holder of its kind.
LEMMA HeldFacts ==
  ASSUME NEW r \in Run, NEW s \in {"qga", "qmp-pause", "none"},
         CallInv, Held(r, s), pc[r] = "step" \/ Talking(r)
  PROVE  /\ CallInv'
         /\ ~QgaHolder(r) /\ (QgaHolder(r)' <=> s = "qga")
         /\ ~PauseHolder(r) /\ (PauseHolder(r)' <=> s = "qmp-pause")
         /\ \A q \in Run \ {r} : QgaHolder(q)' <=> QgaHolder(q)
         /\ \A q \in Run \ {r} : PauseHolder(q)' <=> PauseHolder(q)
         /\ pc'[r] = "zfs" /\ \A q \in Run \ {r} : pc'[q] = pc[q]
         /\ thaw' = thaw
<1>1. /\ pc' \in [Run -> {"step", "freeze", "misled", "undo", "zfs", "thaw", "done"}]
      /\ pc'[r] = "zfs" /\ \A q \in Run \ {r} : pc'[q] = pc[q]
      /\ strategy' \in [Run -> {"unset", "qga", "qmp-pause", "none"}]
      /\ strategy'[r] = s /\ \A q \in Run \ {r} : strategy'[q] = strategy[q]
      /\ UNCHANGED <<chain, step, thaw>>
  BY DEF CallInv, Held
<1>2. CallInv'
  BY <1>1 DEF CallInv, Talking
<1>3. ~QgaHolder(r) /\ (QgaHolder(r)' <=> s = "qga")
  BY <1>1 DEF QgaHolder, Talking
<1>4. ~PauseHolder(r) /\ (PauseHolder(r)' <=> s = "qmp-pause")
  BY <1>1 DEF PauseHolder, Talking
<1> QED BY <1>1, <1>2, <1>3, <1>4 DEF QgaHolder, PauseHolder

\* The end of a thaw: its run holds nothing any more and has said so.
LEMMA ThawedFacts ==
  ASSUME NEW r \in Run, NEW said \in {"ok", "failed"},
         CallInv, Thawed(r, said), pc[r] = "thaw"
  PROVE  /\ CallInv'
         /\ \A q \in Run : QgaHolder(q)' <=> (QgaHolder(q) /\ q # r)
         /\ \A q \in Run : PauseHolder(q)' <=> (PauseHolder(q) /\ q # r)
         /\ pc'[r] = "done" /\ \A q \in Run \ {r} : pc'[q] = pc[q]
         /\ thaw'[r] = said
         /\ \A q \in Run : thaw[q] = "failed" => thaw'[q] = "failed"
<1> USE DEF CallInv, Thawed, Talking
<1>1. /\ pc' \in [Run -> {"step", "freeze", "misled", "undo", "zfs", "thaw", "done"}]
      /\ pc'[r] = "done" /\ \A q \in Run \ {r} : pc'[q] = pc[q]
      /\ thaw' \in [Run -> {"pending", "ok", "failed"}]
      /\ thaw'[r] = said /\ \A q \in Run \ {r} : thaw'[q] = thaw[q]
      /\ UNCHANGED <<chain, step, strategy>>
  OBVIOUS
<1>2. CallInv'
  BY <1>1
<1> QED BY <1>1, <1>2 DEF QgaHolder, PauseHolder

\* A step that leaves the filesystems, and lets nobody begin to talk to the agent
\* or to hold a freeze, keeps what the agent's part of the invariant says; who ends
\* a freeze so has reported a failure.
LEMMA StillInv ==
  ASSUME VmTypeOK, AgentInv, UNCHANGED <<fs, late>>,
         queue' \in {queue, Append(queue, "ping")},
         \A q \in Run : Talking(q)' => pc'[q] = pc[q],
         \A q \in Run : QgaHolder(q)' => QgaHolder(q),
         \A q \in Run : QgaHolder(q) \/ thaw[q] = "failed" =>
                          QgaHolder(q)' \/ thaw'[q] = "failed"
  PROVE  AgentInv'
<1>1. \A S : Only(queue, S) /\ "ping" \in S => Only(queue', S)
  BY QueueAppend DEF VmTypeOK, Commands
<1>2. \A q \in Run : Talking(q)' => Talking(q)
  BY DEF Talking
<1>3. TalkInv'
  BY <1>2 DEF AgentInv, TalkInv
<1>4. OwnerInv'
  BY <1>1 DEF AgentInv, OwnerInv
<1>5. FreezeInv' /\ UndoInv'
  BY <1>1 DEF AgentInv, FreezeInv, UndoInv, Talking
<1>6. LateInv' /\ FrozenInv'
  BY <1>1 DEF AgentInv, LateInv, FrozenInv
<1> QED BY <1>3, <1>4, <1>5, <1>6 DEF AgentInv

\* After a freeze that came too late only the connection is somebody's.
LEMMA LateAgentInv ==
  ASSUME AgentInv, late' = TRUE, \A q \in Run : Talking(q)' => Talking(q)
  PROVE  AgentInv'
BY DEF AgentInv, TalkInv, OwnerInv, FreezeInv, UndoInv, LateInv, FrozenInv

\* What the agent finds when nobody is connected keeps it: while somebody owns the
\* freeze no thaw, and without a late freeze no freeze.
LEMMA FoundInv ==
  ASSUME VmTypeOK, AgentInv, queue # <<>>, NEW answer \in Answer,
         AgentDoes(Head(queue), answer), queue' = Tail(queue), late' = late,
         \A q \in Run : ~Talking(q), \A q \in Run : pc'[q] # "undo",
         \A q, r \in Run : Talking(q)' /\ Talking(r)' => q = r,
         \A q \in Run : pc'[q] # "freeze",
         \A q \in Run : QgaHolder(q)' <=> QgaHolder(q), thaw' = thaw
  PROVE  VmTypeOK' => AgentInv'
<1> USE DEF AgentInv
<1>1. \A S : Only(queue, S) => Head(queue) \in S /\ Only(queue', S)
  BY QueueTail DEF VmTypeOK
<1>2. OwnerInv'
  <2> SUFFICES ASSUME ~late, NEW r \in Run, QgaHolder(r)
               PROVE  fs' = "frozen" /\ (\A q \in Run : QgaHolder(q) => q = r)
                      /\ Only(queue', {"ping"})
    BY DEF OwnerInv
  <2>1. fs = "frozen" /\ Only(queue, {"ping"}) /\ \A q \in Run : QgaHolder(q) => q = r
    BY DEF OwnerInv
  <2>2. Head(queue) \in {"ping"} /\ Only(queue', {"ping"})
    BY <1>1, <2>1
  <2> QED BY <2>1, <2>2, AgentFacts
<1>3. LateInv'
  BY <1>1 DEF LateInv
<1>4. FrozenInv'
  <2> SUFFICES ASSUME ~late, fs' = "frozen"
               PROVE  \E r \in Run : QgaHolder(r) \/ thaw[r] = "failed"
    BY DEF FrozenInv
  <2>1. Head(queue) \in {"ping", "thaw"}
    BY <1>1 DEF LateInv
  <2>2. fs = "frozen"
    BY <2>1, AgentFacts
  <2> QED BY <2>2 DEF FrozenInv
<1>5. TalkInv' /\ FreezeInv' /\ UndoInv'
  BY DEF TalkInv, FreezeInv, UndoInv
<1> QED BY <1>2, <1>3, <1>4, <1>5

-----------------------------------------------------------------------------
\* Nothing stands still before the runs start.
LEMMA InitParInv == ParInit => ParInv
<1> SUFFICES ASSUME ParInit PROVE ParInv
  OBVIOUS
<1> USE DEF ParInit
<1>1. \A r \in Run : Len(chain[r]) \in Nat
  BY ChainsAssumption, LenProperties
<1>2. queue \in Seq(Commands) /\ Len(queue) = 0
  BY EmptySeq
<1>3. ASSUME NEW r \in Run PROVE step[r] \in 1..(Len(chain[r]) + 1)
  <2>1. step[r] = 1 /\ Len(chain[r]) + 1 >= 1
    BY <1>1
  <2> QED BY <1>1, <2>1
<1>4. VmTypeOK /\ CallInv
  BY <1>2, <1>3 DEF VmTypeOK, CallInv, Talking
<1>5. AgentInv /\ PausedInv
  BY <1>2 DEF AgentInv, TalkInv, OwnerInv, FreezeInv, UndoInv, LateInv, FrozenInv,
     PausedInv, QgaHolder, Talking, Only
<1> QED BY <1>4, <1>5 DEF ParInv

\* guest-ping keeps the invariant, answered by whatever or not: nothing is held yet.
LEMMA PingInv ==
  ASSUME NEW r \in Run, ParInv, Ping(r)
  PROVE  ParInv'
<1> USE DEF ParInv
<1>0. pc[r] = "step" /\ step[r] <= Len(chain[r]) /\ UNCHANGED <<cpu, late, misread>>
  BY DEF Ping, Trying
<1>1. CASE Free /\ queue = <<>> /\ UNCHANGED <<fs, queue>>
           /\ pc' = [pc EXCEPT ![r] = "freeze"] /\ UNCHANGED <<chain, step, strategy, thaw>>
  <2>1. /\ CallInv' /\ thaw' = thaw
        /\ \A q \in Run : QgaHolder(q)' <=> QgaHolder(q)
        /\ \A q \in Run : PauseHolder(q)' <=> PauseHolder(q)
        /\ pc'[r] = "freeze" /\ \A q \in Run \ {r} : pc'[q] = pc[q]
    BY <1>0, <1>1, TalkFacts
  <2>2. \A q \in Run : Talking(q)' => q = r
    BY <1>1, <2>1 DEF Free, Talking
  <2>3. Only(queue, {"ping"})
    BY <1>1, EmptySeq DEF Only
  <2>4. AgentInv'
    BY <1>0, <1>1, <2>1, <2>2, <2>3
       DEF AgentInv, TalkInv, OwnerInv, FreezeInv, UndoInv, LateInv, FrozenInv, Talking
  <2> QED BY <1>0, <1>1, <2>1, <2>4 DEF VmTypeOK, PausedInv
<1>2. ASSUME NEW a \in Answer, Free, queue # <<>>, AgentDoes(Head(queue), a),
             queue' = Tail(queue), pc' = [pc EXCEPT ![r] = "misled"],
             UNCHANGED <<chain, step, strategy, thaw>>
      PROVE  ParInv'
  <2>1. /\ CallInv' /\ thaw' = thaw
        /\ \A q \in Run : QgaHolder(q)' <=> QgaHolder(q)
        /\ \A q \in Run : PauseHolder(q)' <=> PauseHolder(q)
        /\ pc'[r] = "misled" /\ \A q \in Run \ {r} : pc'[q] = pc[q]
    BY <1>0, <1>2, TalkFacts
  <2>2. \A q \in Run : ~Talking(q)
    BY <1>2 DEF Free, Talking
  <2>3. \A q \in Run : (Talking(q)' => q = r) /\ pc'[q] # "freeze" /\ pc'[q] # "undo"
    BY <2>1, <2>2 DEF Talking
  <2>4. VmTypeOK'
    BY <1>0, <1>2, QueueTail, AgentFacts DEF VmTypeOK
  <2>5. AgentInv'
    BY <1>0, <1>2, <2>1, <2>2, <2>3, <2>4, FoundInv
  <2> QED BY <1>0, <2>1, <2>4, <2>5 DEF PausedInv
<1>3. CASE NextStep(r) /\ queue' \in {queue, Append(queue, "ping")} /\ UNCHANGED fs
  <2>1. /\ CallInv' /\ thaw' = thaw
        /\ \A q \in Run : QgaHolder(q)' <=> QgaHolder(q)
        /\ \A q \in Run : PauseHolder(q)' <=> PauseHolder(q)
        /\ pc'[r] = "step" /\ \A q \in Run \ {r} : pc'[q] = pc[q]
    BY <1>0, <1>3, NextStepFacts
  <2>2. VmTypeOK'
    BY <1>0, <1>3, QueueAppend DEF VmTypeOK, Commands
  <2>3. \A q \in Run : Talking(q)' => pc'[q] = pc[q]
    BY <2>1 DEF Talking
  <2>4. AgentInv'
    BY <1>0, <1>3, <2>1, <2>3, StillInv
  <2> QED BY <1>0, <2>1, <2>2, <2>4 DEF PausedInv
<1> QED BY <1>1, <1>2, <1>3 DEF Ping

\* guest-fsfreeze-freeze keeps it: it succeeds on a running filesystem, which
\* nobody owns and no queued thaw can reach; given up, it is one that is late.
LEMMA FreezeStepInv ==
  ASSUME NEW r \in Run, ParInv, Freeze(r)
  PROVE  ParInv'
<1> USE DEF ParInv
<1>0. /\ pc[r] = "freeze" /\ Talking(r) /\ step[r] <= Len(chain[r])
      /\ UNCHANGED <<cpu, misread>>
  BY DEF Freeze, CallInv, Talking
<1>1. ASSUME AgentDoes("freeze", "some"), Held(r, "qga"), UNCHANGED <<queue, late>>
      PROVE  ParInv'
  <2>1. fs = "running" /\ fs' = "frozen"
    BY <1>1, AgentFacts DEF Answer
  <2>2. /\ CallInv' /\ thaw' = thaw
        /\ QgaHolder(r)' /\ \A q \in Run \ {r} : QgaHolder(q)' <=> QgaHolder(q)
        /\ \A q \in Run : PauseHolder(q)' <=> PauseHolder(q)
        /\ pc'[r] = "zfs" /\ \A q \in Run \ {r} : pc'[q] = pc[q]
    BY <1>0, <1>1, HeldFacts
  <2>3. \A q \in Run : ~Talking(q)'
    BY <1>0, <2>2 DEF AgentInv, TalkInv, Talking
  <2>4. ~late => Only(queue, {"ping"}) /\ \A q \in Run : ~QgaHolder(q)
    BY <1>0, <2>1 DEF AgentInv, FreezeInv, OwnerInv
  <2>5. TalkInv' /\ FreezeInv' /\ UndoInv'
    BY <2>3 DEF TalkInv, FreezeInv, UndoInv, Talking
  <2>6. OwnerInv'
    BY <1>1, <2>1, <2>2, <2>4 DEF OwnerInv
  <2>7. LateInv' /\ FrozenInv'
    BY <1>1, <2>2 DEF AgentInv, LateInv, FrozenInv
  <2> QED BY <1>0, <1>1, <2>1, <2>2, <2>5, <2>6, <2>7 DEF AgentInv, VmTypeOK, PausedInv
<1>2. ASSUME AgentDoes("freeze", "none"), UNCHANGED <<queue, late>>,
             pc' = [pc EXCEPT ![r] = "undo"], UNCHANGED <<chain, step, strategy, thaw>>
      PROVE  ParInv'
  <2>1. fs = "running" /\ fs' = "running"
    BY <1>2, AgentFacts DEF Answer
  <2>2. /\ CallInv' /\ thaw' = thaw
        /\ \A q \in Run : QgaHolder(q)' <=> QgaHolder(q)
        /\ \A q \in Run : PauseHolder(q)' <=> PauseHolder(q)
        /\ pc'[r] = "undo" /\ \A q \in Run \ {r} : pc'[q] = pc[q]
    BY <1>0, <1>2, TalkFacts
  <2>3. \A q \in Run : (Talking(q)' => Talking(q)) /\ (Talking(q)' => q = r)
    BY <1>0, <2>2 DEF AgentInv, TalkInv, Talking
  <2>4. ~late => \A q \in Run : ~QgaHolder(q)
    BY <2>1 DEF AgentInv, OwnerInv
  <2>5. TalkInv' /\ FreezeInv' /\ UndoInv'
    BY <1>2, <2>2, <2>3, <2>4 DEF TalkInv, FreezeInv, UndoInv, Talking
  <2>6. OwnerInv' /\ LateInv' /\ FrozenInv'
    BY <1>2, <2>1, <2>2 DEF AgentInv, OwnerInv, LateInv, FrozenInv
  <2> QED BY <1>0, <1>2, <2>1, <2>2, <2>5, <2>6 DEF AgentInv, VmTypeOK, PausedInv
<1>3. ASSUME NextStep(r) PROVE
        /\ CallInv' /\ thaw' = thaw
        /\ \A q \in Run : QgaHolder(q)' <=> QgaHolder(q)
        /\ \A q \in Run : PauseHolder(q)' <=> PauseHolder(q)
        /\ \A q \in Run : Talking(q)' => pc'[q] = pc[q] /\ Talking(q)
  BY <1>0, <1>3, NextStepFacts DEF Talking
<1>4. ASSUME AgentDoes("freeze", "error"), NextStep(r), UNCHANGED <<queue, late>>
      PROVE  ParInv'
  <2>1. fs' = fs
    BY <1>4, AgentFacts DEF Answer
  <2>2. AgentInv'
    BY <1>3, <1>4, <2>1, StillInv
  <2> QED BY <1>0, <1>3, <1>4, <2>1, <2>2 DEF VmTypeOK, PausedInv
<1>5. ASSUME queue' = Append(queue, "freeze"), late' = TRUE, NextStep(r), UNCHANGED fs
      PROVE  ParInv'
  <2>1. VmTypeOK'
    BY <1>0, <1>5, QueueAppend DEF VmTypeOK, Commands
  <2>2. AgentInv'
    BY <1>3, <1>5, LateAgentInv
  <2> QED BY <1>3, <1>5, <2>1, <2>2 DEF PausedInv
<1> QED BY <1>1, <1>2, <1>4, <1>5 DEF Freeze, FreezeAnswered

\* After a stale answer to the ping it keeps it: the freeze is late in any case.
LEMMA FreezeMisledInv ==
  ASSUME NEW r \in Run, ParInv, FreezeMisled(r)
  PROVE  ParInv'
<1> USE DEF ParInv
<1>0. /\ pc[r] = "misled" /\ Talking(r) /\ step[r] <= Len(chain[r])
      /\ UNCHANGED <<cpu, misread>> /\ late' = TRUE
  BY DEF FreezeMisled, CallInv, Talking
<1>1. VmTypeOK'
  <2>1. ASSUME NEW a \in Answer, queue # <<>>, AgentDoes(Head(queue), a),
               queue' = Append(Tail(queue), "freeze")
        PROVE  VmTypeOK'
    <3>1. Tail(queue) \in Seq(Commands)
      BY <2>1, QueueTail DEF VmTypeOK
    <3>2. queue' \in Seq(Commands)
      BY <2>1, <3>1, QueueAppend DEF Commands
    <3> QED BY <1>0, <2>1, <3>2, AgentFacts DEF VmTypeOK
  <2>2. CASE queue' = Append(queue, "freeze") /\ UNCHANGED fs
    BY <1>0, <2>2, QueueAppend DEF VmTypeOK, Commands
  <2> QED BY <2>1, <2>2 DEF FreezeMisled
<1>2. /\ CallInv'
      /\ \A q \in Run : Talking(q)' => Talking(q)
  <2>1. CASE NextStep(r)
    BY <1>0, <2>1, NextStepFacts DEF Talking
  <2>2. CASE Held(r, "qga")
    BY <1>0, <2>2, HeldFacts DEF Talking
  <2>3. CASE pc' = [pc EXCEPT ![r] = "undo"] /\ UNCHANGED <<chain, step, strategy, thaw>>
    BY <1>0, <2>3, TalkFacts DEF Talking
  <2> QED BY <2>1, <2>2, <2>3 DEF FreezeMisled, FreezeAnswered
<1> QED BY <1>0, <1>1, <1>2, LateAgentInv DEF PausedInv

\* The thaw after "froze 0" keeps it: nobody holds a freeze then.
LEMMA UndoStepInv ==
  ASSUME NEW r \in Run, ParInv, Undo(r)
  PROVE  ParInv'
<1> USE DEF ParInv
<1>0. /\ pc[r] = "undo" /\ Talking(r) /\ step[r] <= Len(chain[r]) /\ NextStep(r)
      /\ UNCHANGED <<cpu, late, misread>>
  BY DEF Undo, CallInv, Talking
<1>1. /\ CallInv' /\ thaw' = thaw
      /\ \A q \in Run : QgaHolder(q)' <=> QgaHolder(q)
      /\ \A q \in Run : PauseHolder(q)' <=> PauseHolder(q)
      /\ pc'[r] = "step" /\ \A q \in Run \ {r} : pc'[q] = pc[q]
  BY <1>0, NextStepFacts
<1>2. /\ fs' \in {"running", "frozen"} /\ (fs' = fs \/ fs' = "running")
      /\ queue' \in {queue, Append(queue, "thaw")}
  <2>1. ASSUME NEW a \in Answer, AgentDoes("thaw", a)
        PROVE  fs' \in {"running", "frozen"} /\ (fs' = fs \/ fs' = "running")
    BY <2>1, AgentFacts
  <2> QED BY <2>1 DEF Undo, VmTypeOK
<1>3. \A q \in Run : ~Talking(q)'
  BY <1>0, <1>1 DEF AgentInv, TalkInv, Talking
<1>4. VmTypeOK'
  BY <1>0, <1>2, QueueAppend DEF VmTypeOK, Commands
<1>5. TalkInv' /\ FreezeInv' /\ UndoInv'
  BY <1>3 DEF TalkInv, FreezeInv, UndoInv, Talking
<1>6. OwnerInv'
  BY <1>0, <1>1 DEF AgentInv, UndoInv, OwnerInv
<1>7. LateInv' /\ FrozenInv'
  <2>1. Only(queue, {"ping", "thaw"}) => Only(queue', {"ping", "thaw"})
    BY <1>2, QueueAppend DEF VmTypeOK, Commands
  <2> QED BY <1>0, <1>1, <1>2, <2>1 DEF AgentInv, LateInv, FrozenInv
<1> QED BY <1>0, <1>1, <1>4, <1>5, <1>6, <1>7 DEF AgentInv, PausedInv

\* QMP stop keeps it: who pauses the VM is a holder of the pause, or is late.
LEMMA PauseStepInv ==
  ASSUME NEW r \in Run, ParInv, Pause(r)
  PROVE  ParInv'
<1> USE DEF ParInv
<1>0. pc[r] = "step" /\ step[r] <= Len(chain[r]) /\ UNCHANGED <<fs, queue, misread>>
  BY DEF Pause, Trying
<1>1. CASE cpu' \in {cpu, "paused"} /\ Held(r, "qmp-pause") /\ UNCHANGED late
  <2>1. /\ CallInv' /\ thaw' = thaw
        /\ \A q \in Run : QgaHolder(q)' <=> QgaHolder(q)
        /\ \A q \in Run : PauseHolder(q)' <=> (PauseHolder(q) \/ q = r)
        /\ \A q \in Run : Talking(q)' => pc'[q] = pc[q]
    BY <1>0, <1>1, HeldFacts DEF Talking
  <2>2. AgentInv'
    BY <1>0, <1>1, <2>1, StillInv
  <2> QED BY <1>0, <1>1, <2>1, <2>2 DEF VmTypeOK, PausedInv
<1>2. ASSUME NextStep(r) PROVE
        /\ CallInv' /\ thaw' = thaw
        /\ \A q \in Run : QgaHolder(q)' <=> QgaHolder(q)
        /\ \A q \in Run : PauseHolder(q)' <=> PauseHolder(q)
        /\ \A q \in Run : Talking(q)' => pc'[q] = pc[q] /\ Talking(q)
  BY <1>0, <1>2, NextStepFacts DEF Talking
<1>3. CASE NextStep(r) /\ UNCHANGED <<cpu, late>>
  <2>1. AgentInv'
    BY <1>0, <1>2, <1>3, StillInv
  <2> QED BY <1>0, <1>2, <1>3, <2>1 DEF VmTypeOK, PausedInv
<1>4. CASE NextStep(r) /\ cpu' = "paused" /\ late' = TRUE
  <2>1. AgentInv'
    BY <1>2, <1>4, LateAgentInv
  <2> QED BY <1>0, <1>2, <1>4, <2>1 DEF VmTypeOK, PausedInv
<1> QED BY <1>1, <1>3, <1>4 DEF Pause

\* A chain that is used up keeps it: its run holds nothing.
LEMMA NoStepLeftInv ==
  ASSUME NEW r \in Run, ParInv, NoStepLeft(r)
  PROVE  ParInv'
<1> USE DEF ParInv
<1>1. pc[r] = "step" /\ Held(r, "none") /\ UNCHANGED <<fs, cpu, queue, late, misread>>
  BY DEF NoStepLeft
<1>2. /\ CallInv' /\ thaw' = thaw
      /\ \A q \in Run : QgaHolder(q)' <=> QgaHolder(q)
      /\ \A q \in Run : PauseHolder(q)' <=> PauseHolder(q)
      /\ \A q \in Run : Talking(q)' => pc'[q] = pc[q]
  BY <1>1, HeldFacts DEF Talking
<1>3. AgentInv'
  BY <1>1, <1>2, StillInv
<1> QED BY <1>1, <1>2, <1>3 DEF VmTypeOK, PausedInv

\* The ZFS snapshot keeps it: a holder stays one until its thaw.
LEMMA ZfsSnapshotInv ==
  ASSUME NEW r \in Run, ParInv, ZfsSnapshot(r)
  PROVE  ParInv'
<1> USE DEF ParInv, ZfsSnapshot
<1>1. CallInv'
  BY DEF CallInv, Talking
<1>2. \A q \in Run : /\ (QgaHolder(q)' <=> QgaHolder(q))
                     /\ (PauseHolder(q)' <=> PauseHolder(q))
                     /\ (Talking(q)' => pc'[q] = pc[q])
  BY DEF CallInv, QgaHolder, PauseHolder, Talking
<1>3. AgentInv'
  BY <1>2, StillInv
<1> QED BY <1>1, <1>2, <1>3 DEF VmTypeOK, PausedInv

\* guest-fsfreeze-thaw keeps it: it is the owner's, so nobody holds the freeze
\* afterwards; with another command's error for answer it is reported as failed.
LEMMA ThawQgaInv ==
  ASSUME NEW r \in Run, ParInv, ThawQga(r)
  PROVE  ParInv'
<1> USE DEF ParInv
<1>0. pc[r] = "thaw" /\ QgaHolder(r) /\ ~PauseHolder(r) /\ UNCHANGED <<cpu, late, misread>>
  BY DEF ThawQga, QgaHolder, PauseHolder
<1>1. DEFINE found == Append(queue, "thaw")
<1>2. /\ found \in Seq(Commands) /\ found # <<>>
      /\ Only(queue, {"ping", "thaw"}) => Only(found, {"ping", "thaw"})
  BY QueueAppend DEF VmTypeOK, Commands
<1>3. ASSUME NEW said \in {"ok", "failed"}, Thawed(r, said)
      PROVE  /\ CallInv' /\ thaw'[r] = said
             /\ \A q \in Run : QgaHolder(q)' <=> (QgaHolder(q) /\ q # r)
             /\ \A q \in Run : PauseHolder(q)' <=> PauseHolder(q)
             /\ \A q \in Run : thaw[q] = "failed" => thaw'[q] = "failed"
             /\ \A q \in Run : (Talking(q)' <=> Talking(q)) /\ (Talking(q)' => pc'[q] = pc[q])
  BY <1>0, <1>3, ThawedFacts DEF Talking
<1>4. ASSUME NEW a \in Answer, Free, AgentDoes(Head(found), a), queue' = Tail(found),
             Thawed(r, IF a = "error" THEN "failed" ELSE "ok")
      PROVE  ParInv'
  <2>1. PICK said \in {"ok", "failed"} : Thawed(r, said) /\ (a = "error" <=> said = "failed")
    BY <1>4
  <2>2. \A q \in Run : ~Talking(q)'
    BY <1>3, <1>4, <2>1 DEF Free, Talking
  <2>3. VmTypeOK'
    BY <1>0, <1>2, <1>4, QueueTail, AgentFacts DEF VmTypeOK
  <2>4. TalkInv' /\ FreezeInv' /\ UndoInv'
    BY <2>2 DEF TalkInv, FreezeInv, UndoInv, Talking
  <2>5. OwnerInv'
    BY <1>0, <1>3, <2>1 DEF AgentInv, OwnerInv
  <2>6. ~late => Head(found) \in {"ping", "thaw"} /\ Only(queue', {"ping", "thaw"})
    BY <1>2, <1>4, QueueTail DEF AgentInv, LateInv
  <2>7. LateInv'
    BY <1>0, <2>6 DEF LateInv
  <2>8. FrozenInv'
    <3> SUFFICES ASSUME ~late, fs' = "frozen" PROVE thaw'[r] = "failed"
      BY <1>0 DEF FrozenInv
    <3>1. a = "error"
      BY <1>4, <2>6, AgentFacts
    <3> QED BY <1>3, <2>1, <3>1
  <2> QED BY <1>0, <1>3, <2>1, <2>3, <2>4, <2>5, <2>7, <2>8 DEF AgentInv, PausedInv
<1>5. CASE queue' = found /\ Thawed(r, "failed") /\ UNCHANGED fs
  <2>1. VmTypeOK'
    BY <1>0, <1>2, <1>5 DEF VmTypeOK
  <2>2. \A q \in Run : (Talking(q)' <=> Talking(q)) /\ (Talking(q)' => pc'[q] = pc[q])
    BY <1>3, <1>5
  <2>3. TalkInv' /\ OwnerInv' /\ UndoInv'
    <3>1. ~late => \A q \in Run : ~QgaHolder(q)'
      BY <1>0, <1>3, <1>5 DEF AgentInv, OwnerInv
    <3>2. TalkInv' /\ OwnerInv'
      BY <1>0, <2>2, <3>1 DEF AgentInv, TalkInv, OwnerInv
    <3>3. UndoInv'
      BY <1>0, <3>1 DEF UndoInv
    <3> QED BY <3>2, <3>3
  <2>4. FreezeInv'
    BY <1>0, <1>5 DEF AgentInv, OwnerInv, FreezeInv
  <2>5. LateInv' /\ FrozenInv'
    BY <1>0, <1>2, <1>3, <1>5 DEF AgentInv, LateInv, FrozenInv
  <2> QED BY <1>0, <1>3, <1>5, <2>1, <2>3, <2>4, <2>5 DEF AgentInv, PausedInv
<1> QED BY <1>4, <1>5 DEF ThawQga

\* QMP cont keeps it: the CPUs run, or the run has said that they may not, or an
\* event was taken for the answer.
LEMMA ThawQmpInv ==
  ASSUME NEW r \in Run, ParInv, ThawQmp(r)
  PROVE  ParInv'
<1> USE DEF ParInv
<1>0. pc[r] = "thaw" /\ PauseHolder(r) /\ ~QgaHolder(r) /\ UNCHANGED <<fs, queue, late>>
  BY DEF ThawQmp, PauseHolder, QgaHolder
<1>1. ASSUME NEW said \in {"ok", "failed"}, Thawed(r, said)
      PROVE  /\ CallInv' /\ AgentInv' /\ thaw'[r] = said
             /\ \A q \in Run : thaw[q] = "failed" => thaw'[q] = "failed"
  <2>1. /\ CallInv' /\ thaw'[r] = said
        /\ \A q \in Run : QgaHolder(q)' <=> QgaHolder(q)
        /\ \A q \in Run : thaw[q] = "failed" => thaw'[q] = "failed"
        /\ \A q \in Run : Talking(q)' => pc'[q] = pc[q]
    BY <1>0, <1>1, ThawedFacts DEF Talking
  <2>2. AgentInv'
    BY <1>0, <2>1, StillInv
  <2> QED BY <2>1, <2>2
<1>2. CASE cpu' = "running" /\ Thawed(r, "ok") /\ UNCHANGED misread
  BY <1>0, <1>1, <1>2 DEF VmTypeOK, PausedInv
<1>3. CASE cpu' \in {cpu, "running"} /\ Thawed(r, "failed") /\ UNCHANGED misread
  BY <1>0, <1>1, <1>3 DEF VmTypeOK, PausedInv
<1>4. CASE misread' = TRUE /\ Thawed(r, "ok") /\ UNCHANGED cpu
  BY <1>0, <1>1, <1>4 DEF VmTypeOK, PausedInv
<1> QED BY <1>2, <1>3, <1>4 DEF ThawQmp

\* A thaw with nothing to undo keeps it.
LEMMA NothingToThawInv ==
  ASSUME NEW r \in Run, ParInv, NothingToThaw(r)
  PROVE  ParInv'
<1> USE DEF ParInv
<1>0. /\ pc[r] = "thaw" /\ Thawed(r, "ok") /\ ~QgaHolder(r) /\ ~PauseHolder(r)
      /\ UNCHANGED <<fs, cpu, queue, late, misread>>
  BY DEF NothingToThaw, QgaHolder, PauseHolder
<1>1. /\ CallInv'
      /\ \A q \in Run : QgaHolder(q)' <=> QgaHolder(q)
      /\ \A q \in Run : PauseHolder(q)' <=> PauseHolder(q)
      /\ \A q \in Run : thaw[q] = "failed" => thaw'[q] = "failed"
      /\ \A q \in Run : Talking(q)' => pc'[q] = pc[q]
  BY <1>0, ThawedFacts DEF Talking
<1>2. AgentInv'
  BY <1>0, <1>1, StillInv
<1> QED BY <1>0, <1>1, <1>2 DEF VmTypeOK, PausedInv

\* The agent that catches up keeps it.
LEMMA AgentCatchesUpInv ==
  ASSUME ParInv, AgentCatchesUp
  PROVE  ParInv'
<1> USE DEF ParInv, AgentCatchesUp, callVars
<1>1. PICK a \in Answer : AgentDoes(Head(queue), a)
  OBVIOUS
<1>2. VmTypeOK'
  BY <1>1, QueueTail, AgentFacts DEF VmTypeOK
<1>3. CallInv'
  BY DEF CallInv, Talking
<1>4. \A q \in Run : (QgaHolder(q)' <=> QgaHolder(q)) /\ (PauseHolder(q)' <=> PauseHolder(q))
  BY DEF QgaHolder, PauseHolder
<1>5. \A q \in Run : ~Talking(q) /\ ~Talking(q)' /\ pc'[q] \notin {"freeze", "undo"}
  BY DEF Free, Talking
<1>6. AgentInv'
  BY <1>1, <1>2, <1>4, <1>5, FoundInv
<1> QED BY <1>2, <1>3, <1>4, <1>6 DEF PausedInv

\* Every step of a run or of the agent keeps the invariant.
LEMMA NextParInv == ParInv /\ [ParNext]_parVars => ParInv'
<1> SUFFICES ASSUME ParInv, [ParNext]_parVars PROVE ParInv'
  OBVIOUS
<1>1. ASSUME NEW r \in Run,
             \/ Ping(r) \/ Freeze(r) \/ FreezeMisled(r) \/ Undo(r)
             \/ Pause(r) \/ NoStepLeft(r) \/ ZfsSnapshot(r)
             \/ ThawQga(r) \/ ThawQmp(r) \/ NothingToThaw(r)
      PROVE  ParInv'
  BY <1>1, PingInv, FreezeStepInv, FreezeMisledInv, UndoStepInv, PauseStepInv,
     NoStepLeftInv, ZfsSnapshotInv, ThawQgaInv, ThawQmpInv, NothingToThawInv
<1>2. CASE AgentCatchesUp
  BY <1>2, AgentCatchesUpInv
<1>3. CASE UNCHANGED parVars
  BY <1>3 DEF parVars, callVars, ParInv, VmTypeOK, CallInv, AgentInv, TalkInv, OwnerInv,
     FreezeInv, UndoInv, LateInv, FrozenInv, PausedInv, QgaHolder, PauseHolder, Talking, Only
<1> QED BY <1>1, <1>2, <1>3 DEF ParNext

-----------------------------------------------------------------------------
\* Parallel runs on one VM keep the inductive invariant.
THEOREM ParInvariant == ParSpec => []ParInv
BY InitParInv, NextParInv, PTL DEF ParSpec

\* Every variable of the runs and of their VM keeps its type.
THEOREM ParTypeCorrect == ParSpec => []ParTypeOK
<1>1. ParInv => ParTypeOK
  BY DEF ParInv, VmTypeOK, CallInv, ParTypeOK, Commands
<1> QED BY <1>1, ParInvariant, PTL

\* A freeze through the agent lasts until the thaw of the run that made it, if no
\* freeze or stop came too late.
THEOREM FreezeIsOwned == ParSpec => []QgaFreezeIsOwned
<1>1. ParInv => QgaFreezeIsOwned
  BY DEF ParInv, AgentInv, OwnerInv, QgaHolder, QgaFreezeIsOwned
<1> QED BY <1>1, ParInvariant, PTL

\* Runs that all report a successful thaw leave a running VM, if no command came too
\* late and no event was taken for cont's answer.
THEOREM AllThawedMeansRunning == ParSpec => []TogetherTheyThaw
<1>1. ParInv => TogetherTheyThaw
  <2> SUFFICES ASSUME ParInv, ~late, ~misread,
                      \A r \in Run : pc[r] = "done" /\ thaw[r] = "ok"
               PROVE  fs = "running" /\ cpu = "running"
    BY DEF TogetherTheyThaw
  <2>1. \A r \in Run : ~QgaHolder(r) /\ ~PauseHolder(r) /\ thaw[r] # "failed"
    BY DEF QgaHolder, PauseHolder
  <2> QED BY <2>1 DEF ParInv, AgentInv, VmTypeOK, FrozenInv, PausedInv
<1> QED BY <1>1, ParInvariant, PTL
=============================================================================
