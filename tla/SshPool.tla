------------------------------ MODULE SshPool -------------------------------
(***************************************************************************)
(* The sessions of one ssh connection (esxi/ssh.go, sshTransport.run): a   *)
(* call takes one of a few slots, opens a session in it and runs its       *)
(* command.  Waiting for the slot and for the command ends with the call's *)
(* context; NewSession takes no context, so a call that has its slot waits *)
(* for the host's answer however long that takes.                          *)
(***************************************************************************)
EXTENDS Naturals, FiniteSets

CONSTANTS Caller,       \* the goroutines that use the connection, one call each
          MaxSessions   \* sshMaxSessions

VARIABLE channel   \* per caller: "none", "opening" or "answered", the last two with a slot

PoolInit == channel = [c \in Caller |-> "none"]

HoldsSlot(c) == channel[c] # "none"

\* The semaphore has room.  A call whose context ends first sends nothing.
TakeSlot(c) ==
  /\ channel[c] = "none"
  /\ Cardinality({o \in Caller : HoldsSlot(o)}) < MaxSessions
  /\ channel' = [channel EXCEPT ![c] = "opening"]

\* The host answers the request for a session, with a session or with an error.
HostAnswers(c) ==
  /\ channel[c] = "opening"
  /\ channel' = [channel EXCEPT ![c] = "answered"]

\* The deferred release, on every return of run.
GiveBack(c) == channel' = [channel EXCEPT ![c] = "none"]

PoolTypeOK == channel \in [Caller -> {"none", "opening", "answered"}]
=============================================================================
