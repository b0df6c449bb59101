---------------------------- MODULE SnapPromise ----------------------------
(***************************************************************************)
(* What "snap" promises its caller, whatever the platform: guests are      *)
(* collected into a held set, at most one ZFS snapshot is attempted while  *)
(* all of them are held, and the run is over only when every one of them   *)
(* has been let go (main.go:1-4).  SnapRun and EsxiRun implement it.       *)
(***************************************************************************)
EXTENDS Naturals

CONSTANT Guest

VARIABLES
  stage,  \* collecting the guests, letting them go, or over
  held,   \* the guests that are frozen and not yet being thawed
  zfs     \* what became of the ZFS snapshot

promiseVars == <<stage, held, zfs>>

Init ==
  /\ stage = "hold"
  /\ held = {}
  /\ zfs = "none"

Hold(g) ==
  /\ stage = "hold"
  /\ held' = held \cup {g}
  /\ UNCHANGED <<stage, zfs>>

TakeSnapshot ==
  /\ stage = "hold"
  /\ zfs' \in {"taken", "failed"}
  /\ stage' = "release"
  /\ UNCHANGED held

GiveUp ==
  /\ stage = "hold"
  /\ stage' = "release"
  /\ UNCHANGED <<held, zfs>>

Release(g) ==
  /\ stage = "release"
  /\ g \in held
  /\ held' = held \ {g}
  /\ UNCHANGED <<stage, zfs>>

End ==
  /\ stage = "release"
  /\ held = {}
  /\ stage' = "over"
  /\ UNCHANGED <<held, zfs>>

Next ==
  \/ \E g \in Guest : Hold(g) \/ Release(g)
  \/ TakeSnapshot
  \/ GiveUp
  \/ End

Spec == Init /\ [][Next]_promiseVars
=============================================================================
