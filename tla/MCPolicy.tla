------------------------------ MODULE MCPolicy ------------------------------
(* ParseChain and loadPolicy for TLC.  They share no state, a chain in a     *)
(* line of Policy is a number: in a behaviour one of them runs and the other *)
(* stays where it began.                                                     *)
EXTENDS ChainParser, Policy

CONSTANTS v1, v2

ASSUME TwoGuests == Vm = {v1, v2}   \* v2 has no line of its own

\* One token of every kind that the loop of ParseChain distinguishes.
StepFor(n, t) == [kind |-> "step", name |-> n, time |-> t]

Tokens ==
  {[kind |-> "blank"]}
    \cup {[kind |-> "seconds", time |-> s] : s \in {30, 60}}
    \cup {StepFor("freeze", NoTime), StepFor("quiesce", 10), StepFor("memory", 20),
          StepFor("mem", NoTime), StepFor("zfs", NoTime), StepFor("zfs", 5),
          StepFor("plain", MaxSeconds + 1), StepFor("bogus", NoTime)}

\* Two chains, of which 1 is also that of --mode.  Lines of another server and
\* lines that cannot be read need one value.
Plain(l) == l.value = 1 \/ (l.ok /\ l.host # "other")

ChainLines   == {l \in Line : l.scope \in {v1, "star", "global"} /\ Plain(l)}
GapLines     == {l \in Line : l.ok /\ l.host # "other" /\ l.scope \in {v1, "global", "memkeep"}}

NothingParsed == read = <<>> /\ verdict = "reading"
NothingLoaded == stage = "cfg" /\ cfg = <<>>

EitherInit == ChainInit /\ PolicyInit

EitherNext ==
  \/ ChainNext /\ NothingLoaded /\ UNCHANGED policyVars
  \/ PolicyNext /\ NothingParsed /\ UNCHANGED chainVars

EitherSpec == EitherInit /\ [][EitherNext]_<<chainVars, policyVars>>
=============================================================================
