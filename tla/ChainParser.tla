---------------------------- MODULE ChainParser ----------------------------
(***************************************************************************)
(* freezer/policy.go, ParseChain and Chain.String: the loop over the       *)
(* tokens of a chain, and the text form it is given back in.  A token is a *)
(* record; splitting at commas, spaces, case and brackets are left out.    *)
(***************************************************************************)
EXTENDS Naturals, Sequences, FiniteSets

CONSTANTS Token,     \* the tokens to read
          MaxTokens  \* bound on their number

\* A token is empty, a number of seconds, or a name with an optional timeout:
\* none, seconds, or a number that is not in 1..86400.
NoTime     == 0
MaxSeconds == 86400

ASSUME ChainParserConstants ==
  /\ MaxTokens \in Nat
  /\ \A t \in Token : /\ t.kind \in {"blank", "seconds", "step"}
                      /\ t.kind = "seconds" => t.time \in 1..MaxSeconds
                      /\ t.kind = "step" => t.time \in Nat

VARIABLES
  read,     \* the tokens read so far
  scan,     \* the loop's variables: the chain, seen, and whether an error ended it
  verdict   \* what ParseChain returned: "reading", "ok" or "error"

chainVars == <<read, scan, verdict>>

Kinds     == {"freeze", "memory", "plain", "pause", "zfs"}
EmptyScan == [steps |-> <<>>, zfs |-> FALSE, timeout |-> NoTime, seen |-> {},
              bad |-> FALSE]

\* quiesce and mem are aliases.
Canonical(name) == CASE name = "quiesce" -> "freeze"
                     [] name = "mem"     -> "memory"
                     [] OTHER            -> name

\* Faulty: the alias is resolved after the check for duplicates.
StepTokenLateAlias(s, t) ==
  IF t.time > MaxSeconds \/ Canonical(t.name) \notin Kinds \/ t.name \in s.seen \/ s.zfs
  THEN [s EXCEPT !.bad = TRUE]
  ELSE IF t.name = "zfs" THEN [s EXCEPT !.seen = @ \cup {"zfs"}, !.zfs = TRUE]
  ELSE [s EXCEPT !.seen = @ \cup {t.name},
                 !.steps = Append(@, [kind |-> Canonical(t.name), time |-> t.time])]

\* One step: known, not seen before, not after zfs; a timeout of zfs is dropped.
StepToken(s, t) ==
  LET name == Canonical(t.name)
  IN IF t.time > MaxSeconds \/ name \notin Kinds \/ name \in s.seen \/ s.zfs
     THEN [s EXCEPT !.bad = TRUE]
     ELSE IF name = "zfs" THEN [s EXCEPT !.seen = @ \cup {name}, !.zfs = TRUE]
     ELSE [s EXCEPT !.seen = @ \cup {name},
                    !.steps = Append(@, [kind |-> name, time |-> t.time])]

\* The loop's body; an error has returned already.
Scan(s, t) ==
  IF s.bad \/ t.kind = "blank" THEN s
  ELSE IF t.kind = "seconds"
       THEN IF s.timeout # NoTime THEN [s EXCEPT !.bad = TRUE]
                                  ELSE [s EXCEPT !.timeout = t.time]
       ELSE StepToken(s, t)

\* The loop over a text: what it knows after each token.
Scans(text) ==
  LET s[i \in 0..Len(text)] == IF i = 0 THEN EmptyScan ELSE Scan(s[i - 1], text[i])
  IN  s

\* A chain without steps is an error.
Accepts(s) == ~s.bad /\ (s.steps # <<>> \/ s.zfs)

ChainOf(s) == [steps |-> s.steps, zfs |-> s.zfs, timeout |-> s.timeout]

StepsText(c) ==
  [i \in 1..Len(c.steps) |->
     [kind |-> "step", name |-> c.steps[i].kind, time |-> c.steps[i].time]]

\* Faulty: the chain's own timeout is not written.
TextOfNoTimeout(c) ==
  StepsText(c)
    \o (IF c.zfs THEN <<[kind |-> "step", name |-> "zfs", time |-> NoTime]>> ELSE <<>>)

\* Chain.String.
TextOf(c) ==
  StepsText(c)
    \o (IF c.zfs THEN <<[kind |-> "step", name |-> "zfs", time |-> NoTime]>> ELSE <<>>)
    \o (IF c.timeout # NoTime THEN <<[kind |-> "seconds", time |-> c.timeout]>> ELSE <<>>)

ChainInit == read = <<>> /\ scan = EmptyScan /\ verdict = "reading"

ReadToken(t) ==
  /\ verdict = "reading" /\ Len(read) < MaxTokens
  /\ read' = Append(read, t)
  /\ scan' = Scan(scan, t)
  /\ UNCHANGED verdict

EndOfText ==
  /\ verdict = "reading"
  /\ verdict' = IF Accepts(scan) THEN "ok" ELSE "error"
  /\ UNCHANGED <<read, scan>>

ChainNext == EndOfText \/ \E t \in Token : ReadToken(t)

ChainSpec == ChainInit /\ [][ChainNext]_chainVars

-----------------------------------------------------------------------------
(* The language of chains, as README.md:102-124 describes it. *)

StepsIn(text)   == {i \in 1..Len(text) : text[i].kind = "step"}
SecondsIn(text) == {i \in 1..Len(text) : text[i].kind = "seconds"}
NameAt(text, i) == Canonical(text[i].name)

\* Known steps, each there once, zfs last, and one timeout for all of them.
WellOrdered(text) ==
  /\ \A i, j \in SecondsIn(text) : i = j
  /\ \A i \in StepsIn(text) :
       /\ NameAt(text, i) \in Kinds /\ text[i].time <= MaxSeconds
       /\ \A j \in StepsIn(text) : NameAt(text, j) = NameAt(text, i) => i = j
       /\ NameAt(text, i) = "zfs" => \A j \in StepsIn(text) : j <= i

WellFormed(text) == StepsIn(text) # {} /\ WellOrdered(text)

\* The steps before zfs as they were written.
Freezing(text) == {i \in StepsIn(text) : NameAt(text, i) # "zfs"}

InOrder(text, steps, at) ==
  /\ at \in [1..Len(steps) -> Freezing(text)]
  /\ \A i \in Freezing(text) : \E k \in 1..Len(steps) : at[k] = i
  /\ \A j, k \in 1..Len(steps) : j < k => at[j] < at[k]
  /\ \A k \in 1..Len(steps) :
       steps[k] = [kind |-> NameAt(text, at[k]), time |-> text[at[k]].time]

\* The chain c is what the text says.
Means(text, c) ==
  /\ \E at \in [1..Len(c.steps) -> Freezing(text)] : InOrder(text, c.steps, at)
  /\ c.zfs <=> \E i \in StepsIn(text) : NameAt(text, i) = "zfs"
  /\ SecondsIn(text) = {} => c.timeout = NoTime
  /\ \A i \in SecondsIn(text) : c.timeout = text[i].time

\* The one-pass loop accepts exactly the chains the README describes - each step
\* once, under whichever of its names, zfs last, one default timeout anywhere -
\* and makes of them what was written.
ParsesTheLanguage ==
  verdict # "reading" =>
    /\ verdict = "ok" <=> WellFormed(read)
    /\ verdict = "ok" => Means(read, ChainOf(scan))

\* guests[].chain can be given back to --policy: the text form of a chain that
\* was accepted is accepted and is the same chain.
TextFormIsTheChain ==
  verdict = "ok" =>
    LET text  == TextOf(ChainOf(scan))
        again == Scans(text)[Len(text)]
    IN  Accepts(again) /\ ChainOf(again) = ChainOf(scan)
=============================================================================
