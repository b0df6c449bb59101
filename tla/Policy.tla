------------------------------- MODULE Policy -------------------------------
(***************************************************************************)
(* freezer/policy.go and loadPolicy (esxicmd.go): which chain applies to a *)
(* guest.  The lines of the cfg file are read, then those of the --policy  *)
(* flags, the two are merged, --mode overrides, and Freeze asks For.       *)
(* A chain or memkeep value is a number, ParseChain is in ChainParser.     *)
(***************************************************************************)
EXTENDS Naturals, Sequences, SequencesExt

CONSTANTS Vm,        \* VMIDs
          Values,    \* chains, and caps; 0 is a cap only
          Lines,     \* the lines a cfg or a flag may have
          MaxLines   \* bound on the lines of the cfg and of the flags

\* A line: what it is for, the host in front of it, its value, and whether the
\* value can be read.
Line == {l \in [scope : Vm \cup {"global", "star", "memkeep"},
                host : {"none", "own", "other"}, value : Values, ok : BOOLEAN] :
           /\ l.scope = "global" => l.host = "none"
           /\ l.scope # "memkeep" => l.value # 0}

ASSUME PolicyConstants ==
  /\ Values \subseteq Nat /\ MaxLines \in Nat /\ Lines \subseteq Line
  /\ Vm \cap {"global", "star", "memkeep"} = {}

VARIABLES
  named,    \* the server's name is known (ESXi); Proxmox passes ""
  stage,    \* loadPolicy: reading the cfg, the flags, or done
  cfg,      \* the lines of the cfg file read so far
  flags,    \* the --policy lines read so far
  policy,   \* what parsePolicy has made of the cfg
  flagged,  \* what it has made of the flags
  mode,     \* the chain of --mode, 0 if it is not given
  current   \* currentPolicy: what SetPolicy installed

policyVars == <<named, stage, cfg, flags, policy, flagged, mode, current>>

\* 0 stands for nil, and for memkeep it is the value.
NoPolicy == [global |-> 0, star |-> 0, perVM |-> [v \in Vm |-> 0], override |-> 0,
             mkGlobal |-> 0, mkServer |-> 0, bad |-> FALSE]

\* Does a line count at all?  In a cfg IsPolicyLine wants "vm100=" where there
\* is no host, and there is no such form of "*"; a flag has no host.
Counts(l, isFlag) ==
  \/ l.host = "none" /\ (isFlag \/ l.scope # "star")
  \/ l.host = "own" /\ named /\ ~isFlag

\* Faulty: the first line for a VM stays.
ReadLineFirstWins(p, l, isFlag) ==
  IF p.bad \/ ~Counts(l, isFlag) THEN p
  ELSE IF ~l.ok THEN [p EXCEPT !.bad = TRUE]
  ELSE IF l.scope \in Vm
       THEN IF p.perVM[l.scope] # 0 THEN p ELSE [p EXCEPT !.perVM[l.scope] = l.value]
  ELSE IF l.scope = "global"    THEN [p EXCEPT !.global = l.value]
  ELSE IF l.scope = "star"      THEN [p EXCEPT !.star = l.value]
  ELSE IF l.host # "none" \/ isFlag THEN [p EXCEPT !.mkServer = l.value]
  ELSE [p EXCEPT !.mkGlobal = l.value]

\* The body of parsePolicy's loop; an error has returned already.
ReadLine(p, l, isFlag) ==
  IF p.bad \/ ~Counts(l, isFlag) THEN p
  ELSE IF ~l.ok THEN [p EXCEPT !.bad = TRUE]
  ELSE IF l.scope \in Vm        THEN [p EXCEPT !.perVM[l.scope] = l.value]
  ELSE IF l.scope = "global"    THEN [p EXCEPT !.global = l.value]
  ELSE IF l.scope = "star"      THEN [p EXCEPT !.star = l.value]
  ELSE IF l.host # "none" \/ isFlag THEN [p EXCEPT !.mkServer = l.value]
  ELSE [p EXCEPT !.mkGlobal = l.value]

\* Whatever o has wins over p.
Over(o, p) == IF o # 0 THEN o ELSE p

Merge(p, o) ==
  [global   |-> Over(o.global, p.global),
   star     |-> Over(o.star, p.star),
   perVM    |-> [v \in Vm |-> Over(o.perVM[v], p.perVM[v])],
   override |-> Over(o.override, p.override),
   mkGlobal |-> Over(o.mkGlobal, p.mkGlobal),
   mkServer |-> Over(o.mkServer, p.mkServer),
   bad      |-> FALSE]

\* 0: the built-in chain.
For(p, v) == Over(p.override, Over(p.perVM[v], Over(p.star, p.global)))

MemKeep(p) == Over(p.mkServer, p.mkGlobal)

PolicyInit ==
  /\ named \in BOOLEAN
  /\ stage = "cfg"
  /\ cfg = <<>> /\ flags = <<>>
  /\ policy = NoPolicy /\ flagged = NoPolicy
  /\ mode \in {0, 1}
  /\ current = NoPolicy

ReadCfg(l) ==
  /\ stage = "cfg" /\ Len(cfg) < MaxLines
  /\ cfg' = Append(cfg, l)
  /\ policy' = ReadLine(policy, l, FALSE)
  /\ UNCHANGED <<named, stage, flags, flagged, mode, current>>

EndOfCfg ==
  /\ stage = "cfg"
  /\ stage' = IF policy.bad THEN "error" ELSE "flags"
  /\ UNCHANGED <<named, cfg, flags, policy, flagged, mode, current>>

ReadFlag(l) ==
  /\ stage = "flags" /\ Len(flags) < MaxLines
  /\ flags' = Append(flags, l)
  /\ flagged' = ReadLine(flagged, l, TRUE)
  /\ UNCHANGED <<named, stage, cfg, policy, mode, current>>

\* The end of loadPolicy; after an error SetPolicy is not called.
Install ==
  /\ stage = "flags"
  /\ IF flagged.bad
     THEN stage' = "error" /\ UNCHANGED current
     ELSE /\ stage' = "done"
          /\ current' = [Merge(policy, flagged) EXCEPT !.override = mode]
  /\ UNCHANGED <<named, cfg, flags, policy, flagged, mode>>

PolicyNext ==
  \/ \E l \in Lines : ReadCfg(l) \/ ReadFlag(l)
  \/ EndOfCfg
  \/ Install

PolicySpec == PolicyInit /\ [][PolicyNext]_policyVars

-----------------------------------------------------------------------------
(* The lines in the order in which they count, the weakest first. *)

Given == cfg \o flags

Effective == {i \in 1..Len(Given) : Counts(Given[i], i > Len(cfg))}

LinesFor(scope) == {i \in Effective : Given[i].scope = scope}

LastOf(lines) == Given[CHOOSE i \in lines : \A j \in lines : j <= i].value

ChainFor(v) ==
  IF mode # 0 THEN mode
  ELSE IF LinesFor(v) # {}        THEN LastOf(LinesFor(v))
  ELSE IF LinesFor("star") # {}   THEN LastOf(LinesFor("star"))
  ELSE IF LinesFor("global") # {} THEN LastOf(LinesFor("global"))
  ELSE 0

\* A guest's chain is --mode's, else that of the last line, flags after the cfg,
\* of the narrowest scope that has one: VM, then *, then global; and a line that
\* counts and cannot be read leaves no policy at all, while one of another server
\* does no harm.
ResolvesByScope ==
  /\ stage \in {"done", "error"} =>
       (stage = "error" <=> \E i \in Effective : ~Given[i].ok)
  /\ stage = "done" => \A v \in Vm : For(current, v) = ChainFor(v)
  /\ stage = "error" => current = NoPolicy

\* README.md:120-121 "Precedence (strongest first): --mode, --policy, host:vmid
\* line, host:* line, global": a guest some --policy line is for gets a chain
\* of the flags.
FlagsBeatCfg ==
  stage = "done" /\ mode = 0 =>
    \A v \in Vm : For(flagged, v) # 0 => For(current, v) = For(flagged, v)

\* The caps given for this server, weakest first.
ServerCaps ==
  SelectSeq(cfg, LAMBDA l : l.scope = "memkeep" /\ l.host = "own" /\ named) \o
  SelectSeq(flags, LAMBDA l : l.scope = "memkeep" /\ l.host = "none")

\* policy.go:212-213 "mkServer (host:memkeep=N, --policy) wins over mkGlobal",
\* where 0 is a value, "no cap" (README.md:184-185).
ServerMemKeepWins ==
  stage = "done" /\ ServerCaps # <<>> => MemKeep(current) = Last(ServerCaps).value
=============================================================================
