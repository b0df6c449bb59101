----------------------------- MODULE EsxiCommand -----------------------------
(***************************************************************************)
(* How snap and freeze get their VMs (runSnapESXi, runFreezeESXi of        *)
(* esxicmd.go up to FreezeAll): connect with the policy, then DiscoverNFS  *)
(* over the transport that came of it.  The two are modules of their own;  *)
(* discover and cleanup differ in that they load no policy.                *)
(***************************************************************************)
EXTENDS EsxiDiscovery, Sequences

CONSTANTS Text, Files, Envs, FlagSets, Offered   \* see EsxiConnect

ASSUME OfferedAssumption == Offered \subseteq {"password", "keyboard-interactive"}
ASSUME TextAssumption ==
  /\ {"", "root", "default"} \subseteq Text
  /\ Envs \subseteq [host : Text, user : Text, password : Text]
  /\ FlagSets \subseteq [host : Text, user : Text, proto : Text]

VARIABLES
  file, env, flags, conf, policy, auto, logins,   \* see EsxiConnect
  cpc                                             \* program counter of connect

connVars == <<file, env, flags, conf, policy, auto, cpc, logins>>
cmdVars  == <<vars, connVars>>

Conn == INSTANCE EsxiConnect WITH c <- conf, pc <- cpc

ASSUME FilesAssumption ==
  \A f \in Files :
    /\ f.form \in {"none", "key=value", "table"}
    /\ f.options \in Seq([host : Text, proto : Text])
    /\ f.lines \in Seq([fields : Seq(Text) \ {<<>>}, comment : BOOLEAN])
    /\ \A i \in DOMAIN f.lines : /\ Conn!Fields(f.lines[i]) \in Seq(Text)
                                 /\ f.form = "key=value" => Len(f.lines[i].fields) = 2

CmdInit == DiscInit /\ Conn!ConnInit

Connect == Conn!ConnNext /\ UNCHANGED vars

\* connect has returned a transport.  What it was made of is not looked at again,
\* and is forgotten here.
Connected ==
  /\ cpc = "connected"
  /\ Begin(IF logins[Len(logins)].via = "soap" THEN "soap" ELSE "ssh")
  /\ cpc' = "returned"
  /\ file' = [form |-> "none"] /\ env' = <<>> /\ flags' = <<>>
  /\ conf' = Conn!NoConfig /\ policy' = "" /\ auto' = FALSE /\ logins' = <<>>

Discovering == DiscNext /\ UNCHANGED connVars

CmdNext == Connect \/ Connected \/ Discovering

CmdSpec == CmdInit /\ [][CmdNext]_cmdVars

\* Fairness: that of the parts, and the command goes on.
CmdFairSpec == CmdSpec /\ Conn!ConnFairness /\ WF_cmdVars(Connected) /\ DiscFairness

-----------------------------------------------------------------------------
\* Type invariant of connection and discovery.
CmdTypeOK == DiscTypeOK /\ (cpc = "returned" \/ Conn!ConnTypeOK)

\* Credentials and chains stay with their server, whichever of flag, environment and file names
\* it (EsxiConnect).
LoginsBelong == Conn!LoginsBelong

\* No password is tried again after a login with it that failed or may have counted
\* (EsxiConnect).
NoSecondTry == Conn!NoSecondTry

\* The command gets to its VMs or reports an error: connect returns, and so does
\* discovery with all its queries in the pool, whatever fails on the way.
CommandEnds == <>(pc \in {"done", "failed"} \/ cpc \in {"failed", "crashed"})

\* README.md:324 "Entries with cert use ssh directly" (EsxiConnect).
CertUsesSsh == Conn!CertUsesSsh

\* README.md:274-283: a comment in the table is none of the password (EsxiConnect).
CommentsDoNotCount == Conn!CommentsDoNotCount

\* hosttable.go:59-60: a line with one field is an error of that line (EsxiConnect).
BadLinesAreReported == Conn!BadLinesAreReported
=============================================================================
