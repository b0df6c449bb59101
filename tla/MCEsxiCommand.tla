--------------------------- MODULE MCEsxiCommand ---------------------------
(* EsxiCommand for TLC: tables of up to two servers with each form of entry,  *)
(* key=value files, and every combination of environment and flags; a host    *)
(* with the export, a child of it mounted by NFS 4.1, a local datastore, and  *)
(* the same path from a second server.                                        *)
EXTENDS EsxiCommand

CONSTANTS v1, v2, root, child, local, other, s1, s2

MCHome   == [v \in Vm |-> IF v = v1 THEN root ELSE local]
MCPlace  == [s \in Store |-> CASE s \in {root, other} -> "root"
                               [] s = child           -> "below"
                               [] OTHER               -> "elsewhere"]
MCKind   == [s \in Store |-> CASE s = child -> "NFS41" [] s = local -> "VMFS" [] OTHER -> "NFS"]
MCServer == [s \in Store |-> IF s = other THEN s2 ELSE s1]

Opt(recursive, server, wanted, allowMixed, includeOff) ==
  [recursive |-> recursive, server |-> server, wanted |-> wanted,
   allowMixed |-> allowMixed, includeOff |-> includeOff]

MCOption == {Opt(TRUE, s1, Vm, FALSE, FALSE), Opt(FALSE, s1, {v1}, FALSE, TRUE),
             Opt(TRUE, s1, Vm, TRUE, FALSE), Opt(FALSE, "any", Vm, FALSE, FALSE)}

\* v1 in one place or in two, on or not; v2 running in two places.
MCInventory ==
  {[v \in Vm |-> IF v = v1 THEN [power |-> p, files |-> f]
                           ELSE [power |-> "on", files |-> {local, child}]] :
     p \in {"on", "off"}, f \in {{root}, {root, local}}}

MCText == {"", "h1", "h2", "root", "ops", "env", "adm", "pw1", "pw2", "pwE", "cert", "default",
           "/key1", "/key2", "host", "password", "key", "proto", "timeout", "15", "soap", "ssh",
           "auto", "pw2 #", "15 #", "auto #"}

Line(comment, fields) == [fields |-> fields, comment |-> comment]
File(form, lines, options) == [form |-> form, lines |-> lines, options |-> options]

Password1 == Line(FALSE, <<"h1", "ops", "pw1">>)
Password2 == Line(FALSE, <<"h2", "root", "pw2">>)
Cert1     == Line(FALSE, <<"h1", "cert">>)
Cert2     == Line(FALSE, <<"h2", "ops", "cert", "/key2">>)
UserOnly  == Line(FALSE, <<"h2", "root">>)
HostOnly  == Line(FALSE, <<"h2">>)
Commented == Line(TRUE, <<"h2", "root", "pw2">>)

Ssh1 == <<[host |-> "h1", proto |-> "auto"], [host |-> "h1", proto |-> "ssh"]>>

KvFile == <<Line(FALSE, <<"host", "h1">>), Line(FALSE, <<"password", "pw1">>),
            Line(FALSE, <<"key", "/key1">>)>>

GoodFiles ==
  {File("none", <<>>, <<>>), File("key=value", KvFile, <<>>),
   File("key=value", Append(KvFile, Line(FALSE, <<"proto", "soap">>)), <<>>),
   File("key=value", Append(KvFile, Line(FALSE, <<"timeout", "15">>)), <<>>),
   File("key=value", Append(KvFile, Line(TRUE, <<"timeout", "15">>)), <<>>),
   File("key=value", Append(KvFile, Line(TRUE, <<"proto", "auto">>)), <<>>),
   File("table", <<Password1>>, <<>>), File("table", <<Cert1>>, <<>>),
   File("table", <<Password1, Password2>>, <<>>), File("table", <<Password1, Password2>>, Ssh1),
   File("table", <<Cert1, Cert2>>, <<>>), File("table", <<Password1, Cert2>>, Ssh1),
   File("table", <<Password1, UserOnly>>, <<>>), File("table", <<Password1, Password1>>, <<>>)}

GapFiles ==
  {File("table", <<Password1, HostOnly>>, <<>>), File("table", <<Password1, Commented>>, <<>>),
   File("table", <<Password1, Cert2>>, <<>>)}

AllEnvs  == [host : {"", "h1", "h2"}, user : {"", "env"}, password : {"", "pwE"}]
GapEnvs  == [host : {""}, user : {""}, password : {"", "pwE"}]
AllFlags == [host : {"", "h1", "h2"}, user : {"", "adm"}, proto : {"", "ssh", "soap"}]
GapFlags == [host : {"h2"}, user : {""}, proto : {""}]
=============================================================================
