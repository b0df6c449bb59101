---------------------------- MODULE EsxiConnect ----------------------------
(***************************************************************************)
(* How a command gets its connection to an ESXi host: connect of           *)
(* esxicmd.go with the cfg file in its two forms (esxi/config.go,          *)
(* esxi/hosttable.go, esxi/policyline.go), then Open with its attempts     *)
(* over soap and ssh (esxi/auto.go, openSOAP, openSSH).  The host may      *)
(* refuse, hang or lose an answer at each of them.  Values are strings,    *)
(* "" for one that is not given; of the connection options only proto is   *)
(* kept, of the others the errors they cause.                              *)
(***************************************************************************)
EXTENDS Naturals, Sequences, FiniteSets

CONSTANTS
  Text,      \* the strings: hosts, users, secrets
  Files,     \* the cfg files considered
  Envs,      \* the environments: [host, user, password]
  FlagSets,  \* the flags: [host, user, proto]
  Offered    \* the ways of a password login that the host's sshd offers

VARIABLES
  file,    \* the cfg file
  env,     \* CS_ESXI_HOST, CS_ESXI_USER, CS_ESXI_PASSWORD
  flags,   \* --host, --user, --proto
  c,       \* the Config
  policy,  \* the host the freeze chains were loaded for
  auto,    \* the soap attempt is that of openAuto
  pc,      \* program counter of connect
  logins   \* the logins sent so far

vars == <<file, env, flags, c, policy, auto, pc, logins>>

Login == [via : {"soap", "key", "password", "keyboard-interactive"},
          host : Text, user : Text, secret : Text,
          answer : {"accepted", "rejected", "lost"}]

ConfigKey == {"host", "user", "password", "key", "proto"}

NoConfig == [k \in ConfigKey |-> ""]

Ended == {"connected", "failed", "crashed"}

Or(a, b) == IF a # "" THEN a ELSE b

-----------------------------------------------------------------------------
(* The cfg file.  A table's line has fields, the host first; a key=value     *)
(* file's has two, key and value.  A comment at the end is part of the last. *)

Fields(l) == IF l.comment THEN [l.fields EXCEPT ![Len(l.fields)] = @ \o " #"] ELSE l.fields

\* parseHostTable: the list is sliced to its first two fields before it is
\* known to have two.
LineCrashes(l) == Len(l.fields) = 1

LineIsBad(l) ==
  LET f == Fields(l)
  IN  \/ Len(f) < 2
      \/ f[1] = "" \/ f[2] = ""
      \/ Len(f) = 2 /\ f[2] # "cert"
      \/ Len(f) > 2 /\ f[3] = ""

ListedTwice(ls, i) == \E j \in 1..(i - 1) : Fields(ls[j])[1] = Fields(ls[i])[1]

\* What its first bad line makes of a table.
TableVerdict(ls) ==
  LET bad == {i \in 1..Len(ls) : LineIsBad(ls[i]) \/ ListedTwice(ls, i)}
  IN  IF bad = {} THEN "good"
      ELSE LET i == CHOOSE i \in bad : \A j \in bad : i <= j
           IN  IF LineCrashes(ls[i]) THEN "crashed" ELSE "failed"

Entry(l) ==
  LET f == Fields(l)
  IN  IF Len(f) = 2
      THEN [NoConfig EXCEPT !.host = f[1], !.user = "root", !.key = "default"]
      ELSE IF f[3] = "cert"
      THEN [NoConfig EXCEPT !.host = f[1], !.user = f[2],
                            !.key = IF Len(f) > 3 THEN f[4] ELSE "default"]
      ELSE [NoConfig EXCEPT !.host = f[1], !.user = f[2], !.password = f[3]]

\* applyHostOptions: the last "host:proto=..." line of the host, without comment.
WithOptions(e) ==
  LET mine == {i \in 1..Len(file.options) : file.options[i].host = e.host}
  IN  IF mine = {} THEN e
      ELSE [e EXCEPT !.proto = file.options[CHOOSE i \in mine : \A j \in mine : j <= i].proto]

\* LoadConfig: the last line of a key counts; a timeout has to be a number.
KeyValueIsBad(l) == Fields(l)[1] = "timeout" /\ l.comment

KeyValue(ls) ==
  [k \in ConfigKey |->
     LET set == {i \in 1..Len(ls) : Fields(ls[i])[1] = k}
     IN  IF set = {} THEN "" ELSE Fields(ls[CHOOSE i \in set : \A j \in set : j <= i])[2]]

-----------------------------------------------------------------------------
(* connect. *)

ConnInit ==
  /\ file \in Files /\ env \in Envs /\ flags \in FlagSets
  /\ c = NoConfig
  /\ policy = ""
  /\ auto = FALSE
  /\ pc = "load"
  /\ logins = <<>>

\* LoadConfigFor: the server asked for, in either form of the file.
Asked == Or(flags.host, env.host)

Load ==
  /\ pc = "load"
  /\ CASE file.form = "none" -> c' = [NoConfig EXCEPT !.host = Asked] /\ pc' = "override"
       [] file.form = "key=value" ->
            IF \E i \in 1..Len(file.lines) : KeyValueIsBad(file.lines[i])
            THEN pc' = "failed" /\ UNCHANGED c
            ELSE c' = KeyValue(file.lines) /\ pc' = "override"
       [] file.form = "table" ->
            LET ls    == file.lines
                found == {i \in 1..Len(ls) : IF Asked = "" THEN Len(ls) = 1
                                                          ELSE Fields(ls[i])[1] = Asked}
            IN  \/ /\ TableVerdict(ls) # "good"
                   /\ pc' = TableVerdict(ls) /\ UNCHANGED c
                \/ /\ TableVerdict(ls) = "good" /\ found = {}
                   /\ pc' = "failed" /\ UNCHANGED c
                \/ /\ TableVerdict(ls) = "good"
                   /\ \E i \in found :
                        \/ c' = WithOptions(Entry(ls[i])) /\ pc' = "override"
                        \/ /\ Entry(ls[i]).key = "default"   \* no key of the user found
                           /\ pc' = "failed" /\ UNCHANGED c
  /\ UNCHANGED <<file, env, flags, policy, auto, logins>>

\* Faulty: the flags are applied first.
OverrideFlagsFirst ==
  /\ pc = "override"
  /\ c' = [c EXCEPT !.host = Or(env.host, Or(flags.host, @)),
                    !.user = Or(env.user, Or(flags.user, @)),
                    !.password = Or(env.password, @),
                    !.proto = Or(flags.proto, @)]
  /\ pc' = "policy"
  /\ UNCHANGED <<file, env, flags, policy, auto, logins>>

\* ApplyEnv, then the flags.
Override ==
  /\ pc = "override"
  /\ c' = [c EXCEPT !.host = Or(flags.host, Or(env.host, @)),
                    !.user = Or(flags.user, Or(env.user, @)),
                    !.password = Or(env.password, @),
                    !.proto = Or(flags.proto, @)]
  /\ pc' = "policy"
  /\ UNCHANGED <<file, env, flags, policy, auto, logins>>

\* loadPolicy, for the server that was found.
LoadPolicy ==
  /\ pc = "policy"
  /\ \/ policy' = c.host /\ pc' = "open"
     \/ pc' = "failed" /\ UNCHANGED policy
  /\ UNCHANGED <<file, env, flags, c, auto, logins>>

-----------------------------------------------------------------------------
(* Open. *)

\* The transport's own validation, of the Config as openAuto or the caller set it.
Opening(proto) ==
  IF proto \notin {"soap", "ssh"} \/ c.host = "" \/ (c.password = "" /\ c.key = "")
     \/ (proto = "soap" /\ c.password = "")
  THEN "failed" ELSE proto

Open ==
  /\ pc = "open"
  /\ auto' = (c.proto \in {"", "auto"} /\ c.password # "")
  /\ pc' = Opening(IF c.proto \notin {"", "auto"} THEN c.proto
                   ELSE IF c.password = "" THEN "ssh" ELSE "soap")
  /\ UNCHANGED <<file, env, flags, c, policy, logins>>

LoginBy(via, secret, answer) ==
  [via |-> via, host |-> c.host, user |-> Or(c.user, "root"), secret |-> secret, answer |-> answer]

Send(via, secret, answer) == logins' = Append(logins, LoginBy(via, secret, answer))

\* Faulty: the fallback is opened with proto auto again.
SoapContentReopens ==
  /\ pc = "soap"
  /\ \/ pc' = "soap login"
     \/ pc' = IF auto THEN "open" ELSE "failed"
  /\ UNCHANGED <<file, env, flags, c, policy, auto, logins>>

\* RetrieveServiceContent: the first exchange, before any login; its failure is
\* what openAuto goes on to ssh for.
SoapContent ==
  /\ pc = "soap"
  /\ \/ pc' = "soap login"
     \/ pc' = IF auto THEN "ssh" ELSE "failed"
  /\ UNCHANGED <<file, env, flags, c, policy, auto, logins>>

\* Faulty: any failed soap is followed by ssh.
SoapLoginFallsBack ==
  /\ pc = "soap login"
  /\ \E a \in {"accepted", "rejected", "lost"} :
       /\ Send("soap", c.password, a)
       /\ pc' = IF a = "accepted" THEN "connected" ELSE IF auto THEN "ssh" ELSE "failed"
  /\ UNCHANGED <<file, env, flags, c, policy, auto>>

\* A failed login is final, also when only its answer was lost.
SoapLogin ==
  /\ pc = "soap login"
  /\ \E a \in {"accepted", "rejected", "lost"} :
       /\ Send("soap", c.password, a)
       /\ pc' = IF a = "accepted" THEN "connected" ELSE "failed"
  /\ UNCHANGED <<file, env, flags, c, policy, auto>>

\* openSSH up to the end of the handshake: the key has to be readable, the host
\* there, and its key the pinned one.
SshDial ==
  /\ pc = "ssh"
  /\ \/ pc' = IF c.key # "" THEN "key" ELSE "password"
     \/ pc' = "failed"
  /\ UNCHANGED <<file, env, flags, c, policy, auto, logins>>

\* The methods the host offers, one after the other, each once.
After(via) ==
  IF c.password = "" THEN "failed"
  ELSE IF via = "key" THEN "password"
  ELSE IF via = "password" THEN "keyboard-interactive" ELSE "failed"

SshAuth(via) ==
  /\ pc = via
  /\ IF via = "key" \/ via \in Offered
     THEN \E a \in {"accepted", "rejected", "lost"} :
            /\ Send(via, IF via = "key" THEN c.key ELSE c.password, a)
            /\ pc' = CASE a = "accepted" -> "connected"
                       [] a = "rejected" -> After(via)
                       [] a = "lost"     -> "failed"
     ELSE pc' = After(via) /\ UNCHANGED logins
  /\ UNCHANGED <<file, env, flags, c, policy, auto>>

Local == Load \/ Override \/ LoadPolicy \/ Open

Soap == SoapContent \/ SoapLogin

Ssh == SshDial \/ \E via \in {"key", "password", "keyboard-interactive"} : SshAuth(via)

ConnNext == Local \/ Soap \/ Ssh

(***************************************************************************)
(* Fairness: the program runs, and a soap call ends by its context.  That  *)
(* the ssh handshake and login end is taken for granted of the host, the   *)
(* timeout given to ssh.Dial is for the TCP connection only.               *)
(***************************************************************************)
ConnFairness == WF_vars(Local) /\ WF_vars(Soap) /\ WF_vars(Ssh)

-----------------------------------------------------------------------------
\* Type invariant of a connection attempt.
ConnTypeOK ==
  /\ file \in Files /\ env \in Envs /\ flags \in FlagSets
  /\ c \in [ConfigKey -> Text]
  /\ policy \in Text /\ auto \in BOOLEAN
  /\ pc \in {"load", "override", "policy", "open", "soap", "soap login", "ssh", "key",
             "password", "keyboard-interactive"} \cup Ended
  /\ logins \in Seq(Login)

\* What a table's line gives to log in with.
SecretsOf(l) == {Fields(l)[i] : i \in 3..Len(l.fields)} \cup {"default"}

\* What the file gives to log in to host h: the secrets of the table's line for h; a
\* key=value file has one server, and its host may be overridden.
GivenFor(h) ==
  CASE file.form = "none"  -> {}
    [] file.form = "table" ->
         UNION {SecretsOf(file.lines[i]) :
                  i \in {j \in 1..Len(file.lines) : Fields(file.lines[j])[1] = h}}
    [] OTHER -> {Fields(file.lines[i])[2] :
                   i \in {j \in 1..Len(file.lines) :
                             Fields(file.lines[j])[1] \in {"password", "key"}}}

\* Credentials and chains stay with their server: whichever of flag, environment and file names
\* the host, every login goes to that host, as the user that is named most strongly
\* (README.md:308-310), with CS_ESXI_PASSWORD or what the file gives for that host,
\* and the freeze chains are that server's (esxicmd.go:139-140), also when only the
\* file names it.
LoginsBelong ==
  \A i \in 1..Len(logins) : LET l == logins[i] IN
    /\ Asked # "" => l.host = Asked
    /\ Or(flags.user, env.user) # "" => l.user = Or(flags.user, env.user)
    /\ l.secret \in {env.password} \cup GivenFor(l.host)
    /\ policy = l.host

\* Two logins that use the same key, or the same password.
Repeats(l, m) == (l.via = "key" <=> m.via = "key") /\ l.secret = m.secret

\* README.md:322-324: a failed soap login is final, as each failed login counts towards
\* the lockout of the account.  No password or key is sent again after a login with it that
\* was not accepted, or whose answer was lost, with what an ESXi host offers.
NoSecondTry ==
  \A i, j \in 1..Len(logins) :
    i < j => logins[i].answer = "rejected" /\ ~Repeats(logins[i], logins[j])

-----------------------------------------------------------------------------
\* README.md:324 "Entries with cert use ssh directly."
CertUsesSsh ==
  \A i \in 1..Len(logins) :
    logins[i].via = "soap" /\ flags.proto = "" /\ file.form = "table" /\ file.options = <<>> =>
      \A j \in 1..Len(file.lines) :
        Fields(file.lines[j])[1] = logins[i].host => "cert" \notin {Fields(file.lines[j])[k] :
                                                                    k \in 2..Len(file.lines[j].fields)}

\* README.md:274-283 shows a table whose lines end in # comments: none becomes part of
\* the password that is sent.
CommentsDoNotCount ==
  \A i \in 1..Len(logins) :
    logins[i].secret \in {"default", env.password} \cup
      UNION {{l.fields[k] : k \in 1..Len(l.fields)} :
               l \in {file.lines[j] : j \in 1..Len(file.lines)}}

\* hosttable.go:59-60 reports a line with less than two fields as an error of that
\* line, as each other fault of the table.
BadLinesAreReported == pc # "crashed"
=============================================================================
