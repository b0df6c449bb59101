----------------------------- MODULE VimOutput -----------------------------
(***************************************************************************)
(* The ssh transport knows the snapshots of a VM from the text that        *)
(* "vim-cmd vmsvc/snapshot.get" prints: esxi/parse.go reads it line by     *)
(* line, ssh.go finds the snapshot it has just made in the result by its   *)
(* name, and cleanup and reap remove what carries the tag.  Descriptions   *)
(* are free text of several lines; the expressions of parse.go are not     *)
(* anchored, so a line of one may look like a field.                       *)
(***************************************************************************)
EXTENDS Naturals, Sequences, FiniteSetsExt

CONSTANTS MaxSnaps,      \* bound: snapshots of the VM
          Names,         \* names of snapshots
          Descriptions   \* descriptions, line by line

\* A line of a description is ESXiTag or other text, or it has "Snapshot Name :",
\* "Snapshot Id :" and a number, or "Snapshot Desc... :" and a text in it.
Other(text) == [kind |-> "other", text |-> text]
NameLike    == [kind |-> "name", text |-> "imitation"]
IdLike(id)  == [kind |-> "id", id |-> id]
DescLike(text) == [kind |-> "desc", text |-> text]

DescLines == [kind : {"other", "desc"}, text : {"tag", "text"}]
               \cup {NameLike} \cup [kind : {"id"}, id : Nat \ {0}]

ASSUME DescAssumption ==
  \A d \in Descriptions : d \in Seq(DescLines) /\ d # <<>>
ASSUME SnapsAssumption == MaxSnaps \in Nat
ASSUME NamesAssumption == "imitation" \notin Names

VARIABLES
  tree,    \* the snapshots in the order of their creation; the id is the index
  order,   \* their ids in the order in which they are printed
  printed, \* how many of them the lines read so far are about
  at,      \* lines read of the one printed last, of the heading if there is none
  cur,     \* parseSnapshotGet's cur; of: during which snapshot it was begun
  snaps,   \* and its result
  reading  \* FALSE after the last flush

vimVars == <<tree, order, printed, at, cur, snaps, reading>>

Nil == [id |-> 0]

Named(name) == [name |-> name, id |-> 0, desc |-> "", of |-> printed]

-----------------------------------------------------------------------------
(* The host. *)

\* A parent comes before its children, with nothing between that is not below
\* it; the children of one parent, or those without, in the order of creation.
DepthFirst(t, p) ==
  /\ \A j, k \in DOMAIN t : p[j] = p[k] => j = k
  /\ \A k \in DOMAIN t : t[p[k]].parent # 0 =>
       \E i \in 1..(k - 1) :
         /\ p[i] = t[p[k]].parent
         /\ \A j \in (i + 1)..(k - 1) : \E h \in i..(j - 1) : p[h] = t[p[j]].parent
  /\ \A j, k \in DOMAIN t : j < k /\ t[p[j]].parent = t[p[k]].parent => p[j] < p[k]

\* The first line of a description follows its field's name, which is found first
\* whatever description the line has in it, but after a name or an id; the other
\* lines stand for themselves.
DescLine(s, i) ==
  IF i > 1 \/ s.desc[1].kind \in {"name", "id"} THEN s.desc[i]
  ELSE IF s.desc[1].kind = "desc" THEN DescLike("text")
  ELSE DescLike(s.desc[1].text)

Length(s) == Len(s.desc) + 3

\* A snapshot is printed with its name, its id, its description and its date.
Line(k, i) ==
  IF k = 0 THEN Other("text")
  ELSE LET s == tree[order[k]]
       IN  IF i = 1 THEN [kind |-> "name", text |-> s.name]
           ELSE IF i = 2 THEN IdLike(order[k])
           ELSE IF i < Length(s) THEN DescLine(s, i - 2)
           ELSE Other("text")

Lines(k) == IF k = 0 THEN 1 ELSE Length(tree[order[k]])

Trees ==
  UNION {{t \in [1..n -> [name : Names, desc : Descriptions, parent : 0..n]] :
            \A i \in 1..n : t[i].parent < i} : n \in 0..MaxSnaps}

VimInit ==
  /\ tree \in Trees
  /\ order \in {p \in [DOMAIN tree -> DOMAIN tree] : DepthFirst(tree, p)}
  /\ printed = 0 /\ at = 0
  /\ cur = Nil /\ snaps = <<>> /\ reading = TRUE

-----------------------------------------------------------------------------
(* parseSnapshotGet. *)

\* flush: what has an id is a snapshot.
Flushed == IF cur.id # 0 THEN Append(snaps, cur) ELSE snaps

\* Faulty: the snapshot in hand is flushed, but not cleared.
NameLineKeeps(l) ==
  /\ l.kind = "name"
  /\ snaps' = Flushed
  /\ cur' = IF cur = Nil THEN Named(l.text) ELSE [cur EXCEPT !.name = l.text]

NameLine(l) ==
  /\ l.kind = "name"
  /\ snaps' = Flushed
  /\ cur' = Named(l.text)

FieldLine(l) ==
  /\ l.kind \in {"id", "desc"}
  /\ cur' = IF cur = Nil THEN Nil
            ELSE IF l.kind = "id" THEN [cur EXCEPT !.id = l.id]
            ELSE [cur EXCEPT !.desc = l.text]
  /\ UNCHANGED snaps

ReadLine ==
  /\ at < Lines(printed)
  /\ LET l == Line(printed, at + 1)
     IN  \/ NameLine(l) \/ FieldLine(l)
         \/ l.kind = "other" /\ UNCHANGED <<cur, snaps>>
  /\ at' = at + 1
  /\ UNCHANGED <<tree, order, printed, reading>>

\* The text goes on with the next snapshot.
NextSnapshot ==
  /\ at = Lines(printed) /\ printed < Len(tree)
  /\ printed' = printed + 1 /\ at' = 0
  /\ UNCHANGED <<tree, order, cur, snaps, reading>>

EndOfOutput ==
  /\ at = Lines(printed) /\ printed = Len(tree) /\ reading
  /\ snaps' = Flushed
  /\ cur' = Nil
  /\ reading' = FALSE
  /\ UNCHANGED <<tree, order, printed, at>>

VimNext == ReadLine \/ NextSnapshot \/ EndOfOutput

VimSpec == VimInit /\ [][VimNext]_vimVars

\* Faulty: the first one wins.
LookupFirst(list, name) ==
  LET hits == {i \in DOMAIN list : list[i].name = name}
  IN  IF hits = {} THEN 0 ELSE list[Min(hits)].id

\* CreateSnapshot's search for the id of the snapshot it has made: the last one.
Lookup(list, name) ==
  LET hits == {i \in DOMAIN list : list[i].name = name}
  IN  IF hits = {} THEN 0 ELSE list[Max(hits)].id

-----------------------------------------------------------------------------
\* Type invariant: the scanner is always at a place of the output, and a finished
\* one has nothing in hand.
VimTypeOK ==
  /\ tree \in Trees /\ order \in [1..Len(tree) -> 1..Len(tree)]
  /\ printed \in 0..Len(tree) /\ at \in 0..Lines(printed)
  /\ cur.id \in Nat
  /\ \A i \in DOMAIN snaps : snaps[i].id \in Nat \ {0} /\ snaps[i].of \in 1..Len(tree)
  /\ reading \in BOOLEAN
  /\ ~reading => printed = Len(tree) /\ cur = Nil

\* No line of the description is taken for an id, and none after the first for a
\* description; lines may be taken for names.
Plain(d) == \A i \in DOMAIN d : d[i].kind # "id" /\ (i > 1 => d[i].kind # "desc")

Tagged(s) == s.desc[1] = Other("tag")

\* reap and cleanup see each snapshot with a plain description, so each of the
\* tool's own, exactly once, under its own id and name, and take it for tagged if
\* its description begins with the line of the tag, whatever the descriptions of
\* the VM's other snapshots look like.  What they see of the others may be wrong:
\* TaggedAreOwn is not kept.
ListIsTheTree ==
  ~reading =>
    \A k \in DOMAIN tree : Plain(tree[order[k]].desc) =>
      \E i \in DOMAIN snaps :
        /\ \A j \in DOMAIN snaps : snaps[j].of = k <=> j = i
        /\ snaps[i].id = order[k] /\ snaps[i].name = tree[order[k]].name
        /\ snaps[i].desc = "tag" <=> Tagged(tree[order[k]])

Newest(name) == Max({i \in DOMAIN tree : tree[i].name = name})

\* ssh.go:262 "find it by its unique name", 270 "last one wins if the name was
\* reused": in a tree that was never reverted the id found is the newest's, if its
\* description is plain, as that of the snapshot just made is.
LookupOnAChain ==
  ~reading /\ (\A i \in DOMAIN tree : tree[i].parent = i - 1) =>
    \A i \in DOMAIN tree : Plain(tree[Newest(tree[i].name)].desc) =>
      Lookup(snaps, tree[i].name) = Newest(tree[i].name)

\* The same in any tree: the snapshot made last is the one that is found.
LookupFindsNewest ==
  ~reading => \A i \in DOMAIN tree : Lookup(snaps, tree[i].name) = Newest(tree[i].name)

\* esxicmd.go:61 "remove leftover VM snapshots created by this tool (tag
\* cs-freeze4snap)": what cleanup takes for tagged is the tool's.
TaggedAreOwn ==
  ~reading => \A i \in DOMAIN snaps :
    snaps[i].desc = "tag" => snaps[i].id \in DOMAIN tree /\ Tagged(tree[snaps[i].id])
=============================================================================
