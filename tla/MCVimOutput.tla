---------------------------- MODULE MCVimOutput ----------------------------
(* VimOutput for TLC: descriptions of one to three lines, own and foreign,   *)
(* plain ones and ones that imitate fields.                                  *)
EXTENDS VimOutput

Tag  == Other("tag")
Text == Other("text")

SomeDescriptions ==
  {<<Tag>>, <<Tag, Text>>, <<NameLike>>, <<Text, NameLike>>,
   <<Text, DescLike("tag")>>, <<IdLike(1)>>, <<DescLike("tag"), NameLike, IdLike(1)>>}
Imitating == {<<Tag>>, <<Text, DescLike("tag")>>}
=============================================================================
