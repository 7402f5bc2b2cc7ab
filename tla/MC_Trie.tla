-------------------------------- MODULE MC_Trie --------------------------------
(***************************************************************************)
(* Strings over two bytes, up to three long: keys that are prefixes of     *)
(* other keys, that share a prefix, and that have nothing in common.       *)
(***************************************************************************)
EXTENDS Trie

SomeTargets == [1..1 -> Byte] \cup {<<0, 0>>, <<0, 1>>, <<1, 1>>, <<0, 1, 0>>, <<0, 1, 1>>}
===============================================================================
