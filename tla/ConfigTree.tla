----------------------------- MODULE ConfigTree -----------------------------
(* Shremote reads its configuration into a tree of FmtConfig objects          *)
(* (fmt_config.py): maps, lists and leaves. What copies in the code (set_     *)
(* value, deepcopy) is a value here; what changes an object in place is an    *)
(* operator that returns the changed one. An exception is the tree Error.     *)
EXTENDS Naturals, Sequences, SequencesExt, TLC

Error   == [t |-> "error"]
Leaf(v) == [t |-> "leaf", v |-> v]
List(s) == [t |-> "list", elems |-> s]
Map(f)  == [t |-> "map", sub |-> f]

(* A YAML map whose order matters, as long as nothing has been read of it.    *)
Pairs(s) == [t |-> "pairs", elems |-> s]

IsError(n) == n.t = "error"
IsLeaf(n)  == n.t = "leaf"
IsList(n)  == n.t = "list"
IsMap(n)   == n.t = "map"
IsPairs(n) == n.t = "pairs"

Empty == Map(<<>>)

(* __contains__, __getitem__, __setitem__.                                    *)
Has(n, k) == IsMap(n) /\ k \in DOMAIN n.sub
Get(n, k) == n.sub[k]
Put(n, k, v) == IF IsError(v) \/ ~IsMap(n) THEN Error ELSE Map((k :> v) @@ n.sub)

(* A map from the values of another, a list from those of another: Error if   *)
(* one of them is.                                                            *)
MapOf(f)  == IF \E k \in DOMAIN f : IsError(f[k]) THEN Error ELSE Map(f)
ListOf(s) == IF \E i \in DOMAIN s : IsError(s[i]) THEN Error ELSE List(s)

(* A list of what F makes of each element.                                    *)
Each(F(_), n) == ListOf([i \in DOMAIN n.elems |-> F(n.elems[i])])

(* Mutant: the keys there are are overwritten.                                *)
MergeOver(n, value) == Map(value.sub @@ n.sub)

(* merge: the keys that are not there yet.                                    *)
Merge(n, value) == Map(n.sub @@ value.sub)

(* mergepath, of a path of one key.                                           *)
MergePath(n, k, value) ==
  Put(n, k, IF Has(n, k) /\ IsMap(Get(n, k)) THEN Merge(Get(n, k), value) ELSE value)

(* haspath and getpath, of a path of two keys, which is all they are used for.*)
HasPath(n, path) == Has(n, path[1]) /\ Has(Get(n, path[1]), path[2])
GetPath(n, path) == Get(Get(n, path[1]), path[2])

(* get(key, default).format() of a leaf.                                      *)
Value(n, k, default) == IF Has(n, k) THEN Get(n, k).v ELSE default
=============================================================================
