----------------------------- MODULE EntryIndex -----------------------------
(***************************************************************************)
(* What the index of a column promises to core/table.cpp: it is the set of *)
(* the <<key, row id>> entries put in and not taken out.  Module Table     *)
(* works with such sets; module BPlusTree shows that the nodes of          *)
(* core/btree.cpp hold one.                                                *)
(***************************************************************************)
CONSTANTS Keys, Rids

VARIABLES entries, call    \* call: the last call made

EntryIndexInit == entries = {} /\ call = <<>>

(* Table asks find_equal first and refuses a key that is there             *)
(* (table.cpp:78-83, 103-111): an index never sees a key twice.            *)
Put(k, r) ==
  /\ \A s \in Rids : <<k, s>> \notin entries
  /\ entries' = entries \cup {<<k, r>>}
  /\ call' = <<"insert", k, r>>

Take(k, r) ==
  /\ entries' = entries \ {<<k, r>>}
  /\ call' = <<"erase", k, r>>

Empty == entries' = {} /\ call' = <<"clear">>

EntryIndexNext ==
  \/ \E k \in Keys, r \in Rids : Put(k, r) \/ Take(k, r)
  \/ Empty

EntryIndexSpec == EntryIndexInit /\ [][EntryIndexNext]_<<entries, call>>
=============================================================================
