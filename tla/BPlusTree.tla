----------------------------- MODULE BPlusTree -----------------------------
(***************************************************************************)
(* core/btree.cpp: the B+ tree behind every INDEXED column.  Nodes live on *)
(* a heap and refer to each other by address; leaves form a chain.  An     *)
(* insertion puts the entry into its leaf and then splits, from the leaf   *)
(* upwards, as long as a node is too large; the steps of that loop are     *)
(* steps here.  Erasing never merges nodes: a leaf may stay behind empty.  *)
(***************************************************************************)
EXTENDS Integers, FiniteSets, SequencesExt

CONSTANTS
  Keys,       \* values of the column, in the order of value_cmp
  Rids,       \* row ids
  Orders,     \* the orders an index may be built with (Table: 32)
  MaxNodes    \* bound: no insertion starts with more nodes on the heap

(* The constructor raises an order below 4 to 4.  From 2 on a split leaves  *)
(* no inner node without a key, which is all the algorithm needs.           *)
ASSUME BPlusTreeAssumption ==
  /\ Keys \subseteq Int
  /\ Orders \subseteq Nat \ {0, 1}
  /\ MaxNodes \in Nat

VARIABLES
  order,    \* order_, the largest number of keys of a node
  nodes,    \* the heap: an address is a position, allocation appends
  root,     \* root_
  cur,      \* the node insert_value still has to split, Nil between calls
  call      \* the last call made; no step reads it

vars == <<order, nodes, root, cur, call>>

Nil == 0

LeafNode(up, keys, rows, next) ==
  [leaf |-> TRUE, parent |-> up, keys |-> keys, rows |-> rows, ch |-> <<>>, next |-> next]

InnerNode(up, keys, ch) ==
  [leaf |-> FALSE, parent |-> up, keys |-> keys, rows |-> <<>>, ch |-> ch, next |-> Nil]

-----------------------------------------------------------------------------
(* Reading the tree. *)

Leaves == {n \in DOMAIN nodes : nodes[n].leaf}

Pairs(n) == [i \in DOMAIN nodes[n].keys |-> <<nodes[n].keys[i], nodes[n].rows[i]>>]

(* The entries on the heap. *)
Stored == UNION {Range(Pairs(n)) : n \in Leaves}

(* Where the loops "while (i < size && keys[i] is before k) ++i" stop. *)
FirstNot(keys, Before(_)) ==
  LET i == SelectInSeq(keys, LAMBDA key : ~Before(key))
  IN  IF i = 0 THEN Len(keys) + 1 ELSE i

(* Mutant: equal keys go left, as in insert_leaf. *)
ChildPos_Left(keys, k) == FirstNot(keys, LAMBDA key : key < k)

ChildPos(keys, k) == FirstNot(keys, LAMBDA key : key <= k)

find_leaf(k) ==
  LET down[n \in DOMAIN nodes] ==
        IF nodes[n].leaf THEN n ELSE down[nodes[n].ch[ChildPos(nodes[n].keys, k)]]
  IN  down[root]

Chain(first) ==
  LET walk[n \in 0..Len(nodes)] ==
        IF n = Nil THEN <<>> ELSE <<n>> \o walk[nodes[n].next]
  IN  walk[first]

Along(first) == LET c == Chain(first) IN FlattenSeq([i \in DOMAIN c |-> Pairs(c[i])])

(* The entries a scan from the leaf of k looks at before it meets a key    *)
(* above the limit and returns.                                            *)
Scanned(k, limit) ==
  LET all == Along(find_leaf(k))
  IN  SubSeq(all, 1, FirstNot(all, LAMBDA e : e[1] <= limit) - 1)

(* The loops over entries that do "if (...) out.push_back(row)".           *)
Collected(pairs, Asked(_)) ==
  LET out[i \in 0..Len(pairs)] ==
        IF i = 0 THEN <<>>
        ELSE IF Asked(pairs[i]) THEN Append(out[i - 1], pairs[i][2]) ELSE out[i - 1]
  IN  out[Len(pairs)]

(* Mutant: the scan returns at the key itself. *)
find_equal_StopsEarly(k) ==
  IF root = Nil THEN <<>>
  ELSE Collected(Scanned(k, k - 1), LAMBDA e : e[1] = k)

find_equal(k) ==
  IF root = Nil THEN <<>>
  ELSE Collected(Scanned(k, k), LAMBDA e : e[1] = k)

range(low, high, low_incl, high_incl) ==
  IF root = Nil THEN <<>>
  ELSE Collected(Scanned(low, high),
         LAMBDA e : /\ e[1] > low \/ (low_incl /\ e[1] = low)
                    /\ e[1] < high \/ (high_incl /\ e[1] = high))

-----------------------------------------------------------------------------
BPlusTreeInit ==
  /\ order \in Orders
  /\ nodes = <<>> /\ root = Nil /\ cur = Nil /\ call = <<>>

(* The head of the loop: cur if it must be split, else the loop is over. *)
(* Mutant: one key too many is let through. *)
TooLarge_Late(heap, n) == IF Len(heap[n].keys) > order + 1 THEN n ELSE Nil

TooLarge(heap, n) == IF Len(heap[n].keys) > order THEN n ELSE Nil

insert_leaf(n, k, r) ==
  LET pos == FirstNot(nodes[n].keys, LAMBDA key : key < k)
  IN  [nodes EXCEPT ![n].keys = InsertAt(@, pos, k), ![n].rows = InsertAt(@, pos, r)]

(* insert and insert_value up to the loop.  Table never inserts a key that *)
(* is in the index already (table.cpp:78-83, 103-111).                     *)
Insert(k, r) ==
  /\ cur = Nil
  /\ Len(nodes) <= MaxNodes
  /\ \A s \in Rids : <<k, s>> \notin Stored
  /\ call' = <<"insert", k, r>>
  /\ UNCHANGED order
  /\ IF root = Nil
     THEN /\ nodes' = <<LeafNode(Nil, <<k>>, <<r>>, Nil)>>
          /\ root' = 1
          /\ cur' = Nil
     ELSE LET leaf == find_leaf(k)
          IN  /\ nodes' = insert_leaf(leaf, k, r)
              /\ cur' = TooLarge(nodes', leaf)
              /\ UNCHANGED root

(* Handing a separator to the parent of the two halves, or to a new root.  *)
(* The halves are on the heap given; cur moves up.                         *)
Promote(heap, left, sep, right) ==
  LET up == heap[left].parent
      at == IF up = Nil THEN 0 ELSE SelectInSeq(heap[up].ch, LAMBDA c : c = left)
      nr == Len(heap) + 1
  IN  IF up = Nil
      THEN /\ nodes' = [Append(heap, InnerNode(Nil, <<sep>>, <<left, right>>))
                          EXCEPT ![left].parent = nr, ![right].parent = nr]
           /\ root' = nr
           /\ cur' = TooLarge(nodes', nr)
      ELSE /\ nodes' = [heap EXCEPT ![up].keys = InsertAt(@, at, sep),
                                    ![up].ch = InsertAt(@, at + 1, right),
                                    ![right].parent = up]
           /\ cur' = TooLarge(nodes', up)
           /\ UNCHANGED root

(* The new leaf of a split: the upper half of the old one. *)
(* Mutant: the old leaf's link is forgotten. *)
RightLeaf_LosesNext(n, mid) ==
  LeafNode(Nil, SubSeq(n.keys, mid + 1, Len(n.keys)), SubSeq(n.rows, mid + 1, Len(n.rows)), Nil)

(* Mutant: the separator leaves the leaf, as it leaves an inner node. *)
RightLeaf_MovesUp(n, mid) ==
  LeafNode(Nil, SubSeq(n.keys, mid + 2, Len(n.keys)), SubSeq(n.rows, mid + 2, Len(n.rows)), n.next)

RightLeaf(n, mid) ==
  LeafNode(Nil, SubSeq(n.keys, mid + 1, Len(n.keys)), SubSeq(n.rows, mid + 1, Len(n.rows)), n.next)

(* One turn of the loop for a leaf: the first key of the new leaf becomes  *)
(* the separator and stays in the leaf.                                    *)
SplitLeaf ==
  /\ cur # Nil
  /\ nodes[cur].leaf
  /\ LET n == nodes[cur]
         mid == Len(n.keys) \div 2
         right == Len(nodes) + 1
         heap == Append([nodes EXCEPT ![cur].keys = SubSeq(@, 1, mid),
                                      ![cur].rows = SubSeq(@, 1, mid),
                                      ![cur].next = right],
                        RightLeaf(n, mid))
     IN  Promote(heap, cur, n.keys[mid + 1], right)
  /\ UNCHANGED <<order, call>>

(* The children of both halves learn their parent. *)
(* Mutant: those that moved keep the old one. *)
Reparented_LeftOnly(heap, left, right) ==
  [n \in DOMAIN heap |->
    IF n \in Range(heap[left].ch) THEN [heap[n] EXCEPT !.parent = left] ELSE heap[n]]

Reparented(heap, left, right) ==
  [n \in DOMAIN heap |->
    IF n \in Range(heap[left].ch) THEN [heap[n] EXCEPT !.parent = left]
    ELSE IF n \in Range(heap[right].ch) THEN [heap[n] EXCEPT !.parent = right]
    ELSE heap[n]]

(* One turn of the loop for an inner node: the middle key moves up and     *)
(* stays in neither half.                                                  *)
SplitInner ==
  /\ cur # Nil
  /\ ~nodes[cur].leaf
  /\ LET n == nodes[cur]
         size == Len(n.keys)
         mid == size \div 2
         right == Len(nodes) + 1
         heap == Append([nodes EXCEPT ![cur].keys = SubSeq(@, 1, mid),
                                      ![cur].ch = SubSeq(@, 1, mid + 1)],
                        InnerNode(Nil, SubSeq(n.keys, mid + 2, size),
                                       SubSeq(n.ch, mid + 2, size + 1)))
     IN  Promote(Reparented(heap, cur, right), cur, n.keys[mid + 1], right)
  /\ UNCHANGED <<order, call>>

(* erase: the first leaf of the chain that has the entry loses it.  No     *)
(* node is merged or freed, and separators stay as they are.               *)
erase_leaf(n, k, r) ==
  LET pos == SelectInSeq(Pairs(n), LAMBDA e : e = <<k, r>>)
  IN  [nodes EXCEPT ![n].keys = RemoveAt(@, pos), ![n].rows = RemoveAt(@, pos)]

Erase(k, r) ==
  /\ cur = Nil
  /\ root # Nil
  /\ call' = <<"erase", k, r>>
  /\ LET chain == Chain(find_leaf(k))
         at == SelectInSeq(chain, LAMBDA n : <<k, r>> \in Range(Pairs(n)))
     IN  nodes' = IF at = 0 THEN nodes ELSE erase_leaf(chain[at], k, r)
  /\ UNCHANGED <<order, root, cur>>

(* clear: rebuild_indexes empties an index before it fills it again. *)
Clear ==
  /\ cur = Nil
  /\ call' = <<"clear">>
  /\ nodes' = <<>>
  /\ root' = Nil
  /\ UNCHANGED <<order, cur>>

BPlusTreeNext ==
  \/ \E k \in Keys, r \in Rids : Insert(k, r) \/ Erase(k, r)
  \/ SplitLeaf
  \/ SplitInner
  \/ Clear

BPlusTreeSpec == BPlusTreeInit /\ [][BPlusTreeNext]_vars

-----------------------------------------------------------------------------
(* Properties. *)

NodeOK(n) ==
  /\ n.leaf \in BOOLEAN
  /\ n.parent \in 0..Len(nodes) /\ n.next \in 0..Len(nodes)
  /\ Range(n.keys) \subseteq Keys /\ Range(n.rows) \subseteq Rids
  /\ Range(n.ch) \subseteq DOMAIN nodes
  /\ IF n.leaf THEN Len(n.rows) = Len(n.keys) /\ n.ch = <<>>
     ELSE Len(n.ch) = Len(n.keys) + 1 /\ n.keys # <<>> /\ n.rows = <<>>

(* Every node has the shape its kind calls for (a row per key, a child more *)
(* than keys), and between two calls none holds more than order keys: the   *)
(* loop of insert_value ends only when all is within the order.             *)
BTTypeOK ==
  /\ order \in Orders
  /\ root \in 0..Len(nodes) /\ cur \in 0..Len(nodes)
  /\ root = Nil <=> nodes = <<>>
  /\ \A n \in DOMAIN nodes :
       /\ NodeOK(nodes[n])
       /\ Len(nodes[n].keys) <= order + (IF n = cur THEN 1 ELSE 0)

(* find_leaf of a stored key ends in the leaf that stores it, after any     *)
(* number of splits and erasures, and between the turns of the split loop:  *)
(* separators agree with what is below them although erase leaves stale     *)
(* ones behind.                                                             *)
DescentFindsLeaf ==
  \A n \in Leaves : \A k \in Range(nodes[n].keys) : find_leaf(k) = n

(* The chain of leaves, from the leaf the leftmost pointers lead to, visits *)
(* every leaf on the heap once, and the keys along it ascend strictly:      *)
(* what find_equal and range rely on when they stop at the first key above. *)
ChainAscends ==
  root # Nil =>
    LET leftmost[n \in DOMAIN nodes] ==
          IF nodes[n].leaf THEN n ELSE leftmost[nodes[n].ch[1]]
        chain == Chain(leftmost[root])
        all == Along(leftmost[root])
    IN  /\ Range(chain) = Leaves
        /\ Len(chain) = Cardinality(Leaves)
        /\ \A i \in 1..Len(all) - 1 : all[i][1] < all[i + 1][1]

(* The pointers up are the inverse of the pointers down, every node but the *)
(* root hangs below exactly one other, and all leaves are equally deep: a   *)
(* split that leaves a child with the parent it had would hand a later      *)
(* separator to the wrong node.                                             *)
TreeShaped ==
  LET depth[n \in DOMAIN nodes] ==
        IF nodes[n].parent = Nil THEN 0 ELSE depth[nodes[n].parent] + 1
  IN  /\ \A n \in DOMAIN nodes :
           /\ nodes[n].parent = Nil <=> n = root
           /\ \A i \in DOMAIN nodes[n].ch : nodes[nodes[n].ch[i]].parent = n
           /\ Cardinality(Range(nodes[n].ch)) = Len(nodes[n].ch)
           /\ n # root => n \in Range(nodes[nodes[n].parent].ch)
      /\ \A m, n \in Leaves : depth[m] = depth[n]

(* Between two calls find_equal returns exactly the rows stored under a     *)
(* key, and range exactly those within its limits, in the order of keys,    *)
(* whatever empty leaves lie on the way.                                    *)
LookupsExact ==
  cur = Nil =>
    /\ \A k \in Keys :
         /\ Range(find_equal(k)) = {r \in Rids : <<k, r>> \in Stored}
         /\ Len(find_equal(k)) <= 1
    /\ \A lo, hi \in Keys, li, hi_in \in BOOLEAN :
         LET within == {e \in Stored : /\ e[1] > lo \/ (li /\ e[1] = lo)
                                       /\ e[1] < hi \/ (hi_in /\ e[1] = hi)}
             got == range(lo, hi, li, hi_in)
         IN  /\ Len(got) = Cardinality(within)
             /\ Range(got) = {e[2] : e \in within}

EI == INSTANCE EntryIndex WITH entries <- Stored

(* The tree is a set of entries: the call insert adds its entry, erase      *)
(* takes its own away, clear all, and no split adds, loses or changes any.  *)
ImplementsEntryIndex == EI!EntryIndexSpec
=============================================================================
