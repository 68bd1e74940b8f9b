--------------------------- MODULE BPlusTreeProofs ---------------------------
(***************************************************************************)
(* Proofs about BPlusTree, for every set of keys and rows, every order and *)
(* every bound on the heap.                                                *)
(*                                                                         *)
(* The inductive invariant TreeInv says that there are witnesses the code  *)
(* does not keep: a height h[n] and a region reg[n] of every node (the     *)
(* keys a descent takes there: Int at the root, the part between two       *)
(* separators at a child), the chain c of the leaves and the position      *)
(* pos[n] of a leaf in it.  Every key lies in the region of its node,      *)
(* regions of later leaves are above those of earlier ones, a child is one *)
(* lower than its parent and points back to it, and the one node that may  *)
(* be too large is cur.  Separators need not be keys of any leaf: erase    *)
(* changes no region.                                                      *)
(*                                                                         *)
(* In the middle of a split two nodes stand for one.  The node above still *)
(* sees the left half with the region of both, seen[n], until Promote puts *)
(* the separator between them.                                             *)
(***************************************************************************)
EXTENDS BPlusTree, Induction, SequenceTheorems, FiniteSetTheorems, TLAPS

-----------------------------------------------------------------------------
(* Sequences with one element more or less.                                 *)
LEMMA InsertAtFacts ==
  ASSUME NEW S, NEW s \in Seq(S), NEW i \in 1 .. Len(s) + 1, NEW e \in S
  PROVE  /\ InsertAt(s, i, e) \in Seq(S)
         /\ Len(InsertAt(s, i, e)) = Len(s) + 1
         /\ \A j \in 1 .. Len(s) + 1 :
              InsertAt(s, i, e)[j] = IF j < i THEN s[j] ELSE IF j = i THEN e ELSE s[j - 1]
<1> DEFINE front == SubSeq(s, 1, i - 1)
           back == SubSeq(s, i, Len(s))
<1>0. Len(s) \in Nat /\ i - 1 \in Int /\ \A j \in 1 .. Len(s) : s[j] \in S
  OBVIOUS
<1>1. front \in Seq(S) /\ Len(front) = i - 1 /\ \A j \in 1 .. i - 1 : front[j] = s[j]
  BY <1>0, SubSeqProperties
<1>2. back \in Seq(S) /\ Len(back) = Len(s) - i + 1
  BY <1>0, SubSeqProperties
<1>3. \A j \in 1 .. Len(s) - i + 1 : back[j] = s[i + j - 1]
  BY <1>0, SubSeqProperties
<1>4. <<e>> \in Seq(S) /\ Len(<<e>>) = 1 /\ <<e>>[1] = e
  OBVIOUS
<1> HIDE DEF front, back
<1>5. /\ front \o <<e>> \in Seq(S) /\ Len(front \o <<e>>) = i
      /\ \A j \in 1 .. i : (front \o <<e>>)[j] = IF j < i THEN front[j] ELSE e
  BY <1>0, <1>1, <1>4, ConcatProperties
<1> DEFINE head == front \o <<e>>
<1> HIDE DEF head
<1>6. /\ head \o back \in Seq(S) /\ Len(head \o back) = Len(s) + 1
      /\ \A j \in 1 .. Len(s) + 1 : (head \o back)[j] = IF j <= i THEN head[j] ELSE back[j - i]
  <2>1. head \in Seq(S) /\ Len(head) = i
    BY <1>5 DEF head
  <2>3. i + Len(back) = Len(s) + 1
    BY <1>0, <1>2
  <2>2. /\ head \o back \in Seq(S) /\ Len(head \o back) = Len(head) + Len(back)
        /\ \A j \in 1 .. Len(head) + Len(back) :
             (head \o back)[j] = IF j <= Len(head) THEN head[j] ELSE back[j - Len(head)]
    BY <1>2, <2>1, ConcatProperties
  <2> QED BY <2>1, <2>2, <2>3
<1>7. InsertAt(s, i, e) = head \o back
  BY DEF InsertAt, head, front, back
<1>8. ASSUME NEW j \in 1 .. Len(s) + 1
      PROVE  (head \o back)[j] = IF j < i THEN s[j] ELSE IF j = i THEN e ELSE s[j - 1]
  <2>0. (head \o back)[j] = IF j <= i THEN head[j] ELSE back[j - i]
    BY <1>6
  <2>1. CASE j < i
    <3>1. j \in 1 .. i - 1 /\ j \in 1 .. i /\ j <= i
      BY <1>0, <2>1
    <3>2. head[j] = front[j] /\ front[j] = s[j]
      BY <1>1, <1>5, <2>1, <3>1 DEF head
    <3> QED BY <2>0, <2>1, <3>1, <3>2
  <2>3. CASE j = i
    <3>1. head[j] = e
      BY <1>0, <1>5, <2>3 DEF head
    <3> QED BY <1>0, <2>0, <2>3, <3>1
  <2>2. CASE j > i
    <3>1. j - i \in 1 .. Len(s) - i + 1 /\ i + (j - i) - 1 = j - 1
      BY <1>0, <2>2
    <3>2. back[j - i] = s[j - 1]
      BY <1>3, <3>1
    <3>3. ~ (j <= i) /\ ~ (j < i) /\ j # i
      BY <1>0, <2>2
    <3> QED BY <2>0, <3>2, <3>3
  <2>4. j < i \/ j = i \/ j > i
    BY <1>0
  <2> QED BY ONLY <2>1, <2>2, <2>3, <2>4
<1> QED BY <1>6, <1>7, <1>8

(* A sequence without its element at a position.                            *)
LEMMA RemoveAtFacts ==
  ASSUME NEW S, NEW s \in Seq(S), NEW i \in 1 .. Len(s)
  PROVE  /\ RemoveAt(s, i) \in Seq(S)
         /\ Len(RemoveAt(s, i)) = Len(s) - 1
         /\ \A j \in 1 .. Len(s) - 1 : RemoveAt(s, i)[j] = IF j < i THEN s[j] ELSE s[j + 1]
<1> DEFINE front == SubSeq(s, 1, i - 1)
           back == SubSeq(s, i + 1, Len(s))
<1>0. Len(s) \in Nat /\ i - 1 \in Int /\ i + 1 \in Int /\ \A j \in 1 .. Len(s) : s[j] \in S
  OBVIOUS
<1>1. front \in Seq(S) /\ Len(front) = i - 1 /\ \A j \in 1 .. i - 1 : front[j] = s[j]
  BY <1>0, SubSeqProperties
<1>2. back \in Seq(S) /\ Len(back) = Len(s) - i
  BY <1>0, SubSeqProperties
<1>3. \A j \in 1 .. Len(s) - i : back[j] = s[i + j]
  <2>1. \A j \in 1 .. Len(s) - (i + 1) + 1 : back[j] = s[(i + 1) + j - 1]
    BY <1>0, SubSeqProperties
  <2>2. ASSUME NEW j \in 1 .. Len(s) - i PROVE j \in 1 .. Len(s) - (i + 1) + 1 /\ (i + 1) + j - 1 = i + j
    BY <1>0
  <2> HIDE DEF back
  <2> QED BY <2>1, <2>2
<1> HIDE DEF front, back
<1>6. /\ front \o back \in Seq(S) /\ Len(front \o back) = Len(s) - 1
      /\ \A j \in 1 .. Len(s) - 1 : (front \o back)[j] = IF j <= i - 1 THEN front[j] ELSE back[j - (i - 1)]
  <2>1. Len(front) + Len(back) = Len(s) - 1
    BY <1>0, <1>1, <1>2
  <2>2. /\ front \o back \in Seq(S) /\ Len(front \o back) = Len(front) + Len(back)
        /\ \A j \in 1 .. Len(front) + Len(back) :
             (front \o back)[j] = IF j <= Len(front) THEN front[j] ELSE back[j - Len(front)]
    BY <1>1, <1>2, ConcatProperties
  <2>3. Len(front) = i - 1
    BY <1>1
  <2> QED BY <2>1, <2>2, <2>3
<1>7. RemoveAt(s, i) = front \o back
  BY DEF RemoveAt, front, back
<1>8. ASSUME NEW j \in 1 .. Len(s) - 1
      PROVE  (front \o back)[j] = IF j < i THEN s[j] ELSE s[j + 1]
  <2>0. (front \o back)[j] = IF j <= i - 1 THEN front[j] ELSE back[j - (i - 1)]
    BY <1>6
  <2>1. CASE j < i
    <3>1. j \in 1 .. i - 1 /\ j <= i - 1
      BY <1>0, <2>1
    <3>2. front[j] = s[j]
      BY <1>1, <3>1
    <3> QED BY <2>0, <2>1, <3>1, <3>2
  <2>2. CASE j >= i
    <3>1. j - (i - 1) \in 1 .. Len(s) - i /\ i + (j - (i - 1)) = j + 1
      BY <1>0, <2>2
    <3>2. back[j - (i - 1)] = s[j + 1]
      BY <1>3, <3>1
    <3>3. ~ (j <= i - 1) /\ ~ (j < i)
      BY <1>0, <2>2
    <3> QED BY <2>0, <3>2, <3>3
  <2>4. j < i \/ j >= i
    BY <1>0
  <2> QED BY ONLY <2>1, <2>2, <2>4
<1> QED BY <1>6, <1>7, <1>8

-----------------------------------------------------------------------------
(* Positions among the keys of a node.                                      *)
Ascends(keys) == \A i, j \in 1 .. Len(keys) : i < j => keys[i] < keys[j]

(* x belongs between key p - 1 and key p.                                   *)
Between(keys, x, p) ==
  /\ p > 1 => keys[p - 1] <= x
  /\ p <= Len(keys) => x < keys[p]

(* The loop that picks a child ends at a position where the key fits.       *)
LEMMA ChildPosFacts ==
  ASSUME NEW keys \in Seq(Int), NEW x \in Int
  PROVE  ChildPos(keys, x) \in 1 .. Len(keys) + 1 /\ Between(keys, x, ChildPos(keys, x))
<1> DEFINE I == {i \in 1 .. Len(keys) : ~ (keys[i] <= x)}
<1>1. ChildPos(keys, x) = IF I # {} THEN Min(I) ELSE Len(keys) + 1
  <2>1. I # {} => Min(I) \in I
    BY MinIsLeast
  <2>2. Len(keys) \in Nat
    OBVIOUS
  <2> QED BY <2>1, <2>2 DEF ChildPos, FirstNot, SelectInSeq
<1>2. CASE I = {}
  BY <1>1, <1>2 DEF Between
<1>3. CASE I # {}
  <2>1. Min(I) \in I /\ \A m \in I : Min(I) <= m
    <3>1. I \in SUBSET Nat
      OBVIOUS
    <3> HIDE DEF I
    <3> QED BY <1>3, <3>1, MinIsLeast
  <2>2. PICK p \in I : p = ChildPos(keys, x) /\ \A m \in I : p <= m
    BY <1>1, <1>3, <2>1
  <2>3. p > 1 => keys[p - 1] <= x
    <3> SUFFICES ASSUME p > 1, ~ (keys[p - 1] <= x) PROVE FALSE
      OBVIOUS
    <3>1. p - 1 \in I
      OBVIOUS
    <3> QED BY <2>2, <3>1
  <2>4. x < keys[p]
    OBVIOUS
  <2> QED BY <2>2, <2>3, <2>4 DEF Between
<1> QED BY <1>2, <1>3

(* In ascending keys there is one such position.                            *)
LEMMA PositionUnique ==
  ASSUME NEW keys \in Seq(Int), Ascends(keys), NEW x \in Int,
         NEW p \in 1 .. Len(keys) + 1, NEW q \in 1 .. Len(keys) + 1,
         Between(keys, x, p), Between(keys, x, q)
  PROVE  p = q
<1>0. Len(keys) \in Nat
  OBVIOUS
<1>1. ASSUME NEW a \in 1 .. Len(keys) + 1, NEW b \in 1 .. Len(keys) + 1, a < b,
             Between(keys, x, a), Between(keys, x, b)
      PROVE  FALSE
  <2>1. a \in 1 .. Len(keys) /\ b - 1 \in 1 .. Len(keys) /\ a <= b - 1
    BY <1>0, <1>1
  <2>2. x < keys[a] /\ keys[b - 1] <= x
    BY <1>0, <1>1, <2>1 DEF Between
  <2>3. keys[a] <= keys[b - 1]
    <3>1. keys[a] \in Int /\ keys[b - 1] \in Int
      BY <2>1
    <3>2. a < b - 1 => keys[a] < keys[b - 1]
      BY <2>1 DEF Ascends
    <3>3. a = b - 1 \/ a < b - 1
      BY <1>0, <2>1
    <3> QED BY <3>1, <3>2, <3>3
  <2>4. keys[a] \in Int /\ keys[b - 1] \in Int
    BY <2>1
  <2> QED BY <2>2, <2>3, <2>4
<1> QED BY <1>0, <1>1

(* Among ascending keys that position is the only one where it fits.        *)
LEMMA ChildPosIs ==
  ASSUME NEW keys \in Seq(Int), Ascends(keys), NEW x \in Int,
         NEW p \in 1 .. Len(keys) + 1
  PROVE  ChildPos(keys, x) = p <=> Between(keys, x, p)
<1> DEFINE q == ChildPos(keys, x)
<1>1. q \in 1 .. Len(keys) + 1 /\ Between(keys, x, q)
  BY ChildPosFacts
<1> HIDE DEF q
<1>2. Between(keys, x, p) => q = p
  BY <1>1, PositionUnique
<1> QED BY <1>1, <1>2 DEF q

-----------------------------------------------------------------------------
(* The tree.  reg[n] is the region of node n, the keys a descent takes      *)
(* there; h[n] is its height.  Between two turns of the split loop all is   *)
(* well; in the middle of a turn the node split is seen from above with     *)
(* the region it had, seen[n], and the new one hangs below nothing yet.     *)
NodeRecs ==
  [leaf : BOOLEAN, parent : Nat, keys : Seq(Keys), rows : Seq(Rids), ch : Seq(Nat), next : Nat]

Addresses(H) == 1 .. Len(H)

NodeInv(n) ==
  /\ n \in NodeRecs
  /\ n.leaf => Len(n.rows) = Len(n.keys) /\ n.ch = <<>>
  /\ ~ n.leaf => Len(n.ch) = Len(n.keys) + 1 /\ n.keys # <<>> /\ n.rows = <<>> /\ n.next = Nil
  /\ Ascends(n.keys)

RegionInv(n, r) ==
  /\ r \in SUBSET Int /\ r # {}
  /\ \A i \in 1 .. Len(n.keys) : n.keys[i] \in r

Part(keys, r, p) == {x \in r : ChildPos(keys, x) = p}

ChildInv(H, n, p, h, reg, seen) ==
  LET c == H[n].ch[p] IN
    /\ c \in Addresses(H) /\ H[c].parent = n
    /\ h[c] + 1 = h[n]
    /\ seen[c] = Part(H[n].keys, reg[n], p)

ParentInv(H, n) ==
  /\ H[n].parent \in Addresses(H) /\ ~ H[H[n].parent].leaf
  /\ \E p \in 1 .. Len(H[H[n].parent].ch) : H[H[n].parent].ch[p] = n

HeightInv(H, n, rt, h) ==
  /\ h[n] \in Nat
  /\ H[n].leaf <=> h[n] = 0
  /\ h[n] <= h[rt]

Tree(H, rt, h, reg, seen, new) ==
  /\ H \in Seq(NodeRecs) /\ rt \in Addresses(H) /\ new \subseteq Addresses(H)
  /\ \A n \in Addresses(H) :
       /\ NodeInv(H[n]) /\ RegionInv(H[n], reg[n]) /\ HeightInv(H, n, rt, h)
       /\ ~ H[n].leaf => \A p \in 1 .. Len(H[n].ch) : ChildInv(H, n, p, h, reg, seen)
  /\ \A n \in Addresses(H) \ (new \cup {rt}) : ParentInv(H, n) /\ h[n] < h[rt]
  /\ \A n \in new \cup {rt} : H[n].parent = Nil
  /\ seen[rt] = Int

Sound(H, rt, h, reg) == Tree(H, rt, h, reg, reg, {})

(* The fields of a node, typed.                                             *)
LEMMA Fields ==
  ASSUME NEW n \in NodeRecs
  PROVE  /\ n.leaf \in BOOLEAN /\ n.parent \in Nat /\ n.next \in Nat
         /\ n.keys \in Seq(Keys) /\ n.keys \in Seq(Int)
         /\ n.rows \in Seq(Rids) /\ n.ch \in Seq(Nat)
         /\ Len(n.keys) \in Nat /\ Len(n.rows) \in Nat /\ Len(n.ch) \in Nat
<1>1. n.keys \in Seq(Keys)
  BY DEF NodeRecs
<1>2. n.keys \in Seq(Int)
  BY <1>1, BPlusTreeAssumption, SeqMonotonic
<1> QED BY <1>1, <1>2 DEF NodeRecs

(* The way down one level, for a key of the node's region.                  *)
LEMMA OneDown ==
  ASSUME NEW H, NEW rt, NEW h, NEW reg, NEW seen, NEW new, Tree(H, rt, h, reg, seen, new),
         NEW n \in Addresses(H), ~ H[n].leaf, NEW x \in Int
  PROVE  /\ ChildPos(H[n].keys, x) \in 1 .. Len(H[n].ch)
         /\ H[n].ch[ChildPos(H[n].keys, x)] \in Addresses(H)
         /\ h[H[n].ch[ChildPos(H[n].keys, x)]] + 1 = h[n]
         /\ h[H[n].ch[ChildPos(H[n].keys, x)]] \in Nat
         /\ x \in reg[n] => x \in seen[H[n].ch[ChildPos(H[n].keys, x)]]
<1> DEFINE p == ChildPos(H[n].keys, x)
<1>1. NodeInv(H[n]) /\ H[n].keys \in Seq(Int)
  BY Fields DEF Tree, NodeInv
<1>2. p \in 1 .. Len(H[n].ch)
  BY <1>1, ChildPosFacts DEF NodeInv
<1>3. ChildInv(H, n, p, h, reg, seen)
  BY <1>2 DEF Tree
<1> DEFINE c == H[n].ch[p]
<1>4. c \in Addresses(H) /\ h[c] + 1 = h[n] /\ seen[c] = Part(H[n].keys, reg[n], p)
  BY <1>3 DEF ChildInv
<1>5. x \in reg[n] => x \in seen[c]
  <2> HIDE DEF c
  <2> QED BY <1>4 DEF Part
<1>6. h[c] \in Nat
  <2> HIDE DEF c
  <2> QED BY <1>4 DEF Tree, HeightInv
<1> QED BY <1>2, <1>4, <1>5, <1>6

(* The way up one level: a key of the node's region is one of its parent's, *)
(* who sends it back.                                                       *)
LEMMA OneUp ==
  ASSUME NEW H, NEW rt, NEW h, NEW reg, NEW seen, NEW new, Tree(H, rt, h, reg, seen, new),
         NEW n \in Addresses(H), n \notin new \cup {rt}, NEW x \in seen[n]
  PROVE  LET p == H[n].parent IN
         /\ p \in Addresses(H) /\ ~ H[p].leaf /\ h[p] = h[n] + 1 /\ x \in reg[p] /\ x \in Int
         /\ H[p].ch[ChildPos(H[p].keys, x)] = n
<1> DEFINE p == H[n].parent
<1>1. p \in Addresses(H) /\ ~ H[p].leaf
  BY DEF Tree, ParentInv
<1>2. PICK i \in 1 .. Len(H[p].ch) : H[p].ch[i] = n
  BY DEF Tree, ParentInv
<1> HIDE DEF p
<1>3. ChildInv(H, p, i, h, reg, seen)
  BY <1>1 DEF Tree
<1>4. h[n] + 1 = h[p] /\ seen[n] = Part(H[p].keys, reg[p], i)
  BY <1>2, <1>3 DEF ChildInv
<1>5. x \in reg[p] /\ ChildPos(H[p].keys, x) = i
  BY <1>4 DEF Part
<1>6. x \in Int
  BY <1>1, <1>5 DEF Tree, RegionInv
<1>7. h[p] = h[n] + 1
  BY <1>4
<1> QED BY <1>1, <1>2, <1>5, <1>6, <1>7 DEF p

(* No two nodes of one height share a key.                                  *)
LEMMA RegionsDisjoint ==
  ASSUME NEW H, NEW rt, NEW h, NEW reg, Sound(H, rt, h, reg),
         NEW m \in Addresses(H), NEW n \in Addresses(H), h[m] = h[n],
         NEW x \in reg[m], x \in reg[n]
  PROVE  m = n
<1> DEFINE S == {d \in 0 .. h[rt] : \A a, b \in Addresses(H) :
                   h[a] = h[rt] - d /\ h[b] = h[rt] - d /\ x \in reg[a] /\ x \in reg[b] => a = b}
<1>0. Tree(H, rt, h, reg, reg, {})
  BY DEF Sound
<1>1. h[rt] \in Nat /\ \A a \in Addresses(H) : h[a] \in Nat /\ (a # rt => h[a] < h[rt])
  BY <1>0 DEF Tree, HeightInv
<1>2. 0 \in S
  BY <1>1
<1>3. ASSUME NEW d \in 0 .. h[rt] - 1, d \in S PROVE d + 1 \in S
  <2>1. ASSUME NEW a \in Addresses(H), NEW b \in Addresses(H),
               h[a] = h[rt] - (d + 1), h[b] = h[rt] - (d + 1), x \in reg[a], x \in reg[b]
        PROVE  a = b
    <3>1. a # rt /\ b # rt
      BY <1>1, <2>1
    <3> DEFINE p == H[a].parent
               q == H[b].parent
    <3>2. p \in Addresses(H) /\ h[p] = h[a] + 1 /\ x \in reg[p] /\ H[p].ch[ChildPos(H[p].keys, x)] = a
      BY <1>0, <2>1, <3>1, OneUp
    <3>3. q \in Addresses(H) /\ h[q] = h[b] + 1 /\ x \in reg[q] /\ H[q].ch[ChildPos(H[q].keys, x)] = b
      BY <1>0, <2>1, <3>1, OneUp
    <3> HIDE DEF p, q
    <3>4. h[p] = h[rt] - d /\ h[q] = h[rt] - d
      BY <1>1, <2>1, <3>2, <3>3
    <3>5. p = q
      BY <1>3, <3>2, <3>3, <3>4
    <3> QED BY <3>2, <3>3, <3>5
  <2>2. d + 1 \in 0 .. h[rt]
    BY <1>1
  <2> QED BY <2>1, <2>2
<1>4. h[rt] - h[m] \in 0 .. h[rt] /\ h[rt] - (h[rt] - h[m]) = h[m]
  BY <1>1
<1>5. h[rt] - h[m] \in S
  <2> HIDE DEF S
  <2>1. 0 .. h[rt] \subseteq S
    BY <1>1, <1>2, <1>3, UpTo
  <2> QED BY <1>4, <2>1
<1> QED BY <1>4, <1>5

-----------------------------------------------------------------------------
(* Descents.  Links lead to lower nodes, until a node of L is reached.      *)
Falls(D, L, via, h, top) ==
  /\ top \in Nat
  /\ \A n \in D : h[n] \in 0 .. top
  /\ \A n \in D \ L : via[n] \in D /\ h[via[n]] < h[n]

Descends(f, D, L, via) == f = [n \in D |-> IF n \in L THEN n ELSE f[via[n]]]

(* A function that follows such links exists ...                            *)
LEMMA DescentExists ==
  ASSUME NEW D, NEW L, NEW via, NEW h, NEW top, Falls(D, L, via, h, top)
  PROVE  \E f : Descends(f, D, L, via)
<1> USE DEF Falls
<1> DEFINE Low(m) == {n \in D : h[n] <= m}
           Fits(f, m) == f = [n \in Low(m) |-> IF n \in L THEN n ELSE f[via[n]]]
           S == {m \in 0 .. top : \E f : Fits(f, m)}
<1>1. 0 \in S
  <2> DEFINE f == [n \in Low(0) |-> n]
  <2>1. ASSUME NEW n \in Low(0) PROVE n \in L
    <3>1. n \in D /\ h[n] \in Nat /\ h[n] <= 0
      OBVIOUS
    <3>2. n \notin L => h[via[n]] \in Nat /\ h[via[n]] < h[n]
      BY <3>1
    <3> QED BY <3>1, <3>2
  <2>2. f = [n \in Low(0) |-> IF n \in L THEN n ELSE f[via[n]]]
    <3> HIDE DEF Low
    <3> QED BY <2>1
  <2> HIDE DEF f, Low
  <2>3. \E g : Fits(g, 0)
    BY <2>2
  <2> HIDE DEF Fits
  <2> QED BY <2>3
<1>2. ASSUME NEW m \in 0 .. top - 1, m \in S PROVE m + 1 \in S
  <2>1. PICK f : Fits(f, m)
    BY <1>2
  <2> DEFINE g == [n \in Low(m + 1) |-> IF n \in L THEN n ELSE f[via[n]]]
  <2>2. ASSUME NEW n \in Low(m + 1), n \notin L PROVE g[via[n]] = f[via[n]]
    <3>1. via[n] \in D /\ h[via[n]] \in Nat /\ h[n] \in Nat /\ h[n] <= m + 1 /\ h[via[n]] < h[n]
      BY <2>2
    <3>2. via[n] \in Low(m) /\ via[n] \in Low(m + 1)
      BY <3>1
    <3>3. f[via[n]] = IF via[n] \in L THEN via[n] ELSE f[via[via[n]]]
      <4> HIDE DEF Low
      <4> QED BY <2>1, <3>2
    <3>4. g[via[n]] = IF via[n] \in L THEN via[n] ELSE f[via[via[n]]]
      <4> HIDE DEF Low
      <4> QED BY <3>2
    <3> QED BY <3>3, <3>4
  <2>3. g = [n \in Low(m + 1) |-> IF n \in L THEN n ELSE g[via[n]]]
    <3>1. \A n \in Low(m + 1) : g[n] = IF n \in L THEN n ELSE f[via[n]]
      <4> HIDE DEF Low
      <4> QED OBVIOUS
    <3>2. g = [n \in Low(m + 1) |-> g[n]]
      <4> HIDE DEF Low
      <4> QED OBVIOUS
    <3> HIDE DEF g, Low
    <3>3. \A n \in Low(m + 1) : g[n] = IF n \in L THEN n ELSE g[via[n]]
      BY <2>2, <3>1
    <3> QED BY <3>2, <3>3
  <2> HIDE DEF g, Low
  <2>4. \E e : Fits(e, m + 1)
    BY <2>3
  <2> HIDE DEF Fits
  <2> QED BY <2>4
<1>3. top \in S
  <2> HIDE DEF S
  <2>1. 0 .. top \subseteq S
    BY <1>1, <1>2, UpTo
  <2> QED BY <2>1
<1>4. PICK f : Fits(f, top)
  BY <1>3
<1>5. Low(top) = D
  OBVIOUS
<1> HIDE DEF Low
<1>6. Descends(f, D, L, via)
  BY <1>4, <1>5 DEF Descends
<1> QED BY <1>6

(* ... and whatever set the links do not leave is not left.                 *)
LEMMA DescentStays ==
  ASSUME NEW D, NEW L, NEW via, NEW h, NEW top, Falls(D, L, via, h, top),
         NEW f, Descends(f, D, L, via),
         NEW K \in SUBSET D, \A n \in K \ L : via[n] \in K,
         NEW n \in K
  PROVE  f[n] \in K \cap L
<1> USE DEF Falls
<1> DEFINE S == {m \in 0 .. top : \A k \in K : h[k] <= m => f[k] \in K \cap L}
<1>0. \A k \in D : f[k] = IF k \in L THEN k ELSE f[via[k]]
  BY DEF Descends
<1>1. 0 \in S
  <2>1. ASSUME NEW k \in K, h[k] <= 0 PROVE f[k] \in K \cap L
    <3>1. k \notin L => h[via[k]] \in Nat /\ h[via[k]] < h[k] /\ h[k] \in Nat
      OBVIOUS
    <3>2. k \in L
      BY <2>1, <3>1
    <3> QED BY <1>0, <3>2
  <2> QED BY <2>1
<1>2. ASSUME NEW m \in 0 .. top - 1, m \in S PROVE m + 1 \in S
  <2>1. ASSUME NEW k \in K, h[k] <= m + 1 PROVE f[k] \in K \cap L
    <3>1. CASE k \in L
      BY <1>0, <3>1
    <3>2. CASE k \notin L
      <4>1. via[k] \in K /\ h[via[k]] \in Nat /\ h[via[k]] < h[k] /\ h[k] \in Nat
        BY <3>2
      <4>2. h[via[k]] <= m
        BY <2>1, <4>1
      <4>3. f[via[k]] \in K \cap L
        BY <1>2, <4>1, <4>2
      <4> QED BY <1>0, <3>2, <4>3
    <3> QED BY <3>1, <3>2
  <2>2. m + 1 \in 0 .. top
    OBVIOUS
  <2> QED BY ONLY <2>1, <2>2
<1>3. top \in S
  <2> HIDE DEF S
  <2>1. 0 .. top \subseteq S
    BY <1>1, <1>2, UpTo
  <2> QED BY <2>1
<1> QED BY <1>3

(* A descent for x ends in the leaf of x.                                   *)
LEMMA LeafOfKey ==
  ASSUME NEW h, NEW reg, Sound(nodes, root, h, reg), NEW x \in Int
  PROVE  find_leaf(x) \in Leaves /\ x \in reg[find_leaf(x)]
<1> DEFINE D == Addresses(nodes)
           via == [n \in D |-> nodes[n].ch[ChildPos(nodes[n].keys, x)]]
           Step(f, n) == IF nodes[n].leaf THEN n ELSE f[nodes[n].ch[ChildPos(nodes[n].keys, x)]]
           Fits(f) == f = [n \in DOMAIN nodes |-> Step(f, n)]
<1>0. Tree(nodes, root, h, reg, reg, {})
  BY DEF Sound
<1>1. DOMAIN nodes = D /\ root \in D /\ Leaves = {n \in D : nodes[n].leaf}
  <2>1. DOMAIN nodes = D
    BY <1>0 DEF Tree, Addresses
  <2> QED BY <1>0, <2>1 DEF Tree, Leaves
<1>2. h[root] \in Nat /\ \A n \in D : h[n] \in 0 .. h[root]
  <2>1. \A n \in D : h[n] \in Nat /\ h[n] <= h[root]
    BY <1>0 DEF Tree, HeightInv
  <2> QED BY <1>1, <2>1
<1>3. ASSUME NEW n \in D \ Leaves
      PROVE  /\ via[n] \in D /\ h[via[n]] < h[n]
             /\ x \in reg[n] => x \in reg[via[n]]
  <2>1. ~ nodes[n].leaf /\ n \in Addresses(nodes)
    BY <1>1
  <2> DEFINE c == nodes[n].ch[ChildPos(nodes[n].keys, x)]
  <2>2. c \in Addresses(nodes) /\ h[c] + 1 = h[n] /\ h[c] \in Nat /\ (x \in reg[n] => x \in reg[c])
    BY <1>0, <2>1, OneDown
  <2>3. via[n] = c
    OBVIOUS
  <2> HIDE DEF c, via
  <2> QED BY <2>2, <2>3
<1>4. ASSUME NEW f PROVE Fits(f) <=> Descends(f, D, Leaves, via)
  <2>1. \A n \in D : Step(f, n) = IF n \in Leaves THEN n ELSE f[via[n]]
    BY <1>1
  <2> HIDE DEF Step, D, via
  <2>2. [n \in DOMAIN nodes |-> Step(f, n)] = [n \in D |-> IF n \in Leaves THEN n ELSE f[via[n]]]
    BY <1>1, <2>1
  <2> QED BY <2>2 DEF Descends
<1> DEFINE top == h[root]
<1>9. Falls(D, Leaves, via, h, top)
  <2> HIDE DEF via, D
  <2> QED BY <1>2, <1>3 DEF Falls
<1> DEFINE f == CHOOSE f : Fits(f)
<1>5. find_leaf(x) = f[root]
  BY DEF find_leaf
<1>6. Descends(f, D, Leaves, via)
  <2> HIDE DEF Step, via, D, top, Fits
  <2>1. \E g : Descends(g, D, Leaves, via)
    BY <1>9, DescentExists
  <2>2. \E g : Fits(g)
    BY <1>4, <2>1
  <2>3. Fits(f)
    <3> HIDE DEF Fits
    <3> QED BY <2>2
  <2> HIDE DEF f
  <2> QED BY <1>4, <2>3
<1> DEFINE K == {n \in D : x \in reg[n]}
<1>7. root \in K
  BY <1>0, <1>1 DEF Tree
<1>8. f[root] \in K \cap Leaves
  <2>1. K \in SUBSET D /\ \A n \in K \ Leaves : via[n] \in K
    <3> HIDE DEF D, via
    <3> QED BY <1>3
  <2> HIDE DEF f, via, D, K, top
  <2> QED BY <1>9, <1>6, <1>7, <2>1, DescentStays
<1> HIDE DEF f
<1> QED BY <1>5, <1>8

(* There is only one.                                                       *)
LEMMA LeafUnique ==
  ASSUME NEW h, NEW reg, Sound(nodes, root, h, reg),
         NEW n \in Leaves, NEW x \in reg[n]
  PROVE  find_leaf(x) = n
<1>0. Tree(nodes, root, h, reg, reg, {})
  BY DEF Sound
<1>1. DOMAIN nodes = Addresses(nodes)
  BY <1>0 DEF Tree, Addresses
<1>2. \A l \in Leaves : l \in Addresses(nodes) /\ nodes[l].leaf
  BY <1>1 DEF Leaves
<1>3. x \in Int
  BY <1>0, <1>2 DEF Tree, RegionInv
<1>4. find_leaf(x) \in Leaves /\ x \in reg[find_leaf(x)]
  BY <1>3, LeafOfKey
<1>5. \A l \in Leaves : h[l] = 0
  BY <1>0, <1>2 DEF Tree, HeightInv
<1>6. h[find_leaf(x)] = h[n]
  BY <1>4, <1>5
<1>7. find_leaf(x) \in Addresses(nodes) /\ n \in Addresses(nodes)
  BY <1>2, <1>4
<1> QED BY <1>4, <1>6, <1>7, RegionsDisjoint

-----------------------------------------------------------------------------
(* Leaves that change.                                                      *)
Refills(H, G, n, ks, rs) ==
  /\ G \in Seq(NodeRecs) /\ Len(G) = Len(H)
  /\ \A m \in Addresses(H) : m # n => G[m] = H[m]
  /\ G[n].keys = ks /\ G[n].rows = rs /\ G[n].leaf = H[n].leaf /\ G[n].parent = H[n].parent
  /\ G[n].ch = H[n].ch /\ G[n].next = H[n].next

(* A heap in which one node got other keys and rows.                        *)
LEMMA Refilled ==
  ASSUME NEW H \in Seq(NodeRecs), NEW n \in Addresses(H),
         NEW ks \in Seq(Keys), NEW rs \in Seq(Rids),
         NEW G, G = [H EXCEPT ![n].keys = ks, ![n].rows = rs]
  PROVE  Refills(H, G, n, ks, rs)
<1> DEFINE e == [H[n] EXCEPT !.keys = ks, !.rows = rs]
<1>1. H[n] \in NodeRecs
  BY DEF Addresses
<1>2. e \in NodeRecs
  BY <1>1 DEF NodeRecs
<1>3. G = [H EXCEPT ![n] = e]
  BY DEF Addresses
<1>6. /\ e.keys = ks /\ e.rows = rs /\ e.leaf = H[n].leaf /\ e.parent = H[n].parent
      /\ e.ch = H[n].ch /\ e.next = H[n].next
  BY <1>1 DEF NodeRecs
<1> HIDE DEF e
<1>4. /\ [H EXCEPT ![n] = e] \in Seq(NodeRecs) /\ Len([H EXCEPT ![n] = e]) = Len(H)
      /\ \A m \in 1 .. Len(H) : [H EXCEPT ![n] = e][m] = IF m = n THEN e ELSE H[m]
  BY <1>2, ExceptSeq DEF Addresses
<1>5. /\ G \in Seq(NodeRecs) /\ Len(G) = Len(H)
      /\ \A m \in Addresses(H) : m # n => G[m] = H[m]
      /\ G[n] = e
  BY <1>3, <1>4 DEF Addresses
<1> QED BY <1>5, <1>6 DEF Refills

(* The tree does not mind what a leaf holds, as long as it is of the leaf's *)
(* region and in order.                                                     *)
LEMMA LeafChange ==
  ASSUME NEW H, NEW rt, NEW h, NEW reg, NEW seen, NEW new, Tree(H, rt, h, reg, seen, new),
         NEW G \in Seq(NodeRecs), Len(G) = Len(H), NEW n \in Addresses(H), H[n].leaf,
         NodeInv(G[n]), RegionInv(G[n], reg[n]), G[n].leaf, G[n].parent = H[n].parent,
         \A m \in Addresses(H) : m # n => G[m] = H[m]
  PROVE  Tree(G, rt, h, reg, seen, new)
<1>1. Addresses(G) = Addresses(H)
  BY DEF Addresses
<1>2. \A m \in Addresses(H) : G[m].leaf = H[m].leaf /\ G[m].parent = H[m].parent
  <2>1. G[n].leaf = H[n].leaf
    BY DEF Tree, NodeInv, NodeRecs
  <2> QED BY <2>1
<1>3. ASSUME NEW m \in Addresses(H)
      PROVE  /\ NodeInv(G[m]) /\ RegionInv(G[m], reg[m]) /\ HeightInv(G, m, rt, h)
             /\ ~ G[m].leaf => \A p \in 1 .. Len(G[m].ch) : ChildInv(G, m, p, h, reg, seen)
  <2>1. NodeInv(G[m]) /\ RegionInv(G[m], reg[m])
    BY DEF Tree
  <2>2. HeightInv(G, m, rt, h)
    BY <1>2 DEF Tree, HeightInv
  <2>3. ASSUME ~ G[m].leaf, NEW p \in 1 .. Len(G[m].ch) PROVE ChildInv(G, m, p, h, reg, seen)
    <3>1. ~ H[m].leaf /\ G[m] = H[m] /\ p \in 1 .. Len(H[m].ch)
      BY <1>2, <2>3
    <3>2. ChildInv(H, m, p, h, reg, seen)
      BY <3>1 DEF Tree
    <3> QED BY <1>1, <1>2, <3>1, <3>2 DEF ChildInv
  <2> QED BY <2>1, <2>2, <2>3
<1>4. ASSUME NEW m \in Addresses(H) \ (new \cup {rt}) PROVE ParentInv(G, m) /\ h[m] < h[rt]
  <2>1. ParentInv(H, m) /\ h[m] < h[rt]
    BY DEF Tree
  <2> DEFINE p == H[m].parent
  <2>2. G[m].parent = p /\ p \in Addresses(H) /\ ~ H[p].leaf
    BY <1>2, <2>1 DEF ParentInv
  <2>3. G[p] = H[p]
    BY <2>2
  <2> QED BY <1>1, <2>1, <2>2, <2>3 DEF ParentInv
<1>5. ASSUME NEW m \in new \cup {rt} PROVE G[m].parent = Nil
  <2>1. m \in Addresses(H) /\ H[m].parent = Nil
    BY DEF Tree
  <2> QED BY <1>2, <2>1
<1> QED BY <1>1, <1>3, <1>4, <1>5 DEF Tree

-----------------------------------------------------------------------------
(* One node becomes two: it keeps the keys below the separator, a new one   *)
(* at the end of the heap takes the others.                                 *)
Below(r, sep) == {x \in r : x < sep}

From(r, sep) == {x \in r : sep <= x}

(* The heights and regions of the nodes of H after n was divided at sep, and *)
(* the regions seen from above while the new node hangs nowhere.             *)
Divided(H, n, sep, h, reg, h2, reg2, seen2) ==
  LET right == Len(H) + 1 IN
  /\ \A m \in Addresses(H) : h2[m] = h[m] /\ seen2[m] = reg[m] /\ (m # n => reg2[m] = reg[m])
  /\ h2[right] = h[n] /\ seen2[right] = {}
  /\ reg2[right] = From(reg[n], sep) /\ reg2[n] = Below(reg[n], sep)

(* Heights and regions of the divided heap exist.                           *)
LEMMA CanDivide ==
  ASSUME NEW H, Len(H) \in Nat, NEW n \in Addresses(H), NEW h, NEW reg, NEW sep
  PROVE  \E h2, reg2, seen2 : Divided(H, n, sep, h, reg, h2, reg2, seen2)
<1> DEFINE right == Len(H) + 1
           D == 1 .. right
           h2 == [m \in D |-> IF m = right THEN h[n] ELSE h[m]]
           seen2 == [m \in D |-> IF m = right THEN {} ELSE reg[m]]
           reg2 == [m \in D |-> IF m = right THEN From(reg[n], sep)
                                ELSE IF m = n THEN Below(reg[n], sep) ELSE reg[m]]
<1>1. n # right /\ n \in D /\ right \in D /\ \A m \in Addresses(H) : m \in D /\ m # right
  BY DEF Addresses
<1>2. Divided(H, n, sep, h, reg, h2, reg2, seen2)
  <2> HIDE DEF D
  <2>1. \A m \in Addresses(H) : h2[m] = h[m] /\ seen2[m] = reg[m] /\ (m # n => reg2[m] = reg[m])
    <3> HIDE DEF right
    <3> QED BY <1>1
  <2>2. /\ h2[right] = h[n] /\ seen2[right] = {}
        /\ reg2[right] = From(reg[n], sep) /\ reg2[n] = Below(reg[n], sep)
    <3> HIDE DEF right
    <3> QED BY <1>1
  <2> HIDE DEF h2, seen2, reg2
  <2> QED BY <2>1, <2>2 DEF Divided
<1> HIDE DEF h2, seen2, reg2
<1> QED BY <1>2

(* A leaf of a sound tree and its two halves: but for the new leaf, which   *)
(* hangs below no node yet, the tree is sound.                              *)
LEMMA LeafSplit ==
  ASSUME NEW H, NEW rt, NEW h, NEW reg, Sound(H, rt, h, reg),
         NEW n \in Addresses(H), H[n].leaf, NEW sep \in Int,
         NEW G \in Seq(NodeRecs), Len(G) = Len(H) + 1,
         \A m \in Addresses(H) : m # n => G[m] = H[m],
         G[n].leaf, G[n].parent = H[n].parent, NodeInv(G[n]), RegionInv(G[n], Below(reg[n], sep)),
         G[Len(G)].leaf, G[Len(G)].parent = Nil, NodeInv(G[Len(G)]),
         RegionInv(G[Len(G)], From(reg[n], sep)),
         NEW h2, NEW reg2, NEW seen2, Divided(H, n, sep, h, reg, h2, reg2, seen2)
  PROVE  Tree(G, rt, h2, reg2, seen2, {Len(G)})
<1> DEFINE right == Len(G)
<1>0. Tree(H, rt, h, reg, reg, {}) /\ H \in Seq(NodeRecs) /\ Len(H) \in Nat
  BY DEF Sound, Tree
<1>1. /\ right \notin Addresses(H) /\ n # right /\ Addresses(G) = Addresses(H) \cup {right}
      /\ \A m \in Addresses(H) : /\ h2[m] = h[m] /\ seen2[m] = reg[m]
                                 /\ m # n => reg2[m] = reg[m]
      /\ h2[right] = h[n] /\ seen2[right] = {}
      /\ reg2[right] = From(reg[n], sep) /\ reg2[n] = Below(reg[n], sep)
  BY <1>0 DEF Divided, Addresses
<1> HIDE DEF right
<1>2. \A m \in Addresses(H) : G[m].leaf = H[m].leaf /\ G[m].parent = H[m].parent
  <2>1. G[n].leaf = H[n].leaf
    BY <1>0 DEF Tree, NodeInv, NodeRecs
  <2> QED BY <2>1
<1>3. rt \in Addresses(H)
  BY <1>0 DEF Tree
<1>4. ASSUME NEW m \in Addresses(H)
      PROVE  /\ NodeInv(G[m]) /\ RegionInv(G[m], reg2[m]) /\ HeightInv(G, m, rt, h2)
             /\ ~ G[m].leaf => \A p \in 1 .. Len(G[m].ch) : ChildInv(G, m, p, h2, reg2, seen2)
  <2>1. NodeInv(G[m]) /\ RegionInv(G[m], reg2[m])
    BY <1>0, <1>1 DEF Tree
  <2>2. HeightInv(G, m, rt, h2)
    BY <1>0, <1>1, <1>2, <1>3 DEF Tree, HeightInv
  <2>3. ASSUME ~ G[m].leaf, NEW p \in 1 .. Len(G[m].ch) PROVE ChildInv(G, m, p, h2, reg2, seen2)
    <3>1. ~ H[m].leaf /\ m # n /\ G[m] = H[m] /\ p \in 1 .. Len(H[m].ch)
      BY <1>2, <2>3
    <3>2. ChildInv(H, m, p, h, reg, reg)
      BY <1>0, <3>1 DEF Tree
    <3> QED BY <1>1, <1>2, <3>1, <3>2 DEF ChildInv
  <2> QED BY <2>1, <2>2, <2>3
<1>5. /\ NodeInv(G[right]) /\ RegionInv(G[right], reg2[right]) /\ HeightInv(G, right, rt, h2)
      /\ G[right].leaf
  <2>1. h[n] \in Nat /\ h[n] = 0
    BY <1>0 DEF Tree, HeightInv
  <2>2. h[n] <= h[rt]
    BY <1>0 DEF Tree, HeightInv
  <2> QED BY <1>1, <1>3, <2>1, <2>2 DEF right, HeightInv
<1>6. ASSUME NEW m \in Addresses(G) \ ({right} \cup {rt}) PROVE ParentInv(G, m) /\ h2[m] < h2[rt]
  <2>1. m \in Addresses(H) /\ ParentInv(H, m) /\ h2[m] < h2[rt]
    BY <1>0, <1>1, <1>3 DEF Tree
  <2> DEFINE p == H[m].parent
  <2>2. G[m].parent = p /\ p \in Addresses(H) /\ ~ H[p].leaf
    BY <1>2, <2>1 DEF ParentInv
  <2>3. G[p] = H[p]
    BY <2>2
  <2> QED BY <1>1, <2>1, <2>2, <2>3 DEF ParentInv
<1>7. ASSUME NEW m \in {right} \cup {rt} PROVE G[m].parent = Nil
  BY <1>0, <1>2, <1>3 DEF Tree, right
<1>8. seen2[rt] = Int
  BY <1>0, <1>1, <1>3 DEF Tree
<1>9. Tree(G, rt, h2, reg2, seen2, {right})
  BY <1>1, <1>3, <1>4, <1>5, <1>6, <1>7, <1>8 DEF Tree
<1> QED BY <1>9 DEF right

-----------------------------------------------------------------------------
(* Ascending keys, compared by position.                                    *)
LEMMA KeysInOrder ==
  ASSUME NEW K \in Seq(Int), Ascends(K), NEW i \in 1 .. Len(K), NEW j \in 1 .. Len(K), i <= j
  PROVE  K[i] \in Int /\ K[j] \in Int /\ K[i] <= K[j] /\ (i < j => K[i] < K[j])
<1>1. K[i] \in Int /\ K[j] \in Int
  OBVIOUS
<1>2. i < j => K[i] < K[j]
  BY ONLY Ascends(K), i \in 1 .. Len(K), j \in 1 .. Len(K) DEF Ascends
<1>3. i < j \/ i = j
  OBVIOUS
<1> QED BY <1>1, <1>2, <1>3

(* The parts below and above a key are the parts by the keys there.         *)
LEMMA PartBelow ==
  ASSUME NEW K \in Seq(Int), Ascends(K), NEW q \in 1 .. Len(K),
         NEW L \in Seq(Int), Ascends(L), Len(L) = q - 1, \A i \in 1 .. q - 1 : L[i] = K[i],
         NEW r \in SUBSET Int, NEW p \in 1 .. q
  PROVE  Part(L, Below(r, K[q]), p) = Part(K, r, p)
<1>0. Len(K) \in Nat /\ p \in 1 .. Len(K) + 1 /\ p \in 1 .. Len(L) + 1 /\ K[q] \in Int /\ K[p] \in Int
  OBVIOUS
<1>1. K[p] <= K[q]
  <2>1. p \in 1 .. Len(K) /\ p <= q
    BY <1>0
  <2> QED BY <2>1, KeysInOrder
<1>2. ASSUME NEW x \in r PROVE Between(K, x, p) <=> x < K[q] /\ Between(L, x, p)
  <2>0. x \in Int
    OBVIOUS
  <2>1. p > 1 => L[p - 1] = K[p - 1]
    BY <1>0
  <2>2. p <= Len(L) => p < q /\ L[p] = K[p]
    BY <1>0
  <2>3. ~ (p <= Len(L)) => p = q
    BY <1>0
  <2>4. p <= Len(K)
    BY <1>0
  <2>5. Between(K, x, p) <=> (p > 1 => K[p - 1] <= x) /\ x < K[p]
    BY <2>4 DEF Between
  <2>6. Between(L, x, p) <=> (p > 1 => K[p - 1] <= x) /\ (p <= Len(L) => x < K[p])
    BY <2>1, <2>2 DEF Between
  <2>7. x < K[p] => x < K[q]
    BY ONLY <1>0, <1>1, <2>0
  <2>8. ~ (p <= Len(L)) => (x < K[p] <=> x < K[q])
    BY <2>3
  <2> QED BY ONLY <2>5, <2>6, <2>7, <2>8
<1>3. ASSUME NEW x \in r PROVE /\ ChildPos(K, x) = p <=> Between(K, x, p)
                               /\ ChildPos(L, x) = p <=> Between(L, x, p)
  BY <1>0, ChildPosIs
<1> QED BY <1>2, <1>3 DEF Part, Below

(* Children of the upper half: the parts are those of the whole node,       *)
(* further on.                                                              *)
LEMMA PartFrom ==
  ASSUME NEW K \in Seq(Int), Ascends(K), NEW q \in 1 .. Len(K),
         NEW R \in Seq(Int), Ascends(R), Len(R) = Len(K) - q,
         \A i \in 1 .. Len(K) - q : R[i] = K[q + i],
         NEW r \in SUBSET Int, NEW p \in 1 .. Len(K) - q + 1
  PROVE  Part(R, From(r, K[q]), p) = Part(K, r, q + p)
<1>0. Len(K) \in Nat /\ q + p \in 1 .. Len(K) + 1 /\ p \in 1 .. Len(R) + 1 /\ K[q] \in Int
  OBVIOUS
<1>1. q + p - 1 \in 1 .. Len(K) /\ K[q + p - 1] \in Int /\ K[q] <= K[q + p - 1]
  <2>1. q + p - 1 \in 1 .. Len(K) /\ q <= q + p - 1
    BY <1>0
  <2> QED BY <2>1, KeysInOrder
<1>2. ASSUME NEW x \in r PROVE Between(K, x, q + p) <=> K[q] <= x /\ Between(R, x, p)
  <2>0. x \in Int
    OBVIOUS
  <2>1. p > 1 => R[p - 1] = K[q + p - 1]
    <3> SUFFICES ASSUME p > 1 PROVE R[p - 1] = K[q + p - 1]
      OBVIOUS
    <3>1. p - 1 \in 1 .. Len(K) - q /\ q + (p - 1) = q + p - 1
      BY <1>0
    <3> QED BY <3>1
  <2>2. p <= Len(R) => R[p] = K[q + p]
    BY <1>0
  <2>3. p <= Len(R) <=> q + p <= Len(K)
    BY <1>0
  <2>4. p = 1 => q + p - 1 = q
    BY <1>0
  <2>5. q + p > 1 /\ (p > 1 \/ p = 1)
    BY <1>0
  <2>6. Between(K, x, q + p) <=> K[q + p - 1] <= x /\ (q + p <= Len(K) => x < K[q + p])
    BY <2>5 DEF Between
  <2>7. Between(R, x, p) <=> (p > 1 => K[q + p - 1] <= x) /\ (q + p <= Len(K) => x < K[q + p])
    BY <2>1, <2>2, <2>3 DEF Between
  <2>8. K[q + p - 1] <= x => K[q] <= x
    BY ONLY <1>0, <1>1, <2>0
  <2>9. p = 1 => K[q + p - 1] = K[q]
    BY <2>4
  <2>10. p = 1 => ~ (p > 1)
    OBVIOUS
  <2> QED BY ONLY <2>5, <2>6, <2>7, <2>8, <2>9, <2>10
<1>3. ASSUME NEW x \in r PROVE /\ ChildPos(K, x) = q + p <=> Between(K, x, q + p)
                               /\ ChildPos(R, x) = p <=> Between(R, x, p)
  BY <1>0, ChildPosIs
<1> QED BY <1>2, <1>3 DEF Part, From

(* A node hangs at one place.                                               *)
LEMMA ChildrenDistinct ==
  ASSUME NEW H, NEW rt, NEW h, NEW reg, NEW seen, NEW new, Tree(H, rt, h, reg, seen, new),
         NEW n \in Addresses(H), ~ H[n].leaf,
         NEW p \in 1 .. Len(H[n].ch), NEW q \in 1 .. Len(H[n].ch), H[n].ch[p] = H[n].ch[q],
         seen[H[n].ch[p]] # {}
  PROVE  p = q
<1>1. ChildInv(H, n, p, h, reg, seen) /\ ChildInv(H, n, q, h, reg, seen)
  BY DEF Tree
<1> DEFINE c == H[n].ch[p]
<1>2. c \in Addresses(H) /\ seen[c] = Part(H[n].keys, reg[n], p) /\ seen[c] = Part(H[n].keys, reg[n], q)
  BY <1>1 DEF ChildInv
<1> HIDE DEF c
<1>3. PICK x : x \in seen[c]
  BY <1>2 DEF c
<1> QED BY <1>2, <1>3 DEF Part

(* An inner node of H and its two halves in G, by their elements.           *)
Halves(H, G, n, mid) ==
  LET K == H[n].keys
      C == H[n].ch
      right == Len(H) + 1
  IN /\ ~ G[n].leaf /\ Len(G[n].keys) = mid
     /\ Len(G[n].ch) = mid + 1
     /\ \A i \in 1 .. mid : G[n].keys[i] = K[i]
     /\ \A i \in 1 .. mid + 1 : G[n].ch[i] = C[i]
     /\ ~ G[right].leaf /\ Len(G[right].keys) = Len(K) - (mid + 1)
     /\ Len(G[right].ch) = Len(K) - mid
     /\ \A i \in 1 .. Len(K) - (mid + 1) : G[right].keys[i] = K[mid + 1 + i]
     /\ \A i \in 1 .. Len(K) - mid : G[right].ch[i] = C[mid + 1 + i]

(* Every child of the two halves points up to the half it is in, the other  *)
(* nodes are as they were.                                                  *)
Adopted(H, G, n) ==
  LET right == Len(H) + 1 IN
  /\ G[n].parent = H[n].parent /\ G[right].parent = Nil
  /\ \A m \in Addresses(H) : m # n =>
       /\ G[m].leaf = H[m].leaf /\ G[m].keys = H[m].keys /\ G[m].rows = H[m].rows
       /\ G[m].ch = H[m].ch /\ G[m].next = H[m].next
       /\ \/ G[m].parent = n /\ \E i \in 1 .. Len(G[n].ch) : m = G[n].ch[i]
          \/ G[m].parent = right /\ \E i \in 1 .. Len(G[right].ch) : m = G[right].ch[i]
          \/ /\ G[m].parent = H[m].parent
             /\ \A i \in 1 .. Len(G[n].ch) : m # G[n].ch[i]
             /\ \A i \in 1 .. Len(G[right].ch) : m # G[right].ch[i]

(* An inner node of a sound tree and its two halves: but for the new node,  *)
(* which hangs below no node yet, the tree is sound.                        *)
LEMMA InnerSplit ==
  ASSUME NEW H, NEW rt, NEW h, NEW reg, Sound(H, rt, h, reg),
         NEW n \in Addresses(H), ~ H[n].leaf, NEW mid \in Nat, mid >= 1, mid + 1 < Len(H[n].keys),
         NEW G \in Seq(NodeRecs), Len(G) = Len(H) + 1,
         Halves(H, G, n, mid), Adopted(H, G, n), NodeInv(G[n]), NodeInv(G[Len(G)]),
         NEW h2, NEW reg2, NEW seen2, Divided(H, n, H[n].keys[mid + 1], h, reg, h2, reg2, seen2)
  PROVE  Tree(G, rt, h2, reg2, seen2, {Len(G)})
<1> DEFINE right == Len(G)
           K == H[n].keys
           C == H[n].ch
           sep == K[mid + 1]
<1>0. Tree(H, rt, h, reg, reg, {}) /\ H \in Seq(NodeRecs) /\ Len(H) \in Nat /\ rt \in Addresses(H)
  BY DEF Sound, Tree
<1>1. /\ right = Len(H) + 1 /\ right \notin Addresses(H) /\ n # right
      /\ Addresses(G) = Addresses(H) \cup {right}
      /\ \A m \in Addresses(H) : /\ h2[m] = h[m] /\ seen2[m] = reg[m]
                                 /\ m # n => reg2[m] = reg[m]
      /\ h2[right] = h[n] /\ seen2[right] = {}
      /\ reg2[right] = From(reg[n], sep) /\ reg2[n] = Below(reg[n], sep)
  BY <1>0 DEF Divided, Addresses
<1>2. /\ K \in Seq(Int) /\ Ascends(K) /\ Len(K) \in Nat /\ Len(C) = Len(K) + 1
      /\ reg[n] \in SUBSET Int /\ \A i \in 1 .. Len(K) : K[i] \in reg[n]
      /\ h[n] \in Nat /\ h[n] # 0 /\ h[n] <= h[rt] /\ mid + 1 \in 1 .. Len(K) /\ 1 \in 1 .. Len(K)
  <2>1. NodeInv(H[n]) /\ RegionInv(H[n], reg[n]) /\ HeightInv(H, n, rt, h)
    BY <1>0 DEF Tree
  <2>2. K \in Seq(Int) /\ Ascends(K) /\ Len(K) \in Nat /\ Len(C) = Len(K) + 1
    BY <2>1, Fields DEF NodeInv
  <2>3. reg[n] \in SUBSET Int /\ \A i \in 1 .. Len(K) : K[i] \in reg[n]
    BY <2>1 DEF RegionInv
  <2>4. h[n] \in Nat /\ h[n] # 0 /\ h[n] <= h[rt]
    BY <2>1 DEF HeightInv
  <2>5. mid + 1 \in 1 .. Len(K) /\ 1 \in 1 .. Len(K)
    BY <2>2
  <2> HIDE DEF K, C
  <2> QED BY <2>2, <2>3, <2>4, <2>5
<1>18. Len(K) \in Nat /\ mid \in Nat /\ mid + 1 < Len(K) /\ mid >= 1 /\ Len(C) = Len(K) + 1
  BY <1>2
<1>3. /\ G[n].keys \in Seq(Int) /\ Ascends(G[n].keys) /\ G[right].keys \in Seq(Int) /\ Ascends(G[right].keys)
  BY Fields DEF NodeInv
<1>4. ASSUME NEW i \in 1 .. Len(C)
      PROVE  /\ C[i] \in Addresses(H) /\ C[i] # n /\ H[C[i]].parent = n
             /\ h[C[i]] + 1 = h[n] /\ reg[C[i]] = Part(K, reg[n], i)
  <2>1. ChildInv(H, n, i, h, reg, reg)
    BY <1>0 DEF Tree
  <2>2. C[i] \in Addresses(H) /\ H[C[i]].parent = n
             /\ h[C[i]] + 1 = h[n] /\ reg[C[i]] = Part(K, reg[n], i)
    BY <2>1 DEF ChildInv
  <2>3. C[i] # n
    <3> DEFINE k == C[i]
    <3>1. h[k] + 1 = h[n] /\ h[n] \in Nat
      BY <1>2, <2>2
    <3> HIDE DEF k
    <3>2. k # n
      BY ONLY <3>1
    <3> QED BY <3>2 DEF k
  <2> QED BY <2>2, <2>3
<1>5. ASSUME NEW i \in 1 .. Len(C), NEW j \in 1 .. Len(C), C[i] = C[j] PROVE i = j
  <2>1. reg[C[i]] # {}
    BY <1>0, <1>4 DEF Tree, RegionInv
  <2>2. /\ i \in 1 .. Len(H[n].ch) /\ j \in 1 .. Len(H[n].ch) /\ H[n].ch[i] = H[n].ch[j]
        /\ reg[H[n].ch[i]] # {} /\ n \in Addresses(H) /\ ~ H[n].leaf
    BY <1>5, <2>1
  <2> QED BY ONLY <1>0, <2>2, ChildrenDistinct
<1> HIDE DEF right, K, C, sep
<1>6. /\ ~ G[n].leaf /\ Len(G[n].keys) = mid /\ Len(G[n].ch) = mid + 1
      /\ \A i \in 1 .. mid : G[n].keys[i] = K[i]
      /\ \A i \in 1 .. mid + 1 : G[n].ch[i] = C[i]
      /\ ~ G[right].leaf /\ Len(G[right].keys) = Len(K) - (mid + 1) /\ Len(G[right].ch) = Len(K) - mid
      /\ \A i \in 1 .. Len(K) - (mid + 1) : G[right].keys[i] = K[mid + 1 + i]
      /\ \A i \in 1 .. Len(K) - mid : G[right].ch[i] = C[mid + 1 + i]
  BY <1>1 DEF Halves, K, C
<1>17. \A m \in Addresses(H) : m # n =>
          \/ G[m].parent = n /\ \E i \in 1 .. Len(G[n].ch) : m = G[n].ch[i]
          \/ G[m].parent = right /\ \E i \in 1 .. Len(G[right].ch) : m = G[right].ch[i]
          \/ /\ G[m].parent = H[m].parent
             /\ \A i \in 1 .. Len(G[n].ch) : m # G[n].ch[i]
             /\ \A i \in 1 .. Len(G[right].ch) : m # G[right].ch[i]
  BY <1>1 DEF Adopted
<1>7. ASSUME NEW i \in 1 .. mid + 1
      PROVE  G[C[i]].parent = n /\ C[i] \in Addresses(H) /\ h[C[i]] + 1 = h[n]
             /\ reg[C[i]] = Part(G[n].keys, reg2[n], i)
  <2>1. i \in 1 .. Len(C)
    BY <1>2
  <2>2. Part(G[n].keys, Below(reg[n], K[mid + 1]), i) = Part(K, reg[n], i)
    <3> DEFINE L == G[n].keys
               q == mid + 1
               r == reg[n]
    <3>1. q \in 1 .. Len(K) /\ i \in 1 .. q /\ r \in SUBSET Int /\ q - 1 = mid
      <4>1. r \in SUBSET Int
        BY <1>2
      <4>2. q \in 1 .. Len(K) /\ i \in 1 .. q /\ q - 1 = mid
        BY ONLY <1>18, i \in 1 .. mid + 1
      <4> QED BY <4>1, <4>2
    <3>2. Len(L) = q - 1 /\ \A j \in 1 .. q - 1 : L[j] = K[j]
      <4> HIDE DEF q
      <4> QED BY <1>6, <3>1
    <3>3. K \in Seq(Int) /\ Ascends(K) /\ L \in Seq(Int) /\ Ascends(L)
      BY <1>2, <1>3
    <3> HIDE DEF L, q, r
    <3>4. Part(L, Below(r, K[q]), i) = Part(K, r, i)
      BY ONLY <3>1, <3>2, <3>3, PartBelow
    <3> QED BY <3>4 DEF L, q, r
  <2>3. reg[C[i]] = Part(G[n].keys, reg2[n], i)
    BY <1>1, <1>4, <2>1, <2>2 DEF sep
  <2>4. \A j \in 1 .. Len(G[right].ch) : C[i] # G[right].ch[j]
    <3> SUFFICES ASSUME NEW j \in 1 .. Len(K) - mid, C[i] = C[mid + 1 + j] PROVE FALSE
      BY <1>6
    <3>1. mid + 1 + j \in 1 .. Len(C) /\ i # mid + 1 + j
      BY ONLY <1>18, i \in 1 .. mid + 1, j \in 1 .. Len(K) - mid
    <3> QED BY <1>5, <2>1, <3>1
  <2>5. C[i] = G[n].ch[i] /\ i \in 1 .. Len(G[n].ch)
    BY <1>6
  <2>6. C[i] \in Addresses(H) /\ C[i] # n /\ h[C[i]] + 1 = h[n]
    BY <1>4, <2>1
  <2>7. G[C[i]].parent = n
    BY ONLY <1>17, <2>4, <2>5, <2>6
  <2> QED BY <2>3, <2>6, <2>7
<1>8. ASSUME NEW i \in 1 .. Len(K) - mid
      PROVE  LET c == C[mid + 1 + i] IN
             /\ G[c].parent = right /\ c \in Addresses(H) /\ h[c] + 1 = h[n]
             /\ reg[c] = Part(G[right].keys, reg2[right], i)
  <2> DEFINE c == C[mid + 1 + i]
  <2>1. mid + 1 + i \in 1 .. Len(C)
    BY <1>2
  <2>2. Part(G[right].keys, From(reg[n], K[mid + 1]), i) = Part(K, reg[n], mid + 1 + i)
    <3>1. i \in 1 .. Len(K) - (mid + 1) + 1
      BY <1>2
    <3> QED BY <1>2, <1>3, <1>6, <3>1, PartFrom
  <2>3. reg[c] = Part(G[right].keys, reg2[right], i)
    BY <1>1, <1>4, <2>1, <2>2 DEF sep
  <2>4. \A j \in 1 .. Len(G[n].ch) : c # G[n].ch[j]
    <3> SUFFICES ASSUME NEW j \in 1 .. mid + 1, c = C[j] PROVE FALSE
      BY <1>6
    <3>1. j \in 1 .. Len(C) /\ j # mid + 1 + i
      BY ONLY <1>18, j \in 1 .. mid + 1, i \in 1 .. Len(K) - mid
    <3> QED BY <1>5, <2>1, <3>1
  <2>5. c = G[right].ch[i] /\ i \in 1 .. Len(G[right].ch)
    BY <1>6
  <2>6. c \in Addresses(H) /\ c # n /\ h[c] + 1 = h[n]
    BY <1>4, <2>1
  <2> HIDE DEF c
  <2>7. G[c].parent = right
    BY ONLY <1>17, <2>4, <2>5, <2>6
  <2> QED BY <2>3, <2>6, <2>7 DEF c
<1>9. ASSUME NEW m \in Addresses(H), m # n, H[m].parent # n PROVE G[m].parent = H[m].parent
  <2>1. ASSUME NEW i \in 1 .. Len(G[n].ch), m = G[n].ch[i] PROVE FALSE
    <3>1. i \in 1 .. mid + 1
      BY <1>6
    <3>2. i \in 1 .. Len(C)
      BY ONLY <1>18, <3>1
    <3>3. m = C[i]
      BY <1>6, <2>1, <3>1
    <3> QED BY <1>4, <1>9, <3>2, <3>3
  <2>2. ASSUME NEW i \in 1 .. Len(G[right].ch), m = G[right].ch[i] PROVE FALSE
    <3>1. i \in 1 .. Len(K) - mid
      BY <1>6
    <3>2. mid + 1 + i \in 1 .. Len(C)
      BY <1>2, <3>1
    <3>3. m = C[mid + 1 + i]
      BY <1>6, <2>2, <3>1
    <3> QED BY <1>4, <1>9, <3>2, <3>3
  <2>3. \/ \E i \in 1 .. Len(G[n].ch) : m = G[n].ch[i]
        \/ \E i \in 1 .. Len(G[right].ch) : m = G[right].ch[i]
        \/ G[m].parent = H[m].parent
    BY ONLY <1>17, <1>9, m \in Addresses(H)
  <2> QED BY <2>1, <2>2, <2>3
<1>10. \A m \in Addresses(H) : m # n =>
         /\ G[m].leaf = H[m].leaf /\ G[m].keys = H[m].keys /\ G[m].rows = H[m].rows
         /\ G[m].ch = H[m].ch /\ G[m].next = H[m].next
  BY DEF Adopted
<1>11. ASSUME NEW m \in Addresses(H)
       PROVE  /\ NodeInv(G[m]) /\ RegionInv(G[m], reg2[m]) /\ HeightInv(G, m, rt, h2)
              /\ ~ G[m].leaf => \A p \in 1 .. Len(G[m].ch) : ChildInv(G, m, p, h2, reg2, seen2)
  <2>1. CASE m = n
    <3>1. RegionInv(G[n], reg2[n])
      <4>1. ASSUME NEW i \in 1 .. mid PROVE G[n].keys[i] \in Below(reg[n], sep)
        <5>1. i \in 1 .. Len(K) /\ i < mid + 1
          BY <1>2
        <5>2. K[i] < K[mid + 1]
          BY <1>2, <5>1, KeysInOrder
        <5> QED BY <1>2, <1>6, <5>1, <5>2 DEF Below, sep
      <4>2. G[n].keys[1] \in Below(reg[n], sep)
        BY <4>1
      <4> QED BY <1>1, <1>2, <1>6, <4>1, <4>2 DEF RegionInv, Below
    <3>2. HeightInv(G, n, rt, h2)
      BY <1>0, <1>1, <1>2, <1>6 DEF HeightInv
    <3>3. ASSUME NEW p \in 1 .. Len(G[n].ch) PROVE ChildInv(G, n, p, h2, reg2, seen2)
      <4>1. p \in 1 .. mid + 1 /\ G[n].ch[p] = C[p]
        BY <1>6
      <4>2. /\ G[C[p]].parent = n /\ C[p] \in Addresses(H) /\ h[C[p]] + 1 = h[n]
            /\ reg[C[p]] = Part(G[n].keys, reg2[n], p)
        BY <1>7, <4>1
      <4> QED BY <1>1, <4>1, <4>2 DEF ChildInv
    <3> QED BY <2>1, <3>1, <3>2, <3>3
  <2>2. CASE m # n
    <3>1. NodeInv(G[m])
      <4>1. NodeInv(H[m]) /\ G[m] \in NodeRecs
        BY <1>0, <1>1 DEF Tree, Addresses
      <4> QED BY <1>10, <2>2, <4>1 DEF NodeInv
    <3>2. RegionInv(G[m], reg2[m])
      <4>1. RegionInv(H[m], reg[m])
        BY <1>0, <2>2 DEF Tree
      <4>2. G[m].keys = H[m].keys /\ reg2[m] = reg[m]
        BY <1>1, <1>10, <2>2
      <4> QED BY ONLY <4>1, <4>2 DEF RegionInv
    <3>3. HeightInv(G, m, rt, h2)
      BY <1>0, <1>1, <1>10, <2>2 DEF Tree, HeightInv
    <3>4. ASSUME ~ G[m].leaf, NEW p \in 1 .. Len(G[m].ch) PROVE ChildInv(G, m, p, h2, reg2, seen2)
      <4>1. ~ H[m].leaf /\ p \in 1 .. Len(H[m].ch) /\ G[m].ch = H[m].ch /\ G[m].keys = H[m].keys
        BY <1>10, <2>2, <3>4
      <4>2. ChildInv(H, m, p, h, reg, reg)
        BY <1>0, <4>1 DEF Tree
      <4> DEFINE c == H[m].ch[p]
      <4>3. /\ c \in Addresses(H) /\ H[c].parent = m /\ h[c] + 1 = h[m]
            /\ reg[c] = Part(H[m].keys, reg[m], p)
        BY <4>2 DEF ChildInv
      <4>4. c # n => G[c].parent = m
        BY <1>9, <2>2, <4>3
      <4>5. c = n => G[c].parent = m
        BY <4>3 DEF Adopted
      <4>6. h2[c] + 1 = h2[m] /\ seen2[c] = Part(G[m].keys, reg2[m], p) /\ c \in Addresses(G)
        BY <1>1, <2>2, <4>1, <4>3
      <4>7. G[m].ch[p] = c
        BY <4>1
      <4> HIDE DEF c
      <4> QED BY <4>4, <4>5, <4>6, <4>7 DEF ChildInv
    <3> QED BY <3>1, <3>2, <3>3, <3>4
  <2> QED BY <2>1, <2>2
<1>12. /\ NodeInv(G[right]) /\ RegionInv(G[right], reg2[right]) /\ HeightInv(G, right, rt, h2)
       /\ \A p \in 1 .. Len(G[right].ch) : ChildInv(G, right, p, h2, reg2, seen2)
  <2>1. RegionInv(G[right], reg2[right])
    <3>1. ASSUME NEW i \in 1 .. Len(K) - (mid + 1) PROVE G[right].keys[i] \in From(reg[n], sep)
      <4>1. mid + 1 + i \in 1 .. Len(K) /\ mid + 1 <= mid + 1 + i
        BY <1>2
      <4>2. K[mid + 1] <= K[mid + 1 + i]
        BY <1>2, <4>1, KeysInOrder
      <4> QED BY <1>2, <1>6, <4>1, <4>2 DEF From, sep
    <3>2. sep \in From(reg[n], sep)
      <4>1. sep \in reg[n] /\ sep \in Int
        BY <1>2 DEF sep
      <4> QED BY ONLY <4>1 DEF From
    <3>3. reg2[right] = From(reg[n], sep) /\ From(reg[n], sep) \in SUBSET Int
      BY <1>1, <1>2 DEF From
    <3>4. \A i \in 1 .. Len(G[right].keys) : G[right].keys[i] \in From(reg[n], sep)
      BY <1>6, <3>1
    <3> DEFINE upper == From(reg[n], sep)
    <3>5. /\ upper \in SUBSET Int /\ upper # {} /\ reg2[right] = upper
          /\ \A i \in 1 .. Len(G[right].keys) : G[right].keys[i] \in upper
      BY ONLY <3>2, <3>3, <3>4
    <3> HIDE DEF upper
    <3> QED BY ONLY <3>5 DEF RegionInv
  <2>2. HeightInv(G, right, rt, h2)
    BY <1>0, <1>1, <1>2, <1>6 DEF HeightInv
  <2>3. ASSUME NEW p \in 1 .. Len(G[right].ch) PROVE ChildInv(G, right, p, h2, reg2, seen2)
    <3> DEFINE c == C[mid + 1 + p]
    <3>1. p \in 1 .. Len(K) - mid /\ G[right].ch[p] = c
      BY <1>6
    <3>2. /\ G[c].parent = right /\ c \in Addresses(H) /\ h[c] + 1 = h[n]
          /\ reg[c] = Part(G[right].keys, reg2[right], p)
      BY <1>8, <3>1
    <3> HIDE DEF c
    <3> QED BY <1>1, <3>1, <3>2 DEF ChildInv
  <2> QED BY <2>1, <2>2, <2>3 DEF right
<1>13. ASSUME NEW m \in Addresses(G) \ ({right} \cup {rt}) PROVE ParentInv(G, m) /\ h2[m] < h2[rt]
  <2>1. m \in Addresses(H) /\ ParentInv(H, m) /\ h2[m] < h2[rt]
    BY <1>0, <1>1 DEF Tree
  <2> DEFINE q == H[m].parent
  <2>2. q \in Addresses(H) /\ ~ H[q].leaf /\ \E p \in 1 .. Len(H[q].ch) : H[q].ch[p] = m
    BY <2>1 DEF ParentInv
  <2> HIDE DEF q
  <2>3. CASE q # n
    <3>1. G[m].parent = q
      <4>1. m = n => G[m].parent = H[m].parent
        BY DEF Adopted
      <4> QED BY <1>9, <2>1, <2>3, <4>1 DEF q
    <3>2. ~ G[q].leaf /\ G[q].ch = H[q].ch
      BY <1>10, <2>2, <2>3
    <3> QED BY <1>1, <2>1, <2>2, <3>1, <3>2 DEF ParentInv
  <2>4. CASE q = n
    <3>1. PICK i \in 1 .. Len(C) : C[i] = m
      BY <2>2, <2>4 DEF C
    <3>2. CASE i <= mid + 1
      <4>1. i \in 1 .. mid + 1
        BY <3>2
      <4>2. G[m].parent = n /\ G[n].ch[i] = m /\ i \in 1 .. Len(G[n].ch)
        BY <1>6, <1>7, <3>1, <4>1
      <4> QED BY <1>1, <1>6, <2>1, <4>2 DEF ParentInv
    <3>3. CASE i > mid + 1
      <4>0. i \in Int /\ i <= Len(K) + 1
        BY <1>18
      <4>1. i - (mid + 1) \in 1 .. Len(K) - mid /\ mid + 1 + (i - (mid + 1)) = i
        BY ONLY <1>18, <3>3, <4>0
      <4> DEFINE j == i - (mid + 1)
      <4> HIDE DEF j
      <4>3. j \in 1 .. Len(K) - mid /\ C[mid + 1 + j] = m
        BY <3>1, <4>1 DEF j
      <4>2. G[m].parent = right /\ G[right].ch[j] = m /\ j \in 1 .. Len(G[right].ch)
        BY <1>6, <1>8, <4>3
      <4> QED BY <1>1, <1>6, <2>1, <4>2 DEF ParentInv
    <3> QED BY <1>2, <3>2, <3>3
  <2> QED BY <2>3, <2>4
<1>14. ASSUME NEW m \in {right} \cup {rt} PROVE G[m].parent = Nil
  <2>1. G[right].parent = Nil /\ G[n].parent = H[n].parent
    BY <1>1 DEF Adopted
  <2>2. H[rt].parent = Nil
    BY <1>0 DEF Tree
  <2>3. n # Nil
    BY DEF Addresses, Nil
  <2>4. n # rt => G[rt].parent = H[rt].parent
    BY <1>0, <1>9, <2>2, <2>3
  <2> QED BY <2>1, <2>2, <2>4
<1>15. seen2[rt] = Int
  BY <1>0, <1>1 DEF Tree
<1>16. Tree(G, rt, h2, reg2, seen2, {right})
  BY <1>0, <1>1, <1>11, <1>12, <1>13, <1>14, <1>15 DEF Tree
<1> QED BY <1>16 DEF right

-----------------------------------------------------------------------------
(* A key put in its place among ascending ones.                             *)
LEMMA InsertAscends ==
  ASSUME NEW K \in Seq(Int), Ascends(K), NEW at \in 1 .. Len(K) + 1, NEW sep \in Int,
         \A i \in 1 .. at - 1 : K[i] < sep, \A i \in at .. Len(K) : sep < K[i]
  PROVE  Ascends(InsertAt(K, at, sep))
<1> DEFINE L == InsertAt(K, at, sep)
<1>0. Len(K) \in Nat
  OBVIOUS
<1>1. /\ L \in Seq(Int) /\ Len(L) = Len(K) + 1
      /\ \A j \in 1 .. Len(K) + 1 : L[j] = IF j < at THEN K[j] ELSE IF j = at THEN sep ELSE K[j - 1]
  <2>1. K \in Seq(Int) /\ at \in 1 .. Len(K) + 1 /\ sep \in Int
    OBVIOUS
  <2> QED BY ONLY <2>1, InsertAtFacts
<1> HIDE DEF L
<1>2. \A i \in 1 .. at - 1 : K[i] < sep /\ K[i] \in Int
  BY <1>0
<1>3. \A i \in at .. Len(K) : sep < K[i] /\ K[i] \in Int
  BY <1>0
<1>4. ASSUME NEW i \in 1 .. Len(L), NEW j \in 1 .. Len(L), i < j PROVE L[i] < L[j]
  <2>1. L[i] = IF i < at THEN K[i] ELSE IF i = at THEN sep ELSE K[i - 1]
    BY <1>1
  <2>2. L[j] = IF j < at THEN K[j] ELSE IF j = at THEN sep ELSE K[j - 1]
    BY <1>1
  <2>3. i \in Nat /\ j \in Nat /\ i >= 1 /\ i <= Len(K) + 1 /\ j <= Len(K) + 1 /\ j >= 1
        /\ at \in Nat /\ at >= 1 /\ at <= Len(K) + 1
    BY <1>0, <1>1
  <2>4. CASE j < at
    <3>1. i < at /\ i \in 1 .. Len(K) /\ j \in 1 .. Len(K) /\ i <= j
      BY <1>0, <1>4, <2>3, <2>4
    <3>2. K[i] < K[j]
      BY <1>4, <3>1, KeysInOrder
    <3> QED BY <2>1, <2>2, <2>4, <3>1, <3>2
  <2>5. CASE j = at
    <3>1. i < at /\ i \in 1 .. at - 1
      BY <1>4, <2>3, <2>5
    <3> QED BY <1>2, <2>1, <2>2, <2>5, <3>1
  <2>6. CASE j > at
    <3>0. L[j] = K[j - 1] /\ j - 1 \in at .. Len(K)
      BY <1>0, <2>2, <2>3, <2>6
    <3>1. CASE i < at
      <4>1. i \in 1 .. at - 1
        BY <2>3, <3>1
      <4>2. K[i] < sep /\ K[i] \in Int /\ sep < K[j - 1] /\ K[j - 1] \in Int
        BY <1>2, <1>3, <3>0, <4>1
      <4>3. K[i] < K[j - 1]
        BY ONLY <4>2, sep \in Int
      <4> QED BY <2>1, <3>0, <3>1, <4>3
    <3>2. CASE i = at
      BY <1>3, <2>1, <3>0, <3>2
    <3>3. CASE i > at
      <4>1. i - 1 \in 1 .. Len(K) /\ j - 1 \in 1 .. Len(K) /\ i - 1 < j - 1 /\ i - 1 <= j - 1
        BY <1>0, <1>4, <2>3, <3>3
      <4>2. K[i - 1] < K[j - 1]
        BY <4>1, KeysInOrder
      <4>3. ~ (i < at) /\ i # at
        BY <2>3, <3>3
      <4> QED BY <2>1, <3>0, <4>2, <4>3
    <3>4. i < at \/ i = at \/ i > at
      BY <2>3
    <3> QED BY ONLY <3>1, <3>2, <3>3, <3>4
  <2>7. j < at \/ j = at \/ j > at
    BY <2>3
  <2> QED BY ONLY <2>4, <2>5, <2>6, <2>7
<1> QED BY <1>4 DEF Ascends, L

(* A separator among the keys of the parent.                                *)
LEMMA SeparatorAscends ==
  ASSUME NEW K \in Seq(Int), Ascends(K), NEW at \in 1 .. Len(K) + 1,
         NEW sep \in Int, Between(K, sep, at), NEW y \in Int, Between(K, y, at), y < sep
  PROVE  Ascends(InsertAt(K, at, sep))
<1>0. Len(K) \in Nat
  OBVIOUS
<1>2. ASSUME NEW i \in 1 .. at - 1 PROVE K[i] < sep /\ K[i] \in Int
  <2>1. i \in 1 .. Len(K) /\ at - 1 \in 1 .. Len(K) /\ i <= at - 1 /\ at > 1
    BY <1>0
  <2>2. K[i] \in Int /\ K[at - 1] \in Int /\ K[i] <= K[at - 1]
    BY <2>1, KeysInOrder
  <2>3. K[at - 1] <= y
    BY <2>1 DEF Between
  <2> QED BY ONLY <2>2, <2>3, y < sep, y \in Int, sep \in Int
<1>3. ASSUME NEW i \in at .. Len(K) PROVE sep < K[i] /\ K[i] \in Int
  <2>1. i \in 1 .. Len(K) /\ at \in 1 .. Len(K) /\ at <= i
    BY <1>0
  <2>2. K[at] \in Int /\ K[i] \in Int /\ K[at] <= K[i]
    BY <2>1, KeysInOrder
  <2>3. sep < K[at]
    BY <2>1 DEF Between
  <2> QED BY ONLY <2>2, <2>3, sep \in Int
<1>4. (\A i \in 1 .. at - 1 : K[i] < sep) /\ (\A i \in at .. Len(K) : sep < K[i])
  BY <1>2, <1>3
<1> QED BY <1>4, InsertAscends

(* What it does to the parts of a region: one of them is divided.           *)
LEMMA SeparatorParts ==
  ASSUME NEW K \in Seq(Int), Ascends(K), NEW at \in 1 .. Len(K) + 1, NEW sep \in Int,
         Ascends(InsertAt(K, at, sep)), NEW r \in SUBSET Int
  PROVE  /\ \A p \in 1 .. at - 1 : Part(InsertAt(K, at, sep), r, p) = Part(K, r, p)
         /\ Part(InsertAt(K, at, sep), r, at) = Below(Part(K, r, at), sep)
         /\ Part(InsertAt(K, at, sep), r, at + 1) = From(Part(K, r, at), sep)
         /\ \A p \in at + 1 .. Len(K) + 1 : Part(InsertAt(K, at, sep), r, p + 1) = Part(K, r, p)
<1> DEFINE L == InsertAt(K, at, sep)
<1>0. Len(K) \in Nat /\ at \in Nat /\ at >= 1 /\ at <= Len(K) + 1
  OBVIOUS
<1>1. /\ L \in Seq(Int) /\ Len(L) = Len(K) + 1
      /\ \A j \in 1 .. Len(K) + 1 : L[j] = IF j < at THEN K[j] ELSE IF j = at THEN sep ELSE K[j - 1]
  BY InsertAtFacts
<1>2. Ascends(L)
  OBVIOUS
<1> HIDE DEF L
<1>3. \A j \in 1 .. at - 1 : L[j] = K[j]
  BY <1>0, <1>1
<1>4. L[at] = sep
  BY <1>0, <1>1
<1>5. ASSUME NEW j \in at .. Len(K) PROVE L[j + 1] = K[j]
  <2> DEFINE i == j + 1
  <2>1. i \in 1 .. Len(K) + 1 /\ ~ (i < at) /\ i # at /\ i - 1 = j
    BY <1>0
  <2> HIDE DEF i
  <2>2. L[i] = IF i < at THEN K[i] ELSE IF i = at THEN sep ELSE K[i - 1]
    BY <1>1, <2>1
  <2>3. L[i] = K[j]
    BY <2>1, <2>2
  <2> QED BY <2>3 DEF i
<1>6. ASSUME NEW x \in Int, NEW p \in 1 .. Len(K) + 1
      PROVE  ChildPos(K, x) = p <=> Between(K, x, p)
  BY ChildPosIs
<1>7. ASSUME NEW x \in Int, NEW p \in 1 .. Len(K) + 2
      PROVE  ChildPos(L, x) = p <=> Between(L, x, p)
  <2>1. p \in 1 .. Len(L) + 1
    BY <1>0, <1>1
  <2> QED BY <1>1, <1>2, <2>1, ChildPosIs
<1>8. ASSUME NEW p \in 1 .. at - 1 PROVE Part(L, r, p) = Part(K, r, p)
  <2>1. ASSUME NEW x \in r PROVE Between(L, x, p) <=> Between(K, x, p)
    <3>1. p \in Nat /\ p >= 1 /\ p <= at - 1 /\ p <= Len(K) /\ p <= Len(L)
      BY <1>0, <1>1
    <3>2. L[p] = K[p]
      BY <1>3
    <3>3. p > 1 => p - 1 \in 1 .. at - 1
      BY <1>0, <3>1
    <3>4. p > 1 => L[p - 1] = K[p - 1]
      BY <1>3, <3>3
    <3> QED BY <3>1, <3>2, <3>4 DEF Between
  <2>2. p \in 1 .. Len(K) + 1 /\ p \in 1 .. Len(K) + 2
    BY <1>0
  <2>3. ASSUME NEW x \in r PROVE ChildPos(L, x) = p <=> ChildPos(K, x) = p
    BY <1>6, <1>7, <2>1, <2>2
  <2> QED BY <2>3 DEF Part
<1>9. ASSUME NEW p \in at + 1 .. Len(K) + 1 PROVE Part(L, r, p + 1) = Part(K, r, p)
  <2>1. ASSUME NEW x \in r PROVE Between(L, x, p + 1) <=> Between(K, x, p)
    <3>1. p \in Nat /\ p > 1 /\ p + 1 > 1 /\ (p <= Len(K) <=> p + 1 <= Len(L)) /\ p - 1 \in at .. Len(K)
          /\ p - 1 + 1 = p /\ p + 1 - 1 = p
      BY <1>0, <1>1
    <3>2. L[p] = K[p - 1]
      BY <1>5, <3>1
    <3>3. p <= Len(K) => L[p + 1] = K[p]
      <4>1. p <= Len(K) => p \in at .. Len(K)
        BY <1>0, <3>1
      <4> QED BY <1>5, <4>1
    <3> QED BY ONLY <3>1, <3>2, <3>3 DEF Between
  <2>2. p \in 1 .. Len(K) + 1 /\ p + 1 \in 1 .. Len(K) + 2
    BY <1>0
  <2>3. ASSUME NEW x \in r PROVE ChildPos(L, x) = p + 1 <=> ChildPos(K, x) = p
    BY <1>6, <1>7, <2>1, <2>2
  <2> QED BY <2>3 DEF Part
<1>10. ASSUME NEW x \in r
       PROVE  /\ ChildPos(L, x) = at <=> ChildPos(K, x) = at /\ x < sep
              /\ ChildPos(L, x) = at + 1 <=> ChildPos(K, x) = at /\ sep <= x
  <2>0. x \in Int
    OBVIOUS
  <2>1. at \in 1 .. Len(K) + 1 /\ at \in 1 .. Len(K) + 2 /\ at + 1 \in 1 .. Len(K) + 2
    BY <1>0
  <2>2. at <= Len(L) /\ at + 1 > 1 /\ at + 1 - 1 = at /\ (at + 1 <= Len(L) <=> at <= Len(K))
    BY <1>0, <1>1
  <2>3. at > 1 => L[at - 1] = K[at - 1]
    <3>1. at > 1 => at - 1 \in 1 .. at - 1
      BY <1>0
    <3> QED BY <1>3, <3>1
  <2>4. at <= Len(K) => L[at + 1] = K[at]
    <3>1. at <= Len(K) => at \in at .. Len(K)
      BY <1>0
    <3> QED BY <1>5, <3>1
  <2>5. Between(K, x, at) <=> (at > 1 => K[at - 1] <= x) /\ (at <= Len(K) => x < K[at])
    BY DEF Between
  <2>6. Between(L, x, at) <=> (at > 1 => K[at - 1] <= x) /\ x < sep
    BY <1>4, <2>2, <2>3 DEF Between
  <2>7. Between(L, x, at + 1) <=> sep <= x /\ (at <= Len(K) => x < K[at])
    BY <1>4, <2>2, <2>4 DEF Between
  <2>8. at > 1 => K[at - 1] < sep /\ K[at - 1] \in Int
    <3> SUFFICES ASSUME at > 1 PROVE K[at - 1] < sep /\ K[at - 1] \in Int
      OBVIOUS
    <3>1. at - 1 \in 1 .. Len(L) /\ at \in 1 .. Len(L) /\ at - 1 < at /\ at - 1 <= at
      BY <1>0, <1>1
    <3>2. L[at - 1] < L[at] /\ L[at - 1] \in Int
      BY <1>1, <1>2, <3>1, KeysInOrder
    <3> QED BY <1>4, <2>3, <3>2
  <2>9. at <= Len(K) => sep < K[at] /\ K[at] \in Int
    <3> SUFFICES ASSUME at <= Len(K) PROVE sep < K[at] /\ K[at] \in Int
      OBVIOUS
    <3>1. at \in 1 .. Len(L) /\ at + 1 \in 1 .. Len(L) /\ at < at + 1 /\ at <= at + 1
      BY <1>0, <1>1
    <3>2. L[at] < L[at + 1] /\ L[at + 1] \in Int
      BY <1>1, <1>2, <3>1, KeysInOrder
    <3> QED BY <1>4, <2>4, <3>2
  <2>10. x < sep => (at <= Len(K) => x < K[at])
    BY ONLY <2>0, <2>9, sep \in Int
  <2>11. sep <= x => (at > 1 => K[at - 1] <= x)
    BY ONLY <2>0, <2>8, sep \in Int
  <2>12. /\ Between(L, x, at) <=> Between(K, x, at) /\ x < sep
         /\ Between(L, x, at + 1) <=> Between(K, x, at) /\ sep <= x
    BY ONLY <2>5, <2>6, <2>7, <2>10, <2>11
  <2>13. /\ ChildPos(K, x) = at <=> Between(K, x, at)
         /\ ChildPos(L, x) = at <=> Between(L, x, at)
         /\ ChildPos(L, x) = at + 1 <=> Between(L, x, at + 1)
    BY <1>6, <1>7, <2>0, <2>1
  <2> QED BY ONLY <2>12, <2>13
<1>11. Part(L, r, at) = Below(Part(K, r, at), sep)
  BY <1>10 DEF Part, Below
<1>12. Part(L, r, at + 1) = From(Part(K, r, at), sep)
  BY <1>10 DEF Part, From
<1> QED BY <1>8, <1>9, <1>11, <1>12 DEF L

-----------------------------------------------------------------------------
(* The separator and the new node find their place: above the two halves,   *)
(* in a new root, or beside the left one.                                   *)
Gap(H, left, sep, right, h, reg, seen) ==
  /\ left \in Addresses(H) /\ right \in Addresses(H) /\ left # right
  /\ sep \in Keys /\ sep \in seen[left] /\ h[left] = h[right]
  /\ reg[left] = Below(seen[left], sep) /\ reg[right] = From(seen[left], sep)
  /\ \A m \in Addresses(H) : m # left /\ m # right => seen[m] = reg[m]

SameBelow(H, G) ==
  \A m \in Addresses(H) :
    /\ G[m].leaf = H[m].leaf /\ G[m].keys = H[m].keys /\ G[m].rows = H[m].rows
    /\ G[m].ch = H[m].ch /\ G[m].next = H[m].next

(* A node that differs in its parent at most.                               *)
LEMMA SameNode ==
  ASSUME NEW a \in NodeRecs, NEW b, NodeInv(b), a.leaf = b.leaf, a.keys = b.keys,
         a.rows = b.rows, a.ch = b.ch, a.next = b.next
  PROVE  NodeInv(a)
BY DEF NodeInv

(* The root itself was divided: a new root above the two halves makes the   *)
(* tree sound.                                                              *)
LEMMA NewRoot ==
  ASSUME NEW H, NEW rt, NEW h, NEW reg, NEW seen, NEW right, Tree(H, rt, h, reg, seen, {right}),
         NEW sep, Gap(H, rt, sep, right, h, reg, seen),
         NEW G \in Seq(NodeRecs), Len(G) = Len(H) + 1,
         G[Len(G)] = InnerNode(Nil, <<sep>>, <<rt, right>>),
         SameBelow(H, G),
         \A m \in Addresses(H) : G[m].parent = IF m \in {rt, right} THEN Len(G) ELSE H[m].parent
  PROVE  \E h3, reg3 : Sound(G, Len(G), h3, reg3) /\ \A m \in Addresses(H) : reg3[m] = reg[m]
<1> DEFINE nr == Len(G)
           D == 1 .. nr
           h3 == [m \in D |-> IF m = nr THEN h[rt] + 1 ELSE h[m]]
           reg3 == [m \in D |-> IF m = nr THEN Int ELSE reg[m]]
<1>0. Len(H) \in Nat /\ rt \in Addresses(H) /\ right \in Addresses(H) /\ rt # right /\ sep \in Int
  BY BPlusTreeAssumption DEF Tree, Gap
<1>1. nr \notin Addresses(H) /\ Addresses(G) = Addresses(H) \cup {nr} /\ Addresses(G) = D
      /\ nr # Nil /\ Nil \notin Addresses(H)
  BY <1>0 DEF Addresses, Nil
<1>2. /\ \A m \in Addresses(H) : h3[m] = h[m] /\ reg3[m] = reg[m]
      /\ h3[nr] = h[rt] + 1 /\ reg3[nr] = Int
  <2> HIDE DEF D, nr
  <2> QED BY <1>1
<1> HIDE DEF h3, reg3
<1>3. /\ G[nr].leaf = FALSE /\ G[nr].parent = Nil /\ G[nr].keys = <<sep>> /\ G[nr].rows = <<>>
      /\ G[nr].ch = <<rt, right>> /\ G[nr].next = Nil
  BY DEF InnerNode
<1> HIDE DEF nr
<1>4. /\ \A m \in Addresses(H) : G[m].parent = IF m \in {rt, right} THEN nr ELSE H[m].parent
      /\ \A m \in Addresses(G) : G[m] \in NodeRecs
  BY DEF nr, Addresses
<1>5. h[rt] \in Nat /\ h[right] = h[rt] /\ \A m \in Addresses(H) : h[m] \in Nat /\ h[m] <= h[rt]
  BY <1>0 DEF Tree, HeightInv, Gap
<1>6. ASSUME NEW m \in Addresses(H)
      PROVE  /\ NodeInv(G[m]) /\ RegionInv(G[m], reg3[m]) /\ HeightInv(G, m, nr, h3)
             /\ ~ G[m].leaf => \A p \in 1 .. Len(G[m].ch) : ChildInv(G, m, p, h3, reg3, reg3)
  <2>0. /\ G[m].leaf = H[m].leaf /\ G[m].keys = H[m].keys /\ G[m].rows = H[m].rows
        /\ G[m].ch = H[m].ch /\ G[m].next = H[m].next
    BY DEF SameBelow
  <2>1. NodeInv(G[m])
    <3>1. NodeInv(H[m]) /\ G[m] \in NodeRecs
      BY <1>1, <1>4 DEF Tree
    <3> QED BY <2>0, <3>1, SameNode
  <2>2. RegionInv(G[m], reg3[m])
    BY <1>2, <2>0 DEF Tree, RegionInv
  <2>3. HeightInv(G, m, nr, h3)
    <3>1. HeightInv(H, m, rt, h)
      BY DEF Tree
    <3> QED BY <1>2, <1>5, <2>0, <3>1 DEF HeightInv
  <2>4. ASSUME ~ G[m].leaf, NEW p \in 1 .. Len(G[m].ch) PROVE ChildInv(G, m, p, h3, reg3, reg3)
    <3>1. ChildInv(H, m, p, h, reg, seen)
      BY <2>0, <2>4 DEF Tree
    <3> DEFINE c == H[m].ch[p]
    <3>2. /\ c \in Addresses(H) /\ H[c].parent = m /\ h[c] + 1 = h[m]
          /\ seen[c] = Part(H[m].keys, reg[m], p)
      BY <3>1 DEF ChildInv
    <3>3. G[m].ch[p] = c
      BY <2>0
    <3> HIDE DEF c
    <3>4. c \notin {rt, right}
      <4>1. H[rt].parent = Nil /\ H[right].parent = Nil
        BY DEF Tree
      <4> QED BY <1>1, <3>2, <4>1
    <3>5. G[c].parent = m /\ seen[c] = reg[c]
      BY <1>4, <3>2, <3>4 DEF Gap
    <3>6. h3[c] + 1 = h3[m]
      BY <1>2, <3>2
    <3>7. reg3[c] = Part(G[m].keys, reg3[m], p)
      BY <1>2, <2>0, <3>2, <3>5
    <3>8. c \in Addresses(G)
      BY <1>1, <3>2
    <3> QED BY <3>3, <3>5, <3>6, <3>7, <3>8 DEF ChildInv
  <2> QED BY <2>1, <2>2, <2>3, <2>4
<1>7. NodeInv(G[nr])
  <2>1. G[nr] \in NodeRecs
    BY <1>1, <1>4
  <2>2. Len(<<sep>>) = 1 /\ Len(<<rt, right>>) = 2 /\ <<sep>> # <<>>
    OBVIOUS
  <2>3. Ascends(<<sep>>)
    BY DEF Ascends
  <2> QED BY <1>3, <2>1, <2>2, <2>3 DEF NodeInv
<1>8. RegionInv(G[nr], reg3[nr])
  <2>1. \A i \in 1 .. Len(<<sep>>) : <<sep>>[i] \in Int
    BY <1>0
  <2> QED BY <1>2, <1>3, <2>1 DEF RegionInv
<1>9. HeightInv(G, nr, nr, h3)
  BY <1>2, <1>3, <1>5 DEF HeightInv
<1>10. ASSUME NEW p \in 1 .. Len(G[nr].ch) PROVE ChildInv(G, nr, p, h3, reg3, reg3)
  <2>1. p \in {1, 2}
    BY <1>3
  <2>2. seen[rt] = Int
    BY DEF Tree
  <2>3. /\ reg[rt] = Part(<<sep>>, Int, 1) /\ reg[right] = Part(<<sep>>, Int, 2)
    <3>1. <<sep>> \in Seq(Int) /\ Len(<<sep>>) = 1 /\ <<sep>>[1] = sep /\ Ascends(<<sep>>)
      BY <1>0 DEF Ascends
    <3>2. ASSUME NEW x \in Int PROVE /\ ChildPos(<<sep>>, x) = 1 <=> x < sep
                                     /\ ChildPos(<<sep>>, x) = 2 <=> sep <= x
      <4>1. /\ ChildPos(<<sep>>, x) = 1 <=> Between(<<sep>>, x, 1)
            /\ ChildPos(<<sep>>, x) = 2 <=> Between(<<sep>>, x, 2)
        <5>1. 1 \in 1 .. Len(<<sep>>) + 1 /\ 2 \in 1 .. Len(<<sep>>) + 1
          BY <3>1
        <5> QED BY <3>1, <5>1, ChildPosIs
      <4> QED BY <3>1, <4>1 DEF Between
    <3> QED BY <2>2, <3>2 DEF Gap, Part, Below, From
  <2>4. CASE p = 1
    <3>1. G[nr].ch[p] = rt
      BY <1>3, <2>4
    <3> QED BY <1>0, <1>1, <1>2, <1>3, <1>4, <2>3, <2>4, <3>1 DEF ChildInv
  <2>5. CASE p = 2
    <3>1. G[nr].ch[p] = right
      BY <1>3, <2>5
    <3> QED BY <1>0, <1>1, <1>2, <1>3, <1>4, <1>5, <2>3, <2>5, <3>1 DEF ChildInv
  <2> QED BY <2>1, <2>4, <2>5
<1>11. ASSUME NEW m \in Addresses(H) PROVE ParentInv(G, m) /\ h3[m] < h3[nr]
  <2>1. h3[m] < h3[nr]
    BY <1>2, <1>5
  <2>2. CASE m \in {rt, right}
    <3>1. G[m].parent = nr
      BY <1>4, <2>2
    <3>2. \E p \in 1 .. Len(<<rt, right>>) : <<rt, right>>[p] = m
      <4>1. 1 \in 1 .. Len(<<rt, right>>) /\ 2 \in 1 .. Len(<<rt, right>>)
        OBVIOUS
      <4>2. <<rt, right>>[1] = rt /\ <<rt, right>>[2] = right
        OBVIOUS
      <4> QED BY <2>2, <4>1, <4>2
    <3> QED BY <1>1, <1>3, <2>1, <3>1, <3>2 DEF ParentInv
  <2>3. CASE m \notin {rt, right}
    <3>1. ParentInv(H, m)
      BY <2>3 DEF Tree
    <3>2. G[m].parent = H[m].parent
      BY <1>4, <2>3
    <3> QED BY <1>1, <2>1, <3>1, <3>2 DEF ParentInv, SameBelow
  <2> QED BY <2>2, <2>3
<1>12. Sound(G, nr, h3, reg3)
  BY <1>1, <1>2, <1>3, <1>6, <1>7, <1>8, <1>9, <1>10, <1>11 DEF Tree, Sound
<1> QED BY <1>2, <1>12 DEF nr

(* The node above takes the separator, and the new node as its neighbour.   *)
Adds(H, G, up, at, sep, right) ==
  \A m \in Addresses(H) :
    /\ G[m].leaf = H[m].leaf /\ G[m].rows = H[m].rows /\ G[m].next = H[m].next
    /\ G[m].keys = IF m = up THEN InsertAt(H[m].keys, at, sep) ELSE H[m].keys
    /\ G[m].ch = IF m = up THEN InsertAt(H[m].ch, at + 1, right) ELSE H[m].ch
    /\ G[m].parent = IF m = right THEN up ELSE H[m].parent

(* The node above takes the separator and the new node: the tree is sound.  *)
LEMMA NewChild ==
  ASSUME NEW H, NEW rt, NEW h, NEW reg, NEW seen, NEW right, Tree(H, rt, h, reg, seen, {right}),
         NEW left, NEW sep, Gap(H, left, sep, right, h, reg, seen), left # rt,
         NEW up, up = H[left].parent,
         NEW at \in 1 .. Len(H[up].ch), H[up].ch[at] = left,
         NEW G \in Seq(NodeRecs), Len(G) = Len(H), Adds(H, G, up, at, sep, right)
  PROVE  Sound(G, rt, h, reg)
<1> DEFINE K == H[up].keys
           C == H[up].ch
           L == InsertAt(K, at, sep)
           N == InsertAt(C, at + 1, right)
<1>0. /\ H \in Seq(NodeRecs) /\ Len(H) \in Nat /\ rt \in Addresses(H)
      /\ left \in Addresses(H) /\ right \in Addresses(H) /\ left # right
      /\ sep \in Keys /\ sep \in Int /\ h[right] = h[left] /\ sep \in seen[left]
      /\ reg[left] = Below(seen[left], sep) /\ reg[right] = From(seen[left], sep)
      /\ \A m \in Addresses(H) : m # left /\ m # right => seen[m] = reg[m]
  BY BPlusTreeAssumption DEF Tree, Gap
<1>1. Addresses(G) = Addresses(H) /\ \A m \in Addresses(H) : G[m] \in NodeRecs /\ H[m] \in NodeRecs
  BY <1>0 DEF Addresses
<1>2. up \in Addresses(H) /\ ~ H[up].leaf /\ up # Nil /\ h[left] < h[rt]
  <2>1. ParentInv(H, left) /\ h[left] < h[rt]
    BY <1>0 DEF Tree
  <2> QED BY <2>1 DEF ParentInv, Addresses, Nil
<1>3. /\ \A m \in Addresses(H) : h[m] \in Nat /\ h[m] <= h[rt]
      /\ \A m \in Addresses(H) : NodeInv(H[m]) /\ RegionInv(H[m], reg[m]) /\ HeightInv(H, m, rt, h)
  BY DEF Tree, HeightInv
<1>4. ASSUME NEW m \in Addresses(H), ~ H[m].leaf, NEW p \in 1 .. Len(H[m].ch)
      PROVE  /\ H[m].ch[p] \in Addresses(H) /\ H[H[m].ch[p]].parent = m /\ h[H[m].ch[p]] + 1 = h[m]
             /\ seen[H[m].ch[p]] = Part(H[m].keys, reg[m], p)
  <2>1. ChildInv(H, m, p, h, reg, seen)
    BY <1>4 DEF Tree
  <2> QED BY <2>1 DEF ChildInv
<1>5. H[right].parent = Nil /\ H[rt].parent = Nil /\ rt # right
  <2>1. H[right].parent = Nil /\ H[rt].parent = Nil
    BY DEF Tree
  <2>2. h[right] \in Nat /\ h[rt] \in Nat /\ h[right] < h[rt]
    BY <1>0, <1>2, <1>3
  <2>3. rt # right
    BY <2>2
  <2> QED BY <2>1, <2>3
<1>6. h[left] + 1 = h[up] /\ seen[left] = Part(K, reg[up], at)
  BY <1>2, <1>4
<1>7. up # right /\ up # left
  BY <1>0, <1>2, <1>3, <1>6
<1>8. /\ K \in Seq(Keys) /\ K \in Seq(Int) /\ C \in Seq(Nat) /\ Ascends(K) /\ Len(K) \in Nat
      /\ Len(C) = Len(K) + 1 /\ H[up].rows = <<>> /\ H[up].next = Nil
      /\ reg[up] \in SUBSET Int /\ reg[up] # {} /\ \A i \in 1 .. Len(K) : K[i] \in reg[up]
  BY <1>1, <1>2, <1>3, Fields DEF NodeInv, RegionInv
<1>9. at \in 1 .. Len(K) + 1 /\ at + 1 \in 1 .. Len(C) + 1 /\ right \in Nat
  BY <1>0, <1>8 DEF Addresses
<1>24. \A q \in 1 .. Len(C) : /\ C[q] \in Addresses(H) /\ H[C[q]].parent = up /\ h[C[q]] + 1 = h[up]
                             /\ seen[C[q]] = Part(K, reg[up], q)
  BY <1>2, <1>4
<1>25. H[up].ch = C /\ H[up].keys = K
  OBVIOUS
<1> HIDE DEF K, C
<1>10. /\ L \in Seq(Keys) /\ Len(L) = Len(K) + 1
       /\ \A j \in 1 .. Len(K) + 1 : L[j] = IF j < at THEN K[j] ELSE IF j = at THEN sep ELSE K[j - 1]
  BY <1>0, <1>8, <1>9, InsertAtFacts
<1>11. /\ N \in Seq(Nat) /\ Len(N) = Len(C) + 1
       /\ \A j \in 1 .. Len(C) + 1 :
            N[j] = IF j < at + 1 THEN C[j] ELSE IF j = at + 1 THEN right ELSE C[j - 1]
  <2> DEFINE i == at + 1
  <2>1. i \in 1 .. Len(C) + 1
    BY <1>9
  <2> DEFINE T == Nat
  <2>3. C \in Seq(T) /\ right \in T
    BY <1>8, <1>9
  <2> HIDE DEF i, T
  <2>2. /\ InsertAt(C, i, right) \in Seq(T) /\ Len(InsertAt(C, i, right)) = Len(C) + 1
        /\ \A j \in 1 .. Len(C) + 1 :
             InsertAt(C, i, right)[j] = IF j < i THEN C[j] ELSE IF j = i THEN right ELSE C[j - 1]
    BY <2>1, <2>3, InsertAtFacts
  <2> QED BY <2>2 DEF i, T
<1>12. sep \in reg[up] /\ Between(K, sep, at)
  <2>1. sep \in reg[up] /\ ChildPos(K, sep) = at
    BY <1>0, <1>6 DEF Part
  <2> QED BY <1>0, <1>8, <1>9, <2>1, ChildPosIs
<1>13. PICK y \in Int : y < sep /\ Between(K, y, at)
  <2>1. PICK y \in reg[left] : y \in Int
    BY <1>0, <1>3 DEF RegionInv
  <2>2. y < sep /\ ChildPos(K, y) = at
    BY <1>0, <1>6, <2>1 DEF Below, Part
  <2> QED BY <1>8, <1>9, <2>1, <2>2, ChildPosIs
<1>14. Ascends(L)
  BY <1>0, <1>8, <1>9, <1>12, <1>13, SeparatorAscends
<1>15. /\ \A p \in 1 .. at - 1 : Part(L, reg[up], p) = Part(K, reg[up], p)
       /\ Part(L, reg[up], at) = Below(Part(K, reg[up], at), sep)
       /\ Part(L, reg[up], at + 1) = From(Part(K, reg[up], at), sep)
       /\ \A p \in at + 1 .. Len(K) + 1 : Part(L, reg[up], p + 1) = Part(K, reg[up], p)
  BY <1>0, <1>8, <1>9, <1>14, SeparatorParts
<1>16. /\ G[up].keys = L /\ G[up].ch = N /\ ~ G[up].leaf /\ G[up].rows = <<>> /\ G[up].next = Nil
       /\ G[right].parent = up
       /\ \A m \in Addresses(H) : m # right => G[m].parent = H[m].parent
       /\ \A m \in Addresses(H) : /\ G[m].leaf = H[m].leaf /\ G[m].rows = H[m].rows /\ G[m].next = H[m].next
                                  /\ m # up => G[m].keys = H[m].keys /\ G[m].ch = H[m].ch
  BY <1>0, <1>2, <1>8, <1>25 DEF Adds
<1> HIDE DEF L, N
<1>17. ASSUME NEW p \in 1 .. Len(C), p # at PROVE C[p] # left /\ C[p] # right
  <2>1. p \in 1 .. Len(H[up].ch) /\ C[p] = H[up].ch[p]
    BY DEF C
  <2>2. C[p] # right
    BY <1>2, <1>5, <1>24
  <2>4. C[p] # left
    <3> SUFFICES ASSUME C[p] = left PROVE FALSE
      OBVIOUS
    <3>1. sep \in Part(K, reg[up], p) /\ sep \in Part(K, reg[up], at)
      BY <1>0, <1>6, <1>24
    <3>2. p = at
      BY <3>1 DEF Part
    <3> QED BY <1>17, <3>2
  <2> QED BY <2>2, <2>4
<1>18. ASSUME NEW m \in Addresses(H) PROVE NodeInv(G[m])
  <2>1. CASE m # up
    BY <1>1, <1>3, <1>16, <2>1, SameNode
  <2>2. CASE m = up
    <3>1. Len(N) = Len(L) + 1 /\ L # <<>>
      <4>1. Len(L) # 0
        BY <1>8, <1>10
      <4> QED BY <1>8, <1>10, <1>11, <4>1
    <3> QED BY <1>1, <1>14, <1>16, <2>2, <3>1 DEF NodeInv
  <2> QED BY <2>1, <2>2
<1>19. ASSUME NEW m \in Addresses(H) PROVE RegionInv(G[m], reg[m])
  <2>1. CASE m # up
    BY <1>3, <1>16, <2>1 DEF RegionInv
  <2>2. CASE m = up
    <3>1. ASSUME NEW i \in 1 .. Len(L) PROVE L[i] \in reg[up]
      <4>1. L[i] = IF i < at THEN K[i] ELSE IF i = at THEN sep ELSE K[i - 1]
        BY <1>10
      <4>2. i < at => i \in 1 .. Len(K)
        BY <1>8, <1>9, <1>10
      <4>3. ~ (i < at) /\ i # at => i - 1 \in 1 .. Len(K)
        BY <1>8, <1>9, <1>10
      <4> QED BY <1>8, <1>12, <4>1, <4>2, <4>3
    <3> QED BY <1>8, <1>16, <2>2, <3>1 DEF RegionInv
  <2> QED BY <2>1, <2>2
<1>20. ASSUME NEW m \in Addresses(H) PROVE HeightInv(G, m, rt, h)
  BY <1>3, <1>16 DEF HeightInv
<1>21. ASSUME NEW m \in Addresses(H), ~ G[m].leaf, NEW p \in 1 .. Len(G[m].ch)
       PROVE  ChildInv(G, m, p, h, reg, reg)
  <2> DEFINE c == G[m].ch[p]
  <2> SUFFICES /\ c \in Addresses(H) /\ G[c].parent = m /\ h[c] + 1 = h[m]
               /\ reg[c] = Part(G[m].keys, reg[m], p)
    BY <1>1 DEF ChildInv
  <2>1. CASE m # up
    <3>1. c = H[m].ch[p] /\ p \in 1 .. Len(H[m].ch) /\ ~ H[m].leaf /\ G[m].keys = H[m].keys
      BY <1>16, <1>21, <2>1
    <3> HIDE DEF c
    <3>2. /\ c \in Addresses(H) /\ H[c].parent = m /\ h[c] + 1 = h[m]
          /\ seen[c] = Part(H[m].keys, reg[m], p)
      BY <1>4, <3>1
    <3>3. c # right /\ c # left
      BY <1>2, <1>5, <2>1, <3>2, m # Nil DEF Addresses, Nil
    <3> QED BY <1>0, <1>16, <3>1, <3>2, <3>3
  <2>2. CASE m = up
    <3>0. c = N[p] /\ p \in 1 .. Len(C) + 1 /\ G[m].keys = L /\ Len(C) \in Nat /\ Len(C) = Len(K) + 1
      <4>1. G[m].ch = N /\ G[m].keys = L
        BY <1>16, <2>2
      <4>2. p \in 1 .. Len(N)
        BY <4>1
      <4>3. p \in 1 .. Len(C) + 1 /\ Len(C) \in Nat /\ Len(C) = Len(K) + 1
        BY <1>8, <1>11, <4>2
      <4> QED BY <4>1, <4>3
    <3> HIDE DEF c
    <3>1. N[p] = IF p < at + 1 THEN C[p] ELSE IF p = at + 1 THEN right ELSE C[p - 1]
      BY <1>11, <3>0
    <3>2. \A q \in 1 .. Len(C) : /\ C[q] \in Addresses(H) /\ H[C[q]].parent = up /\ h[C[q]] + 1 = h[up]
                                 /\ seen[C[q]] = Part(K, reg[up], q)
      BY <1>24
    <3>3. CASE p < at
      <4>1. p \in 1 .. Len(C) /\ p \in 1 .. at - 1 /\ p # at /\ c = C[p]
        BY <1>9, <3>0, <3>1, <3>3
      <4>2. c # left /\ c # right
        BY <1>17, <4>1
      <4>3. c \in Addresses(H) /\ H[c].parent = up /\ h[c] + 1 = h[up] /\ seen[c] = Part(K, reg[up], p)
        BY <3>2, <4>1
      <4> QED BY <1>0, <1>15, <1>16, <2>2, <3>0, <4>1, <4>2, <4>3
    <3>4. CASE p = at
      <4>1. c = left
        BY <1>9, <3>0, <3>1, <3>4 DEF C
      <4> QED BY <1>0, <1>6, <1>15, <1>16, <2>2, <3>0, <3>2, <3>4, <4>1 DEF C
    <3>5. CASE p = at + 1
      <4>1. c = right
        BY <1>9, <3>0, <3>1, <3>5
      <4>2. reg[right] = Part(L, reg[up], p)
        BY <1>0, <1>6, <1>15, <3>5
      <4> QED BY <1>0, <1>6, <1>16, <2>2, <3>0, <4>1, <4>2
    <3>6. CASE p > at + 1
      <4> DEFINE q == p - 1
      <4>1. q \in 1 .. Len(C) /\ q \in at + 1 .. Len(K) + 1 /\ q # at /\ c = C[q] /\ q + 1 = p
        BY <1>9, <3>0, <3>1, <3>6
      <4> HIDE DEF q
      <4>2. c # left /\ c # right
        BY <1>17, <4>1
      <4>3. c \in Addresses(H) /\ H[c].parent = up /\ h[c] + 1 = h[up] /\ seen[c] = Part(K, reg[up], q)
        BY <3>2, <4>1
      <4>4. Part(L, reg[up], p) = Part(K, reg[up], q)
        BY <1>15, <4>1
      <4> QED BY <1>0, <1>16, <2>2, <3>0, <4>2, <4>3, <4>4
    <3>7. p < at \/ p = at \/ p = at + 1 \/ p > at + 1
      BY <1>9, <3>0
    <3> QED BY ONLY <3>3, <3>4, <3>5, <3>6, <3>7
  <2> QED BY <2>1, <2>2
<1>22. ASSUME NEW m \in Addresses(H), m # rt PROVE ParentInv(G, m) /\ h[m] < h[rt]
  <2>1. CASE m = right
    <3>1. at + 1 \in 1 .. Len(N) /\ N[at + 1] = right
      BY <1>8, <1>9, <1>11
    <3> QED BY <1>0, <1>1, <1>2, <1>16, <2>1, <3>1 DEF ParentInv
  <2>2. CASE m # right
    <3> DEFINE q == H[m].parent
    <3>1. q \in Addresses(H) /\ ~ H[q].leaf /\ (\E p \in 1 .. Len(H[q].ch) : H[q].ch[p] = m) /\ h[m] < h[rt]
      BY <1>22, <2>2 DEF Tree, ParentInv
    <3>2. G[m].parent = q
      BY <1>16, <2>2
    <3> HIDE DEF q
    <3>3. CASE q # up
      BY <1>1, <1>16, <3>1, <3>2, <3>3 DEF ParentInv
    <3>4. CASE q = up
      <4>1. PICK p \in 1 .. Len(C) : C[p] = m
        BY <3>1, <3>4 DEF C
      <4>2. \E i \in 1 .. Len(N) : N[i] = m
        <5>1. CASE p < at + 1
          <6>1. p \in 1 .. Len(C) + 1
            BY <1>8
          <6>2. N[p] = m
            BY <1>11, <4>1, <5>1, <6>1
          <6> QED BY <1>11, <6>1, <6>2
        <5>2. CASE ~ (p < at + 1)
          <6> DEFINE i == p + 1
          <6>1. i \in 1 .. Len(C) + 1 /\ ~ (i < at + 1) /\ i # at + 1 /\ i - 1 = p
            BY <1>8, <1>9, <5>2
          <6> HIDE DEF i
          <6>2. N[i] = m
            BY <1>11, <4>1, <6>1
          <6> QED BY <1>11, <6>1, <6>2
        <5> QED BY <5>1, <5>2
      <4> QED BY <1>1, <1>2, <1>16, <3>1, <3>2, <3>4, <4>2 DEF ParentInv
    <3> QED BY <3>3, <3>4
  <2> QED BY <2>1, <2>2
<1>23. G[rt].parent = Nil /\ reg[rt] = Int
  <2>1. seen[rt] = Int
    BY DEF Tree
  <2> QED BY <1>0, <1>5, <1>16, <2>1
<1> QED BY <1>0, <1>1, <1>18, <1>19, <1>20, <1>21, <1>22, <1>23 DEF Sound, Tree

-----------------------------------------------------------------------------
(* Where insert_leaf puts a key that is not there.                          *)
LEMMA PlaceOfKey ==
  ASSUME NEW K \in Seq(Int), Ascends(K), NEW x \in Int, \A i \in 1 .. Len(K) : K[i] # x
  PROVE  LET p == FirstNot(K, LAMBDA key : key < x) IN
         /\ p \in 1 .. Len(K) + 1
         /\ Ascends(InsertAt(K, p, x))
<1> DEFINE I == {i \in 1 .. Len(K) : ~ (K[i] < x)}
           p == FirstNot(K, LAMBDA key : key < x)
<1>0. Len(K) \in Nat /\ \A i \in 1 .. Len(K) : K[i] \in Int
  OBVIOUS
<1>1. p = IF I # {} THEN Min(I) ELSE Len(K) + 1
  <2>1. I # {} => Min(I) \in I
    <3>1. I \in SUBSET Nat
      OBVIOUS
    <3> HIDE DEF I
    <3> QED BY <3>1, MinIsLeast
  <2> QED BY <1>0, <2>1 DEF FirstNot, SelectInSeq
<1> HIDE DEF p
<1>2. CASE I = {}
  <2>1. p = Len(K) + 1
    BY <1>1, <1>2
  <2>2. \A i \in 1 .. p - 1 : K[i] < x
    BY <1>0, <1>2, <2>1
  <2>3. \A i \in p .. Len(K) : x < K[i]
    BY <1>0, <2>1
  <2>4. p \in 1 .. Len(K) + 1
    BY <1>0, <2>1
  <2> QED BY <2>2, <2>3, <2>4, InsertAscends DEF p
<1>3. CASE I # {}
  <2>1. p \in I /\ \A m \in I : p <= m
    <3>1. I \in SUBSET Nat
      OBVIOUS
    <3>2. Min(I) \in I /\ \A m \in I : Min(I) <= m
      <4> HIDE DEF I
      <4> QED BY <1>3, <3>1, MinIsLeast
    <3> HIDE DEF I
    <3> QED BY <1>1, <1>3, <3>2
  <2>2. p \in 1 .. Len(K) + 1 /\ p \in 1 .. Len(K) /\ ~ (K[p] < x)
    BY <1>0, <2>1
  <2>3. ASSUME NEW i \in 1 .. p - 1 PROVE K[i] < x
    <3>1. i \in 1 .. Len(K) /\ i < p
      BY <1>0, <2>2
    <3>2. i \notin I
      BY <2>1, <2>2, <3>1
    <3> QED BY <3>1, <3>2
  <2>4. ASSUME NEW i \in p .. Len(K) PROVE x < K[i]
    <3>1. i \in 1 .. Len(K) /\ p <= i
      BY <1>0, <2>2
    <3>2. K[p] <= K[i] /\ K[p] \in Int /\ K[i] \in Int /\ K[i] # x
      BY <2>2, <3>1, KeysInOrder
    <3> QED BY <2>2, <3>2
  <2> QED BY <2>2, <2>3, <2>4, InsertAscends DEF p
<1> QED BY <1>2, <1>3 DEF p

(* The first position in a sequence where something is found.               *)
LEMMA FirstPosition ==
  ASSUME NEW s, Len(s) \in Nat, NEW e
  PROVE  LET i == SelectInSeq(s, LAMBDA x : x = e) IN
         \/ i \in 1 .. Len(s) /\ s[i] = e
         \/ i = 0 /\ \A j \in 1 .. Len(s) : s[j] # e
<1> DEFINE I == {j \in 1 .. Len(s) : s[j] = e}
           i == SelectInSeq(s, LAMBDA x : x = e)
<1>1. i = IF I # {} THEN Min(I) ELSE 0
  BY DEF SelectInSeq
<1> HIDE DEF i
<1>2. CASE I = {}
  BY <1>1, <1>2 DEF i
<1>3. CASE I # {}
  <2>1. I \in SUBSET Nat
    OBVIOUS
  <2>2. Min(I) \in I
    <3> HIDE DEF I
    <3> QED BY <1>3, <2>1, MinIsLeast
  <2> QED BY <1>1, <1>3, <2>2 DEF i
<1> QED BY <1>2, <1>3

-----------------------------------------------------------------------------
(* The leaves: c is their chain, pos[n] the position of leaf n in it.       *)
LeavesOf(H) == {n \in Addresses(H) : H[n].leaf}

Order(H, reg, c, pos) ==
  /\ c \in Seq(Nat)
  /\ \A i \in 1 .. Len(c) : /\ c[i] \in LeavesOf(H) /\ pos[c[i]] = i
                            /\ H[c[i]].next = IF i = Len(c) THEN Nil ELSE c[i + 1]
  /\ \A n \in LeavesOf(H) : pos[n] \in 1 .. Len(c) /\ c[pos[n]] = n
  /\ \A i, j \in 1 .. Len(c) : i < j => \A x \in reg[c[i]], y \in reg[c[j]] : x < y

EntryPairs(keys, rows) == {<<keys[i], rows[i]>> : i \in 1 .. Len(keys)}

EntriesOf(n) == EntryPairs(n.keys, n.rows)

Entries(H) == UNION {EntriesOf(H[n]) : n \in LeavesOf(H)}

(* Nothing but inner nodes is new, and the leaves are what they were.       *)
LeavesKept(H, G) ==
  /\ Addresses(H) \subseteq Addresses(G)
  /\ \A m \in Addresses(H) : /\ G[m].leaf = H[m].leaf /\ G[m].next = H[m].next
                             /\ H[m].leaf => G[m].keys = H[m].keys /\ G[m].rows = H[m].rows
  /\ \A m \in Addresses(G) \ Addresses(H) : ~ G[m].leaf

(* What the model reads from the heap, by addresses.                        *)
LEMMA EntriesAre ==
  ASSUME NEW H \in Seq(NodeRecs)
  PROVE  /\ DOMAIN H = Addresses(H)
         /\ {n \in DOMAIN H : H[n].leaf} = LeavesOf(H)
         /\ UNION {Range([i \in DOMAIN H[n].keys |-> <<H[n].keys[i], H[n].rows[i]>>]) :
                     n \in {m \in DOMAIN H : H[m].leaf}} = Entries(H)
<1>1. DOMAIN H = Addresses(H)
  BY DEF Addresses
<1>2. {n \in DOMAIN H : H[n].leaf} = LeavesOf(H)
  BY <1>1 DEF LeavesOf
<1>3. ASSUME NEW n \in LeavesOf(H)
      PROVE  Range([i \in DOMAIN H[n].keys |-> <<H[n].keys[i], H[n].rows[i]>>]) = EntriesOf(H[n])
  <2>1. DOMAIN H[n].keys = 1 .. Len(H[n].keys)
    <3>1. H[n] \in NodeRecs
      BY DEF LeavesOf, Addresses
    <3>2. H[n].keys \in Seq(Keys)
      BY <3>1 DEF NodeRecs
    <3> QED BY <3>2
  <2> QED BY <2>1 DEF Range, EntriesOf, EntryPairs
<1> QED BY <1>1, <1>2, <1>3 DEF Entries

(* The entries the model speaks of are those of the heap ...                *)
LEMMA StoredIs ==
  ASSUME nodes \in Seq(NodeRecs)
  PROVE  Stored = Entries(nodes) /\ Leaves = LeavesOf(nodes)
BY EntriesAre DEF Stored, Leaves, Pairs

(* ... in the next state too.                                               *)
LEMMA StoredNext ==
  ASSUME nodes' \in Seq(NodeRecs)
  PROVE  Stored' = Entries(nodes')
BY EntriesAre DEF Stored, Leaves, Pairs

(* Leaves that stay what they were stay in order and keep their entries.    *)
LEMMA OrderKept ==
  ASSUME NEW H, NEW G, NEW reg, NEW reg3, NEW c, NEW pos, Order(H, reg, c, pos), LeavesKept(H, G),
         \A n \in LeavesOf(H) : reg3[n] = reg[n]
  PROVE  Order(G, reg3, c, pos) /\ LeavesOf(G) = LeavesOf(H) /\ Entries(G) = Entries(H)
<1>1. LeavesOf(G) = LeavesOf(H)
  BY DEF LeavesOf, LeavesKept
<1>2. \A n \in LeavesOf(H) : G[n].next = H[n].next /\ EntriesOf(G[n]) = EntriesOf(H[n])
  BY DEF LeavesOf, LeavesKept, EntriesOf
<1>3. \A i \in 1 .. Len(c) : /\ c[i] \in LeavesOf(G) /\ pos[c[i]] = i
                             /\ G[c[i]].next = IF i = Len(c) THEN Nil ELSE c[i + 1]
                             /\ reg3[c[i]] = reg[c[i]]
  BY <1>1, <1>2 DEF Order
<1>4. Entries(G) = Entries(H)
  BY <1>1, <1>2 DEF Entries
<1> QED BY <1>1, <1>3, <1>4 DEF Order

(* A leaf of the chain is refilled.                                         *)
LEMMA OrderRefilled ==
  ASSUME NEW H, NEW G, NEW reg, NEW c, NEW pos, Order(H, reg, c, pos),
         Addresses(G) = Addresses(H), NEW n \in LeavesOf(H),
         G[n].leaf, G[n].next = H[n].next,
         \A m \in Addresses(H) : m # n => G[m] = H[m]
  PROVE  Order(G, reg, c, pos) /\ LeavesOf(G) = LeavesOf(H)
<1>1. LeavesOf(G) = LeavesOf(H)
  BY DEF LeavesOf
<1>2. \A m \in LeavesOf(H) : G[m].next = H[m].next
  BY DEF LeavesOf
<1>3. \A i \in 1 .. Len(c) : /\ c[i] \in LeavesOf(G) /\ pos[c[i]] = i
                             /\ G[c[i]].next = IF i = Len(c) THEN Nil ELSE c[i + 1]
  BY <1>1, <1>2 DEF Order
<1> QED BY <1>1, <1>3 DEF Order

(* A leaf is divided: the new one follows it.                               *)
LEMMA OrderDivided ==
  ASSUME NEW H, NEW G, NEW reg, NEW c, NEW pos, Order(H, reg, c, pos), Len(H) \in Nat,
         NEW n \in LeavesOf(H), Addresses(G) = Addresses(H) \cup {Len(H) + 1},
         G[n].leaf, G[Len(H) + 1].leaf, G[n].next = Len(H) + 1, G[Len(H) + 1].next = H[n].next,
         \A m \in Addresses(H) : m # n => G[m] = H[m],
         NEW sep \in Int, \A m \in LeavesOf(H) : reg[m] \in SUBSET Int,
         NEW h, NEW h2, NEW reg2, NEW seen2, Divided(H, n, sep, h, reg, h2, reg2, seen2)
  PROVE  \E c2, pos2 : Order(G, reg2, c2, pos2)
<1> DEFINE right == Len(H) + 1
           at == pos[n] + 1
           c2 == InsertAt(c, at, right)
           D == Addresses(G)
           pos2 == [m \in D |-> IF m = right THEN at ELSE IF pos[m] > pos[n] THEN pos[m] + 1 ELSE pos[m]]
<1>0. /\ c \in Seq(Nat) /\ Len(c) \in Nat /\ pos[n] \in 1 .. Len(c) /\ c[pos[n]] = n
      /\ \A i \in 1 .. Len(c) : /\ c[i] \in LeavesOf(H) /\ pos[c[i]] = i
                                /\ H[c[i]].next = IF i = Len(c) THEN Nil ELSE c[i + 1]
      /\ \A m \in LeavesOf(H) : pos[m] \in 1 .. Len(c) /\ c[pos[m]] = m
      /\ \A i, j \in 1 .. Len(c) : i < j => \A x \in reg[c[i]], y \in reg[c[j]] : x < y
  BY DEF Order
<1>1. right \in Nat /\ right \notin Addresses(H) /\ n \in Addresses(H) /\ n # right /\ right # Nil
  BY DEF Addresses, LeavesOf, Nil
<1>2. /\ \A m \in LeavesOf(H) : m # n => reg2[m] = reg[m]
      /\ reg2[n] = Below(reg[n], sep) /\ reg2[right] = From(reg[n], sep)
  BY DEF Divided, LeavesOf
<1>13. Len(c) \in Nat /\ pos[n] \in 1 .. Len(c)
  BY <1>0
<1>3. at \in 1 .. Len(c) + 1 /\ at \in Nat /\ at - 1 = pos[n] /\ at > 1
  BY ONLY <1>13
<1> HIDE DEF at
<1>4. /\ c2 \in Seq(Nat) /\ Len(c2) = Len(c) + 1
      /\ \A j \in 1 .. Len(c) + 1 : c2[j] = IF j < at THEN c[j] ELSE IF j = at THEN right ELSE c[j - 1]
  <2> DEFINE T == Nat
  <2>1. c \in Seq(T) /\ right \in T
    BY <1>0, <1>1
  <2> HIDE DEF right, T
  <2>2. /\ InsertAt(c, at, right) \in Seq(T) /\ Len(InsertAt(c, at, right)) = Len(c) + 1
        /\ \A j \in 1 .. Len(c) + 1 :
             InsertAt(c, at, right)[j] = IF j < at THEN c[j] ELSE IF j = at THEN right ELSE c[j - 1]
    BY <1>3, <2>1, InsertAtFacts
  <2> QED BY <2>2 DEF T
<1> HIDE DEF c2
<1>14. /\ Len(c) \in Nat /\ pos[n] \in Nat /\ pos[n] >= 1 /\ pos[n] <= Len(c)
       /\ at = pos[n] + 1 /\ Len(c2) = Len(c) + 1
  <2>1. Len(c2) = Len(c) + 1
    BY <1>4
  <2>2. at = pos[n] + 1 /\ pos[n] \in Nat /\ pos[n] >= 1 /\ pos[n] <= Len(c)
    BY ONLY <1>3, <1>13
  <2> QED BY <1>13, <2>1, <2>2
<1>5. LeavesOf(G) = LeavesOf(H) \cup {right}
  BY <1>1 DEF LeavesOf
<1>6. /\ pos2[right] = at
      /\ \A m \in LeavesOf(H) : pos2[m] = IF pos[m] > pos[n] THEN pos[m] + 1 ELSE pos[m]
  <2>1. right \in D /\ \A m \in LeavesOf(H) : m \in D /\ m # right
    BY <1>1 DEF LeavesOf
  <2> HIDE DEF D, right
  <2> QED BY <2>1
<1> HIDE DEF pos2, right, D
<1>7. ASSUME NEW j \in 1 .. Len(c2)
      PROVE  \/ j < at /\ j \in 1 .. Len(c) /\ c2[j] = c[j]
             \/ j = at /\ c2[j] = right
             \/ j > at /\ j - 1 \in 1 .. Len(c) /\ c2[j] = c[j - 1]
  <2>1. c2[j] = IF j < at THEN c[j] ELSE IF j = at THEN right ELSE c[j - 1]
    BY <1>4
  <2>2. CASE j < at
    <3>1. j \in 1 .. Len(c)
      BY <1>0, <1>3, <1>4, <2>2
    <3> QED BY <2>1, <2>2, <3>1
  <2>3. CASE j = at
    <3>1. ~ (j < at)
      BY <1>3, <2>3
    <3> QED BY <2>1, <2>3, <3>1
  <2>4. CASE j > at
    <3>1. j - 1 \in 1 .. Len(c) /\ ~ (j < at) /\ j # at
      BY <1>0, <1>3, <1>4, <2>4
    <3> QED BY <2>1, <2>4, <3>1
  <2>5. j < at \/ j = at \/ j > at
    BY <1>3, <1>4
  <2> QED BY ONLY <2>2, <2>3, <2>4, <2>5
<1>8. ASSUME NEW j \in 1 .. Len(c2)
      PROVE  c2[j] \in LeavesOf(G) /\ pos2[c2[j]] = j
  <2>1. CASE j < at /\ j \in 1 .. Len(c) /\ c2[j] = c[j]
    <3>1. c[j] \in LeavesOf(H) /\ pos[c[j]] = j
      BY <1>0, <2>1
    <3>2. ~ (j > pos[n])
      BY <1>0, <1>3, <2>1
    <3> QED BY <1>5, <1>6, <2>1, <3>1, <3>2
  <2>2. CASE j = at /\ c2[j] = right
    BY <1>5, <1>6, <2>2
  <2>3. CASE j > at /\ j - 1 \in 1 .. Len(c) /\ c2[j] = c[j - 1]
    <3> DEFINE i == j - 1
    <3>1. i \in 1 .. Len(c) /\ i > pos[n] /\ i + 1 = j
      BY <1>0, <1>3, <2>3
    <3>2. c2[j] = c[i]
      BY <2>3
    <3> HIDE DEF i
    <3>3. c[i] \in LeavesOf(H) /\ pos[c[i]] = i
      BY <1>0, <3>1
    <3> QED BY <1>5, <1>6, <3>1, <3>2, <3>3
  <2> QED BY <1>7, <2>1, <2>2, <2>3
<1>9. ASSUME NEW m \in LeavesOf(G) PROVE pos2[m] \in 1 .. Len(c2) /\ c2[pos2[m]] = m
  <2>1. CASE m = right
    <3>1. at \in 1 .. Len(c) + 1 /\ ~ (at < at)
      BY <1>3
    <3>2. c2[at] = right
      BY <1>4, <3>1
    <3> QED BY <1>4, <1>6, <2>1, <3>1, <3>2
  <2>2. CASE m \in LeavesOf(H)
    <3>1. pos[m] \in 1 .. Len(c) /\ c[pos[m]] = m
      BY <1>0, <2>2
    <3> DEFINE j == pos2[m]
    <3>2. CASE pos[m] > pos[n]
      <4>1. j = pos[m] + 1
        BY <1>6, <2>2, <3>2
      <4>2. j \in 1 .. Len(c) + 1 /\ ~ (j < at) /\ j # at /\ j - 1 = pos[m]
        BY ONLY <1>14, <3>1, <3>2, <4>1
      <4> HIDE DEF j
      <4>3. c2[j] = c[pos[m]]
        BY <1>4, <4>2
      <4> QED BY <1>4, <3>1, <4>2, <4>3 DEF j
    <3>3. CASE ~ (pos[m] > pos[n])
      <4>1. j = pos[m]
        BY <1>6, <2>2, <3>3
      <4>2. j \in 1 .. Len(c) + 1 /\ j < at
        BY ONLY <1>14, <3>1, <3>3, <4>1
      <4> HIDE DEF j
      <4>3. c2[j] = c[pos[m]]
        BY <1>4, <4>1, <4>2 DEF j
      <4> QED BY <1>4, <3>1, <4>2, <4>3 DEF j
    <3> QED BY <3>2, <3>3
  <2> QED BY <1>5, <2>1, <2>2
<1>10. ASSUME NEW j \in 1 .. Len(c2)
       PROVE  G[c2[j]].next = IF j = Len(c2) THEN Nil ELSE c2[j + 1]
  <2>0. j \in Nat /\ j >= 1 /\ j <= Len(c) + 1
    BY <1>0, <1>4
  <2>1. CASE j < at /\ j \in 1 .. Len(c) /\ c2[j] = c[j]
    <3>0. j # Len(c2) /\ j + 1 \in 1 .. Len(c) + 1
      BY <1>0, <1>3, <1>4, <2>0, <2>1
    <3>1. CASE j = pos[n]
      <4>1. c2[j] = n /\ j + 1 = at
        <5>1. c2[j] = n
          BY <1>0, <2>1, <3>1
        <5> QED BY <1>14, <3>1, <5>1
      <4>2. c2[at] = right
        BY <1>3, <1>4
      <4> QED BY <3>0, <4>1, <4>2 DEF right
    <3>2. CASE j # pos[n]
      <4>1. j + 1 < at /\ j # Len(c)
        BY ONLY <1>14, <2>0, <2>1, <3>2
      <4>2. c[j] # n /\ c[j] \in Addresses(H)
        BY <1>0, <2>1, <3>2 DEF LeavesOf
      <4>3. H[c[j]].next = c[j + 1]
        BY <1>0, <2>1, <4>1
      <4>4. c2[j + 1] = c[j + 1]
        <5> DEFINE i == j + 1
        <5>1. i \in 1 .. Len(c) + 1 /\ i < at
          BY <3>0, <4>1
        <5> HIDE DEF i
        <5>2. c2[i] = c[i]
          BY <1>4, <5>1
        <5> QED BY <5>2 DEF i
      <4> QED BY <2>1, <3>0, <4>2, <4>3, <4>4
    <3> QED BY <3>1, <3>2
  <2>2. CASE j = at /\ c2[j] = right
    <3>1. G[right].next = H[n].next /\ H[n].next = IF pos[n] = Len(c) THEN Nil ELSE c[pos[n] + 1]
      <4>1. H[c[pos[n]]].next = IF pos[n] = Len(c) THEN Nil ELSE c[pos[n] + 1]
        BY <1>0
      <4>2. c[pos[n]] = n
        BY <1>0
      <4> QED BY <4>1, <4>2 DEF right
    <3>2. pos[n] = Len(c) <=> j = Len(c2)
      BY ONLY <1>14, <2>0, <2>2
    <3>3. j # Len(c2) => c2[j + 1] = c[pos[n] + 1]
      <4> SUFFICES ASSUME j # Len(c2) PROVE c2[j + 1] = c[pos[n] + 1]
        OBVIOUS
      <4> DEFINE i == j + 1
      <4>1. i \in 1 .. Len(c) + 1 /\ ~ (i < at) /\ i # at /\ i - 1 = pos[n] + 1
        BY ONLY <1>14, <2>0, <2>2, j # Len(c2)
      <4> HIDE DEF i
      <4>2. c2[i] = c[pos[n] + 1]
        BY <1>4, <4>1
      <4> QED BY <4>2 DEF i
    <3> QED BY <2>2, <3>1, <3>2, <3>3
  <2>3. CASE j > at /\ j - 1 \in 1 .. Len(c) /\ c2[j] = c[j - 1]
    <3> DEFINE i == j - 1
    <3>1. i \in 1 .. Len(c) /\ i # pos[n] /\ i + 1 = j /\ (i = Len(c) <=> j = Len(c2))
      BY <1>0, <1>3, <1>4, <2>3
    <3>2. c2[j] = c[i]
      BY <2>3
    <3> HIDE DEF i
    <3>3. c[i] \in Addresses(H) /\ c[i] # n /\ H[c[i]].next = IF i = Len(c) THEN Nil ELSE c[i + 1]
      BY <1>0, <3>1 DEF LeavesOf
    <3>4. j # Len(c2) => c2[j + 1] = c[j]
      <4> SUFFICES ASSUME j # Len(c2) PROVE c2[j + 1] = c[j]
        OBVIOUS
      <4> DEFINE k == j + 1
      <4>1. k \in 1 .. Len(c) + 1 /\ ~ (k < at) /\ k # at /\ k - 1 = j
        BY ONLY <1>14, <2>0, <2>3, j # Len(c2)
      <4> HIDE DEF k
      <4>2. c2[k] = c[j]
        BY <1>4, <4>1
      <4> QED BY <4>2 DEF k
    <3> QED BY <3>1, <3>2, <3>3, <3>4
  <2> QED BY <1>7, <2>1, <2>2, <2>3
<1>11. ASSUME NEW i \in 1 .. Len(c2), NEW j \in 1 .. Len(c2), i < j,
              NEW x \in reg2[c2[i]], NEW y \in reg2[c2[j]]
       PROVE  x < y
  \* Where a leaf stood in the old chain.
  <2> DEFINE was(k) == IF k < at THEN k ELSE k - 1
  <2>1. ASSUME NEW k \in 1 .. Len(c2)
        PROVE  /\ was(k) \in 1 .. Len(c) /\ reg2[c2[k]] \subseteq reg[c[was(k)]]
               /\ k < at => was(k) = k
               /\ k >= at => was(k) = k - 1
               /\ k \in Int
    <3>1. CASE k < at /\ k \in 1 .. Len(c) /\ c2[k] = c[k]
      <4>1. c[k] \in LeavesOf(H) /\ was(k) = k
        BY <1>0, <3>1
      <4>2. reg2[c2[k]] \subseteq reg[c[k]]
        BY <1>2, <3>1, <4>1 DEF Below
      <4> QED BY <1>3, <3>1, <4>1, <4>2
    <3>2. CASE k = at /\ c2[k] = right
      <4>1. was(k) = pos[n] /\ was(k) = k - 1
        BY <1>3, <3>2
      <4>2. reg2[c2[k]] \subseteq reg[c[pos[n]]]
        BY <1>0, <1>2, <3>2 DEF From
      <4>3. ~ (k < at) /\ k \in Int
        BY <1>14, <3>2
      <4> HIDE DEF was
      <4> QED BY <1>13, <4>1, <4>2, <4>3
    <3>3. CASE k > at /\ k - 1 \in 1 .. Len(c) /\ c2[k] = c[k - 1]
      <4>1. was(k) = k - 1 /\ was(k) \in 1 .. Len(c)
        <5>1. k \in Nat
          BY <1>14
        <5>2. ~ (k < at)
          BY <1>14, <3>3, <5>1
        <5> QED BY <3>3, <5>2
      <4>2. c2[k] = c[was(k)]
        BY <3>3, <4>1
      <4> HIDE DEF was
      <4>3. c[was(k)] \in LeavesOf(H)
        BY <1>0, <4>1
      <4>4. reg2[c2[k]] \subseteq reg[c[was(k)]]
        BY <1>2, <4>2, <4>3 DEF Below
      <4> QED BY <1>3, <3>3, <4>1, <4>4
    <3> QED BY <1>7, <3>1, <3>2, <3>3
  <2>2. i \in Int /\ j \in Int /\ (was(i) < was(j) \/ (i = at - 1 /\ j = at))
    <3>1. i \in Int /\ j \in Int /\ at \in Int
      BY <1>3, <2>1
    <3>2. /\ i < at => was(i) = i
          /\ i >= at => was(i) = i - 1
          /\ j < at => was(j) = j
          /\ j >= at => was(j) = j - 1
      BY <2>1
    <3>3. was(i) \in Int /\ was(j) \in Int
      BY <1>13, <2>1
    <3> HIDE DEF was
    <3>4. was(i) < was(j) \/ (i = at - 1 /\ j = at)
      BY ONLY <1>11, <3>1, <3>2, <3>3
    <3> QED BY <3>1, <3>4
  <2>3. CASE was(i) < was(j)
    <3>1. x \in reg[c[was(i)]] /\ y \in reg[c[was(j)]]
      BY <2>1
    <3> HIDE DEF was
    <3> QED BY <1>0, <2>1, <2>3, <3>1
  <2>4. CASE i = at - 1 /\ j = at
    <3>1. c2[i] = n
      <4>1. i < at /\ i \in 1 .. Len(c) + 1 /\ i = pos[n]
        BY <1>3, <1>4, <2>2, <2>4
      <4> QED BY <1>0, <1>4, <4>1
    <3>2. c2[j] = right
      BY <1>3, <1>4, <2>4
    <3>3. x < sep /\ sep <= y /\ x \in Int /\ y \in Int
      BY <1>2, <3>1, <3>2 DEF Below, From
    <3> QED BY <3>3
  <2> QED BY <2>2, <2>3, <2>4
<1>12. Order(G, reg2, c2, pos2)
  BY <1>4, <1>8, <1>9, <1>10, <1>11 DEF Order
<1> QED BY <1>12

-----------------------------------------------------------------------------
(* Walks along the chain.                                                   *)
Links(c, next, N) ==
  /\ N \in Nat /\ c \in Seq(1 .. N)
  /\ \A i \in 1 .. Len(c) : next[c[i]] = IF i = Len(c) THEN Nil ELSE c[i + 1]
  /\ \A i, j \in 1 .. Len(c) : c[i] = c[j] => i = j
  /\ \A n \in 1 .. N : (\A i \in 1 .. Len(c) : c[i] # n) => next[n] = Nil

Walks(f, next, N) == f = [n \in 0 .. N |-> IF n = Nil THEN <<>> ELSE <<n>> \o f[next[n]]]

(* A function that walks to the end of the chain exists ...                 *)
LEMMA WalkExists ==
  ASSUME NEW c, NEW next, NEW N, Links(c, next, N)
  PROVE  \E f : Walks(f, next, N)
<1> DEFINE D == 0 .. N
           at(n) == CHOOSE i \in 1 .. Len(c) : c[i] = n
           rest(i) == SubSeq(c, i, Len(c))
           f == [n \in D |-> IF n = Nil THEN <<>>
                             ELSE IF \E i \in 1 .. Len(c) : c[i] = n THEN rest(at(n)) ELSE <<n>>]
<1>0. /\ N \in Nat /\ c \in Seq(1 .. N) /\ Len(c) \in Nat
      /\ \A i \in 1 .. Len(c) : next[c[i]] = IF i = Len(c) THEN Nil ELSE c[i + 1]
      /\ \A i, j \in 1 .. Len(c) : c[i] = c[j] => i = j
      /\ \A n \in 1 .. N : (\A i \in 1 .. Len(c) : c[i] # n) => next[n] = Nil
      /\ \A i \in 1 .. Len(c) : c[i] \in 1 .. N
  BY DEF Links
<1>1. ASSUME NEW i \in 1 .. Len(c) PROVE c[i] \in D /\ c[i] # Nil /\ f[c[i]] = rest(i)
  <2>1. c[i] \in D /\ c[i] # Nil
    <3>1. c[i] \in 1 .. N
      BY <1>0
    <3> QED BY <1>0, <3>1 DEF Nil
  <2>2. at(c[i]) = i
    BY <1>0
  <2> HIDE DEF at, rest, D
  <2> QED BY <2>1, <2>2
<1>2. Nil \in D /\ f[Nil] = <<>>
  BY <1>0 DEF Nil
<1>3. ASSUME NEW n \in D PROVE f[n] = IF n = Nil THEN <<>> ELSE <<n>> \o f[next[n]]
  <2>1. CASE n = Nil
    BY <1>2, <2>1
  <2>2. CASE n # Nil /\ \E i \in 1 .. Len(c) : c[i] = n
    <3>1. PICK i \in 1 .. Len(c) : c[i] = n
      BY <2>2
    <3>2. rest(i) = <<c[i]>> \o rest(i + 1)
      <4> DEFINE T == 1 .. N
                 z == Len(c)
      <4>1. c \in Seq(T) /\ z \in i .. Len(c)
        BY <1>0
      <4> HIDE DEF T, z
      <4>2. SubSeq(c, i, z) = <<c[i]>> \o SubSeq(c, i + 1, z)
        BY <4>1, SubSeqRecursiveFirst
      <4> QED BY <4>2 DEF z
    <3>3. CASE i = Len(c)
      <4>1. rest(i + 1) = <<>>
        BY <1>0, <3>3, SubSeqEmpty
      <4>2. f[next[n]] = <<>>
        BY <1>0, <1>2, <3>1, <3>3
      <4>3. f[n] = rest(i)
        BY <1>1, <3>1
      <4> HIDE DEF f, rest
      <4> QED BY <2>2, <3>1, <3>2, <4>1, <4>2, <4>3
    <3>4. CASE i # Len(c)
      <4> DEFINE j == i + 1
      <4>1. j \in 1 .. Len(c)
        BY <1>0, <3>4
      <4>2. next[n] = c[j]
        BY <1>0, <3>1, <3>4
      <4>3. rest(i) = <<c[i]>> \o rest(j)
        BY <3>2
      <4> HIDE DEF j
      <4>4. f[n] = rest(i) /\ f[next[n]] = rest(j)
        BY <1>1, <3>1, <4>1, <4>2
      <4> HIDE DEF f, rest
      <4> QED BY <2>2, <3>1, <4>3, <4>4
    <3> QED BY <3>3, <3>4
  <2>3. CASE n # Nil /\ \A i \in 1 .. Len(c) : c[i] # n
    <3>1. n \in 1 .. N
      BY <1>0, <2>3 DEF Nil
    <3>2. f[n] = <<n>> /\ f[next[n]] = <<>>
      <4>1. next[n] = Nil
        BY <1>0, <2>3, <3>1
      <4>2. f[n] = <<n>>
        <5> HIDE DEF D, rest, at
        <5> QED BY <2>3
      <4> QED BY <1>2, <4>1, <4>2
    <3>3. <<n>> \o <<>> = <<n>>
      <4>1. <<n>> \in Seq(D)
        OBVIOUS
      <4> HIDE DEF D
      <4> QED BY <4>1, ConcatEmptySeq
    <3> HIDE DEF f
    <3> QED BY <2>3, <3>2, <3>3
  <2> QED BY <2>1, <2>2, <2>3
<1>4. f = [n \in D |-> f[n]]
  <2> HIDE DEF D, rest, at
  <2> QED OBVIOUS
<1> HIDE DEF f
<1>5. [n \in D |-> f[n]] = [n \in D |-> IF n = Nil THEN <<>> ELSE <<n>> \o f[next[n]]]
  <2> HIDE DEF D
  <2> QED BY <1>3
<1>6. Walks(f, next, N)
  BY <1>4, <1>5 DEF Walks
<1> QED BY <1>6

(* ... and any such function does.                                          *)
LEMMA WalkIs ==
  ASSUME NEW c, NEW next, NEW N, Links(c, next, N), NEW f, Walks(f, next, N),
         NEW i \in 1 .. Len(c)
  PROVE  f[c[i]] = SubSeq(c, i, Len(c))
<1> DEFINE rest(k) == SubSeq(c, k, Len(c))
           top == Len(c) - 1
           S == {d \in 0 .. top : f[c[Len(c) - d]] = rest(Len(c) - d)}
<1>0. /\ N \in Nat /\ c \in Seq(1 .. N) /\ Len(c) \in Nat
      /\ \A k \in 1 .. Len(c) : next[c[k]] = IF k = Len(c) THEN Nil ELSE c[k + 1]
      /\ \A k \in 1 .. Len(c) : c[k] \in 1 .. N
  BY DEF Links
<1>1. \A n \in 0 .. N : f[n] = IF n = Nil THEN <<>> ELSE <<n>> \o f[next[n]]
  BY DEF Walks
<1>2. ASSUME NEW k \in 1 .. Len(c) PROVE f[c[k]] = <<c[k]>> \o f[next[c[k]]] /\ rest(k) = <<c[k]>> \o rest(k + 1)
  <2>1. c[k] \in 0 .. N /\ c[k] # Nil
    <3>1. c[k] \in 1 .. N
      BY <1>0
    <3> QED BY <1>0, <3>1 DEF Nil
  <2>2. rest(k) = <<c[k]>> \o rest(k + 1)
    <3> DEFINE T == 1 .. N
               z == Len(c)
    <3>1. c \in Seq(T) /\ z \in k .. Len(c)
      BY <1>0
    <3> HIDE DEF T, z
    <3>2. SubSeq(c, k, z) = <<c[k]>> \o SubSeq(c, k + 1, z)
      BY <3>1, SubSeqRecursiveFirst
    <3> QED BY <3>2 DEF z
  <2> HIDE DEF rest
  <2> QED BY <1>1, <2>1, <2>2
<1>3. 0 \in S
  <2> DEFINE k == Len(c)
  <2>1. k \in 1 .. Len(c) /\ Len(c) - 0 = k /\ 0 \in 0 .. top
    BY <1>0
  <2>2. next[c[k]] = Nil
    BY <1>0, <2>1
  <2>3. f[Nil] = <<>>
    <3>1. Nil \in 0 .. N
      BY <1>0 DEF Nil
    <3> QED BY <1>1, <3>1
  <2>4. rest(k + 1) = <<>>
    BY <1>0, SubSeqEmpty
  <2>5. f[c[k]] = rest(k)
    <3> HIDE DEF k, rest
    <3> QED BY <1>2, <2>1, <2>2, <2>3, <2>4
  <2> QED BY <2>1, <2>5
<1>4. ASSUME NEW d \in 0 .. top - 1, d \in S PROVE d + 1 \in S
  <2> DEFINE k == Len(c) - (d + 1)
             j == Len(c) - d
  <2>1. k \in 1 .. Len(c) /\ k # Len(c) /\ k + 1 = j /\ d + 1 \in 0 .. top
    BY <1>0
  <2>2. f[c[j]] = rest(j)
    BY <1>4
  <2> HIDE DEF j
  <2>3. next[c[k]] = c[j]
    <3> HIDE DEF k
    <3> QED BY <1>0, <2>1
  <2>4. f[c[k]] = rest(k)
    <3> HIDE DEF k, rest
    <3>1. f[c[k]] = <<c[k]>> \o f[next[c[k]]] /\ rest(k) = <<c[k]>> \o rest(k + 1)
      BY <1>2, <2>1
    <3> QED BY <2>1, <2>2, <2>3, <3>1
  <2> QED BY <2>1, <2>4
<1>5. top \in Nat /\ Len(c) - i \in 0 .. top /\ Len(c) - (Len(c) - i) = i
  BY <1>0
<1>6. Len(c) - i \in S
  <2> HIDE DEF S, top
  <2>1. 0 .. top \subseteq S
    BY <1>3, <1>4, <1>5, UpTo
  <2> QED BY <1>5, <2>1
<1> QED BY <1>5, <1>6

(* The chain from a leaf is the rest of the ordered leaves.                 *)
LEMMA ChainIs ==
  ASSUME NEW reg, NEW c, NEW pos, NEW H \in Seq(NodeRecs), H = nodes, Order(H, reg, c, pos),
         \A n \in Addresses(H) : NodeInv(H[n]),
         NEW i \in 1 .. Len(c)
  PROVE  Chain(c[i]) = SubSeq(c, i, Len(c))
<1> DEFINE N == Len(H)
           D == 1 .. N
           next == [n \in D |-> H[n].next]
           Step(f, n) == IF n = Nil THEN <<>> ELSE <<n>> \o f[nodes[n].next]
           Fits(f) == f = [n \in 0 .. Len(nodes) |-> Step(f, n)]
<1>0. /\ N \in Nat /\ c \in Seq(Nat)
      /\ \A k \in 1 .. Len(c) : /\ c[k] \in LeavesOf(H) /\ pos[c[k]] = k
                                /\ H[c[k]].next = IF k = Len(c) THEN Nil ELSE c[k + 1]
      /\ \A n \in LeavesOf(H) : pos[n] \in 1 .. Len(c) /\ c[pos[n]] = n
      /\ D = Addresses(H) /\ LeavesOf(H) \subseteq D
  BY DEF Order, Addresses, LeavesOf
<1>1. Links(c, next, N)
  <2>1. \A n \in D : next[n] = H[n].next
    <3> HIDE DEF D
    <3> QED OBVIOUS
  <2>2. c \in Seq(1 .. N)
    <3>1. \A k \in 1 .. Len(c) : c[k] \in D
      BY <1>0
    <3> HIDE DEF D
    <3>2. c \in Seq(D)
      BY <1>0, <3>1
    <3> QED BY <3>2 DEF D
  <2>3. ASSUME NEW n \in D, \A k \in 1 .. Len(c) : c[k] # n PROVE next[n] = Nil
    <3>1. n \notin LeavesOf(H)
      BY <1>0, <2>3
    <3>2. ~ H[n].leaf /\ NodeInv(H[n])
      BY <1>0, <3>1 DEF LeavesOf
    <3> HIDE DEF next
    <3> QED BY <2>1, <3>2 DEF NodeInv
  <2>4. ASSUME NEW k \in 1 .. Len(c) PROVE next[c[k]] = IF k = Len(c) THEN Nil ELSE c[k + 1]
    <3>1. c[k] \in D
      BY <1>0
    <3> HIDE DEF next, D
    <3> QED BY <1>0, <2>1, <3>1
  <2>5. \A k, j \in 1 .. Len(c) : c[k] = c[j] => k = j
    <3>1. \A k \in 1 .. Len(c) : pos[c[k]] = k
      BY <1>0
    <3> QED BY ONLY <3>1
  <2> HIDE DEF next
  <2> QED BY <1>0, <2>2, <2>3, <2>4, <2>5 DEF Links
<1>2. ASSUME NEW f PROVE Fits(f) <=> Walks(f, next, N)
  <2>1. \A n \in 0 .. N : Step(f, n) = IF n = Nil THEN <<>> ELSE <<n>> \o f[next[n]]
    <3> SUFFICES ASSUME NEW n \in 0 .. N, n # Nil PROVE next[n] = nodes[n].next
      OBVIOUS
    <3>1. n \in D
      BY DEF Nil
    <3> HIDE DEF D
    <3> QED BY <3>1
  <2> HIDE DEF Step, next
  <2>2. [n \in 0 .. Len(nodes) |-> Step(f, n)] = [n \in 0 .. N |-> IF n = Nil THEN <<>> ELSE <<n>> \o f[next[n]]]
    <3> DEFINE E == 0 .. N
    <3>1. \A n \in E : Step(f, n) = IF n = Nil THEN <<>> ELSE <<n>> \o f[next[n]]
      BY <2>1
    <3> HIDE DEF E
    <3>2. [n \in E |-> Step(f, n)] = [n \in E |-> IF n = Nil THEN <<>> ELSE <<n>> \o f[next[n]]]
      BY <3>1
    <3> QED BY <3>2 DEF E
  <2> QED BY <2>2 DEF Walks
<1> DEFINE f == CHOOSE f : Fits(f)
<1>3. Chain(c[i]) = f[c[i]]
  BY DEF Chain
<1>4. Walks(f, next, N)
  <2> HIDE DEF next, N, Fits
  <2>1. \E g : Walks(g, next, N)
    BY <1>1, WalkExists
  <2>2. \E g : Fits(g)
    BY <1>2, <2>1
  <2>3. Fits(f)
    BY <2>2
  <2> HIDE DEF f
  <2> QED BY <1>2, <2>3
<1>5. f[c[i]] = SubSeq(c, i, Len(c))
  <2> HIDE DEF f, next, N
  <2> QED BY <1>1, <1>4, WalkIs
<1> HIDE DEF f
<1> QED BY <1>3, <1>5

-----------------------------------------------------------------------------
(* The inductive invariant.                                                 *)
Shaped(H, rt, h, reg, c, pos) == Sound(H, rt, h, reg) /\ Order(H, reg, c, pos)

Sizes(o, H, at) ==
  /\ \A n \in Addresses(H) : Len(H[n].keys) <= IF n = at THEN o + 1 ELSE o
  /\ at # Nil => Len(H[at].keys) = o + 1

Good(o, H, rt, at) ==
  /\ H \in Seq(NodeRecs) /\ rt \in 0 .. Len(H) /\ at \in 0 .. Len(H)
  /\ rt = Nil <=> H = <<>>
  /\ Sizes(o, H, at)
  /\ rt # Nil => \E h, reg, c, pos : Shaped(H, rt, h, reg, c, pos)

TreeInv == order \in Orders /\ Good(order, nodes, root, cur)

-----------------------------------------------------------------------------
(* Entries of a node with one more or one less.                             *)
LEMMA EntriesInserted ==
  ASSUME NEW K \in Seq(Keys), NEW R \in Seq(Rids), Len(R) = Len(K),
         NEW p \in 1 .. Len(K) + 1, NEW k \in Keys, NEW r \in Rids
  PROVE  EntryPairs(InsertAt(K, p, k), InsertAt(R, p, r)) = EntryPairs(K, R) \cup {<<k, r>>}
<1> DEFINE L == InsertAt(K, p, k)
           M == InsertAt(R, p, r)
<1>0. Len(K) \in Nat /\ p \in Nat /\ p >= 1 /\ p <= Len(K) + 1
  OBVIOUS
<1>7. Len(L) = Len(K) + 1
  BY InsertAtFacts
<1>1. \A j \in 1 .. Len(K) + 1 : /\ L[j] = IF j < p THEN K[j] ELSE IF j = p THEN k ELSE K[j - 1]
                                 /\ M[j] = IF j < p THEN R[j] ELSE IF j = p THEN r ELSE R[j - 1]
  BY InsertAtFacts
<1> HIDE DEF L, M
<1>2. ASSUME NEW j \in 1 .. Len(K) + 1
      PROVE  \/ <<L[j], M[j]>> = <<k, r>>
             \/ \E i \in 1 .. Len(K) : <<L[j], M[j]>> = <<K[i], R[i]>>
  <2>1. CASE j < p
    <3>1. j \in 1 .. Len(K)
      BY <1>0, <2>1
    <3> QED BY <1>1, <2>1, <3>1
  <2>2. CASE j = p
    <3>1. ~ (j < p)
      BY <1>0, <2>2
    <3> QED BY <1>1, <2>2, <3>1
  <2>3. CASE j > p
    <3>1. j - 1 \in 1 .. Len(K) /\ ~ (j < p) /\ j # p
      BY <1>0, <2>3
    <3>2. L[j] = K[j - 1] /\ M[j] = R[j - 1]
      BY <1>1, <3>1
    <3> QED BY <3>1, <3>2
  <2>4. j < p \/ j = p \/ j > p
    BY <1>0
  <2> QED BY ONLY <2>1, <2>2, <2>3, <2>4
<1>3. \E j \in 1 .. Len(K) + 1 : <<L[j], M[j]>> = <<k, r>>
  <2>1. p \in 1 .. Len(K) + 1 /\ ~ (p < p)
    BY <1>0
  <2>2. L[p] = k /\ M[p] = r
    BY <1>1, <2>1
  <2> QED BY <2>1, <2>2
<1>4. ASSUME NEW i \in 1 .. Len(K)
      PROVE  \E j \in 1 .. Len(K) + 1 : <<L[j], M[j]>> = <<K[i], R[i]>>
  <2>1. CASE i < p
    <3>1. i \in 1 .. Len(K) + 1
      BY <1>0
    <3>2. L[i] = K[i] /\ M[i] = R[i]
      BY <1>1, <2>1, <3>1
    <3> QED BY <3>1, <3>2
  <2>2. CASE ~ (i < p)
    <3> DEFINE j == i + 1
    <3>1. j \in 1 .. Len(K) + 1 /\ ~ (j < p) /\ j # p /\ j - 1 = i
      BY <1>0, <2>2
    <3> HIDE DEF j
    <3>2. L[j] = K[i] /\ M[j] = R[i]
      BY <1>1, <3>1
    <3> QED BY <3>1, <3>2
  <2> QED BY <2>1, <2>2
<1>5. ASSUME NEW e
      PROVE  e \in {<<L[i], M[i]>> : i \in 1 .. Len(K) + 1}
               <=> e \in {<<K[i], R[i]>> : i \in 1 .. Len(K)} \cup {<<k, r>>}
  <2> DEFINE I == 1 .. Len(K)
             J == 1 .. Len(K) + 1
  <2>1. /\ \A j \in J : <<L[j], M[j]>> = <<k, r>> \/ \E x \in I : <<L[j], M[j]>> = <<K[x], R[x]>>
        /\ \E j \in J : <<L[j], M[j]>> = <<k, r>>
        /\ \A x \in I : \E j \in J : <<L[j], M[j]>> = <<K[x], R[x]>>
    BY <1>2, <1>3, <1>4
  <2> HIDE DEF I, J
  <2>2. e \in {<<L[x], M[x]>> : x \in J} <=> e \in {<<K[x], R[x]>> : x \in I} \cup {<<k, r>>}
    BY ONLY <2>1
  <2> QED BY <2>2 DEF I, J
<1>6. {<<L[i], M[i]>> : i \in 1 .. Len(K) + 1} = {<<K[i], R[i]>> : i \in 1 .. Len(K)} \cup {<<k, r>>}
  BY ONLY <1>5
<1> QED BY <1>6, <1>7 DEF L, M, EntryPairs

(* The first entry of an empty tree.                                        *)
LEMMA FirstLeaf ==
  ASSUME NEW o \in Nat, o >= 2, NEW k \in Keys, NEW r \in Rids
  PROVE  LET G == <<LeafNode(Nil, <<k>>, <<r>>, Nil)>> IN
         Good(o, G, 1, Nil) /\ Entries(G) = {<<k, r>>}
<1> DEFINE e == LeafNode(Nil, <<k>>, <<r>>, Nil)
           G == <<e>>
           h == [n \in {1} |-> 0]
           reg == [n \in {1} |-> Int]
           c == <<1>>
           pos == [n \in {1} |-> 1]
<1>0. Len(<<k>>) = 1 /\ <<k>>[1] = k /\ <<r>>[1] = r /\ k \in Int /\ 1 .. 1 = {1}
  BY BPlusTreeAssumption
<1>1. e.leaf /\ e.parent = Nil /\ e.next = Nil /\ e.keys = <<k>> /\ e.rows = <<r>> /\ e.ch = <<>>
  BY DEF LeafNode
<1>2. e \in NodeRecs
  BY DEF LeafNode, NodeRecs, Nil
<1>3. NodeInv(e)
  <2>1. Ascends(<<k>>)
    BY DEF Ascends
  <2> HIDE DEF e
  <2> QED BY <1>1, <1>2, <2>1 DEF NodeInv
<1> HIDE DEF e
<1>4. EntriesOf(e) = {<<k, r>>}
  <2>1. EntriesOf(e) = {<<<<k>>[i], <<r>>[i]>> : i \in {1}}
    BY <1>0, <1>1 DEF EntriesOf, EntryPairs
  <2> QED BY <1>0, <2>1
<1>5. G \in Seq(NodeRecs) /\ Len(G) = 1 /\ G[1] = e /\ Addresses(G) = {1} /\ G # <<>>
  BY <1>0, <1>2 DEF Addresses
<1>6. h[1] = 0 /\ reg[1] = Int /\ c \in Seq(Nat) /\ Len(c) = 1 /\ c[1] = 1 /\ pos[1] = 1
  OBVIOUS
<1> HIDE DEF h, reg, c, pos, G
<1>7. RegionInv(e, reg[1]) /\ HeightInv(G, 1, 1, h)
  <2>1. RegionInv(e, reg[1])
    BY <1>0, <1>1, <1>6 DEF RegionInv
  <2>2. HeightInv(G, 1, 1, h)
    BY <1>1, <1>5, <1>6 DEF HeightInv
  <2> QED BY <2>1, <2>2
<1>8. Sound(G, 1, h, reg)
  BY <1>1, <1>3, <1>5, <1>6, <1>7 DEF Sound, Tree
<1>9. LeavesOf(G) = {1}
  BY <1>1, <1>5 DEF LeavesOf
<1>10. Order(G, reg, c, pos)
  BY <1>0, <1>1, <1>5, <1>6, <1>9 DEF Order
<1>11. Sizes(o, G, Nil)
  <2>1. \A m \in Addresses(G) : Len(G[m].keys) = 1 /\ m # Nil
    BY <1>0, <1>1, <1>5 DEF Nil
  <2>2. 1 <= o
    OBVIOUS
  <2>3. \A m \in Addresses(G) : Len(G[m].keys) <= IF m = Nil THEN o + 1 ELSE o
    BY <2>1, <2>2
  <2> QED BY <2>3 DEF Sizes
<1>12. Nil \in 0 .. Len(G) /\ 1 \in 0 .. Len(G) /\ 1 # Nil
  BY <1>5 DEF Nil
<1>13. Good(o, G, 1, Nil)
  <2>1. \E a, b, d, f : Shaped(G, 1, a, b, d, f)
    BY <1>8, <1>10 DEF Shaped
  <2> QED BY <1>5, <1>11, <1>12, <2>1 DEF Good
<1>14. Entries(G) = {<<k, r>>}
  BY <1>4, <1>5, <1>9 DEF Entries
<1> QED BY <1>13, <1>14 DEF G, e

(* What a leaf looks like after it was refilled, and that nothing else      *)
(* changed.                                                                 *)
LEMMA RefilledLeaf ==
  ASSUME NEW H \in Seq(NodeRecs), NEW n \in LeavesOf(H), NodeInv(H[n]),
         NEW ks \in Seq(Keys), NEW rs \in Seq(Rids), Len(rs) = Len(ks), Ascends(ks),
         NEW G, Refills(H, G, n, ks, rs)
  PROVE  /\ G \in Seq(NodeRecs) /\ Len(G) = Len(H) /\ Addresses(G) = Addresses(H)
         /\ \A m \in Addresses(H) : m # n => G[m] = H[m]
         /\ G[n].keys = ks /\ G[n].rows = rs /\ G[n].leaf
         /\ G[n].parent = H[n].parent /\ G[n].next = H[n].next
         /\ NodeInv(G[n]) /\ LeavesOf(G) = LeavesOf(H)
<1>1. n \in Addresses(H) /\ H[n].leaf /\ H[n] \in NodeRecs
  BY DEF LeavesOf, Addresses
<1>2. /\ G \in Seq(NodeRecs) /\ Len(G) = Len(H)
      /\ \A m \in Addresses(H) : m # n => G[m] = H[m]
  BY DEF Refills
<1>3. /\ G[n].keys = ks /\ G[n].rows = rs /\ G[n].leaf /\ G[n].parent = H[n].parent
      /\ G[n].next = H[n].next /\ G[n].ch = <<>>
  BY <1>1 DEF Refills, NodeInv
<1>4. Addresses(G) = Addresses(H) /\ G[n] \in NodeRecs
  BY <1>1, <1>2 DEF Addresses
<1>5. NodeInv(G[n])
  BY <1>3, <1>4 DEF NodeInv
<1>6. LeavesOf(G) = LeavesOf(H)
  BY <1>1, <1>2, <1>3, <1>4 DEF LeavesOf
<1> QED BY <1>2, <1>3, <1>4, <1>5, <1>6

(* A leaf with other entries of its region: the tree and the chain are as   *)
(* they were.                                                               *)
LEMMA ShapedRefilled ==
  ASSUME NEW H \in Seq(NodeRecs), NEW rt, NEW h, NEW reg, NEW c, NEW pos, Shaped(H, rt, h, reg, c, pos),
         NEW n \in LeavesOf(H), NEW ks \in Seq(Keys), NEW rs \in Seq(Rids), Len(rs) = Len(ks),
         Ascends(ks), \A i \in 1 .. Len(ks) : ks[i] \in reg[n],
         NEW G, Refills(H, G, n, ks, rs)
  PROVE  Shaped(G, rt, h, reg, c, pos)
<1> DEFINE none == {}
<1>1. Tree(H, rt, h, reg, reg, none) /\ Order(H, reg, c, pos)
  BY DEF Shaped, Sound
<1> HIDE DEF none
<1>2. n \in Addresses(H) /\ H[n].leaf /\ NodeInv(H[n]) /\ RegionInv(H[n], reg[n])
  BY <1>1 DEF LeavesOf, Tree
<1>3. /\ G \in Seq(NodeRecs) /\ Len(G) = Len(H) /\ Addresses(G) = Addresses(H)
      /\ \A m \in Addresses(H) : m # n => G[m] = H[m]
      /\ G[n].keys = ks /\ G[n].rows = rs /\ G[n].leaf
      /\ G[n].parent = H[n].parent /\ G[n].next = H[n].next
      /\ NodeInv(G[n]) /\ LeavesOf(G) = LeavesOf(H)
  BY <1>2, RefilledLeaf
<1>4. RegionInv(G[n], reg[n])
  BY <1>2, <1>3 DEF RegionInv
<1>5. Tree(G, rt, h, reg, reg, none)
  BY ONLY <1>1, <1>2, <1>3, <1>4, LeafChange
<1>6. Order(G, reg, c, pos)
  BY <1>1, <1>3, OrderRefilled
<1> QED BY <1>5, <1>6 DEF Shaped, Sound, none

(* Where insert_leaf puts a key.                                            *)
Place(keys, k) == FirstNot(keys, LAMBDA key : key < k)

(* A leaf takes a new entry of its region: all is well but for its size,    *)
(* and the entry is the only one more.                                      *)
LEMMA Inserted ==
  ASSUME NEW o \in Nat, NEW H, NEW rt, Good(o, H, rt, Nil), rt # Nil,
         NEW h, NEW reg, NEW c, NEW pos, Shaped(H, rt, h, reg, c, pos),
         NEW n \in LeavesOf(H), NEW k \in Keys, NEW r \in Rids, k \in reg[n],
         \A i \in 1 .. Len(H[n].keys) : H[n].keys[i] # k,
         NEW p, p = Place(H[n].keys, k),
         NEW ks, ks = InsertAt(H[n].keys, p, k), NEW rs, rs = InsertAt(H[n].rows, p, r),
         NEW G, Refills(H, G, n, ks, rs),
         NEW at, at = IF Len(G[n].keys) > o THEN n ELSE Nil
  PROVE  Good(o, G, rt, at) /\ Entries(G) = Entries(H) \cup {<<k, r>>}
<1> DEFINE K == H[n].keys
           R == H[n].rows
<1>1. H \in Seq(NodeRecs) /\ Len(H) \in Nat /\ rt \in 0 .. Len(H) /\ Sizes(o, H, Nil) /\ k \in Int
  BY BPlusTreeAssumption DEF Good
<1>2. n \in Addresses(H) /\ H[n].leaf /\ H[n] \in NodeRecs /\ NodeInv(H[n]) /\ RegionInv(H[n], reg[n])
  BY <1>1 DEF LeavesOf, Shaped, Sound, Tree, Addresses
<1>3. /\ K \in Seq(Keys) /\ K \in Seq(Int) /\ R \in Seq(Rids) /\ Len(R) = Len(K) /\ Len(K) \in Nat
      /\ Ascends(K) /\ \A i \in 1 .. Len(K) : K[i] \in reg[n] /\ K[i] # k
  BY <1>2, Fields DEF NodeInv, RegionInv
<1>4. p = Place(K, k) /\ ks = InsertAt(K, p, k) /\ rs = InsertAt(R, p, r)
      /\ EntriesOf(H[n]) = EntryPairs(K, R)
  BY DEF EntriesOf
<1> HIDE DEF K, R
<1>5. p \in 1 .. Len(K) + 1 /\ Ascends(ks)
  <2>1. LET q == FirstNot(K, LAMBDA key : key < k) IN q \in 1 .. Len(K) + 1 /\ Ascends(InsertAt(K, q, k))
    BY <1>1, <1>3, PlaceOfKey
  <2> QED BY <1>4, <2>1 DEF Place
<1>16. k \in Keys /\ r \in Rids
  OBVIOUS
<1>6. /\ ks \in Seq(Keys) /\ Len(ks) = Len(K) + 1
      /\ \A j \in 1 .. Len(K) + 1 : ks[j] = IF j < p THEN K[j] ELSE IF j = p THEN k ELSE K[j - 1]
  <2>1. /\ InsertAt(K, p, k) \in Seq(Keys) /\ Len(InsertAt(K, p, k)) = Len(K) + 1
        /\ \A j \in 1 .. Len(K) + 1 :
             InsertAt(K, p, k)[j] = IF j < p THEN K[j] ELSE IF j = p THEN k ELSE K[j - 1]
    <3>1. K \in Seq(Keys) /\ p \in 1 .. Len(K) + 1 /\ k \in Keys
      BY <1>3, <1>5
    <3> QED BY ONLY <3>1, InsertAtFacts
  <2> QED BY <1>4, <2>1
<1>7. rs \in Seq(Rids) /\ Len(rs) = Len(ks)
  <2>1. p \in 1 .. Len(R) + 1
    BY <1>3, <1>5
  <2> QED BY <1>3, <1>4, <1>6, <2>1, InsertAtFacts
<1>8. EntryPairs(ks, rs) = EntriesOf(H[n]) \cup {<<k, r>>}
  <2>1. EntryPairs(InsertAt(K, p, k), InsertAt(R, p, r)) = EntryPairs(K, R) \cup {<<k, r>>}
    <3>1. /\ K \in Seq(Keys) /\ p \in 1 .. Len(K) + 1 /\ k \in Keys
          /\ R \in Seq(Rids) /\ Len(R) = Len(K) /\ r \in Rids
      BY <1>3, <1>5
    <3> QED BY ONLY <3>1, EntriesInserted
  <2> QED BY <1>4, <2>1
<1>9. ASSUME NEW j \in 1 .. Len(ks) PROVE ks[j] \in reg[n]
  <2>1. ks[j] = IF j < p THEN K[j] ELSE IF j = p THEN k ELSE K[j - 1]
    BY <1>6
  <2>2. j < p => j \in 1 .. Len(K)
    BY <1>3, <1>5, <1>6
  <2>3. ~ (j < p) /\ j # p => j - 1 \in 1 .. Len(K)
    BY <1>3, <1>5, <1>6
  <2> QED BY <1>3, <2>1, <2>2, <2>3
<1>10. Shaped(G, rt, h, reg, c, pos)
  BY <1>1, <1>4, <1>5, <1>6, <1>7, <1>9, ShapedRefilled
<1>11. /\ G \in Seq(NodeRecs) /\ Len(G) = Len(H) /\ Addresses(G) = Addresses(H)
       /\ \A m \in Addresses(H) : m # n => G[m] = H[m]
       /\ G[n].keys = ks /\ G[n].rows = rs /\ LeavesOf(G) = LeavesOf(H)
  BY <1>1, <1>2, <1>4, <1>5, <1>6, <1>7, RefilledLeaf
<1>12. Sizes(o, G, at)
  <2>1. \A m \in Addresses(H) : Len(H[m].keys) <= o
    BY <1>1 DEF Sizes, Addresses, Nil
  <2>2. Len(K) <= o /\ Len(G[n].keys) = Len(K) + 1 /\ n # Nil
    BY <1>2, <1>6, <1>11, <2>1 DEF Addresses, Nil, K
  <2>3. CASE Len(G[n].keys) > o
    <3>1. Len(G[n].keys) = o + 1 /\ at = n /\ o + 1 <= o + 1
      BY <1>3, <2>2, <2>3
    <3>2. \A m \in Addresses(G) : Len(G[m].keys) <= IF m = at THEN o + 1 ELSE o
      BY <1>11, <2>1, <3>1
    <3> QED BY <3>1, <3>2 DEF Sizes
  <2>4. CASE ~ (Len(G[n].keys) > o)
    <3>1. Len(G[n].keys) <= o /\ at = Nil
      BY <1>3, <2>2, <2>4
    <3>2. \A m \in Addresses(G) : Len(G[m].keys) <= o /\ m # Nil
      BY <1>11, <2>1, <3>1 DEF Addresses, Nil
    <3> QED BY <3>1, <3>2 DEF Sizes
  <2> QED BY <2>3, <2>4
<1>13. rt \in 0 .. Len(G) /\ at \in 0 .. Len(G) /\ G # <<>>
  <2>1. at \in 0 .. Len(H)
    BY <1>1, <1>2 DEF Addresses, Nil
  <2>2. Len(G) # 0
    BY <1>1, <1>2, <1>11 DEF Addresses
  <2> QED BY <1>1, <1>11, <2>1, <2>2
<1>14. Good(o, G, rt, at)
  BY <1>10, <1>11, <1>12, <1>13 DEF Good
<1>15. EntriesOf(G[n]) = EntriesOf(H[n]) \cup {<<k, r>>}
  BY <1>8, <1>11 DEF EntriesOf
<1>17. \A m \in LeavesOf(H) : m # n => G[m] = H[m]
  BY <1>11 DEF LeavesOf
<1>18. \A m \in LeavesOf(H) : m # n => EntriesOf(G[m]) = EntriesOf(H[m])
  BY <1>17
<1>19. Entries(G) = Entries(H) \cup {<<k, r>>}
  <2> DEFINE L == LeavesOf(H)
             f == [m \in L |-> EntriesOf(H[m])]
             g == [m \in L |-> EntriesOf(G[m])]
             E == {<<k, r>>}
  <2>1. n \in L /\ g[n] = f[n] \cup E /\ \A m \in L : m # n => g[m] = f[m]
    BY <1>15, <1>18
  <2>2. Entries(H) = UNION {f[m] : m \in L} /\ Entries(G) = UNION {g[m] : m \in L}
    BY <1>11 DEF Entries
  <2> HIDE DEF L, f, g, E
  <2>3. UNION {g[m] : m \in L} = (UNION {f[m] : m \in L}) \cup E
    BY ONLY <2>1
  <2> QED BY <2>2, <2>3 DEF E
<1> QED BY <1>14, <1>19

-----------------------------------------------------------------------------
(* The keys of a leaf are keys of its entries.                              *)
LEMMA EntryOfKey ==
  ASSUME NEW H \in Seq(NodeRecs), NEW n \in LeavesOf(H), NodeInv(H[n]), NEW i \in 1 .. Len(H[n].keys)
  PROVE  <<H[n].keys[i], H[n].rows[i]>> \in Entries(H) /\ H[n].rows[i] \in Rids
<1>1. H[n] \in NodeRecs /\ H[n].leaf
  BY DEF LeavesOf, Addresses
<1>2. Len(H[n].rows) = Len(H[n].keys) /\ H[n].rows \in Seq(Rids)
  BY <1>1, Fields DEF NodeInv
<1>3. <<H[n].keys[i], H[n].rows[i]>> \in EntriesOf(H[n])
  BY DEF EntriesOf, EntryPairs
<1> QED BY <1>2, <1>3 DEF Entries

(* The new contents of that leaf are keys and rows.                         *)
LEMMA InsertedFields ==
  ASSUME NEW H \in Seq(NodeRecs), NEW n \in LeavesOf(H), NodeInv(H[n]),
         NEW k \in Keys, NEW r \in Rids, \A i \in 1 .. Len(H[n].keys) : H[n].keys[i] # k,
         NEW p, p = Place(H[n].keys, k),
         NEW ks, ks = InsertAt(H[n].keys, p, k), NEW rs, rs = InsertAt(H[n].rows, p, r)
  PROVE  n \in Addresses(H) /\ ks \in Seq(Keys) /\ rs \in Seq(Rids)
<1> DEFINE K == H[n].keys
           R == H[n].rows
<1>1. H[n] \in NodeRecs /\ H[n].leaf /\ n \in Addresses(H) /\ k \in Int
  BY BPlusTreeAssumption DEF LeavesOf, Addresses
<1>2. K \in Seq(Keys) /\ K \in Seq(Int) /\ R \in Seq(Rids) /\ Len(R) = Len(K) /\ Ascends(K)
  BY <1>1, Fields DEF NodeInv
<1>3. p = Place(K, k) /\ ks = InsertAt(K, p, k) /\ rs = InsertAt(R, p, r)
      /\ \A i \in 1 .. Len(K) : K[i] # k
  OBVIOUS
<1> HIDE DEF K, R
<1>4. p \in 1 .. Len(K) + 1
  <2>1. LET q == FirstNot(K, LAMBDA key : key < k) IN q \in 1 .. Len(K) + 1 /\ Ascends(InsertAt(K, q, k))
    BY <1>1, <1>2, <1>3, PlaceOfKey
  <2> QED BY <1>3, <2>1 DEF Place
<1>5. ks \in Seq(Keys)
  BY <1>2, <1>3, <1>4, InsertAtFacts
<1>6. rs \in Seq(Rids)
  <2>1. p \in 1 .. Len(R) + 1
    BY <1>2, <1>4
  <2> QED BY <1>2, <1>3, <2>1, InsertAtFacts
<1> QED BY <1>1, <1>5, <1>6

-----------------------------------------------------------------------------
(* The calls.                                                               *)
LEMMA Picture ==
  ASSUME TreeInv, root # Nil
  PROVE  /\ nodes \in Seq(NodeRecs)
         /\ \E h, reg, c, pos : Shaped(nodes, root, h, reg, c, pos)
BY DEF TreeInv, Good

(* insert, up to its loop, preserves the invariant and adds its entry.      *)
LEMMA InsertStep ==
  ASSUME TreeInv, NEW k \in Keys, NEW r \in Rids, Insert(k, r)
  PROVE  TreeInv' /\ Stored' = Stored \cup {<<k, r>>}
<1>1. order \in Orders /\ order' = order /\ order \in Nat /\ order >= 2 /\ cur = Nil
  BY BPlusTreeAssumption DEF TreeInv, Insert
<1>2. nodes \in Seq(NodeRecs) /\ Good(order, nodes, root, Nil)
  BY <1>1 DEF TreeInv, Good
<1>3. Stored = Entries(nodes) /\ Leaves = LeavesOf(nodes)
  BY <1>2, StoredIs
<1>4. CASE root = Nil
  <2>1. nodes' = <<LeafNode(Nil, <<k>>, <<r>>, Nil)>> /\ root' = 1 /\ cur' = Nil
    BY <1>4 DEF Insert
  <2>2. Good(order', nodes', root', cur') /\ Entries(nodes') = {<<k, r>>}
    BY <1>1, <2>1, FirstLeaf
  <2>3. nodes' \in Seq(NodeRecs)
    BY <2>2 DEF Good
  <2>4. Stored' = {<<k, r>>}
    BY <2>2, <2>3, StoredNext
  <2>5. Stored = {}
    <3>1. nodes = <<>>
      BY <1>2, <1>4 DEF Good
    <3>2. LeavesOf(nodes) = {}
      BY <3>1 DEF LeavesOf, Addresses
    <3> QED BY <1>3, <3>2 DEF Entries
  <2> QED BY <1>1, <2>2, <2>4, <2>5 DEF TreeInv
<1>5. CASE root # Nil
  <2> DEFINE n == find_leaf(k)
             p == Place(nodes[n].keys, k)
             ks == InsertAt(nodes[n].keys, p, k)
             rs == InsertAt(nodes[n].rows, p, r)
  <2>1. PICK h, reg, c, pos : Shaped(nodes, root, h, reg, c, pos)
    BY <1>5, Picture
  <2>2. Sound(nodes, root, h, reg) /\ k \in Int
    BY <2>1, BPlusTreeAssumption DEF Shaped
  <2>3. n \in LeavesOf(nodes) /\ k \in reg[n]
    BY <1>3, <2>2, LeafOfKey
  <2>4. nodes' = [nodes EXCEPT ![n].keys = ks, ![n].rows = rs] /\ cur' = TooLarge(nodes', n) /\ root' = root
    BY <1>5 DEF Insert, insert_leaf, Place
  <2>5. \A s \in Rids : <<k, s>> \notin Stored
    BY DEF Insert
  <2>6. p = Place(nodes[n].keys, k)
        /\ ks = InsertAt(nodes[n].keys, p, k) /\ rs = InsertAt(nodes[n].rows, p, r)
    OBVIOUS
  <2> HIDE DEF n, p, ks, rs
  <2>7. NodeInv(nodes[n])
    BY <2>2, <2>3 DEF Sound, Tree, LeavesOf
  <2>8. \A i \in 1 .. Len(nodes[n].keys) : nodes[n].keys[i] # k
    BY <1>2, <1>3, <2>3, <2>5, <2>7, EntryOfKey
  <2>9. Refills(nodes, nodes', n, ks, rs)
    <3>1. n \in Addresses(nodes) /\ ks \in Seq(Keys) /\ rs \in Seq(Rids)
      BY <1>2, <2>3, <2>6, <2>7, <2>8, InsertedFields
    <3> DEFINE G == nodes'
    <3>2. G = [nodes EXCEPT ![n].keys = ks, ![n].rows = rs]
      BY <2>4
    <3> HIDE DEF G
    <3>3. Refills(nodes, G, n, ks, rs)
      BY ONLY <1>2, <3>1, <3>2, Refilled
    <3> QED BY <3>3 DEF G
  <2>10. cur' = IF Len(nodes'[n].keys) > order THEN n ELSE Nil
    BY <2>4 DEF TooLarge
  <2>11. Good(order, nodes', root, cur') /\ Entries(nodes') = Entries(nodes) \cup {<<k, r>>}
    BY <1>1, <1>2, <1>5, <2>1, <2>3, <2>6, <2>8, <2>9, <2>10, Inserted
  <2>12. Stored' = Entries(nodes')
    BY <2>11, StoredNext DEF Good
  <2> QED BY <1>1, <1>3, <2>4, <2>11, <2>12 DEF TreeInv
<1> QED BY <1>4, <1>5

-----------------------------------------------------------------------------
(* One entry less.                                                          *)
LEMMA RemoveAscends ==
  ASSUME NEW K \in Seq(Int), Ascends(K), NEW p \in 1 .. Len(K)
  PROVE  /\ Ascends(RemoveAt(K, p))
         /\ \A j \in 1 .. Len(K) - 1 : \E i \in 1 .. Len(K) : RemoveAt(K, p)[j] = K[i]
<1> DEFINE L == RemoveAt(K, p)
<1>0. Len(K) \in Nat
  OBVIOUS
<1>1. Len(L) = Len(K) - 1 /\ \A j \in 1 .. Len(K) - 1 : L[j] = IF j < p THEN K[j] ELSE K[j + 1]
  <2> DEFINE T == Int
  <2>1. K \in Seq(T)
    OBVIOUS
  <2> HIDE DEF T
  <2> QED BY <2>1, RemoveAtFacts
<1> HIDE DEF L
<1>2. ASSUME NEW j \in 1 .. Len(K) - 1
      PROVE  \E i \in 1 .. Len(K) : L[j] = K[i] /\ i = IF j < p THEN j ELSE j + 1
  <2>1. j \in 1 .. Len(K) /\ j + 1 \in 1 .. Len(K)
    BY <1>0
  <2>2. L[j] = IF j < p THEN K[j] ELSE K[j + 1]
    BY <1>1
  <2>3. CASE j < p
    BY <2>1, <2>2, <2>3
  <2>4. CASE ~ (j < p)
    BY <2>1, <2>2, <2>4
  <2> QED BY <2>3, <2>4
<1>3. ASSUME NEW a \in 1 .. Len(K) - 1, NEW b \in 1 .. Len(K) - 1, a < b PROVE L[a] < L[b]
  <2>1. PICK i \in 1 .. Len(K) : L[a] = K[i] /\ i = IF a < p THEN a ELSE a + 1
    BY <1>2
  <2>2. PICK j \in 1 .. Len(K) : L[b] = K[j] /\ j = IF b < p THEN b ELSE b + 1
    BY <1>2
  <2>3. i < j
    BY <1>3, <2>1, <2>2
  <2>4. K[i] < K[j]
    BY <2>3 DEF Ascends
  <2> QED BY <2>1, <2>2, <2>4
<1> QED BY <1>1, <1>2, <1>3 DEF Ascends, L

(* Keys and rows without position p lose the entry at p.                    *)
LEMMA EntriesRemoved ==
  ASSUME NEW K \in Seq(Keys), NEW R \in Seq(Rids), Len(R) = Len(K), NEW p \in 1 .. Len(K),
         \A i, j \in 1 .. Len(K) : K[i] = K[j] => i = j
  PROVE  EntryPairs(RemoveAt(K, p), RemoveAt(R, p)) = EntryPairs(K, R) \ {<<K[p], R[p]>>}
<1> DEFINE L == RemoveAt(K, p)
           M == RemoveAt(R, p)
<1>0. Len(K) \in Nat /\ p \in Nat /\ p >= 1 /\ p <= Len(K)
  OBVIOUS
<1>1. /\ Len(L) = Len(K) - 1
      /\ \A j \in 1 .. Len(K) - 1 : /\ L[j] = IF j < p THEN K[j] ELSE K[j + 1]
                                    /\ M[j] = IF j < p THEN R[j] ELSE R[j + 1]
  <2>1. p \in 1 .. Len(R) /\ Len(R) - 1 = Len(K) - 1
    OBVIOUS
  <2> QED BY <2>1, RemoveAtFacts
<1> HIDE DEF L, M
<1>2. ASSUME NEW j \in 1 .. Len(K) - 1
      PROVE  \E i \in 1 .. Len(K) : i # p /\ L[j] = K[i] /\ M[j] = R[i]
  <2>1. CASE j < p
    <3>1. j \in 1 .. Len(K) /\ j # p
      BY <1>0, <2>1
    <3> QED BY <1>1, <2>1, <3>1
  <2>2. CASE ~ (j < p)
    <3> DEFINE i == j + 1
    <3>1. i \in 1 .. Len(K) /\ i # p /\ L[j] = K[i] /\ M[j] = R[i]
      BY <1>0, <1>1, <2>2
    <3> HIDE DEF i
    <3> QED BY <3>1
  <2> QED BY <2>1, <2>2
<1>3. ASSUME NEW i \in 1 .. Len(K), i # p
      PROVE  \E j \in 1 .. Len(K) - 1 : L[j] = K[i] /\ M[j] = R[i]
  <2>1. CASE i < p
    <3>1. i \in 1 .. Len(K) - 1
      BY <1>0, <2>1
    <3> QED BY <1>1, <2>1, <3>1
  <2>2. CASE ~ (i < p)
    <3> DEFINE j == i - 1
    <3>1. j \in 1 .. Len(K) - 1 /\ ~ (j < p) /\ j + 1 = i
      BY <1>0, <1>3, <2>2
    <3> HIDE DEF j
    <3>2. L[j] = K[i] /\ M[j] = R[i]
      BY <1>1, <3>1
    <3> QED BY <3>1, <3>2
  <2> QED BY <2>1, <2>2
<1>4. {<<L[j], M[j]>> : j \in 1 .. Len(K) - 1} = {<<K[i], R[i]>> : i \in 1 .. Len(K)} \ {<<K[p], R[p]>>}
  <2> DEFINE I == 1 .. Len(K)
             J == 1 .. Len(K) - 1
  <2>1. /\ \A j \in J : \E i \in I : i # p /\ L[j] = K[i] /\ M[j] = R[i]
        /\ \A i \in I : i # p => \E j \in J : L[j] = K[i] /\ M[j] = R[i]
        /\ p \in I /\ \A i, j \in I : K[i] = K[j] => i = j
    BY <1>2, <1>3
  <2> HIDE DEF I, J
  <2>2. ASSUME NEW e
        PROVE  e \in {<<L[j], M[j]>> : j \in J} <=> e \in {<<K[i], R[i]>> : i \in I} \ {<<K[p], R[p]>>}
    <3>1. e \in {<<L[j], M[j]>> : j \in J} => e \in {<<K[i], R[i]>> : i \in I} \ {<<K[p], R[p]>>}
      BY ONLY <2>1
    <3>2. e \in {<<K[i], R[i]>> : i \in I} \ {<<K[p], R[p]>>} => e \in {<<L[j], M[j]>> : j \in J}
      BY ONLY <2>1
    <3> QED BY <3>1, <3>2
  <2>3. {<<L[j], M[j]>> : j \in J} = {<<K[i], R[i]>> : i \in I} \ {<<K[p], R[p]>>}
    BY ONLY <2>2
  <2> QED BY <2>3 DEF I, J
<1> QED BY <1>1, <1>4 DEF EntryPairs, L, M

(* An entry is in the leaf of its key and in no other.                      *)
LEMMA EntryPlace ==
  ASSUME NEW H, NEW rt, NEW h, NEW reg, Sound(H, rt, h, reg),
         NEW m \in LeavesOf(H), NEW k, NEW r, <<k, r>> \in EntriesOf(H[m])
  PROVE  /\ k \in reg[m]
         /\ \A n \in LeavesOf(H) : k \in reg[n] => n = m
<1> DEFINE none == {}
<1>0. Tree(H, rt, h, reg, reg, none)
  BY DEF Sound
<1> HIDE DEF none
<1>1. PICK i \in 1 .. Len(H[m].keys) : <<k, r>> = <<H[m].keys[i], H[m].rows[i]>>
  BY DEF EntriesOf, EntryPairs
<1>2. k \in reg[m]
  BY <1>0, <1>1 DEF Tree, RegionInv, LeavesOf
<1>3. ASSUME NEW n \in LeavesOf(H), k \in reg[n] PROVE n = m
  <2>1. n \in Addresses(H) /\ m \in Addresses(H) /\ H[n].leaf /\ H[m].leaf
    BY DEF LeavesOf
  <2>2. h[m] = h[n]
    BY <1>0, <2>1 DEF Tree, HeightInv
  <2> QED BY <1>2, <1>3, <2>1, <2>2, RegionsDisjoint
<1> QED BY <1>2, <1>3

(* A leaf without one of its entries: all is well, and the entry is the     *)
(* only one less.                                                           *)
LEMMA Removed ==
  ASSUME NEW o \in Nat, NEW H, NEW rt, Good(o, H, rt, Nil), rt # Nil,
         NEW h, NEW reg, NEW c, NEW pos, Shaped(H, rt, h, reg, c, pos),
         NEW n \in LeavesOf(H), NEW p \in 1 .. Len(H[n].keys),
         NEW k, NEW r, <<k, r>> = <<H[n].keys[p], H[n].rows[p]>>,
         NEW ks, ks = RemoveAt(H[n].keys, p), NEW rs, rs = RemoveAt(H[n].rows, p)
  PROVE  /\ n \in Addresses(H) /\ ks \in Seq(Keys) /\ rs \in Seq(Rids)
         /\ \A G : Refills(H, G, n, ks, rs) =>
              Good(o, G, rt, Nil) /\ Entries(G) = Entries(H) \ {<<k, r>>}
<1> DEFINE K == H[n].keys
           R == H[n].rows
<1>1. H \in Seq(NodeRecs) /\ Len(H) \in Nat /\ rt \in 0 .. Len(H) /\ Sizes(o, H, Nil) /\ Sound(H, rt, h, reg)
  BY DEF Good, Shaped
<1>2. n \in Addresses(H) /\ H[n].leaf /\ H[n] \in NodeRecs /\ NodeInv(H[n]) /\ RegionInv(H[n], reg[n])
  BY <1>1 DEF LeavesOf, Sound, Tree, Addresses
<1>3. /\ K \in Seq(Keys) /\ K \in Seq(Int) /\ R \in Seq(Rids) /\ Len(R) = Len(K) /\ Len(K) \in Nat
      /\ Ascends(K) /\ \A i \in 1 .. Len(K) : K[i] \in reg[n]
  BY <1>2, Fields DEF NodeInv, RegionInv
<1>4. /\ ks = RemoveAt(K, p) /\ rs = RemoveAt(R, p) /\ EntriesOf(H[n]) = EntryPairs(K, R)
      /\ p \in 1 .. Len(K) /\ <<k, r>> = <<K[p], R[p]>>
  BY DEF EntriesOf
<1> HIDE DEF K, R
<1>5. ks \in Seq(Keys) /\ Len(ks) = Len(K) - 1 /\ rs \in Seq(Rids) /\ Len(rs) = Len(ks)
  <2>1. p \in 1 .. Len(R)
    BY <1>3, <1>4
  <2>2. K \in Seq(Keys) /\ R \in Seq(Rids) /\ p \in 1 .. Len(K) /\ Len(R) = Len(K)
    BY <1>3, <1>4
  <2>3. /\ RemoveAt(K, p) \in Seq(Keys) /\ Len(RemoveAt(K, p)) = Len(K) - 1
        /\ RemoveAt(R, p) \in Seq(Rids) /\ Len(RemoveAt(R, p)) = Len(R) - 1
    BY ONLY <2>1, <2>2, RemoveAtFacts
  <2> QED BY <1>4, <2>2, <2>3
<1>6. Ascends(ks) /\ \A j \in 1 .. Len(ks) : \E i \in 1 .. Len(K) : ks[j] = K[i]
  <2>1. K \in Seq(Int) /\ Ascends(K) /\ p \in 1 .. Len(K)
    BY <1>3, <1>4
  <2>2. /\ Ascends(RemoveAt(K, p))
        /\ \A j \in 1 .. Len(K) - 1 : \E i \in 1 .. Len(K) : RemoveAt(K, p)[j] = K[i]
    BY ONLY <2>1, RemoveAscends
  <2> QED BY <1>4, <1>5, <2>2
<1>7. EntryPairs(ks, rs) = EntriesOf(H[n]) \ {<<k, r>>}
  <2>1. ASSUME NEW i \in 1 .. Len(K), NEW j \in 1 .. Len(K), K[i] = K[j] PROVE i = j
    <3>1. K[i] \in Int /\ K[j] \in Int /\ (i < j => K[i] < K[j]) /\ (j < i => K[j] < K[i])
      BY <1>3 DEF Ascends
    <3>2. i < j \/ i = j \/ j < i
      OBVIOUS
    <3> QED BY ONLY <2>1, <3>1, <3>2
  <2>2. /\ K \in Seq(Keys) /\ R \in Seq(Rids) /\ Len(R) = Len(K) /\ p \in 1 .. Len(K)
        /\ \A i, j \in 1 .. Len(K) : K[i] = K[j] => i = j
    BY <1>3, <1>4, <2>1
  <2>3. EntryPairs(RemoveAt(K, p), RemoveAt(R, p)) = EntryPairs(K, R) \ {<<K[p], R[p]>>}
    BY ONLY <2>2, EntriesRemoved
  <2> QED BY <1>4, <2>3
<1>8. ASSUME NEW G, Refills(H, G, n, ks, rs)
      PROVE  Good(o, G, rt, Nil) /\ Entries(G) = Entries(H) \ {<<k, r>>}
  <2>1. /\ G \in Seq(NodeRecs) /\ Len(G) = Len(H) /\ Addresses(G) = Addresses(H)
        /\ \A m \in Addresses(H) : m # n => G[m] = H[m]
        /\ G[n].keys = ks /\ G[n].rows = rs /\ LeavesOf(G) = LeavesOf(H)
    <3>1. /\ H \in Seq(NodeRecs) /\ n \in LeavesOf(H) /\ NodeInv(H[n]) /\ Ascends(ks)
          /\ ks \in Seq(Keys) /\ rs \in Seq(Rids) /\ Len(rs) = Len(ks) /\ Refills(H, G, n, ks, rs)
      BY <1>1, <1>2, <1>5, <1>6, <1>8
    <3> QED BY ONLY <3>1, RefilledLeaf
  <2>2. \A j \in 1 .. Len(ks) : ks[j] \in reg[n]
    BY <1>3, <1>6
  <2>3. Shaped(G, rt, h, reg, c, pos)
    BY <1>1, <1>5, <1>6, <1>8, <2>2, ShapedRefilled
  <2>4. Sizes(o, G, Nil)
    <3>1. \A m \in Addresses(H) : Len(H[m].keys) <= o
      BY <1>1 DEF Sizes, Addresses, Nil
    <3>2. Len(K) <= o
      BY <1>2, <3>1 DEF K
    <3>3. Len(G[n].keys) <= o
      BY <1>3, <1>5, <2>1, <3>2
    <3>4. \A m \in Addresses(G) : Len(G[m].keys) <= o /\ m # Nil
      BY <2>1, <3>1, <3>3 DEF Addresses, Nil
    <3> QED BY <3>4 DEF Sizes
  <2>5. rt \in 0 .. Len(G) /\ Nil \in 0 .. Len(G) /\ G # <<>>
    <3>1. Len(G) # 0
      BY <1>1, <1>2, <2>1 DEF Addresses
    <3> QED BY <1>1, <2>1, <3>1 DEF Nil
  <2>6. Good(o, G, rt, Nil)
    BY <2>1, <2>3, <2>4, <2>5 DEF Good
  <2>7. EntriesOf(G[n]) = EntriesOf(H[n]) \ {<<k, r>>}
    BY <1>7, <2>1 DEF EntriesOf
  <2>8. <<k, r>> \in EntriesOf(H[n])
    BY <1>4 DEF EntryPairs
  <2>9. \A m \in LeavesOf(H) : m # n => EntriesOf(G[m]) = EntriesOf(H[m]) /\ <<k, r>> \notin EntriesOf(H[m])
    <3>1. \A m \in LeavesOf(H) : m # n => G[m] = H[m]
      BY <2>1 DEF LeavesOf
    <3>2. k \in reg[n]
      BY <1>1, <2>8, EntryPlace
    <3>3. ASSUME NEW m \in LeavesOf(H), <<k, r>> \in EntriesOf(H[m]) PROVE n = m
      BY <1>1, <3>2, <3>3, EntryPlace
    <3> QED BY <3>1, <3>3
  <2>10. Entries(G) = Entries(H) \ {<<k, r>>}
    <3> DEFINE L == LeavesOf(H)
               f == [m \in L |-> EntriesOf(H[m])]
               g == [m \in L |-> EntriesOf(G[m])]
               e == <<k, r>>
    <3>1. /\ n \in L /\ g[n] = f[n] \ {e}
          /\ \A m \in L : m # n => g[m] = f[m] /\ e \notin f[m]
      BY <2>7, <2>9
    <3>2. Entries(H) = UNION {f[m] : m \in L} /\ Entries(G) = UNION {g[m] : m \in L}
      BY <2>1 DEF Entries
    <3> HIDE DEF L, f, g, e
    <3>3. UNION {g[m] : m \in L} = (UNION {f[m] : m \in L}) \ {e}
      BY ONLY <3>1
    <3> QED BY <3>2, <3>3 DEF e
  <2> QED BY <2>6, <2>10
<1> QED BY <1>2, <1>5, <1>8

-----------------------------------------------------------------------------
(* What the loops that look for an entry find.                              *)
LEMMA FirstHolder ==
  ASSUME NEW chain, Len(chain) \in Nat, NEW k, NEW r
  PROVE  LET at == SelectInSeq(chain, LAMBDA n : <<k, r>> \in Range(Pairs(n))) IN
         \/ at \in 1 .. Len(chain) /\ <<k, r>> \in Range(Pairs(chain[at]))
         \/ at = 0 /\ \A i \in 1 .. Len(chain) : <<k, r>> \notin Range(Pairs(chain[i]))
<1> DEFINE I == {i \in 1 .. Len(chain) : <<k, r>> \in Range(Pairs(chain[i]))}
<1>1. SelectInSeq(chain, LAMBDA n : <<k, r>> \in Range(Pairs(n))) = IF I # {} THEN Min(I) ELSE 0
  BY DEF SelectInSeq
<1>2. I # {} => Min(I) \in I
  <2>1. I \in SUBSET Nat
    OBVIOUS
  <2> HIDE DEF I
  <2> QED BY <2>1, MinIsLeast
<1> QED BY <1>1, <1>2

(* The pairs of a leaf are its entries.                                     *)
LEMMA PairsAre ==
  ASSUME nodes \in Seq(NodeRecs), NEW n \in Leaves
  PROVE  Range(Pairs(n)) = EntriesOf(nodes[n]) /\ Len(Pairs(n)) = Len(nodes[n].keys)
         /\ \A i \in 1 .. Len(nodes[n].keys) : Pairs(n)[i] = <<nodes[n].keys[i], nodes[n].rows[i]>>
<1>1. nodes[n] \in NodeRecs
  BY StoredIs DEF LeavesOf, Addresses
<1>2. Len(nodes[n].keys) \in Nat /\ DOMAIN nodes[n].keys = 1 .. Len(nodes[n].keys)
  BY <1>1, Fields
<1> DEFINE K == nodes[n].keys
           R == nodes[n].rows
           D == 1 .. Len(K)
<1>3. Pairs(n) = [i \in D |-> <<K[i], R[i]>>]
  BY <1>2 DEF Pairs
<1>4. EntriesOf(nodes[n]) = {<<K[i], R[i]>> : i \in D}
  BY DEF EntriesOf, EntryPairs
<1>5. Len(Pairs(n)) = Len(K)
  BY <1>2, <1>3
<1>6. Range(Pairs(n)) = EntriesOf(nodes[n])
  <2> HIDE DEF K, R, D
  <2>1. Range([i \in D |-> <<K[i], R[i]>>]) = {<<K[i], R[i]>> : i \in D}
    BY DEF Range
  <2> QED BY <1>3, <1>4, <2>1
<1> QED BY <1>3, <1>5, <1>6

(* The chain from the leaf of a key on is a tail of the chain of leaves.    *)
LEMMA ChainFrom ==
  ASSUME NEW rt, NEW h, NEW reg, NEW c, NEW pos, Shaped(nodes, rt, h, reg, c, pos),
         NEW l \in Leaves
  PROVE  /\ Len(Chain(l)) \in Nat /\ Len(Chain(l)) >= 1 /\ Chain(l)[1] = l
         /\ \A i \in 1 .. Len(Chain(l)) : Chain(l)[i] \in Leaves
<1> DEFINE H == nodes
           none == {}
<1>0. Tree(H, rt, h, reg, reg, none) /\ Order(H, reg, c, pos)
  BY DEF Shaped, Sound
<1>1. H \in Seq(NodeRecs) /\ \A n \in Addresses(H) : NodeInv(H[n])
  <2> HIDE DEF none, H
  <2> QED BY <1>0 DEF Tree
<1>2. Leaves = LeavesOf(H)
  BY <1>1, StoredIs
<1>3. H = nodes
  OBVIOUS
<1> HIDE DEF H, none
<1> DEFINE i == pos[l]
<1>4. i \in 1 .. Len(c) /\ c[i] = l /\ c \in Seq(Nat) /\ \A j \in 1 .. Len(c) : c[j] \in LeavesOf(H)
  BY <1>0, <1>2 DEF Order
<1> HIDE DEF i
<1>5. Chain(c[i]) = SubSeq(c, i, Len(c))
  BY <1>0, <1>1, <1>3, <1>4, ChainIs
<1>6. /\ Len(SubSeq(c, i, Len(c))) = Len(c) - i + 1
      /\ \A j \in 1 .. Len(c) - i + 1 : SubSeq(c, i, Len(c))[j] = c[i + j - 1]
  BY <1>4, SubSeqProperties
<1> DEFINE s == SubSeq(c, i, Len(c))
           N == Len(c)
<1>7. Chain(l) = s /\ Len(s) = N - i + 1 /\ (\A j \in 1 .. N - i + 1 : s[j] = c[i + j - 1])
      /\ N \in Nat /\ i \in 1 .. N /\ c[i] = l /\ \A j \in 1 .. N : c[j] \in Leaves
  BY <1>2, <1>4, <1>5, <1>6
<1> HIDE DEF s, N
<1>8. Len(s) \in Nat /\ Len(s) >= 1 /\ i + 1 - 1 = i /\ 1 \in 1 .. N - i + 1
  BY ONLY <1>7
<1>9. s[1] = l
  BY <1>7, <1>8
<1>10. ASSUME NEW j \in 1 .. Len(s) PROVE s[j] \in Leaves
  <2>1. j \in 1 .. N - i + 1 /\ i + j - 1 \in 1 .. N
    BY <1>7
  <2> QED BY <1>7, <2>1
<1> QED BY <1>7, <1>8, <1>9, <1>10

(* erase preserves the invariant and takes its entry away, if there was     *)
(* one: the search along the chain from the leaf of the key finds it.       *)
LEMMA EraseStep ==
  ASSUME TreeInv, NEW k \in Keys, NEW r \in Rids, Erase(k, r)
  PROVE  TreeInv' /\ Stored' = Stored \ {<<k, r>>}
<1>1. order \in Orders /\ order' = order /\ order \in Nat /\ cur = Nil /\ cur' = Nil
      /\ root # Nil /\ root' = root
  BY BPlusTreeAssumption DEF TreeInv, Erase
<1>2. nodes \in Seq(NodeRecs) /\ Good(order, nodes, root, Nil)
  BY <1>1 DEF TreeInv, Good
<1>3. Stored = Entries(nodes) /\ Leaves = LeavesOf(nodes)
  BY <1>2, StoredIs
<1>4. PICK h, reg, c, pos : Shaped(nodes, root, h, reg, c, pos)
  BY <1>1, Picture
<1>5. Sound(nodes, root, h, reg) /\ k \in Int
  BY <1>4, BPlusTreeAssumption DEF Shaped
<1> DEFINE l == find_leaf(k)
           chain == Chain(l)
           at == SelectInSeq(chain, LAMBDA n : <<k, r>> \in Range(Pairs(n)))
<1>6. l \in Leaves /\ k \in reg[l]
  BY <1>5, LeafOfKey
<1>7. nodes' = IF at = 0 THEN nodes ELSE erase_leaf(chain[at], k, r)
  BY DEF Erase
<1> HIDE DEF l
<1>8. Len(chain) \in Nat /\ Len(chain) >= 1 /\ chain[1] = l /\ \A i \in 1 .. Len(chain) : chain[i] \in Leaves
  BY <1>4, <1>6, ChainFrom
<1> HIDE DEF chain
<1>9. \/ at \in 1 .. Len(chain) /\ <<k, r>> \in Range(Pairs(chain[at]))
      \/ at = 0 /\ \A i \in 1 .. Len(chain) : <<k, r>> \notin Range(Pairs(chain[i]))
  BY <1>8, FirstHolder
<1> HIDE DEF at
<1>10. CASE at = 0 /\ \A i \in 1 .. Len(chain) : <<k, r>> \notin Range(Pairs(chain[i]))
  <2>1. nodes' = nodes
    BY <1>7, <1>10
  <2>2. <<k, r>> \notin Range(Pairs(l))
    BY <1>8, <1>10
  <2>3. <<k, r>> \notin EntriesOf(nodes[l])
    BY <1>2, <1>6, <2>2, PairsAre
  <2>4. <<k, r>> \notin Stored
    <3> SUFFICES ASSUME <<k, r>> \in Stored PROVE FALSE
      OBVIOUS
    <3>1. PICK m \in LeavesOf(nodes) : <<k, r>> \in EntriesOf(nodes[m])
      BY <1>3 DEF Entries
    <3>2. l = m
      BY <1>3, <1>5, <1>6, <3>1, EntryPlace
    <3> QED BY <2>3, <3>1, <3>2
  <2>5. Stored' = Stored
    BY <2>1 DEF Stored, Leaves, Pairs
  <2> QED BY <1>1, <2>1, <2>4, <2>5 DEF TreeInv
<1>11. CASE at \in 1 .. Len(chain) /\ <<k, r>> \in Range(Pairs(chain[at]))
  <2> DEFINE n == chain[at]
             p == SelectInSeq(Pairs(n), LAMBDA e : e = <<k, r>>)
             ks == RemoveAt(nodes[n].keys, p)
             rs == RemoveAt(nodes[n].rows, p)
  <2>1. n \in Leaves /\ n \in LeavesOf(nodes) /\ <<k, r>> \in Range(Pairs(n))
    BY <1>3, <1>8, <1>11
  <2>2. nodes' = erase_leaf(n, k, r)
    <3>1. at # 0
      BY <1>8, <1>11
    <3> QED BY <1>7, <3>1
  <2>3. nodes' = [nodes EXCEPT ![n].keys = ks, ![n].rows = rs]
    BY <2>2 DEF erase_leaf
  <2> HIDE DEF n
  <2>4. /\ Range(Pairs(n)) = EntriesOf(nodes[n]) /\ Len(Pairs(n)) = Len(nodes[n].keys)
        /\ \A i \in 1 .. Len(nodes[n].keys) : Pairs(n)[i] = <<nodes[n].keys[i], nodes[n].rows[i]>>
    BY <1>2, <2>1, PairsAre
  <2>5. Len(nodes[n].keys) \in Nat
    <3>1. nodes[n] \in NodeRecs
      BY <1>2, <2>1 DEF LeavesOf, Addresses
    <3> QED BY <3>1, Fields
  <2>6. \/ p \in 1 .. Len(Pairs(n)) /\ Pairs(n)[p] = <<k, r>>
        \/ p = 0 /\ \A j \in 1 .. Len(Pairs(n)) : Pairs(n)[j] # <<k, r>>
    <3> DEFINE e == <<k, r>>
    <3>1. Len(Pairs(n)) \in Nat
      BY <2>4, <2>5
    <3> QED BY <3>1, FirstPosition
  <2> HIDE DEF p
  <2>7. p \in 1 .. Len(nodes[n].keys) /\ <<k, r>> = <<nodes[n].keys[p], nodes[n].rows[p]>>
    <3>1. PICK i \in 1 .. Len(nodes[n].keys) : <<k, r>> = <<nodes[n].keys[i], nodes[n].rows[i]>>
      BY <2>1, <2>4 DEF EntriesOf, EntryPairs
    <3> QED BY <2>4, <2>6, <3>1
  <2>8. ks = RemoveAt(nodes[n].keys, p) /\ rs = RemoveAt(nodes[n].rows, p)
    OBVIOUS
  <2> HIDE DEF ks, rs
  <2>9. /\ n \in Addresses(nodes) /\ ks \in Seq(Keys) /\ rs \in Seq(Rids)
        /\ \A G : Refills(nodes, G, n, ks, rs) =>
             Good(order, G, root, Nil) /\ Entries(G) = Entries(nodes) \ {<<k, r>>}
    BY ONLY <1>1, <1>2, <1>4, <2>1, <2>7, <2>8, Removed
  <2> DEFINE G == nodes'
  <2>10. G = [nodes EXCEPT ![n].keys = ks, ![n].rows = rs]
    BY <2>3
  <2>11. Refills(nodes, G, n, ks, rs)
    <3> HIDE DEF G
    <3> QED BY ONLY <1>2, <2>9, <2>10, Refilled
  <2>12. Good(order, nodes', root, Nil) /\ Entries(nodes') = Entries(nodes) \ {<<k, r>>}
    BY <2>9, <2>11
  <2>13. Stored' = Entries(nodes')
    BY <2>12, StoredNext DEF Good
  <2> QED BY <1>1, <1>3, <2>12, <2>13 DEF TreeInv
<1> QED BY <1>9, <1>10, <1>11

(* The empty heap.                                                          *)
LEMMA GoodEmpty ==
  ASSUME NEW o
  PROVE  Good(o, <<>>, Nil, Nil) /\ Entries(<<>>) = {}
<1> DEFINE H == <<>>
<1>1. H \in Seq(NodeRecs) /\ Len(H) = 0 /\ Addresses(H) = {} /\ H = <<>>
  BY DEF Addresses
<1> HIDE DEF H
<1>2. Sizes(o, H, Nil)
  BY <1>1 DEF Sizes
<1>3. LeavesOf(H) = {}
  BY <1>1 DEF LeavesOf
<1>4. Good(o, H, Nil, Nil)
  BY <1>1, <1>2 DEF Good, Nil
<1>5. Entries(H) = {}
  BY <1>3 DEF Entries
<1> QED BY <1>4, <1>5 DEF H

(* clear preserves the invariant and leaves no entry.                       *)
LEMMA ClearStep ==
  ASSUME TreeInv, Clear
  PROVE  TreeInv' /\ Stored' = {}
<1>1. order' \in Orders /\ nodes' = <<>> /\ root' = Nil /\ cur' = Nil
  BY DEF Clear, TreeInv
<1>2. Good(order', nodes', root', cur') /\ Entries(nodes') = {}
  BY <1>1, GoodEmpty
<1>3. nodes' \in Seq(NodeRecs)
  BY <1>2 DEF Good
<1> QED BY <1>1, <1>2, <1>3, StoredNext DEF TreeInv

(* A new index is empty and well-formed.                                    *)
LEMMA InitTree ==
  ASSUME BPlusTreeInit
  PROVE  TreeInv /\ Stored = {}
<1>1. Good(order, nodes, root, cur) /\ Entries(nodes) = {}
  BY GoodEmpty DEF BPlusTreeInit
<1>2. nodes \in Seq(NodeRecs)
  BY <1>1 DEF Good
<1> QED BY <1>1, <1>2, StoredIs DEF TreeInv, BPlusTreeInit

-----------------------------------------------------------------------------
(* The heap after a separator was handed up.                                *)
WithChild(H, up, ks, cs, right) == [H EXCEPT ![up].keys = ks, ![up].ch = cs, ![right].parent = up]

WithRoot(H, left, right, nr, e) == [Append(H, e) EXCEPT ![left].parent = nr, ![right].parent = nr]

(* The halves of the old root hang below the new one.                       *)
Hang(H, G, left, right, nr) ==
  \A m \in Addresses(H) : G[m].parent = IF m \in {left, right} THEN nr ELSE H[m].parent

Added(H, G, up, at, sep, right) ==
  G \in Seq(NodeRecs) /\ Len(G) = Len(H) /\ Adds(H, G, up, at, sep, right)

(* The heap when the node above took the separator.                         *)
LEMMA AddsIs ==
  ASSUME NEW H \in Seq(NodeRecs), NEW up \in Addresses(H), NEW right \in Addresses(H), up # right,
         NEW at \in Nat, NEW sep, NEW ks \in Seq(Keys), ks = InsertAt(H[up].keys, at, sep),
         NEW b \in Nat, b = at + 1, NEW cs \in Seq(Nat), cs = InsertAt(H[up].ch, b, right),
         NEW G, G = WithChild(H, up, ks, cs, right)
  PROVE  Added(H, G, up, at, sep, right)
<1> DEFINE d == [H[up] EXCEPT !.keys = ks, !.ch = cs]
           e == [H[right] EXCEPT !.parent = up]
           F == [H EXCEPT ![up] = d]
<1>1. H[up] \in NodeRecs /\ H[right] \in NodeRecs /\ up \in Nat
  BY DEF Addresses
<1>2. /\ d \in NodeRecs /\ d.keys = ks /\ d.ch = cs /\ d.leaf = H[up].leaf /\ d.rows = H[up].rows
      /\ d.next = H[up].next /\ d.parent = H[up].parent
  BY <1>1 DEF NodeRecs
<1>3. /\ e \in NodeRecs /\ e.parent = up /\ e.keys = H[right].keys /\ e.ch = H[right].ch
      /\ e.leaf = H[right].leaf /\ e.rows = H[right].rows /\ e.next = H[right].next
  BY <1>1 DEF NodeRecs
<1>4. G = [F EXCEPT ![right] = e]
  BY DEF Addresses, WithChild
<1> HIDE DEF d, e
<1>5. /\ F \in Seq(NodeRecs) /\ Len(F) = Len(H)
      /\ \A m \in 1 .. Len(H) : F[m] = IF m = up THEN d ELSE H[m]
  BY <1>2, ExceptSeq DEF Addresses
<1> HIDE DEF F
<1>6. /\ G \in Seq(NodeRecs) /\ Len(G) = Len(H)
      /\ \A m \in 1 .. Len(H) : G[m] = IF m = right THEN e ELSE F[m]
  <2>1. right \in 1 .. Len(F)
    BY <1>5 DEF Addresses
  <2>2. /\ [F EXCEPT ![right] = e] \in Seq(NodeRecs) /\ Len([F EXCEPT ![right] = e]) = Len(F)
        /\ \A m \in 1 .. Len(F) : [F EXCEPT ![right] = e][m] = IF m = right THEN e ELSE F[m]
    BY <1>3, <1>5, <2>1, ExceptSeq
  <2> QED BY <1>4, <1>5, <2>2
<1>7. \A m \in Addresses(H) : G[m] = IF m = right THEN e ELSE IF m = up THEN d ELSE H[m]
  BY <1>5, <1>6 DEF Addresses
<1>8. ASSUME NEW m \in Addresses(H)
      PROVE  /\ G[m].leaf = H[m].leaf /\ G[m].rows = H[m].rows /\ G[m].next = H[m].next
             /\ G[m].keys = IF m = up THEN InsertAt(H[m].keys, at, sep) ELSE H[m].keys
             /\ G[m].ch = IF m = up THEN InsertAt(H[m].ch, at + 1, right) ELSE H[m].ch
             /\ G[m].parent = IF m = right THEN up ELSE H[m].parent
  <2>1. CASE m = right
    <3>1. G[m] = e /\ m # up
      BY <1>7, <2>1
    <3> QED BY <1>3, <2>1, <3>1
  <2>2. CASE m = up
    <3>1. G[m] = d /\ m # right
      BY <1>7, <2>2
    <3> QED BY <1>2, <2>2, <3>1
  <2>3. CASE m # up /\ m # right
    <3>1. G[m] = H[m]
      BY <1>7, <2>3
    <3> QED BY ONLY <2>3, <3>1
  <2> QED BY <2>1, <2>2, <2>3
<1> QED BY <1>6, <1>8 DEF Adds, Added

(* The heap when a new root was put above.                                  *)
LEMMA RootIs ==
  ASSUME NEW H \in Seq(NodeRecs), NEW left \in Addresses(H), NEW right \in Addresses(H), left # right,
         NEW nr, nr = Len(H) + 1, NEW e \in NodeRecs,
         NEW G, G = WithRoot(H, left, right, nr, e)
  PROVE  /\ G \in Seq(NodeRecs) /\ Len(G) = nr /\ G[nr] = e /\ SameBelow(H, G)
         /\ Hang(H, G, left, right, nr)
<1> DEFINE A == Append(H, e)
           d == [H[left] EXCEPT !.parent = nr]
           f == [H[right] EXCEPT !.parent = nr]
           F == [A EXCEPT ![left] = d]
<1>0. Len(H) \in Nat /\ nr \in Nat /\ Addresses(H) = 1 .. Len(H) /\ nr \notin Addresses(H)
      /\ 1 .. nr = Addresses(H) \cup {nr}
  BY DEF Addresses
<1>1. H[left] \in NodeRecs /\ H[right] \in NodeRecs
  BY DEF Addresses
<1>2. /\ d \in NodeRecs /\ d.parent = nr /\ d.keys = H[left].keys /\ d.ch = H[left].ch
      /\ d.leaf = H[left].leaf /\ d.rows = H[left].rows /\ d.next = H[left].next
  BY <1>0, <1>1 DEF NodeRecs
<1>3. /\ f \in NodeRecs /\ f.parent = nr /\ f.keys = H[right].keys /\ f.ch = H[right].ch
      /\ f.leaf = H[right].leaf /\ f.rows = H[right].rows /\ f.next = H[right].next
  BY <1>0, <1>1 DEF NodeRecs
<1>4. /\ A \in Seq(NodeRecs) /\ Len(A) = nr /\ A[nr] = e /\ \A m \in Addresses(H) : A[m] = H[m]
  BY <1>0
<1>5. G = [F EXCEPT ![right] = f]
  <2>1. DOMAIN A = 1 .. nr /\ left \in 1 .. nr /\ right \in 1 .. nr /\ A[left] = H[left] /\ A[right] = H[right]
    BY <1>0, <1>4
  <2>2. G = [A EXCEPT ![left].parent = nr, ![right].parent = nr]
    BY DEF WithRoot
  <2> HIDE DEF A
  <2> QED BY ONLY <2>1, <2>2, left # right
<1> HIDE DEF A, d, f
<1>6. /\ F \in Seq(NodeRecs) /\ Len(F) = nr
      /\ \A m \in 1 .. nr : F[m] = IF m = left THEN d ELSE A[m]
  <2>1. left \in 1 .. Len(A)
    BY <1>0, <1>4
  <2> QED BY <1>2, <1>4, <2>1, ExceptSeq
<1> HIDE DEF F
<1>7. /\ G \in Seq(NodeRecs) /\ Len(G) = nr
      /\ \A m \in 1 .. nr : G[m] = IF m = right THEN f ELSE F[m]
  <2>1. right \in 1 .. Len(F)
    BY <1>0, <1>6
  <2>2. /\ [F EXCEPT ![right] = f] \in Seq(NodeRecs) /\ Len([F EXCEPT ![right] = f]) = Len(F)
        /\ \A m \in 1 .. Len(F) : [F EXCEPT ![right] = f][m] = IF m = right THEN f ELSE F[m]
    BY <1>3, <1>6, <2>1, ExceptSeq
  <2> QED BY <1>5, <1>6, <2>2
<1>8. \A m \in 1 .. nr : G[m] = IF m = right THEN f ELSE IF m = left THEN d ELSE A[m]
  BY <1>6, <1>7
<1>9. G[nr] = e
  <2>1. nr \in 1 .. nr /\ nr # left /\ nr # right
    BY <1>0
  <2> QED BY <1>4, <1>8, <2>1
<1>10. ASSUME NEW m \in Addresses(H)
       PROVE  /\ G[m].leaf = H[m].leaf /\ G[m].keys = H[m].keys /\ G[m].rows = H[m].rows
              /\ G[m].ch = H[m].ch /\ G[m].next = H[m].next
              /\ G[m].parent = IF m \in {left, right} THEN nr ELSE H[m].parent
  <2>0. m \in 1 .. nr /\ A[m] = H[m]
    BY <1>0, <1>4
  <2>1. CASE m = right
    <3>1. G[m] = f
      BY <1>8, <2>0, <2>1
    <3> QED BY <1>3, <2>1, <3>1
  <2>2. CASE m = left
    <3>1. G[m] = d
      BY <1>8, <2>0, <2>2
    <3> QED BY <1>2, <2>2, <3>1
  <2>3. CASE m # left /\ m # right
    BY <1>8, <2>0, <2>3
  <2> QED BY <2>1, <2>2, <2>3
<1> QED BY <1>7, <1>9, <1>10 DEF SameBelow, Hang

(* A heap that is being divided: all is in order but that the right half    *)
(* hangs nowhere yet.                                                       *)
Half(o, H, rt, left, sep, right, h, reg, seen, c, pos) ==
  /\ Tree(H, rt, h, reg, seen, {right}) /\ Gap(H, left, sep, right, h, reg, seen)
  /\ Order(H, reg, c, pos)
  /\ \A n \in Addresses(H) : Len(H[n].keys) <= o

(* What becomes of it: a good tree with the same entries.                   *)
Whole(o, H, G, rt, cr) == Good(o, G, rt, cr) /\ Entries(G) = Entries(H)

(* With a new root the tree is whole.                                       *)
LEMMA PromotedRoot ==
  ASSUME NEW o \in Nat, o >= 2, NEW H, NEW rt, NEW left, NEW sep, NEW right, NEW h, NEW reg, NEW seen, NEW c, NEW pos,
         Half(o, H, rt, left, sep, right, h, reg, seen, c, pos), left = rt,
         NEW G \in Seq(NodeRecs), Len(G) = Len(H) + 1,
         G[Len(G)] = InnerNode(Nil, <<sep>>, <<left, right>>), SameBelow(H, G),
         Hang(H, G, left, right, Len(G))
  PROVE  Whole(o, H, G, Len(G), Nil)
<1>1. /\ Tree(H, rt, h, reg, seen, {right}) /\ Gap(H, rt, sep, right, h, reg, seen)
      /\ Order(H, reg, c, pos) /\ H \in Seq(NodeRecs) /\ Len(H) \in Nat
  BY DEF Half, Tree
<1>2. PICK h3, reg3 : Sound(G, Len(G), h3, reg3) /\ \A m \in Addresses(H) : reg3[m] = reg[m]
  BY <1>1, NewRoot DEF Hang
<1> DEFINE nr == Len(G)
<1>3. Addresses(G) = Addresses(H) \cup {nr} /\ nr \notin Addresses(H) /\ nr # Nil /\ nr \in 0 .. nr
      /\ Nil \in 0 .. nr /\ G # <<>>
  BY <1>1 DEF Addresses, Nil
<1>4. ~ G[nr].leaf /\ G[nr].keys = <<sep>>
  BY DEF InnerNode
<1> HIDE DEF nr
<1>5. LeavesKept(H, G)
  BY <1>3, <1>4 DEF LeavesKept, SameBelow
<1>6. \A n \in LeavesOf(H) : reg3[n] = reg[n]
  BY <1>2 DEF LeavesOf
<1>7. Order(G, reg3, c, pos) /\ Entries(G) = Entries(H)
  BY <1>1, <1>5, <1>6, OrderKept
<1>8. Sizes(o, G, Nil)
  <2>1. Len(G[nr].keys) <= o
    <3>1. Len(G[nr].keys) = 1
      BY <1>4
    <3> QED BY <3>1
  <2>2. \A m \in Addresses(G) : Len(G[m].keys) <= o /\ m # Nil
    BY <1>3, <2>1 DEF Half, SameBelow, Addresses, Nil
  <2> QED BY <2>2 DEF Sizes
<1>9. \E a, b, d, f : Shaped(G, nr, a, b, d, f)
  BY <1>2, <1>7 DEF Shaped, nr
<1>10. Good(o, G, nr, Nil)
  BY <1>3, <1>8, <1>9 DEF Good, nr
<1> QED BY <1>7, <1>10 DEF nr, Whole

(* With the separator in the node above the tree is whole; that node may    *)
(* now be too large.                                                        *)
LEMMA PromotedUp ==
  ASSUME NEW o \in Nat, NEW H, NEW rt, NEW left, NEW sep, NEW right, NEW h, NEW reg, NEW seen, NEW c, NEW pos,
         Half(o, H, rt, left, sep, right, h, reg, seen, c, pos), left # rt,
         NEW up, up = H[left].parent,
         NEW at \in 1 .. Len(H[up].ch), H[up].ch[at] = left,
         NEW G, Added(H, G, up, at, sep, right),
         NEW cr, cr = IF Len(G[up].keys) > o THEN up ELSE Nil
  PROVE  Whole(o, H, G, rt, cr)
<1>0. G \in Seq(NodeRecs) /\ Len(G) = Len(H) /\ Adds(H, G, up, at, sep, right)
  BY DEF Added
<1>1. /\ Tree(H, rt, h, reg, seen, {right}) /\ Gap(H, left, sep, right, h, reg, seen)
      /\ Order(H, reg, c, pos) /\ H \in Seq(NodeRecs) /\ Len(H) \in Nat /\ rt \in Addresses(H)
      /\ \A n \in Addresses(H) : Len(H[n].keys) <= o
  BY DEF Half, Tree
<1>2. Sound(G, rt, h, reg)
  BY ONLY <1>1, NewChild, left # rt, up = H[left].parent, at \in 1 .. Len(H[up].ch),
          H[up].ch[at] = left, <1>0
<1>3. up \in Addresses(H) /\ ~ H[up].leaf
  <2>1. left \in Addresses(H) \ ({right} \cup {rt})
    BY <1>1 DEF Gap
  <2> QED BY <1>1, <2>1 DEF Tree, ParentInv
<1>4. Addresses(G) = Addresses(H) /\ rt \in 0 .. Len(G) /\ up \in 0 .. Len(G) /\ up # Nil /\ rt # Nil
      /\ Nil \in 0 .. Len(G) /\ G # <<>>
  BY <1>0, <1>1, <1>3 DEF Addresses, Nil
<1>5. LeavesKept(H, G)
  <2>1. ASSUME NEW m \in Addresses(H)
        PROVE  /\ G[m].leaf = H[m].leaf /\ G[m].next = H[m].next
               /\ H[m].leaf => G[m].keys = H[m].keys /\ G[m].rows = H[m].rows
    BY <1>0, <1>3 DEF Adds
  <2> QED BY <1>4, <2>1 DEF LeavesKept
<1>6. Order(G, reg, c, pos) /\ Entries(G) = Entries(H)
  <2>1. \A n \in LeavesOf(H) : reg[n] = reg[n]
    OBVIOUS
  <2> QED BY <1>1, <1>5, <2>1, OrderKept
<1>7. /\ \A m \in Addresses(H) : m # up => Len(G[m].keys) <= o
      /\ Len(G[up].keys) = Len(H[up].keys) + 1 /\ Len(H[up].keys) <= o /\ Len(H[up].keys) \in Nat
  <2>1. \A m \in Addresses(H) : m # up => G[m].keys = H[m].keys
    BY <1>0 DEF Adds
  <2>2. G[up].keys = InsertAt(H[up].keys, at, sep)
    BY <1>0, <1>3 DEF Adds
  <2>3. H[up].keys \in Seq(Keys) /\ Len(H[up].keys) \in Nat /\ Len(H[up].ch) = Len(H[up].keys) + 1
    BY <1>1, <1>3, Fields DEF Tree, NodeInv
  <2>4. Len(InsertAt(H[up].keys, at, sep)) = Len(H[up].keys) + 1
    <3>1. sep \in Keys /\ at \in 1 .. Len(H[up].keys) + 1
      BY <1>1, <2>3 DEF Gap
    <3> DEFINE K == H[up].keys
    <3>2. K \in Seq(Keys) /\ sep \in Keys /\ at \in 1 .. Len(K) + 1
      BY <2>3, <3>1
    <3> HIDE DEF K
    <3>3. Len(InsertAt(K, at, sep)) = Len(K) + 1
      BY ONLY <3>2, InsertAtFacts
    <3> QED BY <3>3 DEF K
  <2> QED BY <1>1, <1>3, <2>1, <2>2, <2>3, <2>4
<1>8. Sizes(o, G, cr) /\ cr \in 0 .. Len(G)
  <2>1. CASE Len(G[up].keys) > o
    <3>0. o \in Nat /\ cr = IF Len(G[up].keys) > o THEN up ELSE Nil
      OBVIOUS
    <3>1. cr = up /\ Len(G[up].keys) = o + 1 /\ o + 1 <= o + 1
      BY ONLY <1>7, <2>1, <3>0
    <3>2. \A m \in Addresses(G) : Len(G[m].keys) <= IF m = cr THEN o + 1 ELSE o
      BY <1>4, <1>7, <3>1
    <3> QED BY <1>4, <3>1, <3>2 DEF Sizes
  <2>2. CASE ~ (Len(G[up].keys) > o)
    <3>1. cr = Nil /\ Len(G[up].keys) <= o
      BY <1>7, <2>2
    <3>2. \A m \in Addresses(G) : Len(G[m].keys) <= o /\ m # Nil
      <4>1. \A m \in Addresses(H) : m # Nil
        BY DEF Addresses, Nil
      <4> QED BY ONLY <1>4, <1>7, <3>1, <4>1
    <3> QED BY <1>4, <3>1, <3>2 DEF Sizes
  <2> QED BY <2>1, <2>2
<1>9. Good(o, G, rt, cr)
  <2>1. \E a, b, d, f : Shaped(G, rt, a, b, d, f)
    BY <1>2, <1>6 DEF Shaped
  <2> QED BY <1>0, <1>4, <1>8, <2>1 DEF Good
<1> QED BY <1>6, <1>9 DEF Whole

(* Promote makes a divided tree whole, in either way.                       *)
LEMMA PromoteStep ==
  ASSUME order \in Nat, order >= 2,
         NEW H, NEW left, NEW sep, NEW right, NEW h, NEW reg, NEW seen, NEW c, NEW pos,
         Half(order, H, root, left, sep, right, h, reg, seen, c, pos),
         Promote(H, left, sep, right)
  PROVE  Whole(order, H, nodes', root', cur')
<1> DEFINE up == H[left].parent
           at == IF up = Nil THEN 0 ELSE SelectInSeq(H[up].ch, LAMBDA x : x = left)
           nr == Len(H) + 1
           G == nodes'
<1>1. /\ Tree(H, root, h, reg, seen, {right}) /\ Gap(H, left, sep, right, h, reg, seen)
      /\ H \in Seq(NodeRecs) /\ Len(H) \in Nat /\ root \in Addresses(H)
  BY DEF Half, Tree
<1>2. left \in Addresses(H) /\ right \in Addresses(H) /\ left # right /\ sep \in Keys
  BY <1>1 DEF Gap
<1>3. CASE up = Nil
  <2> DEFINE e == InnerNode(Nil, <<sep>>, <<left, right>>)
  <2>1. left = root
    <3> SUFFICES ASSUME left # root PROVE FALSE
      OBVIOUS
    <3>1. ParentInv(H, left)
      BY <1>1, <1>2 DEF Tree
    <3> QED BY <1>3, <3>1 DEF ParentInv, Addresses, Nil
  <2>2. G = WithRoot(H, left, right, nr, e)
        /\ root' = nr /\ cur' = TooLarge(G, nr)
    BY <1>3 DEF Promote, WithRoot
  <2>3. e \in NodeRecs
    <3>1. left \in Nat /\ right \in Nat
      BY <1>2 DEF Addresses
    <3> QED BY <1>2, <3>1 DEF InnerNode, NodeRecs, Nil
  <2>4. e = InnerNode(Nil, <<sep>>, <<left, right>>) /\ nr = Len(H) + 1
    OBVIOUS
  <2>5. e.keys = <<sep>> /\ Len(<<sep>>) = 1
    BY DEF InnerNode
  <2> HIDE DEF e, nr, G
  <2>6. /\ G \in Seq(NodeRecs) /\ Len(G) = nr /\ G[nr] = e /\ SameBelow(H, G)
        /\ Hang(H, G, left, right, nr)
    BY ONLY <1>1, <1>2, <2>2, <2>3, <2>4, RootIs
  <2>7. Whole(order, H, G, nr, Nil)
    BY <2>1, <2>4, <2>6, PromotedRoot
  <2>8. cur' = Nil
    <3>1. Len(G[nr].keys) = 1
      BY ONLY <2>5, <2>6
    <3>2. ~ (Len(G[nr].keys) > order)
      BY ONLY <3>1, order \in Nat, order >= 2
    <3> QED BY <2>2, <3>2 DEF TooLarge
  <2> QED BY <2>2, <2>7, <2>8 DEF G
<1>4. CASE up # Nil
  <2>1. left # root
    <3>1. H[root].parent = Nil
      BY <1>1 DEF Tree
    <3> QED BY <1>4, <3>1
  <2>2. up \in Addresses(H) /\ ~ H[up].leaf /\ \E p \in 1 .. Len(H[up].ch) : H[up].ch[p] = left
    <3>1. ParentInv(H, left)
      BY <1>1, <1>2, <2>1 DEF Tree
    <3> QED BY <3>1 DEF ParentInv
  <2>3. h[left] = h[right] /\ h[up] = h[left] + 1 /\ h[left] \in Nat
    <3>1. PICK p \in 1 .. Len(H[up].ch) : H[up].ch[p] = left
      BY <2>2
    <3>2. ChildInv(H, up, p, h, reg, seen)
      BY <1>1, <2>2 DEF Tree
    <3>3. h[left] + 1 = h[up]
      BY <3>1, <3>2 DEF ChildInv
    <3> QED BY <1>1, <1>2, <3>3 DEF Gap, Tree, HeightInv
  <2>4. up # right
    BY <2>3
  <2>5. /\ H[up].keys \in Seq(Keys) /\ H[up].ch \in Seq(Nat) /\ Len(H[up].ch) = Len(H[up].keys) + 1
        /\ Len(H[up].ch) \in Nat /\ Len(H[up].keys) \in Nat
    BY <1>1, <2>2, Fields DEF Tree, NodeInv
  <2>6. at \in 1 .. Len(H[up].ch) /\ H[up].ch[at] = left
    <3> DEFINE C == H[up].ch
               i == SelectInSeq(C, LAMBDA x : x = left)
    <3>1. Len(C) \in Nat /\ at = i /\ \E p \in 1 .. Len(C) : C[p] = left
      BY <1>4, <2>2, <2>5
    <3>2. \/ i \in 1 .. Len(C) /\ C[i] = left
          \/ i = 0 /\ \A j \in 1 .. Len(C) : C[j] # left
      BY <3>1, FirstPosition
    <3> HIDE DEF i
    <3> QED BY <3>1, <3>2
  <2> DEFINE ks == InsertAt(H[up].keys, at, sep)
             cs == InsertAt(H[up].ch, at + 1, right)
  <2>7. G = WithChild(H, up, ks, cs, right)
        /\ root' = root /\ cur' = TooLarge(G, up)
    BY <1>4 DEF Promote, WithChild
  <2> HIDE DEF at
  <2>8. ks \in Seq(Keys) /\ cs \in Seq(Nat)
    <3> DEFINE K == H[up].keys
               C == H[up].ch
               b == at + 1
    <3>1. K \in Seq(Keys) /\ C \in Seq(Nat) /\ Len(C) = Len(K) + 1 /\ Len(K) \in Nat
          /\ at \in 1 .. Len(C) /\ sep \in Keys /\ b = at + 1 /\ right \in Nat
      <4>1. right \in Nat
        BY <1>2 DEF Addresses
      <4> QED BY <1>2, <2>5, <2>6, <4>1
    <3> HIDE DEF K, C, b
    <3>3. at \in 1 .. Len(K) + 1 /\ b \in 1 .. Len(C) + 1
      BY ONLY <3>1
    <3>2. InsertAt(K, at, sep) \in Seq(Keys) /\ InsertAt(C, b, right) \in Seq(Nat)
      BY ONLY <3>1, <3>3, InsertAtFacts
    <3> QED BY <3>2 DEF K, C, b
  <2> DEFINE b == at + 1
  <2>9. ks = InsertAt(H[up].keys, at, sep) /\ cs = InsertAt(H[up].ch, b, right) /\ up = H[left].parent
        /\ at \in Nat /\ b \in Nat /\ b = at + 1
    BY <2>5, <2>6
  <2> HIDE DEF ks, cs, G, up, b
  <2>10. Added(H, G, up, at, sep, right)
    BY ONLY <1>1, <1>2, <2>2, <2>4, <2>7, <2>8, <2>9, AddsIs
  <2>11. cur' = IF Len(G[up].keys) > order THEN up ELSE Nil
    BY <2>7 DEF TooLarge
  <2>12. Whole(order, H, G, root, cur')
    <3> DEFINE cr == cur'
    <3>1. cr = IF Len(G[up].keys) > order THEN up ELSE Nil
      BY <2>11
    <3> HIDE DEF cr
    <3>2. Whole(order, H, G, root, cr)
      BY ONLY order \in Nat, Half(order, H, root, left, sep, right, h, reg, seen, c, pos),
              <2>1, <2>6, <2>9, <2>10, <3>1, PromotedUp
    <3> QED BY <3>2 DEF cr
  <2> QED BY <2>7, <2>12 DEF G
<1> QED BY <1>3, <1>4

-----------------------------------------------------------------------------
(* A leaf becomes two.                                                      *)
LEMMA Middle ==
  ASSUME NEW o \in Nat, o >= 2
  PROVE  /\ (o + 1) \div 2 \in Nat /\ (o + 1) \div 2 >= 1 /\ (o + 1) \div 2 + 1 <= o
         /\ (o + 1) \div 2 <= o /\ (o + 1) - (o + 1) \div 2 <= o /\ (o + 1) \div 2 + 1 < o + 1
OBVIOUS

(* The two halves of a sequence.                                            *)
LEMMA HalvesOf ==
  ASSUME NEW S, NEW s \in Seq(S), NEW mid \in 0 .. Len(s)
  PROVE  /\ SubSeq(s, 1, mid) \in Seq(S) /\ Len(SubSeq(s, 1, mid)) = mid
         /\ \A i \in 1 .. mid : SubSeq(s, 1, mid)[i] = s[i]
         /\ SubSeq(s, mid + 1, Len(s)) \in Seq(S) /\ Len(SubSeq(s, mid + 1, Len(s))) = Len(s) - mid
         /\ \A i \in 1 .. Len(s) - mid : SubSeq(s, mid + 1, Len(s))[i] = s[mid + i]
<1>0. Len(s) \in Nat /\ \A i \in 1 .. Len(s) : s[i] \in S
  OBVIOUS
<1>1. /\ SubSeq(s, 1, mid) \in Seq(S) /\ Len(SubSeq(s, 1, mid)) = mid
      /\ \A i \in 1 .. mid : SubSeq(s, 1, mid)[i] = s[i]
  BY <1>0, SubSeqProperties
<1> DEFINE a == mid + 1
           t == SubSeq(s, a, Len(s))
<1>2. t \in Seq(S) /\ Len(t) = Len(s) - a + 1 /\ \A i \in 1 .. Len(s) - a + 1 : t[i] = s[a + i - 1]
  BY <1>0, SubSeqProperties
<1>3. Len(s) - a + 1 = Len(s) - mid
  BY <1>0
<1>4. ASSUME NEW i \in 1 .. Len(s) - mid PROVE t[i] = s[mid + i]
  <2>1. a + i - 1 = mid + i
    BY <1>0
  <2> HIDE DEF t, a
  <2> QED BY <1>2, <1>3, <2>1
<1> QED BY <1>1, <1>2, <1>3, <1>4

(* A part of ascending keys ascends.                                        *)
LEMMA PartAscends ==
  ASSUME NEW K \in Seq(Int), Ascends(K), NEW L \in Seq(Int), NEW d \in Nat, d + Len(L) <= Len(K),
         \A i \in 1 .. Len(L) : L[i] = K[d + i]
  PROVE  Ascends(L)
<1>1. ASSUME NEW i \in 1 .. Len(L), NEW j \in 1 .. Len(L), i < j PROVE L[i] < L[j]
  <2>0. Len(K) \in Nat /\ Len(L) \in Nat
    OBVIOUS
  <2>1. d + i \in 1 .. Len(K) /\ d + j \in 1 .. Len(K) /\ d + i < d + j
    BY ONLY <1>1, <2>0, d \in Nat, d + Len(L) <= Len(K), i \in 1 .. Len(L), j \in 1 .. Len(L)
  <2>2. K[d + i] < K[d + j]
    BY <2>1 DEF Ascends
  <2> QED BY <2>2
<1> QED BY <1>1 DEF Ascends

Lower(s, mid) == SubSeq(s, 1, mid)

Upper(s, mid) == SubSeq(s, mid + 1, Len(s))

Cut(K, R, mid, K1, R1, K2, R2) ==
  /\ K1 \in Seq(Keys) /\ R1 \in Seq(Rids) /\ Len(K1) = mid /\ Len(R1) = mid
  /\ \A i \in 1 .. mid : K1[i] = K[i] /\ R1[i] = R[i]
  /\ K2 \in Seq(Keys) /\ R2 \in Seq(Rids) /\ Len(K2) = Len(K) - mid /\ Len(R2) = Len(K) - mid
  /\ \A i \in 1 .. Len(K) - mid : K2[i] = K[mid + i] /\ R2[i] = R[mid + i]

(* The entries of a leaf are those of its halves.                           *)
LEMMA EntriesHalved ==
  ASSUME NEW K, Len(K) \in Nat, NEW R, NEW mid \in 0 .. Len(K),
         NEW K1, NEW R1, NEW K2, NEW R2, Cut(K, R, mid, K1, R1, K2, R2)
  PROVE  EntryPairs(K, R) = EntryPairs(K1, R1) \cup EntryPairs(K2, R2)
<1>0. /\ Len(K1) = mid /\ \A i \in 1 .. mid : K1[i] = K[i] /\ R1[i] = R[i]
      /\ Len(K2) = Len(K) - mid /\ \A i \in 1 .. Len(K) - mid : K2[i] = K[mid + i] /\ R2[i] = R[mid + i]
  BY DEF Cut
<1> DEFINE I == 1 .. Len(K)
           J == 1 .. mid
           L == 1 .. Len(K) - mid
<1>1. \A i \in I : \/ i \in J
                   \/ i - mid \in L /\ mid + (i - mid) = i
  OBVIOUS
<1>2. ASSUME NEW i \in I
      PROVE  \/ \E j \in J : K1[j] = K[i] /\ R1[j] = R[i]
             \/ \E j \in L : K2[j] = K[i] /\ R2[j] = R[i]
  <2>1. CASE i \in J
    BY <1>0, <2>1
  <2>2. CASE i - mid \in L /\ mid + (i - mid) = i
    <3> DEFINE j == i - mid
    <3>1. j \in L /\ mid + j = i
      BY <2>2
    <3> HIDE DEF j
    <3> QED BY <1>0, <3>1
  <2> QED BY <1>1, <2>1, <2>2
<1>3. \A j \in J : \E i \in I : K1[j] = K[i] /\ R1[j] = R[i]
  <2>1. \A j \in J : j \in I
    OBVIOUS
  <2> QED BY <1>0, <2>1
<1>4. \A j \in L : \E i \in I : K2[j] = K[i] /\ R2[j] = R[i]
  <2>1. \A j \in L : mid + j \in I
    OBVIOUS
  <2> QED BY <1>0, <2>1
<1>5. EntryPairs(K, R) = {<<K[i], R[i]>> : i \in I} /\ EntryPairs(K1, R1) = {<<K1[i], R1[i]>> : i \in J}
      /\ EntryPairs(K2, R2) = {<<K2[i], R2[i]>> : i \in L}
  BY <1>0 DEF EntryPairs
<1> HIDE DEF I, J, L
<1>6. {<<K[i], R[i]>> : i \in I} = {<<K1[i], R1[i]>> : i \in J} \cup {<<K2[i], R2[i]>> : i \in L}
  BY ONLY <1>2, <1>3, <1>4
<1> QED BY <1>5, <1>6

(* The heap with the divided leaf.                                          *)
LeafHeap(H, n, ks, rs, right, e) ==
  Append([H EXCEPT ![n].keys = ks, ![n].rows = rs, ![n].next = right], e)

LeafHalves(H, G, n, ks, rs, right, e) ==
  /\ G \in Seq(NodeRecs) /\ Len(G) = right
  /\ \A m \in Addresses(H) : m # n => G[m] = H[m]
  /\ G[n].leaf = H[n].leaf /\ G[n].parent = H[n].parent /\ G[n].ch = H[n].ch
  /\ G[n].keys = ks /\ G[n].rows = rs /\ G[n].next = right
  /\ G[right] = e

(* The heap in which a leaf was divided.                                    *)
LEMMA LeafHeapIs ==
  ASSUME NEW H \in Seq(NodeRecs), NEW n \in Addresses(H), NEW ks \in Seq(Keys), NEW rs \in Seq(Rids),
         NEW right, right = Len(H) + 1, NEW e \in NodeRecs,
         NEW G, G = LeafHeap(H, n, ks, rs, right, e)
  PROVE  LeafHalves(H, G, n, ks, rs, right, e)
<1> DEFINE d == [H[n] EXCEPT !.keys = ks, !.rows = rs, !.next = right]
           F == [H EXCEPT ![n] = d]
<1>0. Len(H) \in Nat /\ right \in Nat /\ Addresses(H) = 1 .. Len(H) /\ right \notin Addresses(H)
  BY DEF Addresses
<1>1. H[n] \in NodeRecs
  BY DEF Addresses
<1>2. /\ d \in NodeRecs /\ d.keys = ks /\ d.rows = rs /\ d.next = right /\ d.ch = H[n].ch
      /\ d.leaf = H[n].leaf /\ d.parent = H[n].parent
  BY <1>0, <1>1 DEF NodeRecs
<1>3. G = Append(F, e)
  <2>1. F = [H EXCEPT ![n].keys = ks, ![n].rows = rs, ![n].next = right]
    BY DEF Addresses
  <2> QED BY <2>1 DEF LeafHeap
<1> HIDE DEF d
<1>4. /\ F \in Seq(NodeRecs) /\ Len(F) = Len(H)
      /\ \A m \in 1 .. Len(H) : F[m] = IF m = n THEN d ELSE H[m]
  BY <1>0, <1>2, ExceptSeq
<1> HIDE DEF F
<1>5. G \in Seq(NodeRecs) /\ Len(G) = right /\ G[right] = e /\ \A m \in 1 .. Len(H) : G[m] = F[m]
  <2>1. /\ Append(F, e) \in Seq(NodeRecs) /\ Len(Append(F, e)) = Len(F) + 1
        /\ \A i \in 1 .. Len(F) : Append(F, e)[i] = F[i]
        /\ Append(F, e)[Len(F) + 1] = e
    BY <1>4, AppendProperties
  <2> QED BY <1>3, <1>4, <2>1
<1>6. G[n] = d /\ \A m \in Addresses(H) : m # n => G[m] = H[m]
  BY <1>0, <1>4, <1>5
<1> QED BY <1>2, <1>5, <1>6 DEF LeafHalves

(* The halves of keys and rows.                                             *)
LEMMA LeafParts ==
  ASSUME NEW K \in Seq(Keys), NEW R \in Seq(Rids), Len(R) = Len(K), NEW mid \in 0 .. Len(K)
  PROVE  Cut(K, R, mid, Lower(K, mid), Lower(R, mid), Upper(K, mid), Upper(R, mid))
<1>1. /\ SubSeq(K, 1, mid) \in Seq(Keys) /\ Len(SubSeq(K, 1, mid)) = mid
      /\ \A i \in 1 .. mid : SubSeq(K, 1, mid)[i] = K[i]
      /\ SubSeq(K, mid + 1, Len(K)) \in Seq(Keys) /\ Len(SubSeq(K, mid + 1, Len(K))) = Len(K) - mid
      /\ \A i \in 1 .. Len(K) - mid : SubSeq(K, mid + 1, Len(K))[i] = K[mid + i]
  BY ONLY K \in Seq(Keys), mid \in 0 .. Len(K), HalvesOf
<1>2. /\ SubSeq(R, 1, mid) \in Seq(Rids) /\ Len(SubSeq(R, 1, mid)) = mid
      /\ \A i \in 1 .. mid : SubSeq(R, 1, mid)[i] = R[i]
      /\ SubSeq(R, mid + 1, Len(R)) \in Seq(Rids) /\ Len(SubSeq(R, mid + 1, Len(R))) = Len(R) - mid
      /\ \A i \in 1 .. Len(R) - mid : SubSeq(R, mid + 1, Len(R))[i] = R[mid + i]
  <2>1. mid \in 0 .. Len(R)
    OBVIOUS
  <2> QED BY ONLY R \in Seq(Rids), <2>1, HalvesOf
<1>3. Lower(K, mid) = SubSeq(K, 1, mid) /\ Lower(R, mid) = SubSeq(R, 1, mid)
      /\ Upper(K, mid) = SubSeq(K, mid + 1, Len(K)) /\ Upper(R, mid) = SubSeq(R, mid + 1, Len(R))
  BY DEF Lower, Upper
<1> QED BY <1>1, <1>2, <1>3 DEF Cut

(* The heap with a node divided: but for the new half that hangs nowhere    *)
(* yet, a tree with the entries it had.                                     *)
Divides(o, H, G, rt, n, sep, right) ==
  /\ \E h, reg, seen, c, pos : Half(o, G, rt, n, sep, right, h, reg, seen, c, pos)
  /\ Entries(G) = Entries(H)

(* What the leaf n of H is parted into: the lower halves k1 and r1 of its    *)
(* keys and rows, and the new leaf e at right with the upper ones.          *)
Parted(H, n, K, R, mid, k1, r1, k2, r2, right, e, sep) ==
  /\ K = H[n].keys /\ R = H[n].rows /\ mid = Len(K) \div 2
  /\ k1 = Lower(K, mid) /\ r1 = Lower(R, mid) /\ k2 = Upper(K, mid) /\ r2 = Upper(R, mid)
  /\ right = Len(H) + 1 /\ e = LeafNode(Nil, k2, r2, H[n].next) /\ sep = K[mid + 1]

(* SplitLeaf, up to Promote: the leaf of order + 1 keys is divided in the   *)
(* middle, the chain goes through both halves, no entry is lost.            *)
LEMMA LeafDivided ==
  ASSUME NEW o \in Nat, o >= 2, NEW H, NEW rt, NEW h, NEW reg, NEW c, NEW pos,
         Shaped(H, rt, h, reg, c, pos), NEW n \in LeavesOf(H), Sizes(o, H, n),
         NEW K, NEW R, NEW mid, NEW k1, NEW r1, NEW k2, NEW r2, NEW right, NEW e, NEW sep, NEW G,
         Parted(H, n, K, R, mid, k1, r1, k2, r2, right, e, sep), LeafHalves(H, G, n, k1, r1, right, e)
  PROVE  Divides(o, H, G, rt, n, sep, right)
<1>0. /\ o \in Nat /\ o >= 2 /\ K = H[n].keys /\ R = H[n].rows /\ right = Len(H) + 1
      /\ e = LeafNode(Nil, k2, r2, H[n].next)
      /\ n \in LeavesOf(H) /\ Sizes(o, H, n) /\ LeafHalves(H, G, n, k1, r1, right, e)
  BY DEF Parted
<1>1. /\ Sound(H, rt, h, reg) /\ Order(H, reg, c, pos) /\ Tree(H, rt, h, reg, reg, {})
      /\ H \in Seq(NodeRecs) /\ Len(H) \in Nat /\ rt \in Addresses(H)
  BY DEF Shaped, Sound, Tree
<1>2. n \in Addresses(H) /\ H[n].leaf /\ H[n] \in NodeRecs /\ n # Nil
  BY ONLY <1>0, <1>1 DEF LeavesOf, Addresses, Nil
<1>3. NodeInv(H[n]) /\ RegionInv(H[n], reg[n])
  BY ONLY <1>1, <1>2 DEF Tree
<1>4. /\ K \in Seq(Keys) /\ K \in Seq(Int) /\ R \in Seq(Rids) /\ Len(R) = Len(K) /\ Len(K) \in Nat
      /\ Ascends(K) /\ \A i \in 1 .. Len(K) : K[i] \in reg[n]
  BY ONLY <1>0, <1>2, <1>3, Fields DEF NodeInv, RegionInv
<1>5. Len(K) = o + 1 /\ \A m \in Addresses(H) : m # n => Len(H[m].keys) <= o
  BY ONLY <1>0, <1>2 DEF Sizes
<1>6. /\ mid \in Nat /\ mid >= 1 /\ mid + 1 <= Len(K) /\ mid <= o /\ Len(K) - mid <= o
      /\ mid \in 0 .. Len(K) /\ mid + 1 \in 1 .. Len(K) /\ mid < Len(K)
  <2>1. mid = (o + 1) \div 2
    <3>1. mid = Len(K) \div 2
      BY DEF Parted
    <3> QED BY ONLY <1>5, <3>1
  <2>2. mid \in Nat /\ mid >= 1 /\ mid + 1 <= o /\ mid <= o /\ (o + 1) - mid <= o
    BY ONLY <1>0, <2>1, Middle
  <2> QED BY ONLY <1>0, <1>5, <2>2
<1>23. sep = K[mid + 1]
  BY DEF Parted
<1>24. Cut(K, R, mid, k1, r1, k2, r2)
  <2>1. k1 = Lower(K, mid) /\ r1 = Lower(R, mid) /\ k2 = Upper(K, mid) /\ r2 = Upper(R, mid)
    BY DEF Parted
  <2> QED BY ONLY <1>4, <1>6, <2>1, LeafParts
<1>7. /\ k1 \in Seq(Keys) /\ r1 \in Seq(Rids) /\ Len(k1) = mid /\ Len(r1) = mid
      /\ \A i \in 1 .. mid : k1[i] = K[i] /\ r1[i] = R[i]
      /\ k2 \in Seq(Keys) /\ r2 \in Seq(Rids) /\ Len(k2) = Len(K) - mid /\ Len(r2) = Len(K) - mid
      /\ \A i \in 1 .. Len(K) - mid : k2[i] = K[mid + i] /\ r2[i] = R[mid + i]
  BY ONLY <1>24 DEF Cut
<1>8. Ascends(k1) /\ Ascends(k2) /\ k1 \in Seq(Int) /\ k2 \in Seq(Int)
  <2>1. k1 \in Seq(Int) /\ k2 \in Seq(Int)
    BY ONLY <1>7, BPlusTreeAssumption, SeqMonotonic
  <2>2. Ascends(k1)
    <3> DEFINE d == 0
    <3>1. d \in Nat /\ d + Len(k1) <= Len(K) /\ \A i \in 1 .. Len(k1) : k1[i] = K[d + i]
      BY ONLY <1>4, <1>6, <1>7
    <3> HIDE DEF d
    <3> QED BY ONLY <1>4, <2>1, <3>1, PartAscends
  <2>3. Ascends(k2)
    <3>1. mid \in Nat /\ mid + Len(k2) <= Len(K) /\ \A i \in 1 .. Len(k2) : k2[i] = K[mid + i]
      BY ONLY <1>4, <1>6, <1>7
    <3> QED BY ONLY <1>4, <2>1, <3>1, PartAscends
  <2> QED BY ONLY <2>1, <2>2, <2>3
<1>9. sep \in Keys /\ sep \in Int /\ sep \in reg[n] /\ reg[n] \in SUBSET Int
  BY ONLY <1>3, <1>4, <1>6, <1>23, BPlusTreeAssumption DEF RegionInv
<1>10. /\ \A i \in 1 .. mid : k1[i] \in Below(reg[n], sep)
       /\ \A i \in 1 .. Len(K) - mid : k2[i] \in From(reg[n], sep)
  <2>1. ASSUME NEW i \in 1 .. mid PROVE k1[i] \in Below(reg[n], sep)
    <3> DEFINE j == mid + 1
    <3>1. i \in 1 .. Len(K) /\ i < j /\ i <= j /\ j \in 1 .. Len(K) /\ sep = K[j]
      BY ONLY <1>4, <1>6, <1>23, i \in 1 .. mid
    <3> HIDE DEF j
    <3>2. K[i] < K[j]
      BY ONLY <1>4, <3>1, KeysInOrder
    <3> QED BY ONLY <1>4, <1>7, <3>1, <3>2, i \in 1 .. mid DEF Below
  <2>2. ASSUME NEW i \in 1 .. Len(K) - mid PROVE k2[i] \in From(reg[n], sep)
    <3> DEFINE j == mid + 1
               a == mid + i
    <3>1. a \in 1 .. Len(K) /\ j <= a /\ j \in 1 .. Len(K) /\ sep = K[j] /\ k2[i] = K[a]
      BY ONLY <1>4, <1>6, <1>7, <1>23, i \in 1 .. Len(K) - mid
    <3> HIDE DEF j, a
    <3>2. K[j] <= K[a]
      BY ONLY <1>4, <3>1, KeysInOrder
    <3> QED BY ONLY <1>4, <3>1, <3>2 DEF From
  <2> QED BY ONLY <2>1, <2>2
<1>11. /\ G \in Seq(NodeRecs) /\ Len(G) = right
       /\ \A m \in Addresses(H) : m # n => G[m] = H[m]
       /\ G[n].leaf /\ G[n].parent = H[n].parent /\ G[n].ch = <<>>
       /\ G[n].keys = k1 /\ G[n].rows = r1 /\ G[n].next = right
       /\ G[right] = e
  BY ONLY <1>0, <1>2, <1>3 DEF LeafHalves, NodeInv
<1>12. /\ G[right].leaf /\ G[right].parent = Nil /\ G[right].keys = k2 /\ G[right].rows = r2
       /\ G[right].ch = <<>> /\ G[right].next = H[n].next
  BY ONLY <1>0, <1>11 DEF LeafNode
<1>13. /\ Addresses(G) = Addresses(H) \cup {right} /\ right \notin Addresses(H) /\ n # right
       /\ G[n] \in NodeRecs /\ G[right] \in NodeRecs
  <2>1. Addresses(G) = Addresses(H) \cup {right} /\ right \notin Addresses(H)
    BY ONLY <1>0, <1>1, <1>11 DEF Addresses
  <2> QED BY ONLY <1>2, <1>11, <2>1 DEF Addresses
<1>14. NodeInv(G[n]) /\ NodeInv(G[right])
  <2>1. NodeInv(G[n])
    BY ONLY <1>7, <1>8, <1>11, <1>13 DEF NodeInv
  <2>2. NodeInv(G[right])
    BY ONLY <1>7, <1>8, <1>12, <1>13 DEF NodeInv
  <2> QED BY ONLY <2>1, <2>2
<1>15. RegionInv(G[n], Below(reg[n], sep)) /\ RegionInv(G[right], From(reg[n], sep))
  <2>1. Below(reg[n], sep) \in SUBSET Int /\ From(reg[n], sep) \in SUBSET Int
    BY ONLY <1>9 DEF Below, From
  <2>2. 1 \in 1 .. mid /\ 1 \in 1 .. Len(K) - mid
    BY ONLY <1>4, <1>6
  <2>3. Below(reg[n], sep) # {} /\ From(reg[n], sep) # {}
    BY ONLY <1>10, <2>2
  <2> QED BY ONLY <1>7, <1>10, <1>11, <1>12, <2>1, <2>3 DEF RegionInv
<1>16. PICK h2, reg2, seen2 : Divided(H, n, sep, h, reg, h2, reg2, seen2)
  BY ONLY <1>1, <1>2, CanDivide
<1>17. Tree(G, rt, h2, reg2, seen2, {right})
  <2>1. /\ G[Len(G)].leaf /\ G[Len(G)].parent = Nil /\ NodeInv(G[Len(G)])
        /\ RegionInv(G[Len(G)], From(reg[n], sep)) /\ Len(G) = Len(H) + 1 /\ Len(G) = right
    BY ONLY <1>0, <1>11, <1>12, <1>14, <1>15
  <2>2. Tree(G, rt, h2, reg2, seen2, {Len(G)})
    BY ONLY <1>1, <1>2, <1>9, <1>11, <1>14, <1>15, <1>16, <2>1, LeafSplit
  <2> QED BY ONLY <2>1, <2>2
<1>18. Gap(G, n, sep, right, h2, reg2, seen2)
  <2>1. /\ \A m \in Addresses(H) : h2[m] = h[m] /\ seen2[m] = reg[m] /\ (m # n => reg2[m] = reg[m])
        /\ h2[right] = h[n]
        /\ reg2[right] = From(reg[n], sep) /\ reg2[n] = Below(reg[n], sep)
    BY ONLY <1>0, <1>16 DEF Divided
  <2> QED BY ONLY <1>2, <1>9, <1>13, <2>1 DEF Gap
<1>19. PICK c2, pos2 : Order(G, reg2, c2, pos2)
  <2>1. \A m \in LeavesOf(H) : reg[m] \in SUBSET Int
    BY ONLY <1>1 DEF Tree, RegionInv, LeavesOf
  <2>2. /\ Addresses(G) = Addresses(H) \cup {Len(H) + 1} /\ G[n].leaf /\ G[Len(H) + 1].leaf
        /\ G[n].next = Len(H) + 1 /\ G[Len(H) + 1].next = H[n].next
        /\ \A m \in Addresses(H) : m # n => G[m] = H[m]
    BY ONLY <1>0, <1>11, <1>12, <1>13
  <2> QED BY ONLY <1>0, <1>1, <1>9, <1>16, <2>1, <2>2, OrderDivided
<1>20. \A m \in Addresses(G) : Len(G[m].keys) <= o
  <2>1. Len(G[n].keys) <= o /\ Len(G[right].keys) <= o
    BY ONLY <1>6, <1>7, <1>11, <1>12
  <2> QED BY ONLY <1>5, <1>11, <1>13, <2>1
<1>21. Entries(G) = Entries(H)
  <2>1. LeavesOf(G) = LeavesOf(H) \cup {right}
    BY ONLY <1>0, <1>2, <1>11, <1>12, <1>13 DEF LeavesOf
  <2>2. EntriesOf(H[n]) = EntriesOf(G[n]) \cup EntriesOf(G[right])
    <3>1. EntryPairs(K, R) = EntryPairs(k1, r1) \cup EntryPairs(k2, r2)
      BY ONLY <1>4, <1>6, <1>24, EntriesHalved
    <3> QED BY ONLY <1>0, <1>11, <1>12, <3>1 DEF EntriesOf
  <2>3. \A m \in LeavesOf(H) : m # n => EntriesOf(G[m]) = EntriesOf(H[m])
    BY ONLY <1>11 DEF LeavesOf
  <2> DEFINE L == LeavesOf(H)
             M == LeavesOf(G)
             f == [m \in L |-> EntriesOf(H[m])]
             g == [m \in M |-> EntriesOf(G[m])]
  <2>4. /\ n \in L /\ M = L \cup {right} /\ f[n] = g[n] \cup g[right]
        /\ \A m \in L : m # n => g[m] = f[m]
    BY ONLY <1>0, <2>1, <2>2, <2>3
  <2>5. Entries(H) = UNION {f[m] : m \in L} /\ Entries(G) = UNION {g[m] : m \in M}
    BY DEF Entries
  <2> HIDE DEF L, M, f, g
  <2>6. UNION {f[m] : m \in L} = UNION {g[m] : m \in M}
    BY ONLY <2>4
  <2> QED BY ONLY <2>5, <2>6
<1>22. Half(o, G, rt, n, sep, right, h2, reg2, seen2, c2, pos2)
  BY ONLY <1>17, <1>18, <1>19, <1>20 DEF Half
<1> QED BY ONLY <1>21, <1>22 DEF Divides

(* A separator handed up: the tree is whole again.                          *)
LEMMA Healed ==
  ASSUME order \in Nat, order >= 2, NEW H, NEW G, NEW n, NEW sep, NEW right,
         Divides(order, H, G, root, n, sep, right), Promote(G, n, sep, right)
  PROVE  Whole(order, H, nodes', root', cur')
<1>1. PICK h, reg, seen, c, pos : Half(order, G, root, n, sep, right, h, reg, seen, c, pos)
  BY DEF Divides
<1>2. Whole(order, G, nodes', root', cur')
  BY <1>1, PromoteStep
<1> QED BY <1>2 DEF Divides, Whole

(* What the two turns of the loop share.                                    *)
LEMMA TurnBegins ==
  ASSUME TreeInv, cur # Nil
  PROVE  /\ order \in Orders /\ order \in Nat /\ order >= 2 /\ root # Nil
         /\ nodes \in Seq(NodeRecs) /\ Len(nodes) \in Nat /\ cur \in Addresses(nodes)
         /\ nodes[cur] \in NodeRecs /\ Sizes(order, nodes, cur) /\ Stored = Entries(nodes)
         /\ \E h, reg, c, pos : Shaped(nodes, root, h, reg, c, pos)
<1>1. order \in Orders /\ order \in Nat /\ order >= 2
  BY BPlusTreeAssumption DEF TreeInv
<1>2. nodes \in Seq(NodeRecs) /\ Len(nodes) \in Nat /\ cur \in 0 .. Len(nodes) /\ Sizes(order, nodes, cur)
      /\ (root = Nil <=> nodes = <<>>)
  BY DEF TreeInv, Good
<1>3. cur \in Addresses(nodes)
  BY <1>2 DEF Addresses, Nil
<1>4. root # Nil /\ nodes[cur] \in NodeRecs
  <2>1. Len(nodes) # 0
    BY <1>2, <1>3 DEF Addresses
  <2> QED BY <1>2, <1>3, <2>1 DEF Addresses
<1>5. Stored = Entries(nodes)
  BY <1>2, StoredIs
<1> QED BY <1>1, <1>2, <1>3, <1>4, <1>5, Picture

(* A turn of the split loop that leaves the tree whole preserves the        *)
(* invariant.                                                               *)
LEMMA TurnEnds ==
  ASSUME order \in Orders, order' = order, Whole(order, nodes, nodes', root', cur'), Stored = Entries(nodes)
  PROVE  TreeInv' /\ Stored' = Stored
<1>1. Good(order, nodes', root', cur') /\ Entries(nodes') = Entries(nodes)
  BY DEF Whole
<1>2. Stored' = Entries(nodes')
  BY <1>1, StoredNext DEF Good
<1> QED BY <1>1, <1>2 DEF TreeInv

(* A turn of the split loop for a leaf preserves the invariant and every    *)
(* entry.                                                                   *)
LEMMA SplitLeafStep ==
  ASSUME TreeInv, SplitLeaf
  PROVE  TreeInv' /\ Stored' = Stored
<1>1. cur # Nil /\ nodes[cur].leaf /\ order' = order
  BY DEF SplitLeaf
<1>2. /\ order \in Orders /\ order \in Nat /\ order >= 2 /\ root # Nil
      /\ nodes \in Seq(NodeRecs) /\ Len(nodes) \in Nat /\ cur \in Addresses(nodes)
      /\ nodes[cur] \in NodeRecs /\ Sizes(order, nodes, cur) /\ Stored = Entries(nodes)
      /\ \E h, reg, c, pos : Shaped(nodes, root, h, reg, c, pos)
  BY <1>1, TurnBegins
<1>3. PICK h, reg, c, pos : Shaped(nodes, root, h, reg, c, pos)
  BY <1>2
<1> DEFINE n == cur
           K == nodes[n].keys
           R == nodes[n].rows
           mid == Len(K) \div 2
           right == Len(nodes) + 1
           k1 == Lower(K, mid)
           r1 == Lower(R, mid)
           k2 == Upper(K, mid)
           r2 == Upper(R, mid)
           e == LeafNode(Nil, k2, r2, nodes[n].next)
           sep == K[mid + 1]
           G == LeafHeap(nodes, n, k1, r1, right, e)
<1>4. Promote(G, n, sep, right)
  BY DEF SplitLeaf, LeafHeap, RightLeaf, Lower, Upper
<1>5. K = nodes[n].keys /\ R = nodes[n].rows /\ mid = Len(K) \div 2 /\ right = Len(nodes) + 1
  OBVIOUS
<1>6. k1 = Lower(K, mid) /\ r1 = Lower(R, mid) /\ k2 = Upper(K, mid) /\ r2 = Upper(R, mid)
  OBVIOUS
<1>7. e = LeafNode(Nil, k2, r2, nodes[n].next) /\ sep = K[mid + 1] /\ G = LeafHeap(nodes, n, k1, r1, right, e)
  OBVIOUS
<1>8. n \in LeavesOf(nodes)
  BY <1>1, <1>2 DEF LeavesOf
<1>9. K \in Seq(Keys) /\ R \in Seq(Rids) /\ Len(R) = Len(K) /\ Len(K) \in Nat /\ nodes[n].next \in Nat
  <2>1. NodeInv(nodes[n])
    BY <1>2, <1>3 DEF Shaped, Sound, Tree
  <2> QED BY <1>1, <1>2, <2>1, Fields DEF NodeInv
<1>10. n = cur
  OBVIOUS
<1> HIDE DEF e, sep, G
<1>11. mid \in 0 .. Len(K)
  <2> HIDE DEF K
  <2> QED BY <1>9
<1> HIDE DEF n, K, R, mid, right, k1, r1, k2, r2
<1>12. Cut(K, R, mid, k1, r1, k2, r2)
  BY ONLY <1>6, <1>9, <1>11, LeafParts
<1>13. k1 \in Seq(Keys) /\ r1 \in Seq(Rids) /\ k2 \in Seq(Keys) /\ r2 \in Seq(Rids)
  BY ONLY <1>12 DEF Cut
<1>14. e \in NodeRecs
  BY ONLY <1>7, <1>9, <1>13 DEF LeafNode, NodeRecs, Nil
<1>15. LeafHalves(nodes, G, n, k1, r1, right, e)
  BY ONLY <1>2, <1>5, <1>7, <1>10, <1>13, <1>14, LeafHeapIs
<1>16. Divides(order, nodes, G, root, n, sep, right)
  <2>1. Parted(nodes, n, K, R, mid, k1, r1, k2, r2, right, e, sep)
    BY ONLY <1>5, <1>6, <1>7 DEF Parted
  <2> QED BY ONLY <1>2, <1>3, <1>8, <1>10, <1>15, <2>1, LeafDivided
<1>17. Whole(order, nodes, nodes', root', cur')
  BY ONLY <1>2, <1>4, <1>16, Healed
<1> QED BY <1>1, <1>2, <1>17, TurnEnds

-----------------------------------------------------------------------------
(* An inner node becomes two.                                               *)
InnerHeap(H, n, ks, cs, e) == Append([H EXCEPT ![n].keys = ks, ![n].ch = cs], e)

InnerHalves(H, F, n, ks, cs, right, e) ==
  /\ F \in Seq(NodeRecs) /\ Len(F) = right
  /\ \A m \in Addresses(H) : m # n => F[m] = H[m]
  /\ F[n].leaf = H[n].leaf /\ F[n].parent = H[n].parent /\ F[n].rows = H[n].rows /\ F[n].next = H[n].next
  /\ F[n].keys = ks /\ F[n].ch = cs
  /\ F[right] = e

(* The heap in which an inner node was divided ...                          *)
LEMMA InnerHeapIs ==
  ASSUME NEW H \in Seq(NodeRecs), NEW n \in Addresses(H), NEW ks \in Seq(Keys), NEW cs \in Seq(Nat),
         NEW right, right = Len(H) + 1, NEW e \in NodeRecs,
         NEW G, G = InnerHeap(H, n, ks, cs, e)
  PROVE  InnerHalves(H, G, n, ks, cs, right, e)
<1> DEFINE d == [H[n] EXCEPT !.keys = ks, !.ch = cs]
           F == [H EXCEPT ![n] = d]
<1>0. Len(H) \in Nat /\ right \in Nat /\ Addresses(H) = 1 .. Len(H) /\ right \notin Addresses(H)
  BY DEF Addresses
<1>1. H[n] \in NodeRecs
  BY DEF Addresses
<1>2. /\ d \in NodeRecs /\ d.keys = ks /\ d.ch = cs /\ d.rows = H[n].rows /\ d.next = H[n].next
      /\ d.leaf = H[n].leaf /\ d.parent = H[n].parent
  BY <1>0, <1>1 DEF NodeRecs
<1>3. G = Append(F, e)
  <2>1. F = [H EXCEPT ![n].keys = ks, ![n].ch = cs]
    BY DEF Addresses
  <2> QED BY <2>1 DEF InnerHeap
<1> HIDE DEF d
<1>4. /\ F \in Seq(NodeRecs) /\ Len(F) = Len(H)
      /\ \A m \in 1 .. Len(H) : F[m] = IF m = n THEN d ELSE H[m]
  BY <1>0, <1>2, ExceptSeq
<1> HIDE DEF F
<1>5. G \in Seq(NodeRecs) /\ Len(G) = right /\ G[right] = e /\ \A m \in 1 .. Len(H) : G[m] = F[m]
  <2>1. /\ Append(F, e) \in Seq(NodeRecs) /\ Len(Append(F, e)) = Len(F) + 1
        /\ \A i \in 1 .. Len(F) : Append(F, e)[i] = F[i]
        /\ Append(F, e)[Len(F) + 1] = e
    BY <1>4, AppendProperties
  <2> QED BY <1>3, <1>4, <2>1
<1>6. G[n] = d /\ \A m \in Addresses(H) : m # n => G[m] = H[m]
  BY <1>0, <1>4, <1>5
<1> QED BY <1>2, <1>5, <1>6 DEF InnerHalves

(* Whose children they are.                                                 *)
IsChild(F, m, n) == \E i \in 1 .. Len(F[n].ch) : m = F[n].ch[i]

Rehung(F, G, left, right) ==
  /\ G \in Seq(NodeRecs) /\ Len(G) = Len(F)
  /\ \A m \in Addresses(F) :
       /\ G[m].leaf = F[m].leaf /\ G[m].keys = F[m].keys /\ G[m].rows = F[m].rows
       /\ G[m].ch = F[m].ch /\ G[m].next = F[m].next
       /\ G[m].parent = IF IsChild(F, m, left) THEN left
                        ELSE IF IsChild(F, m, right) THEN right ELSE F[m].parent

(* ... and its children were told.                                          *)
LEMMA ReparentedIs ==
  ASSUME NEW F \in Seq(NodeRecs), NEW left \in Addresses(F), NEW right \in Addresses(F),
         NEW G, G = Reparented(F, left, right)
  PROVE  Rehung(F, G, left, right)
<1>0. Len(F) \in Nat /\ DOMAIN F = 1 .. Len(F) /\ Addresses(F) = 1 .. Len(F) /\ left \in Nat /\ right \in Nat
  BY DEF Addresses
<1>1. \A m \in Addresses(F) : F[m] \in NodeRecs
  BY <1>0
<1>2. ASSUME NEW n \in Addresses(F), NEW m
      PROVE  m \in Range(F[n].ch) <=> IsChild(F, m, n)
  <2>1. F[n].ch \in Seq(Nat)
    BY <1>1, Fields
  <2>2. DOMAIN F[n].ch = 1 .. Len(F[n].ch)
    BY <2>1
  <2> QED BY <2>2 DEF Range, IsChild
<1> DEFINE New(m) == IF IsChild(F, m, left) THEN [F[m] EXCEPT !.parent = left]
                     ELSE IF IsChild(F, m, right) THEN [F[m] EXCEPT !.parent = right]
                     ELSE F[m]
<1>3. G = [m \in 1 .. Len(F) |-> New(m)]
  <2>1. \A m : (m \in Range(F[left].ch) <=> IsChild(F, m, left))
               /\ (m \in Range(F[right].ch) <=> IsChild(F, m, right))
    BY <1>2
  <2> QED BY <1>0, <2>1 DEF Reparented
<1>4. ASSUME NEW m \in Addresses(F)
      PROVE  /\ New(m) \in NodeRecs
             /\ New(m).leaf = F[m].leaf /\ New(m).keys = F[m].keys /\ New(m).rows = F[m].rows
             /\ New(m).ch = F[m].ch /\ New(m).next = F[m].next
             /\ New(m).parent = IF IsChild(F, m, left) THEN left
                                ELSE IF IsChild(F, m, right) THEN right ELSE F[m].parent
  <2>1. ASSUME NEW a \in Nat
        PROVE  LET e == [F[m] EXCEPT !.parent = a] IN
               /\ e \in NodeRecs /\ e.leaf = F[m].leaf /\ e.keys = F[m].keys /\ e.rows = F[m].rows
               /\ e.ch = F[m].ch /\ e.next = F[m].next /\ e.parent = a
    BY <1>1 DEF NodeRecs
  <2>2. CASE IsChild(F, m, left)
    BY <1>0, <2>1, <2>2
  <2>3. CASE ~ IsChild(F, m, left) /\ IsChild(F, m, right)
    BY <1>0, <2>1, <2>3
  <2>4. CASE ~ IsChild(F, m, left) /\ ~ IsChild(F, m, right)
    BY <1>1, <2>4
  <2> QED BY <2>2, <2>3, <2>4
<1> HIDE DEF New
<1>5. G \in Seq(NodeRecs) /\ Len(G) = Len(F) /\ \A m \in Addresses(F) : G[m] = New(m)
  BY <1>0, <1>3, <1>4
<1> QED BY <1>4, <1>5 DEF Rehung

(* The parts of an inner node.                                              *)
Cleft(K, C, mid, k1, c1, k2, c2) ==
  /\ k1 \in Seq(Keys) /\ c1 \in Seq(Nat) /\ Len(k1) = mid /\ Len(c1) = mid + 1
  /\ \A i \in 1 .. mid : k1[i] = K[i]
  /\ \A i \in 1 .. mid + 1 : c1[i] = C[i]
  /\ k2 \in Seq(Keys) /\ c2 \in Seq(Nat) /\ Len(k2) = Len(K) - (mid + 1) /\ Len(c2) = Len(K) - mid
  /\ \A i \in 1 .. Len(K) - (mid + 1) : k2[i] = K[mid + 1 + i]
  /\ \A i \in 1 .. Len(K) - mid : c2[i] = C[mid + 1 + i]

(* The halves of keys and children; the middle key is in neither.           *)
LEMMA InnerParts ==
  ASSUME NEW K \in Seq(Keys), NEW C \in Seq(Nat), Len(C) = Len(K) + 1, NEW mid \in Nat, mid + 1 < Len(K)
  PROVE  Cleft(K, C, mid, SubSeq(K, 1, mid), SubSeq(C, 1, mid + 1),
               SubSeq(K, mid + 2, Len(K)), SubSeq(C, mid + 2, Len(K) + 1))
<1> DEFINE a == mid + 1
           T == Nat
<1>0. Len(K) \in Nat /\ mid \in 0 .. Len(K) /\ a \in 0 .. Len(K) /\ a \in 0 .. Len(C) /\ a + 1 = mid + 2
      /\ Len(C) - a = Len(K) - mid
  OBVIOUS
<1>1. SubSeq(K, 1, mid) \in Seq(Keys) /\ Len(SubSeq(K, 1, mid)) = mid
      /\ \A i \in 1 .. mid : SubSeq(K, 1, mid)[i] = K[i]
  BY <1>0, HalvesOf
<1>4. C \in Seq(T)
  OBVIOUS
<1> HIDE DEF a, T
<1>2. SubSeq(K, a + 1, Len(K)) \in Seq(Keys) /\ Len(SubSeq(K, a + 1, Len(K))) = Len(K) - a
      /\ \A i \in 1 .. Len(K) - a : SubSeq(K, a + 1, Len(K))[i] = K[a + i]
  BY <1>0, HalvesOf
<1>3. /\ SubSeq(C, 1, a) \in Seq(T) /\ Len(SubSeq(C, 1, a)) = a
      /\ \A i \in 1 .. a : SubSeq(C, 1, a)[i] = C[i]
      /\ SubSeq(C, a + 1, Len(C)) \in Seq(T) /\ Len(SubSeq(C, a + 1, Len(C))) = Len(C) - a
      /\ \A i \in 1 .. Len(C) - a : SubSeq(C, a + 1, Len(C))[i] = C[a + i]
  BY <1>0, <1>4, HalvesOf
<1>5. /\ SubSeq(K, mid + 2, Len(K)) = SubSeq(K, a + 1, Len(K))
      /\ SubSeq(C, mid + 2, Len(K) + 1) = SubSeq(C, a + 1, Len(C))
      /\ SubSeq(C, 1, mid + 1) = SubSeq(C, 1, a)
  BY <1>0 DEF a
<1> DEFINE k2 == SubSeq(K, a + 1, Len(K))
           c2 == SubSeq(C, a + 1, Len(C))
           k1 == SubSeq(K, 1, mid)
           c1 == SubSeq(C, 1, a)
<1>6. Cleft(K, C, mid, k1, c1, k2, c2)
  <2>1. /\ k1 \in Seq(Keys) /\ Len(k1) = mid /\ \A i \in 1 .. mid : k1[i] = K[i]
        /\ k2 \in Seq(Keys) /\ Len(k2) = Len(K) - a /\ \A i \in 1 .. Len(K) - a : k2[i] = K[a + i]
        /\ c1 \in Seq(Nat) /\ Len(c1) = a /\ \A i \in 1 .. a : c1[i] = C[i]
        /\ c2 \in Seq(Nat) /\ Len(c2) = Len(K) - mid /\ \A i \in 1 .. Len(K) - mid : c2[i] = C[a + i]
    BY <1>0, <1>1, <1>2, <1>3 DEF T
  <2> HIDE DEF k1, c1, k2, c2
  <2> QED BY ONLY <2>1 DEF Cleft, a
<1> QED BY <1>5, <1>6

(* SplitInner, up to Promote: the inner node is divided in the middle and   *)
(* its children point up to the half they are in.                           *)
LEMMA InnerDivided ==
  ASSUME NEW o \in Nat, o >= 2, NEW H, NEW rt, NEW h, NEW reg, NEW c, NEW pos,
         Shaped(H, rt, h, reg, c, pos), NEW n \in Addresses(H), ~ H[n].leaf, Sizes(o, H, n),
         NEW K, K = H[n].keys, NEW C, C = H[n].ch, NEW mid, mid = Len(K) \div 2,
         NEW k1, NEW c1, NEW k2, NEW c2, Cleft(K, C, mid, k1, c1, k2, c2),
         NEW right, right = Len(H) + 1, NEW e, e = InnerNode(Nil, k2, c2),
         NEW sep, sep = K[mid + 1],
         NEW F, InnerHalves(H, F, n, k1, c1, right, e), NEW G, Rehung(F, G, n, right)
  PROVE  Divides(o, H, G, rt, n, sep, right)
<1>0. /\ o \in Nat /\ o >= 2 /\ K = H[n].keys /\ C = H[n].ch /\ right = Len(H) + 1
      /\ e = InnerNode(Nil, k2, c2) /\ n \in Addresses(H) /\ ~ H[n].leaf /\ Sizes(o, H, n)
  OBVIOUS
<1>1. /\ Sound(H, rt, h, reg) /\ Order(H, reg, c, pos) /\ Tree(H, rt, h, reg, reg, {})
      /\ H \in Seq(NodeRecs) /\ Len(H) \in Nat /\ rt \in Addresses(H)
  BY DEF Shaped, Sound, Tree
<1>2. H[n] \in NodeRecs /\ n # Nil /\ NodeInv(H[n]) /\ RegionInv(H[n], reg[n])
  BY ONLY <1>0, <1>1 DEF Tree, Addresses, Nil
<1>3. /\ K \in Seq(Keys) /\ K \in Seq(Int) /\ C \in Seq(Nat) /\ Len(K) \in Nat /\ Len(C) = Len(K) + 1
      /\ Ascends(K) /\ H[n].rows = <<>> /\ H[n].next = Nil
  BY ONLY <1>0, <1>2, Fields DEF NodeInv
<1>4. Len(K) = o + 1 /\ \A m \in Addresses(H) : m # n => Len(H[m].keys) <= o
  BY ONLY <1>0, <1>2 DEF Sizes
<1>5. /\ mid \in Nat /\ mid >= 1 /\ mid + 1 < Len(K) /\ mid <= o /\ Len(K) - (mid + 1) <= o
      /\ mid + 1 \in 1 .. Len(K)
  <2>1. mid = (o + 1) \div 2
    BY ONLY <1>4, mid = Len(K) \div 2
  <2>2. mid \in Nat /\ mid >= 1 /\ mid + 1 <= o /\ mid <= o /\ (o + 1) - mid <= o
    BY ONLY <1>0, <2>1, Middle
  <2> QED BY ONLY <1>0, <1>4, <2>2
<1>6. sep = K[mid + 1]
  OBVIOUS
<1>7. /\ k1 \in Seq(Keys) /\ c1 \in Seq(Nat) /\ Len(k1) = mid /\ Len(c1) = mid + 1
      /\ \A i \in 1 .. mid : k1[i] = K[i]
      /\ \A i \in 1 .. mid + 1 : c1[i] = C[i]
      /\ k2 \in Seq(Keys) /\ c2 \in Seq(Nat) /\ Len(k2) = Len(K) - (mid + 1) /\ Len(c2) = Len(K) - mid
      /\ \A i \in 1 .. Len(K) - (mid + 1) : k2[i] = K[mid + 1 + i]
      /\ \A i \in 1 .. Len(K) - mid : c2[i] = C[mid + 1 + i]
  BY DEF Cleft
<1>8. Ascends(k1) /\ Ascends(k2) /\ k1 \in Seq(Int) /\ k2 \in Seq(Int)
  <2>1. k1 \in Seq(Int) /\ k2 \in Seq(Int)
    BY ONLY <1>7, BPlusTreeAssumption, SeqMonotonic
  <2>2. Ascends(k1)
    <3> DEFINE d == 0
    <3>1. d \in Nat /\ d + Len(k1) <= Len(K) /\ \A i \in 1 .. Len(k1) : k1[i] = K[d + i]
      BY ONLY <1>3, <1>5, <1>7
    <3> HIDE DEF d
    <3> QED BY ONLY <1>3, <2>1, <3>1, PartAscends
  <2>3. Ascends(k2)
    <3> DEFINE d == mid + 1
    <3>1. d \in Nat /\ d + Len(k2) <= Len(K) /\ \A i \in 1 .. Len(k2) : k2[i] = K[d + i]
      BY ONLY <1>3, <1>5, <1>7
    <3> HIDE DEF d
    <3> QED BY ONLY <1>3, <2>1, <3>1, PartAscends
  <2> QED BY ONLY <2>1, <2>2, <2>3
<1>9. \A i \in 1 .. Len(C) : C[i] \in Addresses(H) /\ C[i] # n
  <2>1. ASSUME NEW i \in 1 .. Len(C) PROVE C[i] \in Addresses(H) /\ C[i] # n
    <3>1. i \in 1 .. Len(H[n].ch)
      BY ONLY <1>0, i \in 1 .. Len(C)
    <3>2. ChildInv(H, n, i, h, reg, reg)
      BY ONLY <1>0, <1>1, <3>1 DEF Tree
    <3>3. C[i] \in Addresses(H) /\ h[C[i]] + 1 = h[n]
      BY ONLY <1>0, <3>2 DEF ChildInv
    <3>4. h[n] \in Nat /\ h[C[i]] \in Nat
      BY ONLY <1>0, <1>1, <3>3 DEF Tree, HeightInv
    <3> DEFINE a == h[C[i]]
    <3>5. C[i] = n => a = h[n]
      OBVIOUS
    <3>6. a + 1 = h[n] /\ a \in Nat
      BY ONLY <3>3, <3>4
    <3> HIDE DEF a
    <3> QED BY ONLY <3>3, <3>5, <3>6
  <2> QED BY <2>1
<1>10. /\ F \in Seq(NodeRecs) /\ Len(F) = right
       /\ \A m \in Addresses(H) : m # n => F[m] = H[m]
       /\ ~ F[n].leaf /\ F[n].parent = H[n].parent /\ F[n].rows = <<>> /\ F[n].next = Nil
       /\ F[n].keys = k1 /\ F[n].ch = c1
       /\ F[right] = e
  <2>1. InnerHalves(H, F, n, k1, c1, right, e)
    OBVIOUS
  <2> QED BY ONLY <1>0, <1>3, <2>1 DEF InnerHalves
<1>11. /\ ~ F[right].leaf /\ F[right].parent = Nil /\ F[right].keys = k2 /\ F[right].rows = <<>>
       /\ F[right].ch = c2 /\ F[right].next = Nil
  BY ONLY <1>0, <1>10 DEF InnerNode
<1>12. /\ Addresses(F) = Addresses(H) \cup {right} /\ right \notin Addresses(H) /\ n # right
       /\ Addresses(F) = 1 .. Len(F)
  <2>1. Addresses(F) = Addresses(H) \cup {right} /\ right \notin Addresses(H) /\ Addresses(F) = 1 .. Len(F)
    BY ONLY <1>0, <1>1, <1>10 DEF Addresses
  <2> QED BY ONLY <1>0, <2>1
<1>13. /\ \A m \in Addresses(H) : IsChild(F, m, n) <=> \E i \in 1 .. mid + 1 : m = c1[i]
       /\ \A m \in Addresses(H) : IsChild(F, m, right) <=> \E i \in 1 .. Len(K) - mid : m = c2[i]
       /\ \A m : IsChild(F, m, n) \/ IsChild(F, m, right) => m \in Addresses(H) /\ m # n
  <2>1. \A m : IsChild(F, m, n) <=> \E i \in 1 .. mid + 1 : m = c1[i]
    BY ONLY <1>7, <1>10 DEF IsChild
  <2>2. \A m : IsChild(F, m, right) <=> \E i \in 1 .. Len(K) - mid : m = c2[i]
    BY ONLY <1>7, <1>11 DEF IsChild
  <2>3. ASSUME NEW i \in 1 .. mid + 1 PROVE c1[i] \in Addresses(H) /\ c1[i] # n
    <3>1. i \in 1 .. Len(C)
      BY ONLY <1>3, <1>5, i \in 1 .. mid + 1
    <3> QED BY ONLY <1>7, <1>9, <3>1, i \in 1 .. mid + 1
  <2>4. ASSUME NEW i \in 1 .. Len(K) - mid PROVE c2[i] \in Addresses(H) /\ c2[i] # n
    <3> DEFINE a == mid + 1 + i
    <3>1. a \in 1 .. Len(C)
      BY ONLY <1>3, <1>5, i \in 1 .. Len(K) - mid
    <3>2. c2[i] = C[a]
      BY ONLY <1>7, i \in 1 .. Len(K) - mid
    <3> HIDE DEF a
    <3> QED BY ONLY <1>9, <3>1, <3>2
  <2> QED BY ONLY <2>1, <2>2, <2>3, <2>4
<1>14. /\ G \in Seq(NodeRecs) /\ Len(G) = right
       /\ \A m \in Addresses(F) :
            /\ G[m].leaf = F[m].leaf /\ G[m].keys = F[m].keys /\ G[m].rows = F[m].rows
            /\ G[m].ch = F[m].ch /\ G[m].next = F[m].next
            /\ G[m].parent = IF IsChild(F, m, n) THEN n
                             ELSE IF IsChild(F, m, right) THEN right ELSE F[m].parent
  <2>1. Rehung(F, G, n, right)
    OBVIOUS
  <2> QED BY ONLY <1>10, <2>1 DEF Rehung
<1>15. Addresses(G) = Addresses(F) /\ \A m \in Addresses(F) : G[m] \in NodeRecs
  BY ONLY <1>10, <1>14 DEF Addresses
<1>16. /\ n \in Addresses(F) /\ right \in Addresses(F)
       /\ ~ G[n].leaf /\ G[n].keys = k1 /\ G[n].ch = c1 /\ G[n].rows = <<>> /\ G[n].next = Nil
       /\ ~ G[right].leaf /\ G[right].keys = k2 /\ G[right].ch = c2 /\ G[right].rows = <<>> /\ G[right].next = Nil
       /\ G[n].parent = H[n].parent /\ G[right].parent = Nil
  <2>1. n \in Addresses(F) /\ right \in Addresses(F)
    BY ONLY <1>0, <1>12
  <2>2. ~ IsChild(F, n, n) /\ ~ IsChild(F, n, right) /\ ~ IsChild(F, right, n) /\ ~ IsChild(F, right, right)
    BY ONLY <1>12, <1>13
  <2> QED BY ONLY <1>10, <1>11, <1>14, <2>1, <2>2
<1>17. Halves(H, G, n, mid)
  <2>1. Len(G[n].keys) = mid /\ Len(G[n].ch) = mid + 1
        /\ Len(G[right].keys) = Len(K) - (mid + 1) /\ Len(G[right].ch) = Len(K) - mid
    BY ONLY <1>7, <1>16
  <2>2. /\ \A i \in 1 .. mid : G[n].keys[i] = K[i]
        /\ \A i \in 1 .. mid + 1 : G[n].ch[i] = C[i]
        /\ \A i \in 1 .. Len(K) - (mid + 1) : G[right].keys[i] = K[mid + 1 + i]
        /\ \A i \in 1 .. Len(K) - mid : G[right].ch[i] = C[mid + 1 + i]
    BY ONLY <1>7, <1>16
  <2> QED BY ONLY <1>0, <1>16, <2>1, <2>2 DEF Halves
<1>18. Adopted(H, G, n)
  <2>1. ASSUME NEW m \in Addresses(H), m # n
        PROVE  /\ G[m].leaf = H[m].leaf /\ G[m].keys = H[m].keys /\ G[m].rows = H[m].rows
               /\ G[m].ch = H[m].ch /\ G[m].next = H[m].next
               /\ \/ G[m].parent = n /\ \E i \in 1 .. Len(G[n].ch) : m = G[n].ch[i]
                  \/ G[m].parent = right /\ \E i \in 1 .. Len(G[right].ch) : m = G[right].ch[i]
                  \/ /\ G[m].parent = H[m].parent
                     /\ \A i \in 1 .. Len(G[n].ch) : m # G[n].ch[i]
                     /\ \A i \in 1 .. Len(G[right].ch) : m # G[right].ch[i]
    <3>1. m \in Addresses(F) /\ F[m] = H[m]
      BY ONLY <1>10, <1>12, <2>1
    <3>2. IsChild(F, m, n) <=> \E i \in 1 .. Len(G[n].ch) : m = G[n].ch[i]
      BY ONLY <1>10, <1>16 DEF IsChild
    <3>3. IsChild(F, m, right) <=> \E i \in 1 .. Len(G[right].ch) : m = G[right].ch[i]
      BY ONLY <1>11, <1>16 DEF IsChild
    <3>4. G[m].parent = IF IsChild(F, m, n) THEN n
                        ELSE IF IsChild(F, m, right) THEN right ELSE H[m].parent
      BY ONLY <1>14, <3>1
    <3>5. /\ G[m].leaf = H[m].leaf /\ G[m].keys = H[m].keys /\ G[m].rows = H[m].rows
          /\ G[m].ch = H[m].ch /\ G[m].next = H[m].next
      BY ONLY <1>14, <3>1
    <3> QED BY ONLY <3>2, <3>3, <3>4, <3>5
  <2> QED BY ONLY <1>0, <1>16, <2>1 DEF Adopted
<1>19. NodeInv(G[n]) /\ NodeInv(G[right])
  <2>1. Len(c1) = Len(k1) + 1 /\ Len(c2) = Len(k2) + 1 /\ Len(k1) # 0 /\ Len(k2) # 0
    BY ONLY <1>3, <1>5, <1>7
  <2>2. k1 # <<>> /\ k2 # <<>>
    <3>1. ASSUME NEW s, Len(s) # 0 PROVE s # <<>>
      <4>1. Len(<<>>) = 0
        OBVIOUS
      <4> QED BY ONLY <3>1, <4>1
    <3> QED BY ONLY <2>1, <3>1
  <2>3. G[n] \in NodeRecs /\ G[right] \in NodeRecs
    BY ONLY <1>15, <1>16
  <2>4. NodeInv(G[n])
    BY ONLY <1>8, <1>16, <2>1, <2>2, <2>3 DEF NodeInv
  <2>5. NodeInv(G[right])
    BY ONLY <1>8, <1>16, <2>1, <2>2, <2>3 DEF NodeInv
  <2> QED BY ONLY <2>4, <2>5
<1>20. PICK h2, reg2, seen2 : Divided(H, n, sep, h, reg, h2, reg2, seen2)
  BY ONLY <1>0, <1>1, CanDivide
<1>21. Tree(G, rt, h2, reg2, seen2, {right})
  <2>1. Len(G) = Len(H) + 1 /\ Len(G) = right /\ NodeInv(G[Len(G)])
    BY ONLY <1>0, <1>14, <1>19
  <2>2. mid + 1 < Len(H[n].keys) /\ Divided(H, n, H[n].keys[mid + 1], h, reg, h2, reg2, seen2)
    BY ONLY <1>0, <1>5, <1>6, <1>20
  <2>3. Tree(G, rt, h2, reg2, seen2, {Len(G)})
    BY ONLY <1>0, <1>1, <1>5, <1>14, <1>17, <1>18, <1>19, <2>1, <2>2, InnerSplit
  <2> QED BY ONLY <2>1, <2>3
<1>22. /\ \A m \in Addresses(H) : h2[m] = h[m] /\ seen2[m] = reg[m] /\ (m # n => reg2[m] = reg[m])
       /\ h2[right] = h[n]
       /\ reg2[right] = From(reg[n], sep) /\ reg2[n] = Below(reg[n], sep)
  BY ONLY <1>0, <1>20 DEF Divided
<1>23. Gap(G, n, sep, right, h2, reg2, seen2)
  <2>1. sep \in Keys /\ sep \in reg[n]
    BY ONLY <1>0, <1>2, <1>3, <1>5, <1>6 DEF RegionInv
  <2> QED BY ONLY <1>0, <1>12, <1>15, <1>22, <2>1 DEF Gap
<1>24. LeavesKept(H, G)
  <2>1. ASSUME NEW m \in Addresses(H), m # n
        PROVE  G[m].leaf = H[m].leaf /\ G[m].next = H[m].next /\ G[m].keys = H[m].keys /\ G[m].rows = H[m].rows
    BY ONLY <1>10, <1>12, <1>14, <2>1
  <2>2. G[n].leaf = H[n].leaf
    <3>1. G[n].leaf \in BOOLEAN /\ H[n].leaf \in BOOLEAN
      BY ONLY <1>2, <1>15, <1>16, Fields
    <3> QED BY ONLY <1>0, <1>16, <3>1
  <2>3. G[n].next = H[n].next
    BY ONLY <1>3, <1>16
  <2> QED BY ONLY <1>0, <1>12, <1>15, <1>16, <2>1, <2>2, <2>3 DEF LeavesKept
<1>25. Order(G, reg2, c, pos) /\ Entries(G) = Entries(H)
  <2>1. \A m \in LeavesOf(H) : reg2[m] = reg[m]
    BY ONLY <1>0, <1>22 DEF LeavesOf
  <2> QED BY ONLY <1>1, <1>24, <2>1, OrderKept
<1>26. \A m \in Addresses(G) : Len(G[m].keys) <= o
  <2>1. Len(G[n].keys) <= o /\ Len(G[right].keys) <= o
    BY ONLY <1>5, <1>7, <1>16
  <2>2. \A m \in Addresses(H) : m # n => Len(G[m].keys) <= o
    BY ONLY <1>4, <1>10, <1>12, <1>14
  <2> QED BY ONLY <1>12, <1>15, <2>1, <2>2
<1>27. Half(o, G, rt, n, sep, right, h2, reg2, seen2, c, pos)
  BY ONLY <1>21, <1>23, <1>25, <1>26 DEF Half
<1> QED BY ONLY <1>25, <1>27 DEF Divides

(* A turn of the split loop for an inner node preserves the invariant and   *)
(* every entry.                                                             *)
LEMMA SplitInnerStep ==
  ASSUME TreeInv, SplitInner
  PROVE  TreeInv' /\ Stored' = Stored
<1>1. cur # Nil /\ ~ nodes[cur].leaf /\ order' = order
  BY DEF SplitInner
<1>2. /\ order \in Orders /\ order \in Nat /\ order >= 2 /\ root # Nil
      /\ nodes \in Seq(NodeRecs) /\ Len(nodes) \in Nat /\ cur \in Addresses(nodes)
      /\ nodes[cur] \in NodeRecs /\ Sizes(order, nodes, cur) /\ Stored = Entries(nodes)
      /\ \E h, reg, c, pos : Shaped(nodes, root, h, reg, c, pos)
  BY <1>1, TurnBegins
<1>3. PICK h, reg, c, pos : Shaped(nodes, root, h, reg, c, pos)
  BY <1>2
<1> DEFINE n == cur
           K == nodes[n].keys
           C == nodes[n].ch
           mid == Len(K) \div 2
           right == Len(nodes) + 1
           k1 == SubSeq(K, 1, mid)
           c1 == SubSeq(C, 1, mid + 1)
           k2 == SubSeq(K, mid + 2, Len(K))
           c2 == SubSeq(C, mid + 2, Len(K) + 1)
           e == InnerNode(Nil, k2, c2)
           sep == K[mid + 1]
           F == InnerHeap(nodes, n, k1, c1, e)
           G == Reparented(F, n, right)
<1>4. Promote(G, n, sep, right)
  BY DEF SplitInner, InnerHeap
<1>5. K = nodes[n].keys /\ C = nodes[n].ch /\ mid = Len(K) \div 2 /\ right = Len(nodes) + 1 /\ n = cur
  OBVIOUS
<1>7. e = InnerNode(Nil, k2, c2) /\ sep = K[mid + 1] /\ F = InnerHeap(nodes, n, k1, c1, e)
      /\ G = Reparented(F, n, right)
  OBVIOUS
<1>8. k1 = SubSeq(K, 1, mid) /\ c1 = SubSeq(C, 1, mid + 1)
      /\ k2 = SubSeq(K, mid + 2, Len(K)) /\ c2 = SubSeq(C, mid + 2, Len(K) + 1)
  OBVIOUS
<1>9. K \in Seq(Keys) /\ C \in Seq(Nat) /\ Len(C) = Len(K) + 1 /\ Len(K) \in Nat
  <2>1. NodeInv(nodes[n])
    BY <1>2, <1>3 DEF Shaped, Sound, Tree
  <2> QED BY <1>1, <1>2, <2>1, Fields DEF NodeInv
<1> HIDE DEF e, sep, F, G, n, K, C, mid, right, k1, c1, k2, c2
<1>10. mid \in Nat /\ mid + 1 < Len(K)
  <2>1. Len(K) = order + 1
    BY <1>2, <1>5 DEF Sizes, Addresses, Nil
  <2>2. mid = (order + 1) \div 2
    BY ONLY <1>5, <2>1
  <2> QED BY ONLY <1>2, <2>1, <2>2, Middle
<1>11. Cleft(K, C, mid, k1, c1, k2, c2)
  BY ONLY <1>8, <1>9, <1>10, InnerParts
<1>12. k1 \in Seq(Keys) /\ c1 \in Seq(Nat) /\ k2 \in Seq(Keys) /\ c2 \in Seq(Nat)
  BY ONLY <1>11 DEF Cleft
<1>13. e \in NodeRecs
  BY ONLY <1>7, <1>12 DEF InnerNode, NodeRecs, Nil
<1>14. InnerHalves(nodes, F, n, k1, c1, right, e)
  BY ONLY <1>2, <1>5, <1>7, <1>12, <1>13, InnerHeapIs
<1>15. Rehung(F, G, n, right)
  <2>1. F \in Seq(NodeRecs) /\ n \in Addresses(F) /\ right \in Addresses(F)
    BY ONLY <1>2, <1>5, <1>14 DEF InnerHalves, Addresses
  <2> QED BY ONLY <1>7, <2>1, ReparentedIs
<1>16. Divides(order, nodes, G, root, n, sep, right)
  <2>1. n \in Addresses(nodes) /\ ~ nodes[n].leaf /\ Sizes(order, nodes, n)
    BY ONLY <1>1, <1>2, <1>5
  <2> QED BY ONLY <1>2, <1>3, <1>5, <1>7, <1>11, <1>14, <1>15, <2>1, InnerDivided
<1>17. Whole(order, nodes, nodes', root', cur')
  BY ONLY <1>2, <1>4, <1>16, Healed
<1> QED BY <1>1, <1>2, <1>17, TurnEnds

(* Every step preserves the invariant.                                      *)
LEMMA NextTree ==
  ASSUME TreeInv, [BPlusTreeNext]_vars
  PROVE  TreeInv'
<1>1. ASSUME NEW k \in Keys, NEW r \in Rids, Insert(k, r) PROVE TreeInv'
  BY <1>1, InsertStep
<1>2. ASSUME NEW k \in Keys, NEW r \in Rids, Erase(k, r) PROVE TreeInv'
  BY <1>2, EraseStep
<1>3. CASE SplitLeaf
  BY <1>3, SplitLeafStep
<1>4. CASE SplitInner
  BY <1>4, SplitInnerStep
<1>5. CASE Clear
  BY <1>5, ClearStep
<1>6. CASE UNCHANGED vars
  BY <1>6 DEF vars, TreeInv
<1> QED BY <1>1, <1>2, <1>3, <1>4, <1>5, <1>6 DEF BPlusTreeNext

(* TreeInv holds in every state, whatever the keys, the rows, the order of  *)
(* the tree and the number of nodes: after any calls, and between the turns *)
(* of the loop of insert_value, the heap is a search tree of one depth      *)
(* whose leaves are chained in order (btree.cpp:43-155).                    *)
THEOREM BPlusTreeCorrect == BPlusTreeSpec => []TreeInv
<1>1. BPlusTreeInit => TreeInv
  BY InitTree
<1>2. TreeInv /\ [BPlusTreeNext]_vars => TreeInv'
  BY NextTree
<1> QED BY <1>1, <1>2, PTL DEF BPlusTreeSpec

(* The shape of nodes, from the invariant.                                  *)
LEMMA TypeFollows ==
  ASSUME TreeInv
  PROVE  BTTypeOK
<1>1. /\ order \in Orders /\ order \in Nat /\ nodes \in Seq(NodeRecs) /\ Len(nodes) \in Nat
      /\ root \in 0 .. Len(nodes) /\ cur \in 0 .. Len(nodes)
      /\ (root = Nil <=> nodes = <<>>) /\ Sizes(order, nodes, cur)
  BY BPlusTreeAssumption DEF TreeInv, Good
<1>2. DOMAIN nodes = Addresses(nodes)
  BY <1>1 DEF Addresses
<1>3. ASSUME NEW n \in Addresses(nodes)
      PROVE  Len(nodes[n].keys) <= order + (IF n = cur THEN 1 ELSE 0)
  <2>1. Len(nodes[n].keys) <= IF n = cur THEN order + 1 ELSE order
    BY <1>1, <1>3 DEF Sizes
  <2>2. CASE n = cur
    BY <2>1, <2>2
  <2>3. CASE n # cur
    <3>1. Len(nodes[n].keys) <= order
      BY <2>1, <2>3
    <3>2. order + (IF n = cur THEN 1 ELSE 0) = order
      BY <1>1, <2>3
    <3> QED BY <3>1, <3>2
  <2> QED BY <2>2, <2>3
<1>4. ASSUME NEW n \in Addresses(nodes)
      PROVE  NodeOK(nodes[n])
  <2>1. root # Nil
    BY <1>1, <1>4 DEF Addresses
  <2>2. PICK h, reg, c, pos : Shaped(nodes, root, h, reg, c, pos)
    BY <2>1, Picture
  <2> DEFINE none == {}
  <2>3. Tree(nodes, root, h, reg, reg, none) /\ Order(nodes, reg, c, pos)
    BY <2>2 DEF Shaped, Sound
  <2>4. none \subseteq {}
    OBVIOUS
  <2> HIDE DEF none
  <2>5. NodeInv(nodes[n]) /\ root \in Addresses(nodes)
    BY <1>4, <2>3 DEF Tree
  <2> DEFINE e == nodes[n]
  <2>6. /\ e.leaf \in BOOLEAN /\ e.parent \in Nat /\ e.next \in Nat
        /\ e.keys \in Seq(Keys) /\ e.rows \in Seq(Rids) /\ e.ch \in Seq(Nat)
    BY <2>5, Fields DEF NodeInv
  <2>7. e.parent \in 0 .. Len(nodes)
    <3>1. CASE n = root
      <4>1. e.parent = Nil
        BY <2>3, <3>1 DEF Tree
      <4> QED BY <1>1, <4>1 DEF Nil
    <3>2. CASE n # root
      <4>1. ParentInv(nodes, n)
        BY <1>4, <2>3, <2>4, <3>2 DEF Tree
      <4>2. e.parent \in Addresses(nodes)
        BY <4>1 DEF ParentInv
      <4> QED BY <1>1, <4>2 DEF Addresses
    <3> QED BY <3>1, <3>2
  <2>8. e.next \in 0 .. Len(nodes)
    <3>1. CASE ~ e.leaf
      BY <1>1, <2>5, <3>1 DEF NodeInv, Nil
    <3>2. CASE e.leaf
      <4>1. n \in LeavesOf(nodes)
        BY <1>4, <3>2 DEF LeavesOf
      <4> DEFINE i == pos[n]
      <4>2. i \in 1 .. Len(c) /\ c[i] = n /\ c \in Seq(Nat)
        BY <2>3, <4>1 DEF Order
      <4> HIDE DEF i
      <4>3. e.next = IF i = Len(c) THEN Nil ELSE c[i + 1]
        BY <2>3, <4>2 DEF Order
      <4>4. CASE i = Len(c)
        BY <1>1, <4>3, <4>4 DEF Nil
      <4>5. CASE i # Len(c)
        <5>1. i + 1 \in 1 .. Len(c)
          BY <4>2, <4>5
        <5>2. c[i + 1] \in LeavesOf(nodes)
          BY <2>3, <5>1 DEF Order
        <5> QED BY <1>1, <4>3, <4>5, <5>2 DEF LeavesOf, Addresses
      <4> QED BY <4>4, <4>5
    <3> QED BY <3>1, <3>2
  <2>9. Range(e.keys) \subseteq Keys /\ Range(e.rows) \subseteq Rids
    BY <2>6 DEF Range
  <2>10. Range(e.ch) \subseteq DOMAIN nodes
    <3>1. CASE e.leaf
      BY <2>5, <3>1 DEF NodeInv, Range
    <3>2. CASE ~ e.leaf
      <4>1. \A p \in 1 .. Len(e.ch) : ChildInv(nodes, n, p, h, reg, reg)
        BY <1>4, <2>3, <3>2 DEF Tree
      <4>2. \A p \in 1 .. Len(e.ch) : e.ch[p] \in Addresses(nodes)
        BY <4>1 DEF ChildInv
      <4>3. DOMAIN e.ch = 1 .. Len(e.ch)
        BY <2>6
      <4> QED BY <1>2, <4>2, <4>3 DEF Range
    <3> QED BY <3>1, <3>2
  <2>11. IF e.leaf THEN Len(e.rows) = Len(e.keys) /\ e.ch = <<>>
         ELSE Len(e.ch) = Len(e.keys) + 1 /\ e.keys # <<>> /\ e.rows = <<>>
    BY <2>5 DEF NodeInv
  <2> HIDE DEF e
  <2>12. NodeOK(e)
    BY <2>6, <2>7, <2>8, <2>9, <2>10, <2>11 DEF NodeOK
  <2> QED BY <2>12 DEF e
<1> QED BY <1>1, <1>2, <1>3, <1>4 DEF BTTypeOK

(* Every node has the shape its kind calls for, and none holds more than    *)
(* order keys but the one the loop of insert_value still has to split       *)
(* (btree.cpp:71-72).                                                       *)
THEOREM BPlusTreeTyping == BPlusTreeSpec => []BTTypeOK
<1>1. TreeInv => BTTypeOK
  BY TypeFollows
<1> QED BY <1>1, BPlusTreeCorrect, PTL

(* A stored key lies in the region of its leaf, and descents end in the     *)
(* leaf of that region.                                                     *)
LEMMA DescentFollows ==
  ASSUME TreeInv
  PROVE  DescentFindsLeaf
<1> SUFFICES ASSUME NEW n \in Leaves, NEW k \in Range(nodes[n].keys)
             PROVE  find_leaf(k) = n
  BY DEF DescentFindsLeaf
<1>1. nodes \in Seq(NodeRecs) /\ Leaves = LeavesOf(nodes)
  <2>1. nodes \in Seq(NodeRecs)
    BY DEF TreeInv, Good
  <2> QED BY <2>1, StoredIs
<1>2. n \in Addresses(nodes) /\ nodes[n].leaf /\ nodes[n] \in NodeRecs
  BY <1>1 DEF LeavesOf, Addresses
<1>3. root # Nil
  <2>1. nodes # <<>>
    BY <1>2 DEF Addresses
  <2> QED BY <2>1 DEF TreeInv, Good
<1>4. PICK h, reg, c, pos : Shaped(nodes, root, h, reg, c, pos)
  BY <1>3, Picture
<1>5. Sound(nodes, root, h, reg)
  BY <1>4 DEF Shaped
<1>6. RegionInv(nodes[n], reg[n])
  BY <1>2, <1>5 DEF Sound, Tree
<1>7. PICK i \in 1 .. Len(nodes[n].keys) : nodes[n].keys[i] = k
  <2>1. DOMAIN nodes[n].keys = 1 .. Len(nodes[n].keys)
    <3>1. nodes[n].keys \in Seq(Keys)
      BY <1>2, Fields
    <3> QED BY <3>1
  <2> QED BY <2>1 DEF Range
<1>8. k \in reg[n]
  BY <1>6, <1>7 DEF RegionInv
<1> QED BY <1>5, <1>8, LeafUnique

(* find_leaf of a stored key ends in the leaf that stores it, although      *)
(* erase leaves stale separators behind (btree.cpp:33-41).                  *)
THEOREM DescentCorrect == BPlusTreeSpec => []DescentFindsLeaf
<1>1. TreeInv => DescentFindsLeaf
  BY DescentFollows
<1> QED BY <1>1, BPlusTreeCorrect, PTL

(* Every step is a step of the set of entries, or a stutter.                *)
LEMMA NextIndex ==
  ASSUME TreeInv, [BPlusTreeNext]_vars
  PROVE  [EI!EntryIndexNext]_<<Stored, call>>
<1> USE DEF EI!EntryIndexNext
<1>1. ASSUME NEW k \in Keys, NEW r \in Rids, Insert(k, r) PROVE EI!EntryIndexNext
  <2>1. Stored' = Stored \cup {<<k, r>>}
    BY <1>1, InsertStep
  <2>2. EI!Put(k, r)
    BY <1>1, <2>1 DEF Insert, EI!Put
  <2> QED BY <2>2
<1>2. ASSUME NEW k \in Keys, NEW r \in Rids, Erase(k, r) PROVE EI!EntryIndexNext
  <2>1. Stored' = Stored \ {<<k, r>>}
    BY <1>2, EraseStep
  <2>2. EI!Take(k, r)
    BY <1>2, <2>1 DEF Erase, EI!Take
  <2> QED BY <2>2
<1>3. CASE SplitLeaf
  <2>1. Stored' = Stored
    BY <1>3, SplitLeafStep
  <2>2. call' = call
    BY <1>3 DEF SplitLeaf
  <2> QED BY <2>1, <2>2
<1>4. CASE SplitInner
  <2>1. Stored' = Stored
    BY <1>4, SplitInnerStep
  <2>2. call' = call
    BY <1>4 DEF SplitInner
  <2> QED BY <2>1, <2>2
<1>5. CASE Clear
  <2>1. Stored' = {}
    BY <1>5, ClearStep
  <2>2. EI!Empty
    BY <1>5, <2>1 DEF Clear, EI!Empty
  <2> QED BY <2>2
<1>6. CASE UNCHANGED vars
  <2>1. nodes' = nodes /\ call' = call
    BY <1>6 DEF vars
  <2>2. Stored' = Stored
    BY <2>1 DEF Stored, Leaves, Pairs
  <2> QED BY <2>1, <2>2
<1> QED BY <1>1, <1>2, <1>3, <1>4, <1>5, <1>6 DEF BPlusTreeNext

(* The tree implements the set of entries EntryIndex: insert adds its       *)
(* entry, erase takes its own away, clear all, and a split adds, loses or   *)
(* changes none.                                                            *)
THEOREM TreeImplementsEntryIndex == BPlusTreeSpec => ImplementsEntryIndex
<1>1. BPlusTreeInit => EI!EntryIndexInit
  BY InitTree DEF BPlusTreeInit, EI!EntryIndexInit
<1>2. TreeInv /\ [BPlusTreeNext]_vars => [EI!EntryIndexNext]_<<Stored, call>>
  BY NextIndex
<1> QED
  BY <1>1, <1>2, BPlusTreeCorrect, PTL
     DEF BPlusTreeSpec, ImplementsEntryIndex, EI!EntryIndexSpec

(* A sequence without repetition has as many elements as positions.         *)
LEMMA DistinctCount ==
  ASSUME NEW s, NEW n \in Nat, DOMAIN s = 1 .. n, \A i, j \in 1 .. n : s[i] = s[j] => i = j
  PROVE  Cardinality(Range(s)) = n
<1> DEFINE D == 1 .. n
<1>1. DOMAIN s = D /\ \A i, j \in D : s[i] = s[j] => i = j
  OBVIOUS
<1> HIDE DEF D
<1>2. ExistsBijection(D, Range(s))
  <2> DEFINE f == [i \in D |-> s[i]]
  <2>1. f \in [D -> Range(s)]
    BY <1>1 DEF Range
  <2>2. \A i, j \in D : f[i] = f[j] => i = j
    BY <1>1
  <2>3. \A y \in Range(s) : \E i \in D : f[i] = y
    BY <1>1 DEF Range
  <2> HIDE DEF f
  <2>4. f \in Injection(D, Range(s))
    BY <2>1, <2>2 DEF Injection, IsInjective
  <2>5. f \in Surjection(D, Range(s))
    BY <2>1, <2>3 DEF Surjection
  <2> QED BY <2>4, <2>5 DEF ExistsBijection, Bijection
<1>3. ExistsBijection(1 .. n, Range(s))
  BY <1>2 DEF D
<1> QED BY <1>3, FS_CountingElements

(* Depths: as far below the root as the heights differ.                     *)
Rises(D, up, h, top) ==
  /\ top \in Nat
  /\ \A n \in D : h[n] \in 0 .. top /\ (up[n] = Nil <=> h[n] = top)
  /\ \A n \in D : h[n] # top => up[n] \in D /\ h[up[n]] = h[n] + 1

Climbs(f, D, up) == f = [n \in D |-> IF up[n] = Nil THEN 0 ELSE f[up[n]] + 1]

(* Nodes of one height lie equally deep.                                    *)
LEMMA DepthIs ==
  ASSUME NEW top, NEW D, NEW up, NEW h, Rises(D, up, h, top), NEW f, Climbs(f, D, up), NEW n \in D
  PROVE  f[n] = top - h[n]
<1>0. /\ top \in Nat
      /\ \A m \in D : h[m] \in 0 .. top /\ (up[m] = Nil <=> h[m] = top)
      /\ \A m \in D : h[m] # top => up[m] \in D /\ h[up[m]] = h[m] + 1
      /\ \A m \in D : f[m] = IF up[m] = Nil THEN 0 ELSE f[up[m]] + 1
  BY DEF Rises, Climbs
<1> DEFINE S == {d \in 0 .. top : \A m \in D : h[m] = top - d => f[m] = d}
<1>1. 0 \in S
  <2>1. ASSUME NEW m \in D, h[m] = top - 0 PROVE f[m] = 0
    BY <1>0, <2>1
  <2>2. 0 \in 0 .. top
    BY <1>0
  <2> QED BY <2>1, <2>2
<1>2. ASSUME NEW d \in 0 .. top - 1, d \in S PROVE d + 1 \in S
  <2>1. ASSUME NEW m \in D, h[m] = top - (d + 1) PROVE f[m] = d + 1
    <3>1. h[m] # top /\ up[m] # Nil
      BY <1>0, <2>1
    <3>2. up[m] \in D /\ h[up[m]] = h[m] + 1
      BY <1>0, <3>1
    <3>3. h[up[m]] = top - d
      BY <1>0, <2>1, <3>2
    <3>4. f[up[m]] = d
      BY <1>2, <3>2, <3>3
    <3>5. f[m] = f[up[m]] + 1
      BY <1>0, <3>1
    <3> QED BY <3>4, <3>5
  <2>2. d + 1 \in 0 .. top
    BY <1>0
  <2> QED BY <2>1, <2>2
<1>3. top - h[n] \in 0 .. top /\ top - (top - h[n]) = h[n]
  BY <1>0
<1>4. top - h[n] \in S
  <2> HIDE DEF S
  <2>1. 0 .. top \subseteq S
    BY <1>0, <1>1, <1>2, UpTo
  <2> QED BY <1>3, <2>1
<1> QED BY <1>3, <1>4

(* The pointers up and down, from the invariant.                            *)
LEMMA ShapeFollows ==
  ASSUME TreeInv
  PROVE  TreeShaped
<1> DEFINE D == DOMAIN nodes
           Step(f, n) == IF nodes[n].parent = Nil THEN 0 ELSE f[nodes[n].parent] + 1
           Fits(f) == f = [n \in D |-> Step(f, n)]
           f == CHOOSE f : Fits(f)
           Linked(n) == /\ nodes[n].parent = Nil <=> n = root
                        /\ \A i \in DOMAIN nodes[n].ch : nodes[nodes[n].ch[i]].parent = n
                        /\ Cardinality(Range(nodes[n].ch)) = Len(nodes[n].ch)
                        /\ n # root => n \in Range(nodes[nodes[n].parent].ch)
<1>1. nodes \in Seq(NodeRecs) /\ (root = Nil <=> nodes = <<>>)
  BY DEF TreeInv, Good
<1>2. D = Addresses(nodes) /\ Leaves = LeavesOf(nodes)
  <2>1. D = Addresses(nodes)
    BY <1>1 DEF Addresses
  <2> QED BY <1>1, <2>1, StoredIs
<1>3. CASE root = Nil
  <2>1. D = {} /\ Leaves = {}
    BY <1>1, <1>3 DEF Leaves
  <2> QED BY <2>1 DEF TreeShaped
<1>4. CASE root # Nil
  <2>1. PICK h, reg, c, pos : Shaped(nodes, root, h, reg, c, pos)
    BY <1>4, Picture
  <2> DEFINE none == {}
             top == h[root]
             up == [n \in D |-> nodes[n].parent]
             g == [n \in D |-> top - h[n]]
  <2>2. Tree(nodes, root, h, reg, reg, none)
    BY <2>1 DEF Shaped, Sound
  <2>3. none = {}
    OBVIOUS
  <2> HIDE DEF none
  <2>4. ASSUME NEW n \in D
        PROVE  /\ NodeInv(nodes[n]) /\ RegionInv(nodes[n], reg[n]) /\ HeightInv(nodes, n, root, h)
               /\ ~ nodes[n].leaf => \A p \in 1 .. Len(nodes[n].ch) : ChildInv(nodes, n, p, h, reg, reg)
               /\ n # root => ParentInv(nodes, n) /\ h[n] < h[root]
               /\ n = root => nodes[n].parent = Nil
    BY <1>2, <2>2, <2>3, <2>4 DEF Tree
  <2>5. root \in D /\ h[root] \in Nat
    <3>1. root \in D
      BY <1>2, <2>2 DEF Tree
    <3> QED BY <2>4, <3>1 DEF HeightInv
  <2>6. ASSUME NEW n \in D
        PROVE  /\ h[n] \in 0 .. top
               /\ nodes[n].parent = Nil <=> n = root
               /\ h[n] = top <=> n = root
    <3>1. h[n] \in Nat /\ h[n] <= h[root]
      BY <2>4, <2>6 DEF HeightInv
    <3>2. n # root => nodes[n].parent # Nil
      BY <1>2, <2>4, <2>6 DEF ParentInv, Addresses, Nil
    <3> QED BY <2>4, <2>5, <2>6, <3>1, <3>2
  <2>7. ASSUME NEW n \in D, n # root
        PROVE  /\ nodes[n].parent \in D /\ h[nodes[n].parent] = h[n] + 1
               /\ n \in Range(nodes[nodes[n].parent].ch)
    <3> DEFINE q == nodes[n].parent
    <3>1. q \in D /\ ~ nodes[q].leaf /\ \E p \in 1 .. Len(nodes[q].ch) : nodes[q].ch[p] = n
      BY <1>2, <2>4, <2>7 DEF ParentInv
    <3> HIDE DEF q
    <3>2. PICK p \in 1 .. Len(nodes[q].ch) : nodes[q].ch[p] = n
      BY <3>1
    <3>3. ChildInv(nodes, q, p, h, reg, reg)
      BY <2>4, <3>1
    <3>4. h[n] + 1 = h[q]
      BY <3>2, <3>3 DEF ChildInv
    <3>5. DOMAIN nodes[q].ch = 1 .. Len(nodes[q].ch)
      <4>1. nodes[q].ch \in Seq(Nat)
        BY <2>4, <3>1, Fields DEF NodeInv
      <4> QED BY <4>1
    <3>6. n \in Range(nodes[q].ch)
      BY <3>2, <3>5 DEF Range
    <3> QED BY <3>1, <3>4, <3>6 DEF q
  <2>8. ASSUME NEW n \in D PROVE Linked(n)
    <3> DEFINE s == nodes[n].ch
               N == Len(s)
    <3>1. DOMAIN s = 1 .. N /\ N \in Nat
      <4>1. s \in Seq(Nat)
        BY <2>4, <2>8, Fields DEF NodeInv
      <4> QED BY <4>1
    <3>2. nodes[n].leaf => N = 0
      BY <2>4, <2>8 DEF NodeInv
    <3>3. ASSUME NEW i \in 1 .. N
          PROVE  nodes[s[i]].parent = n
      <4>1. ChildInv(nodes, n, i, h, reg, reg)
        BY <2>4, <2>8, <3>2, <3>3
      <4> QED BY <4>1 DEF ChildInv
    <3>4. ASSUME NEW i \in 1 .. N, NEW j \in 1 .. N, s[i] = s[j]
          PROVE  i = j
      <4>1. ChildInv(nodes, n, i, h, reg, reg) /\ ChildInv(nodes, n, j, h, reg, reg)
        BY <2>4, <2>8, <3>2, <3>4
      <4>2. s[i] \in D /\ reg[s[i]] = Part(nodes[n].keys, reg[n], i)
            /\ reg[s[j]] = Part(nodes[n].keys, reg[n], j)
        BY <1>2, <4>1 DEF ChildInv
      <4>3. PICK x : x \in reg[s[i]]
        BY <2>4, <4>2 DEF RegionInv
      <4> QED BY <3>4, <4>2, <4>3 DEF Part
    <3> HIDE DEF s, N
    <3>5. Cardinality(Range(s)) = N
      BY <3>1, <3>4, DistinctCount
    <3> QED BY <2>6, <2>7, <2>8, <3>1, <3>3, <3>5 DEF s, N
  <2> HIDE DEF D
  <2>9. /\ \A n \in D : up[n] = nodes[n].parent
        /\ Rises(D, up, h, top)
    <3>1. \A n \in D : up[n] = nodes[n].parent
      OBVIOUS
    <3> HIDE DEF up
    <3> QED BY <2>5, <2>6, <2>7, <3>1 DEF Rises
  <2>10. Fits(g)
    <3>1. ASSUME NEW n \in D PROVE g[n] = Step(g, n)
      <4>1. CASE n = root
        BY <2>5, <2>6, <4>1
      <4>2. CASE n # root
        <5>1. nodes[n].parent # Nil /\ nodes[n].parent \in D /\ h[nodes[n].parent] = h[n] + 1
              /\ h[n] \in 0 .. top
          BY <2>6, <2>7, <4>2
        <5>2. g[nodes[n].parent] = top - (h[n] + 1) /\ g[n] = top - h[n]
          BY <5>1
        <5>3. Step(g, n) = top - (h[n] + 1) + 1
          BY <5>1, <5>2
        <5> HIDE DEF g, Step
        <5> QED BY <2>5, <5>1, <5>2, <5>3
      <4> QED BY <4>1, <4>2
    <3> HIDE DEF Step
    <3> QED BY <3>1
  <2>11. Fits(f)
    <3> HIDE DEF Fits, g
    <3> QED BY <2>10
  <2>12. Climbs(f, D, up)
    <3>1. \A n \in D : Step(f, n) = IF up[n] = Nil THEN 0 ELSE f[up[n]] + 1
      <4> HIDE DEF f, up
      <4> QED BY <2>9
    <3> HIDE DEF f, Step, up
    <3>2. [n \in D |-> Step(f, n)] = [n \in D |-> IF up[n] = Nil THEN 0 ELSE f[up[n]] + 1]
      BY <3>1
    <3> QED BY <2>11, <3>2 DEF Climbs
  <2>13. ASSUME NEW n \in D PROVE f[n] = top - h[n]
    <3> HIDE DEF f, up, top
    <3> QED BY <2>9, <2>12, <2>13, DepthIs
  <2>14. \A m, n \in Leaves : f[m] = f[n]
    <3>1. ASSUME NEW n \in Leaves PROVE n \in D /\ h[n] = 0
      <4>1. n \in D /\ nodes[n].leaf
        BY <1>2, <3>1 DEF LeavesOf
      <4> QED BY <2>4, <4>1 DEF HeightInv
    <3> HIDE DEF f
    <3> QED BY <2>13, <3>1
  <2>15. \A n \in D : Linked(n)
    BY <2>8
  <2> HIDE DEF Linked
  <2>16. TreeShaped <=> (\A n \in D : Linked(n)) /\ \A m, n \in Leaves : f[m] = f[n]
    BY DEF TreeShaped, Linked, D
  <2> QED BY <2>14, <2>15, <2>16
<1> QED BY <1>3, <1>4

(* Pointers up are the inverse of pointers down, every node but the root    *)
(* hangs below exactly one other, and all leaves are equally deep           *)
(* (btree.cpp:100-129: the children that move to a new node learn their     *)
(* parent).                                                                 *)
THEOREM TreeStaysShaped == BPlusTreeSpec => []TreeShaped
<1>1. TreeInv => TreeShaped
  BY ShapeFollows
<1> QED BY <1>1, BPlusTreeCorrect, PTL

-----------------------------------------------------------------------------
(* Sequences of entries in the order of their keys, one after the other.    *)
Rising(s) == \A i, j \in 1 .. Len(s) : i < j => s[i][1] < s[j][1]

Has(s, e) == \E i \in 1 .. Len(s) : s[i] = e

Precedes(s, t) == \A i \in 1 .. Len(s), j \in 1 .. Len(t) : s[i][1] < t[j][1]

Keyed(S) == \A e \in S : e[1] \in Int

(* Two rising sequences, the first before the second, make a rising one.    *)
LEMMA RisingConcat ==
  ASSUME NEW S, Keyed(S), NEW s \in Seq(S), NEW t \in Seq(S), Rising(s), Rising(t), Precedes(s, t)
  PROVE  /\ s \o t \in Seq(S) /\ Rising(s \o t)
         /\ \A e : Has(s \o t, e) <=> Has(s, e) \/ Has(t, e)
<1> DEFINE u == s \o t
           M == Len(s)
           N == Len(t)
<1>1. /\ u \in Seq(S) /\ Len(u) = M + N /\ M \in Nat /\ N \in Nat
      /\ \A i \in 1 .. M + N : u[i] = IF i <= M THEN s[i] ELSE t[i - M]
      /\ \A i \in 1 .. M : s[i] \in S
      /\ \A i \in 1 .. N : t[i] \in S
  BY ConcatProperties
<1>2. /\ \A i \in 1 .. M : s[i][1] \in Int
      /\ \A i \in 1 .. N : t[i][1] \in Int
      /\ \A i, j \in 1 .. M : i < j => s[i][1] < s[j][1]
      /\ \A i, j \in 1 .. N : i < j => t[i][1] < t[j][1]
      /\ \A i \in 1 .. M, j \in 1 .. N : s[i][1] < t[j][1]
  BY <1>1 DEF Keyed, Rising, Precedes
<1> HIDE DEF u, M, N
<1>3. ASSUME NEW i \in 1 .. Len(u), NEW j \in 1 .. Len(u), i < j PROVE u[i][1] < u[j][1]
  <2>1. CASE j <= M
    <3>1. i \in 1 .. M /\ j \in 1 .. M /\ i <= M /\ i \in 1 .. M + N /\ j \in 1 .. M + N
      BY <1>1, <1>3, <2>1
    <3> QED BY <1>1, <1>2, <1>3, <2>1, <3>1
  <2>2. CASE ~ (i <= M)
    <3>1. i - M \in 1 .. N /\ j - M \in 1 .. N /\ ~ (j <= M) /\ i - M < j - M
          /\ i \in 1 .. M + N /\ j \in 1 .. M + N
      BY <1>1, <1>3, <2>2
    <3>2. u[i] = t[i - M] /\ u[j] = t[j - M]
      BY <1>1, <2>2, <3>1
    <3> QED BY <1>2, <3>1, <3>2
  <2>3. CASE i <= M /\ ~ (j <= M)
    <3>1. i \in 1 .. M /\ j - M \in 1 .. N /\ i \in 1 .. M + N /\ j \in 1 .. M + N
      BY <1>1, <1>3, <2>3
    <3>2. u[i] = s[i] /\ u[j] = t[j - M]
      BY <1>1, <2>3, <3>1
    <3> QED BY <1>2, <3>1, <3>2
  <2> QED BY <2>1, <2>2, <2>3
<1>4. ASSUME NEW e PROVE Has(u, e) <=> Has(s, e) \/ Has(t, e)
  <2>1. Has(u, e) => Has(s, e) \/ Has(t, e)
    <3> SUFFICES ASSUME NEW i \in 1 .. Len(u), u[i] = e PROVE Has(s, e) \/ Has(t, e)
      BY DEF Has
    <3>1. i \in 1 .. M + N /\ (i <= M => i \in 1 .. M) /\ (~ (i <= M) => i - M \in 1 .. N)
      BY <1>1
    <3> QED BY <1>1, <3>1 DEF Has, M, N
  <2>2. ASSUME NEW i \in 1 .. M, s[i] = e PROVE Has(u, e)
    <3>1. i \in 1 .. M + N /\ i <= M
      BY <1>1
    <3>2. u[i] = e
      BY <1>1, <2>2, <3>1
    <3> QED BY <1>1, <3>1, <3>2 DEF Has
  <2>3. ASSUME NEW i \in 1 .. N, t[i] = e PROVE Has(u, e)
    <3> DEFINE j == i + M
    <3>1. j \in 1 .. M + N /\ ~ (j <= M) /\ j - M = i
      BY <1>1
    <3> HIDE DEF j
    <3>2. u[j] = e
      BY <1>1, <2>3, <3>1
    <3> QED BY <1>1, <3>1, <3>2 DEF Has
  <2> QED BY <2>1, <2>2, <2>3 DEF Has, M, N
<1>5. Rising(u)
  BY <1>3 DEF Rising
<1> QED BY <1>1, <1>4, <1>5 DEF u

Stacked(S, ss) ==
  /\ Keyed(S) /\ ss \in Seq(Seq(S)) /\ Len(ss) \in Nat \ {0}
  /\ \A i \in 1 .. Len(ss) : Rising(ss[i])
  /\ \A i, j \in 1 .. Len(ss) : i < j => Precedes(ss[i], ss[j])

Flattens(F, ss) == F = [i \in 1 .. Len(ss) |-> IF i = 1 THEN ss[i] ELSE F[i - 1] \o ss[i]]

Piled(t, S, ss, n) ==
  /\ t \in Seq(S) /\ Rising(t)
  /\ \A e : Has(t, e) <=> \E i \in 1 .. n : Has(ss[i], e)

(* The first of them ...                                                    *)
LEMMA PiledOne ==
  ASSUME NEW S, NEW ss, Stacked(S, ss)
  PROVE  Piled(ss[1], S, ss, 1)
<1>1. ss[1] \in Seq(S) /\ Rising(ss[1])
  BY DEF Stacked
<1>2. \A i \in 1 .. 1 : i = 1
  OBVIOUS
<1>3. 1 \in 1 .. 1
  OBVIOUS
<1> QED BY <1>1, <1>2, <1>3 DEF Piled

(* ... and one more.                                                        *)
LEMMA PiledNext ==
  ASSUME NEW S, NEW ss, Stacked(S, ss), NEW n \in 1 .. Len(ss), n + 1 \in 1 .. Len(ss),
         NEW t, Piled(t, S, ss, n)
  PROVE  Piled(t \o ss[n + 1], S, ss, n + 1)
<1> DEFINE m == n + 1
           s == ss[m]
<1>1. t \in Seq(S) /\ s \in Seq(S) /\ Rising(t) /\ Rising(s) /\ Keyed(S)
  BY DEF Stacked, Piled
<1>2. Precedes(t, s)
  <2> SUFFICES ASSUME NEW p \in 1 .. Len(t), NEW q \in 1 .. Len(s)
               PROVE  t[p][1] < s[q][1]
    BY DEF Precedes
  <2>1. PICK i \in 1 .. n : Has(ss[i], t[p])
    BY DEF Has, Piled
  <2>2. PICK j \in 1 .. Len(ss[i]) : ss[i][j] = t[p]
    BY <2>1 DEF Has
  <2>3. i \in 1 .. Len(ss) /\ i < m
    BY DEF Stacked
  <2>4. Precedes(ss[i], s)
    BY <2>3 DEF Stacked
  <2> QED BY <2>2, <2>4 DEF Precedes
<1> HIDE DEF s
<1>3. /\ t \o s \in Seq(S) /\ Rising(t \o s)
      /\ \A e : Has(t \o s, e) <=> Has(t, e) \/ Has(s, e)
  BY <1>1, <1>2, RisingConcat
<1>4. \A i : i \in 1 .. m <=> i \in 1 .. n \/ i = m
  BY DEF Stacked
<1> HIDE DEF m
<1>5. ASSUME NEW e PROVE Has(t \o s, e) <=> \E i \in 1 .. m : Has(ss[i], e)
  <2>1. Has(t, e) <=> \E i \in 1 .. n : Has(ss[i], e)
    BY DEF Piled
  <2> QED BY <1>3, <1>4, <2>1 DEF s
<1>6. Piled(t \o s, S, ss, m)
  BY <1>3, <1>5 DEF Piled
<1> QED BY <1>6 DEF s, m

(* Rising sequences one after the other, concatenated by FlattenSeq, rise,  *)
(* and no element is lost or added.                                         *)
LEMMA FlattenIs ==
  ASSUME NEW S, NEW ss, Stacked(S, ss)
  PROVE  Piled(FlattenSeq(ss), S, ss, Len(ss))
<1> DEFINE N == Len(ss)
           D == 1 .. N
           Step(f, i) == IF i = 1 THEN ss[i] ELSE f[i - 1] \o ss[i]
           Fits(f) == f = [i \in 1 .. Len(ss) |-> Step(f, i)]
           F == CHOOSE f : Fits(f)
<1>1. N \in Nat /\ N # 0 /\ N - 1 \in Nat /\ 1 + (N - 1) = N
  BY DEF Stacked
<1>2. FlattenSeq(ss) = F[N]
  BY <1>1 DEF FlattenSeq
<1> HIDE DEF N
<1>3. N = Len(ss)
  BY DEF N
<1>4. ASSUME NEW f, Fits(f), NEW k \in 1 .. N
      PROVE  Piled(f[k], S, ss, k)
  <2> DEFINE T == {d \in 0 .. N - 1 : Piled(f[d + 1], S, ss, d + 1)}
  <2>1. \A i \in 1 .. N : f[i] = Step(f, i)
    <3> HIDE DEF Step
    <3> QED BY <1>3, <1>4
  <2>2. 0 \in T
    <3>1. f[1] = ss[1]
      BY <1>1, <2>1
    <3>2. Piled(f[1], S, ss, 1)
      BY <3>1, PiledOne
    <3>3. 0 + 1 = 1 /\ 0 \in 0 .. N - 1
      BY <1>1
    <3> QED BY <3>2, <3>3
  <2>3. ASSUME NEW d \in 0 .. N - 2, d \in T PROVE d + 1 \in T
    <3> DEFINE n == d + 1
    <3>1. n \in 1 .. N /\ n + 1 \in 1 .. N /\ n \in 0 .. N - 1 /\ n + 1 # 1 /\ n + 1 - 1 = n
      BY <1>1
    <3>2. Piled(f[n], S, ss, n)
      BY <2>3
    <3>3. f[n + 1] = f[n] \o ss[n + 1]
      <4> DEFINE m == n + 1
      <4>1. m \in 1 .. N /\ m # 1 /\ m - 1 = n
        BY <3>1
      <4> HIDE DEF m, n
      <4>2. f[m] = Step(f, m)
        BY <2>1, <4>1
      <4>3. f[m] = f[n] \o ss[m]
        BY <4>1, <4>2
      <4> QED BY <4>3 DEF m
    <3> HIDE DEF n, Step
    <3>4. Piled(f[n] \o ss[n + 1], S, ss, n + 1)
      BY <1>3, <3>1, <3>2, PiledNext
    <3>5. n \in T
      BY <3>1, <3>3, <3>4
    <3> QED BY <3>5 DEF n
  <2>4. k - 1 \in T
    <3> DEFINE z == N - 1
    <3>1. z \in Nat /\ \A d \in 0 .. z - 1 : d \in T => d + 1 \in T
      <4>1. z - 1 = N - 2
        BY <1>1
      <4> QED BY <1>1, <2>3, <4>1
    <3>2. k - 1 \in 0 .. z
      BY <1>1
    <3> HIDE DEF z, T
    <3>3. 0 .. z \subseteq T
      BY <2>2, <3>1, UpTo
    <3> QED BY <3>2, <3>3
  <2>5. k - 1 + 1 = k
    OBVIOUS
  <2> QED BY <2>4, <2>5
<1>5. \E f : Fits(f)
  <2> DEFINE V == Seq(S)
             step == [i \in D |-> [v \in V |-> v \o ss[i]]]
             a == ss[1]
             d == N - 1
             one == 1
  <2>1. PICK f : Recurs(f, one, one + d, a, step)
    <3>1. one \in Int /\ d \in Nat
      BY <1>1
    <3> HIDE DEF step, a, d, one
    <3> QED BY <3>1, RecursionExists
  <2>2. \A i \in D : f[i] = IF i = 1 THEN a ELSE step[i][f[i - 1]]
    <3>1. one .. one + d = D /\ one = 1
      BY <1>1
    <3> HIDE DEF step, a, d, one, D
    <3> QED BY <2>1, <3>1 DEF Recurs
  <2>3. f = [i \in D |-> f[i]]
    <3>1. one .. one + d = D
      BY <1>1
    <3> HIDE DEF step, a, d, one, D
    <3> QED BY <2>1, <3>1 DEF Recurs
  <2>4. \A i \in D : ss[i] \in V
    BY <1>3 DEF Stacked
  <2>5. \A v, w \in V : v \o w \in V
    BY ConcatProperties
  <2>10. \A i \in D, v \in V : step[i][v] = v \o ss[i]
    <3> HIDE DEF D, V
    <3> QED OBVIOUS
  <2>6. ASSUME NEW i \in D PROVE f[i] \in V
    <3> DEFINE T == {j \in 0 .. d : f[j + 1] \in V}
    <3>1. 0 \in T
      <4>1. 1 \in D /\ 0 \in 0 .. d /\ 0 + 1 = 1
        BY <1>1
      <4> HIDE DEF V, d, step, D
      <4> QED BY <2>2, <2>4, <4>1
    <3>2. ASSUME NEW j \in 0 .. d - 1, j \in T PROVE j + 1 \in T
      <4> DEFINE n == j + 1
      <4>1. n \in 0 .. d /\ n + 1 \in D /\ n + 1 # 1 /\ n + 1 - 1 = n
        BY <1>1
      <4>2. f[n] \in V
        BY <3>2
      <4> HIDE DEF n
      <4>3. step[n + 1][f[n]] = f[n] \o ss[n + 1]
        <5> DEFINE m == n + 1
                   v == f[n]
        <5>1. m \in D /\ v \in V
          BY <4>1, <4>2
        <5> HIDE DEF m, D, step, V, v
        <5>2. step[m][v] = v \o ss[m]
          BY <2>10, <5>1
        <5> QED BY <5>2 DEF m, v
      <4>4. f[n + 1] = step[n + 1][f[n]]
        <5> HIDE DEF step, D
        <5> QED BY <2>2, <4>1
      <4>5. f[n + 1] \in V
        <5> DEFINE m == n + 1
        <5> HIDE DEF V, step, m, D
        <5> QED BY <2>4, <2>5, <4>1, <4>2, <4>3, <4>4 DEF m
      <4> HIDE DEF V
      <4>6. n \in T
        BY <4>1, <4>5
      <4> QED BY <4>6 DEF n
    <3>3. i - 1 \in 0 .. d /\ i - 1 + 1 = i /\ d \in Nat
      BY <1>1, <2>6
    <3> HIDE DEF T, d
    <3>4. 0 .. d \subseteq T
      BY <3>1, <3>2, <3>3, UpTo
    <3>5. i - 1 \in T
      BY <3>3, <3>4
    <3> QED BY <3>3, <3>5 DEF T
  <2>7. \A i \in D : f[i] = Step(f, i)
    <3> SUFFICES ASSUME NEW i \in D PROVE f[i] = Step(f, i)
      OBVIOUS
    <3>1. i # 1 => i - 1 \in D
      BY <1>1
    <3>2. i # 1 => step[i][f[i - 1]] = f[i - 1] \o ss[i]
      <4>1. i # 1 => f[i - 1] \in V
        <5> HIDE DEF V, step, D
        <5> QED BY <2>6, <3>1
      <4> HIDE DEF D
      <4> QED BY <4>1
    <3> HIDE DEF step, V, D
    <3> QED BY <2>2, <3>2
  <2> HIDE DEF Step, step
  <2>8. [i \in D |-> f[i]] = [i \in D |-> Step(f, i)]
    <3> HIDE DEF D
    <3> QED BY <2>7
  <2>9. Fits(f)
    BY <1>3, <2>3, <2>8
  <2> QED BY <2>9
<1>6. Fits(F)
  <2> HIDE DEF Fits
  <2> QED BY <1>5
<1>7. N \in 1 .. N
  BY <1>1
<1> HIDE DEF F, Fits
<1> QED BY <1>2, <1>3, <1>4, <1>6, <1>7

-----------------------------------------------------------------------------
(* The entries along the chain.                                             *)
Stock == Keys \X Rids

(* Entries have integer keys.                                               *)
LEMMA StockKeyed == Keyed(Stock) /\ \A e \in Stock : e[1] \in Keys /\ e[1] \in Int /\ e[2] \in Rids
BY BPlusTreeAssumption DEF Keyed, Stock

(* The pairs of a leaf rise.                                                *)
LEMMA PairsRise ==
  ASSUME nodes \in Seq(NodeRecs), NEW n \in Leaves, NodeInv(nodes[n]), NEW r, RegionInv(nodes[n], r)
  PROVE  /\ Pairs(n) \in Seq(Stock) /\ Rising(Pairs(n))
         /\ \A e : Has(Pairs(n), e) <=> e \in EntriesOf(nodes[n])
         /\ \A i \in 1 .. Len(Pairs(n)) : Pairs(n)[i][1] \in r
<1> DEFINE K == nodes[n].keys
           R == nodes[n].rows
           N == Len(K)
           s == Pairs(n)
<1>1. nodes[n] \in NodeRecs /\ nodes[n].leaf
  BY StoredIs DEF LeavesOf, Addresses
<1>2. K \in Seq(Keys) /\ K \in Seq(Int) /\ R \in Seq(Rids) /\ Len(R) = N /\ Ascends(K) /\ N \in Nat
      /\ \A i \in 1 .. N : K[i] \in r
  BY <1>1, Fields DEF NodeInv, RegionInv
<1>3. /\ Range(s) = EntriesOf(nodes[n]) /\ Len(s) = N
      /\ \A i \in 1 .. N : s[i] = <<K[i], R[i]>>
  BY PairsAre
<1>4. EntriesOf(nodes[n]) = {<<K[i], R[i]>> : i \in 1 .. N}
  BY DEF EntriesOf, EntryPairs
<1>5. s = [i \in 1 .. N |-> <<K[i], R[i]>>]
  <2>1. DOMAIN K = 1 .. N
    BY <1>2
  <2> QED BY <2>1 DEF Pairs
<1>10. \A i \in 1 .. N : K[i] \in Keys /\ R[i] \in Rids
  BY <1>2
<1> HIDE DEF s, K, R, N
<1>6. \A i \in 1 .. N : s[i] \in Stock /\ s[i][1] = K[i]
  <2> SUFFICES ASSUME NEW i \in 1 .. N PROVE s[i] \in Stock /\ s[i][1] = K[i]
    OBVIOUS
  <2> DEFINE a == K[i]
             b == R[i]
             t == s[i]
  <2>1. a \in Keys /\ b \in Rids /\ t = <<a, b>>
    BY <1>3, <1>10
  <2> HIDE DEF a, b, t
  <2>2. t \in Stock /\ t[1] = a
    BY <2>1 DEF Stock
  <2> QED BY <2>2 DEF t, a
<1>7. s \in Seq(Stock)
  BY <1>2, <1>5, <1>6
<1>8. Rising(s)
  BY <1>2, <1>3, <1>6 DEF Rising, Ascends, N
<1>9. ASSUME NEW e PROVE Has(s, e) <=> e \in EntriesOf(nodes[n])
  BY <1>3, <1>4 DEF Has
<1> QED BY <1>2, <1>3, <1>6, <1>7, <1>8, <1>9 DEF s

(* What a scan from a leaf sees: the entries of the leaves from there on,   *)
(* in the order of their keys.                                              *)
LEMMA AlongIs ==
  ASSUME NEW rt, NEW h, NEW reg, NEW c, NEW pos, Shaped(nodes, rt, h, reg, c, pos),
         NEW l \in Leaves
  PROVE  /\ Along(l) \in Seq(Stock) /\ Rising(Along(l))
         /\ \A e : Has(Along(l), e) <=>
              \E m \in Leaves : pos[l] <= pos[m] /\ e \in EntriesOf(nodes[m])
<1> DEFINE none == {}
<1>0. Tree(nodes, rt, h, reg, reg, none) /\ Order(nodes, reg, c, pos)
  BY DEF Shaped, Sound
<1>1. nodes \in Seq(NodeRecs)
      /\ \A n \in Addresses(nodes) : NodeInv(nodes[n]) /\ RegionInv(nodes[n], reg[n])
  <2> HIDE DEF none
  <2> QED BY <1>0 DEF Tree
<1>2. Leaves = LeavesOf(nodes) /\ \A n \in Leaves : n \in Addresses(nodes)
  BY <1>1, StoredIs DEF LeavesOf
<1> DEFINE i == pos[l]
           N == Len(c)
           z == N - i + 1
           w == SubSeq(c, i, N)
<1>3. /\ i \in 1 .. N /\ c[i] = l /\ c \in Seq(Nat) /\ N \in Nat
      /\ \A j \in 1 .. N : c[j] \in Leaves /\ pos[c[j]] = j
      /\ \A m \in Leaves : pos[m] \in 1 .. N /\ c[pos[m]] = m
      /\ \A j, k \in 1 .. N : j < k => \A x \in reg[c[j]], y \in reg[c[k]] : x < y
  BY <1>0, <1>2 DEF Order
<1> HIDE DEF i
<1>4. Chain(l) = w
  <2> DEFINE H == nodes
  <2>1. H \in Seq(NodeRecs) /\ H = nodes /\ Order(H, reg, c, pos) /\ \A n \in Addresses(H) : NodeInv(H[n])
    BY <1>0, <1>1
  <2> HIDE DEF H
  <2>2. Chain(c[i]) = SubSeq(c, i, Len(c))
    BY <1>3, <2>1, ChainIs
  <2> QED BY <1>3, <2>2
<1>5. w \in Seq(Nat) /\ Len(w) = z /\ z \in Nat /\ z # 0 /\ (\A j \in 1 .. z : w[j] = c[i + j - 1])
      /\ \A j \in 1 .. z : i + j - 1 \in 1 .. N
  <2>1. \A j \in i .. N : c[j] \in Nat
    BY <1>3
  <2>2. /\ SubSeq(c, i, N) \in Seq(Nat)
        /\ Len(SubSeq(c, i, N)) = N - i + 1
        /\ \A j \in 1 .. N - i + 1 : SubSeq(c, i, N)[j] = c[i + j - 1]
    BY <1>3, <2>1, SubSeqProperties
  <2> QED BY <1>3, <2>2
<1> DEFINE ss == [j \in 1 .. z |-> Pairs(w[j])]
<1>6. Along(l) = FlattenSeq(ss)
  <2>1. DOMAIN w = 1 .. z
    BY <1>5
  <2> HIDE DEF w, z
  <2> QED BY <1>4, <2>1 DEF Along
<1> HIDE DEF w, z, N
<1>7. ASSUME NEW j \in 1 .. z
      PROVE  /\ ss[j] \in Seq(Stock) /\ Rising(ss[j])
             /\ c[i + j - 1] \in Leaves
             /\ \A e : Has(ss[j], e) <=> e \in EntriesOf(nodes[c[i + j - 1]])
             /\ \A k \in 1 .. Len(ss[j]) : ss[j][k][1] \in reg[c[i + j - 1]]
  <2> DEFINE n == c[i + j - 1]
  <2>1. n \in Leaves /\ ss[j] = Pairs(n)
    BY <1>3, <1>5
  <2> HIDE DEF n, ss
  <2>2. NodeInv(nodes[n]) /\ RegionInv(nodes[n], reg[n])
    BY <1>1, <1>2, <2>1
  <2>3. /\ Pairs(n) \in Seq(Stock) /\ Rising(Pairs(n))
        /\ \A e : Has(Pairs(n), e) <=> e \in EntriesOf(nodes[n])
        /\ \A k \in 1 .. Len(Pairs(n)) : Pairs(n)[k][1] \in reg[n]
    BY <1>1, <2>1, <2>2, PairsRise
  <2> QED BY <2>1, <2>3 DEF n
<1>8. Len(ss) = z /\ ss \in Seq(Seq(Stock))
  <2> DEFINE Q == Seq(Stock)
  <2>1. \A j \in 1 .. z : Pairs(w[j]) \in Q
    BY <1>7
  <2>2. ss \in [1 .. z -> Q]
    <3> HIDE DEF Q
    <3> QED BY <2>1
  <2> HIDE DEF Q, ss
  <2>3. ss \in Seq(Q) /\ Len(ss) = z
    BY <1>5, <2>2
  <2> QED BY <2>3 DEF Q
<1> HIDE DEF ss
<1>9. ASSUME NEW j \in 1 .. z, NEW k \in 1 .. z, j < k
      PROVE  Precedes(ss[j], ss[k])
  <2> DEFINE m == i + j - 1
             n == i + k - 1
  <2>1. m \in 1 .. N /\ n \in 1 .. N /\ m < n
    <3>1. i \in Int /\ j \in Int /\ k \in Int
      BY <1>3, <1>5
    <3>2. m \in 1 .. N /\ n \in 1 .. N
      BY <1>5
    <3>3. m < n
      BY ONLY <1>9, <3>1
    <3> QED BY <3>2, <3>3
  <2>2. \A x \in reg[c[m]], y \in reg[c[n]] : x < y
    BY <1>3, <2>1
  <2>3. \A p \in 1 .. Len(ss[j]) : ss[j][p][1] \in reg[c[m]]
    BY <1>7
  <2>4. \A q \in 1 .. Len(ss[k]) : ss[k][q][1] \in reg[c[n]]
    BY <1>7
  <2> HIDE DEF m, n
  <2> QED BY <2>2, <2>3, <2>4 DEF Precedes
<1>10. Stacked(Stock, ss)
  BY <1>5, <1>7, <1>8, <1>9, StockKeyed DEF Stacked
<1>11. Piled(FlattenSeq(ss), Stock, ss, z)
  BY <1>8, <1>10, FlattenIs
<1>12. ASSUME NEW e
       PROVE  (\E j \in 1 .. z : Has(ss[j], e)) <=> \E m \in Leaves : i <= pos[m] /\ e \in EntriesOf(nodes[m])
  <2>1. ASSUME NEW j \in 1 .. z, Has(ss[j], e)
        PROVE  \E m \in Leaves : i <= pos[m] /\ e \in EntriesOf(nodes[m])
    <3> DEFINE k == i + j - 1
    <3>1. k \in 1 .. N /\ i <= k /\ c[k] \in Leaves /\ e \in EntriesOf(nodes[c[k]])
      <4>1. i \in Int /\ j \in Int /\ 1 <= j
        BY <1>3, <1>5
      <4>2. i <= k
        BY ONLY <4>1
      <4>3. k \in 1 .. N
        BY <1>5
      <4>4. c[k] \in Leaves /\ e \in EntriesOf(nodes[c[k]])
        BY <1>7, <2>1
      <4> QED BY <4>2, <4>3, <4>4
    <3> HIDE DEF k
    <3>2. pos[c[k]] = k
      BY <1>3, <3>1
    <3> QED BY <3>1, <3>2
  <2>2. ASSUME NEW m \in Leaves, i <= pos[m], e \in EntriesOf(nodes[m])
        PROVE  \E j \in 1 .. z : Has(ss[j], e)
    <3> DEFINE j == pos[m] - i + 1
    <3>1. pos[m] \in 1 .. N /\ c[pos[m]] = m
      BY <1>3
    <3>2. j \in 1 .. z /\ i + j - 1 = pos[m]
      <4> DEFINE p == pos[m]
      <4>1. p \in 1 .. N /\ i \in 1 .. N /\ N \in Nat /\ i <= p
        BY <1>3, <2>2, <3>1
      <4> HIDE DEF p
      <4>2. p - i + 1 \in 1 .. N - i + 1 /\ i + (p - i + 1) - 1 = p
        BY ONLY <4>1
      <4> QED BY <4>2 DEF p, z
    <3> HIDE DEF j
    <3>3. Has(ss[j], e)
      BY <1>7, <2>2, <3>1, <3>2
    <3> QED BY <3>2, <3>3
  <2> QED BY <2>1, <2>2
<1> QED BY <1>6, <1>11, <1>12 DEF Piled, i

-----------------------------------------------------------------------------
(* The leftmost pointers lead to the first leaf of the chain.               *)
LEMMA LeftmostIs ==
  ASSUME NEW h, NEW reg, NEW c, NEW pos, Shaped(nodes, root, h, reg, c, pos)
  PROVE  LET leftmost[n \in DOMAIN nodes] ==
               IF nodes[n].leaf THEN n ELSE leftmost[nodes[n].ch[1]]
         IN  leftmost[root] \in Leaves /\ pos[leftmost[root]] = 1
<1> DEFINE D == Addresses(nodes)
           via == [n \in D |-> nodes[n].ch[1]]
           Step(f, n) == IF nodes[n].leaf THEN n ELSE f[nodes[n].ch[1]]
           Fits(f) == f = [n \in DOMAIN nodes |-> Step(f, n)]
           Down(r) == \A x \in r, y \in Int : y < x => y \in r
           K == {n \in D : Down(reg[n])}
           none == {}
           top == h[root]
<1>0. Tree(nodes, root, h, reg, reg, none) /\ Order(nodes, reg, c, pos)
  BY DEF Shaped, Sound
<1> HIDE DEF none
<1>1. /\ nodes \in Seq(NodeRecs) /\ DOMAIN nodes = D /\ root \in D /\ Leaves = {n \in D : nodes[n].leaf}
      /\ Leaves = LeavesOf(nodes)
  <2>1. nodes \in Seq(NodeRecs)
    BY <1>0 DEF Tree
  <2>2. DOMAIN nodes = D
    BY <2>1 DEF Addresses
  <2> QED BY <1>0, <2>1, <2>2, StoredIs DEF Tree, Leaves
<1>2. h[root] \in Nat /\ \A n \in D : h[n] \in 0 .. h[root]
  <2>1. \A n \in D : h[n] \in Nat /\ h[n] <= h[root]
    BY <1>0 DEF Tree, HeightInv
  <2> QED BY <1>1, <2>1
<1>3. ASSUME NEW n \in D \ Leaves
      PROVE  /\ via[n] \in D /\ h[via[n]] < h[n]
             /\ Down(reg[n]) => Down(reg[via[n]])
  <2>1. ~ nodes[n].leaf /\ n \in D
    BY <1>1
  <2> DEFINE q == nodes[n].ch[1]
             ks == nodes[n].keys
  <2>2. ks \in Seq(Int) /\ Len(ks) \in Nat /\ Ascends(ks) /\ Len(nodes[n].ch) = Len(ks) + 1
        /\ reg[n] \in SUBSET Int
    <3>1. NodeInv(nodes[n]) /\ RegionInv(nodes[n], reg[n])
      BY <1>0, <2>1 DEF Tree
    <3> QED BY <2>1, <3>1, Fields DEF NodeInv, RegionInv
  <2>3. 1 \in 1 .. Len(nodes[n].ch)
    BY <2>2
  <2>4. ChildInv(nodes, n, 1, h, reg, reg)
    BY <1>0, <2>1, <2>3 DEF Tree
  <2>5. q \in D /\ h[q] + 1 = h[n] /\ reg[q] = Part(ks, reg[n], 1)
    BY <2>4 DEF ChildInv
  <2>6. h[q] \in Nat
    BY <1>2, <2>5
  <2>7. via[n] = q
    OBVIOUS
  <2> HIDE DEF q, ks, via
  <2>8. ASSUME Down(reg[n]) PROVE Down(reg[q])
    <3> SUFFICES ASSUME NEW x \in reg[q], NEW y \in Int, y < x
                 PROVE  y \in reg[q]
      OBVIOUS
    <3>1. x \in reg[n] /\ ChildPos(ks, x) = 1 /\ x \in Int
      BY <2>2, <2>5 DEF Part
    <3>2. y \in reg[n]
      BY <2>8, <3>1
    <3>3. Between(ks, x, 1)
      BY <2>2, <3>1, ChildPosFacts
    <3>4. Between(ks, y, 1)
      <4> SUFFICES ASSUME 1 <= Len(ks) PROVE y < ks[1]
        BY DEF Between
      <4>1. x < ks[1] /\ ks[1] \in Int
        BY <2>2, <3>3 DEF Between
      <4> QED BY <3>1, <4>1
    <3>5. ChildPos(ks, y) = 1
      <4>1. 1 \in 1 .. Len(ks) + 1
        BY <2>2
      <4> QED BY <2>2, <3>4, <4>1, ChildPosIs
    <3> QED BY <2>5, <3>2, <3>5 DEF Part
  <2> HIDE DEF Down
  <2> QED BY <2>5, <2>6, <2>7, <2>8, <1>2, <2>1
<1>4. ASSUME NEW f PROVE Fits(f) <=> Descends(f, D, Leaves, via)
  <2>1. \A n \in D : Step(f, n) = IF n \in Leaves THEN n ELSE f[via[n]]
    BY <1>1
  <2> HIDE DEF Step, D, via
  <2>2. [n \in DOMAIN nodes |-> Step(f, n)] = [n \in D |-> IF n \in Leaves THEN n ELSE f[via[n]]]
    BY <1>1, <2>1
  <2> QED BY <2>2 DEF Descends
<1>5. Falls(D, Leaves, via, h, top)
  <2> HIDE DEF via, D, Down
  <2> QED BY <1>2, <1>3 DEF Falls
<1> DEFINE f == CHOOSE f : Fits(f)
<1>6. Descends(f, D, Leaves, via)
  <2> HIDE DEF Step, via, D, top, Fits
  <2>1. \E g : Descends(g, D, Leaves, via)
    BY <1>5, DescentExists
  <2>2. \E g : Fits(g)
    BY <1>4, <2>1
  <2>3. Fits(f)
    BY <2>2
  <2> HIDE DEF f
  <2> QED BY <1>4, <2>3
<1>7. root \in K
  <2>1. reg[root] = Int
    BY <1>0 DEF Tree
  <2> QED BY <1>1, <2>1
<1>8. f[root] \in K \cap Leaves
  <2>1. K \in SUBSET D /\ \A n \in K \ Leaves : via[n] \in K
    <3> HIDE DEF D, via, Down
    <3> QED BY <1>3
  <2> HIDE DEF f, via, D, K, top
  <2> QED BY <1>5, <1>6, <1>7, <2>1, DescentStays
<1> DEFINE l == f[root]
<1>9. l \in Leaves /\ l \in D /\ Down(reg[l])
  <2> HIDE DEF f, Down
  <2> QED BY <1>8
<1> HIDE DEF f, Down, D
<1>10. pos[l] = 1
  <2> DEFINE N == Len(c)
             i == pos[l]
  <2>11. /\ c \in Seq(Nat)
         /\ \A j \in 1 .. N : c[j] \in LeavesOf(nodes)
         /\ \A n \in LeavesOf(nodes) : pos[n] \in 1 .. N /\ c[pos[n]] = n
         /\ \A j, k \in 1 .. N : j < k => \A x \in reg[c[j]], y \in reg[c[k]] : x < y
    BY <1>0 DEF Order
  <2> HIDE DEF l
  <2>1. i \in 1 .. N /\ c[i] = l /\ N \in Nat
        /\ (\A j \in 1 .. N : c[j] \in Leaves)
        /\ (\A j, k \in 1 .. N : j < k => \A x \in reg[c[j]], y \in reg[c[k]] : x < y)
    <3>1. l \in LeavesOf(nodes) /\ Leaves = LeavesOf(nodes) /\ N \in Nat
      BY <1>1, <1>9, <2>11
    <3> HIDE DEF N
    <3> QED BY <2>11, <3>1
  <2> HIDE DEF i, N
  <2>2. SUFFICES ASSUME i # 1 PROVE FALSE
    BY DEF i
  <2>3. 1 \in 1 .. N /\ 1 < i
    BY <2>1, <2>2
  <2> DEFINE a == c[1]
  <2>4. a \in Leaves /\ \A x \in reg[a], y \in reg[l] : x < y
    BY <2>1, <2>3
  <2> HIDE DEF a
  <2>5. RegionInv(nodes[a], reg[a]) /\ RegionInv(nodes[l], reg[l])
    BY <1>0, <1>1, <1>9, <2>4 DEF Tree, LeavesOf
  <2>6. PICK x : x \in reg[a] /\ x \in Int
    BY <2>5 DEF RegionInv
  <2>7. PICK y : y \in reg[l] /\ y \in Int
    BY <2>5 DEF RegionInv
  <2>8. x < y
    BY <2>4, <2>6, <2>7
  <2>9. x \in reg[l]
    BY <1>9, <2>6, <2>7, <2>8 DEF Down
  <2>10. x < x
    BY <2>4, <2>6, <2>9
  <2> QED BY <2>6, <2>10
<1> QED BY <1>9, <1>10 DEF f

(* The whole chain, seen from its first leaf.                               *)
LEMMA WholeChain ==
  ASSUME NEW rt, NEW h, NEW reg, NEW c, NEW pos, Shaped(nodes, rt, h, reg, c, pos),
         NEW l \in Leaves, pos[l] = 1
  PROVE  Range(Chain(l)) = Leaves /\ Len(Chain(l)) = Cardinality(Leaves)
<1> DEFINE none == {}
           N == Len(c)
<1>0. Tree(nodes, rt, h, reg, reg, none) /\ Order(nodes, reg, c, pos)
  BY DEF Shaped, Sound
<1>1. nodes \in Seq(NodeRecs) /\ \A n \in Addresses(nodes) : NodeInv(nodes[n])
  <2> HIDE DEF none
  <2> QED BY <1>0 DEF Tree
<1>2. Leaves = LeavesOf(nodes)
  BY <1>1, StoredIs
<1>3. /\ c \in Seq(Nat) /\ N \in Nat /\ DOMAIN c = 1 .. N
      /\ \A j \in 1 .. N : c[j] \in Leaves /\ pos[c[j]] = j
      /\ \A m \in Leaves : pos[m] \in 1 .. N /\ c[pos[m]] = m
  BY <1>0, <1>2 DEF Order
<1>4. Chain(l) = c
  <2> DEFINE H == nodes
             i == pos[l]
  <2>1. H \in Seq(NodeRecs) /\ H = nodes /\ Order(H, reg, c, pos)
        /\ (\A n \in Addresses(H) : NodeInv(H[n])) /\ i \in 1 .. Len(c) /\ c[i] = l
    BY <1>0, <1>1, <1>3
  <2> HIDE DEF H, i
  <2>2. Chain(c[i]) = SubSeq(c, i, Len(c))
    BY <2>1, ChainIs
  <2>3. i = 1
    BY DEF i
  <2>4. SubSeq(c, 1, Len(c)) = c
    BY <1>3
  <2> QED BY <2>1, <2>2, <2>3, <2>4
<1> HIDE DEF N
<1>5. Range(c) = Leaves
  <2>1. Range(c) = {c[j] : j \in 1 .. N}
    BY <1>3 DEF Range
  <2> QED BY <1>3, <2>1
<1>6. Cardinality(Range(c)) = N
  <2>1. \A i, j \in 1 .. N : c[i] = c[j] => i = j
    <3>1. \A j \in 1 .. N : pos[c[j]] = j
      BY <1>3
    <3> QED BY ONLY <3>1
  <2> QED BY <1>3, <2>1, DistinctCount
<1> QED BY <1>4, <1>5, <1>6 DEF N

(* The chain from the leftmost leaf, from the invariant.                    *)
LEMMA ChainFollows ==
  ASSUME TreeInv
  PROVE  ChainAscends
<1> DEFINE Ends(l) == /\ Range(Chain(l)) = Leaves
                      /\ Len(Chain(l)) = Cardinality(Leaves)
                      /\ \A i \in 1 .. Len(Along(l)) - 1 : Along(l)[i][1] < Along(l)[i + 1][1]
           Step(f, n) == IF nodes[n].leaf THEN n ELSE f[nodes[n].ch[1]]
           f == CHOOSE f : f = [n \in DOMAIN nodes |-> Step(f, n)]
<1>1. SUFFICES ASSUME root # Nil PROVE Ends(f[root])
  BY DEF ChainAscends
<1>2. PICK h, reg, c, pos : Shaped(nodes, root, h, reg, c, pos)
  BY <1>1, Picture
<1> DEFINE l == f[root]
<1>3. l \in Leaves /\ pos[l] = 1
  BY <1>2, LeftmostIs
<1> HIDE DEF l
<1>4. Range(Chain(l)) = Leaves /\ Len(Chain(l)) = Cardinality(Leaves)
  BY <1>2, <1>3, WholeChain
<1>5. Along(l) \in Seq(Stock) /\ Rising(Along(l))
  BY <1>2, <1>3, AlongIs
<1>6. ASSUME NEW i \in 1 .. Len(Along(l)) - 1 PROVE Along(l)[i][1] < Along(l)[i + 1][1]
  <2>1. Len(Along(l)) \in Nat
    BY <1>5
  <2>2. i \in 1 .. Len(Along(l)) /\ i + 1 \in 1 .. Len(Along(l)) /\ i < i + 1
    BY <2>1
  <2> QED BY <1>5, <2>2 DEF Rising
<1>7. Ends(l)
  BY <1>4, <1>6
<1> QED BY <1>7 DEF l

(* The chain from the leftmost leaf visits every leaf once and keys ascend  *)
(* strictly along it: a scan may stop at the first key above its limit      *)
(* (btree.cpp:157-190).                                                     *)
THEOREM ChainStaysAscending == BPlusTreeSpec => []ChainAscends
<1>1. TreeInv => ChainAscends
  BY ChainFollows
<1> QED BY <1>1, BPlusTreeCorrect, PTL

-----------------------------------------------------------------------------
(* A scan that stops at the first key above a limit misses nothing.         *)
LEMMA UpToLimit ==
  ASSUME NEW all \in Seq(Stock), Rising(all), NEW limit \in Int
  PROVE  LET s == SubSeq(all, 1, FirstNot(all, LAMBDA e : e[1] <= limit) - 1) IN
         /\ s \in Seq(Stock) /\ Rising(s)
         /\ \A e : Has(s, e) <=> Has(all, e) /\ e[1] <= limit
<1> DEFINE N == Len(all)
           I == {i \in 1 .. N : ~ (all[i][1] <= limit)}
           p == FirstNot(all, LAMBDA e : e[1] <= limit)
           z == p - 1
           s == SubSeq(all, 1, z)
<1>1. N \in Nat /\ \A i \in 1 .. N : all[i] \in Stock
  OBVIOUS
<1>2. /\ \A i \in 1 .. N : all[i][1] \in Int
      /\ \A i, j \in 1 .. N : i < j => all[i][1] < all[j][1]
  <2>1. \A i \in 1 .. N : all[i][1] \in Int
    BY <1>1, StockKeyed
  <2> QED BY <2>1 DEF Rising
<1>3. I # {} => Min(I) \in I /\ \A m \in I : Min(I) <= m
  <2>1. I \in SUBSET Nat
    OBVIOUS
  <2> HIDE DEF I
  <2> QED BY <2>1, MinIsLeast
<1>4. p = IF I # {} THEN Min(I) ELSE N + 1
  BY <1>1, <1>3 DEF FirstNot, SelectInSeq
<1> HIDE DEF N, p
<1>5. /\ p \in 1 .. N + 1
      /\ \A i \in 1 .. N : i < p <=> all[i][1] <= limit
  <2>1. CASE I = {}
    <3>1. p = N + 1
      BY <1>4, <2>1
    <3>2. \A i \in 1 .. N : all[i][1] <= limit
      BY <2>1
    <3> QED BY <1>1, <3>1, <3>2
  <2>2. CASE I # {}
    <3>1. p \in I /\ \A m \in I : p <= m
      <4> HIDE DEF I
      <4> QED BY <1>3, <1>4, <2>2
    <3>2. p \in 1 .. N /\ ~ (all[p][1] <= limit)
      BY <3>1
    <3>3. ASSUME NEW i \in 1 .. N PROVE i < p <=> all[i][1] <= limit
      <4>1. CASE i < p
        <5>1. i \notin I
          <6> HIDE DEF I
          <6> QED BY <3>1, <3>2, <4>1
        <5> QED BY <4>1, <5>1
      <4>2. CASE i = p
        BY <3>2, <4>2
      <4>3. CASE p < i
        <5>1. all[p][1] < all[i][1] /\ all[p][1] \in Int /\ all[i][1] \in Int
          BY <1>2, <3>2, <4>3
        <5> QED BY <3>2, <4>3, <5>1
      <4> QED BY <3>2, <4>1, <4>2, <4>3
    <3>4. p \in 1 .. N + 1
      BY <1>1, <3>2
    <3> QED BY <3>3, <3>4
  <2> QED BY <2>1, <2>2
<1> HIDE DEF I
<1>6. s \in Seq(Stock) /\ Len(s) = z /\ \A i \in 1 .. z : s[i] = all[i]
  <2>1. z \in Int /\ z >= 0 /\ \A i \in 1 .. z : i \in 1 .. N
    BY <1>1, <1>5
  <2>2. \A i \in 1 .. z : all[i] \in Stock
    BY <1>1, <2>1
  <2> HIDE DEF z
  <2>3. /\ SubSeq(all, 1, z) \in Seq(Stock)
        /\ Len(SubSeq(all, 1, z)) = IF 1 <= z THEN z - 1 + 1 ELSE 0
        /\ \A i \in 1 .. z - 1 + 1 : SubSeq(all, 1, z)[i] = all[1 + i - 1]
    BY <2>1, <2>2, SubSeqProperties
  <2>4. z - 1 + 1 = z /\ (IF 1 <= z THEN z - 1 + 1 ELSE 0) = z /\ \A i \in 1 .. z : 1 + i - 1 = i
    BY <2>1
  <2> QED BY <2>3, <2>4
<1>7. \A i \in 1 .. N : i \in 1 .. z <=> all[i][1] <= limit
  <2>1. \A i \in 1 .. N : i < p <=> i \in 1 .. z
    BY <1>5
  <2> QED BY <1>5, <2>1
<1>8. \A i \in 1 .. z : i \in 1 .. N
  BY <1>1, <1>5
<1> HIDE DEF s, z
<1>9. Rising(s)
  BY <1>2, <1>6, <1>8 DEF Rising
<1>10. ASSUME NEW e PROVE Has(s, e) <=> Has(all, e) /\ e[1] <= limit
  BY <1>6, <1>7, <1>8 DEF Has, N
<1>11. s \in Seq(Stock) /\ Rising(s) /\ \A e : Has(s, e) <=> Has(all, e) /\ e[1] <= limit
  BY <1>6, <1>9, <1>10
<1> QED BY <1>11 DEF s, z, p

-----------------------------------------------------------------------------
(* The rows of the entries of A in a sequence.                              *)
Gathers(f, s, A) ==
  f = [i \in 0 .. Len(s) |->
         IF i = 0 THEN <<>> ELSE IF s[i] \in A THEN Append(f[i - 1], s[i][2]) ELSE f[i - 1]]

Met(s, A, n) == {e \in A : \E i \in 1 .. n : s[i] = e}

Gathered(t, s, A, n) ==
  /\ t \in Seq(Rids) /\ IsFiniteSet(Met(s, A, n))
  /\ Len(t) = Cardinality(Met(s, A, n))
  /\ \A r : (\E i \in 1 .. Len(t) : t[i] = r) <=> \E e \in Met(s, A, n) : r = e[2]

(* Nothing met, nothing gathered ...                                        *)
LEMMA GatheredNone ==
  ASSUME NEW s, NEW A
  PROVE  Gathered(<<>>, s, A, 0)
<1> DEFINE t == <<>>
<1>1. t \in Seq(Rids) /\ Len(t) = 0
  OBVIOUS
<1>2. Met(s, A, 0) = {}
  BY DEF Met
<1> HIDE DEF t
<1>3. Gathered(t, s, A, 0)
  BY <1>1, <1>2, FS_EmptySet DEF Gathered
<1> QED BY <1>3 DEF t

(* ... and one entry further.                                               *)
LEMMA GatheredNext ==
  ASSUME NEW s \in Seq(Stock), Rising(s), NEW A, NEW n \in Nat, n + 1 \in 1 .. Len(s),
         NEW t, Gathered(t, s, A, n)
  PROVE  Gathered(IF s[n + 1] \in A THEN Append(t, s[n + 1][2]) ELSE t, s, A, n + 1)
<1> DEFINE m == n + 1
           e == s[m]
           M == Met(s, A, n)
<1>1. \A i : i \in 1 .. m <=> i \in 1 .. n \/ i = m
  OBVIOUS
<1>2. \A i \in 1 .. n : i \in 1 .. Len(s) /\ i < m
  OBVIOUS
<1>3. m \in 1 .. Len(s) /\ e \in Stock
  OBVIOUS
<1>4. \A i \in 1 .. n : s[i] # e
  <2> SUFFICES ASSUME NEW i \in 1 .. n, s[i] = e PROVE FALSE
    OBVIOUS
  <2>1. s[i][1] < e[1]
    BY <1>2, <1>3 DEF Rising
  <2>2. e[1] \in Int
    BY <1>3, StockKeyed
  <2> HIDE DEF e
  <2> QED BY <2>1, <2>2
<1>5. e[2] \in Rids
  BY <1>3, StockKeyed
<1> HIDE DEF m
<1>6. CASE e \in A
  <2>1. Met(s, A, m) = M \cup {e} /\ e \notin M
    <3> HIDE DEF e
    <3>1. s[m] = e
      BY DEF e
    <3>2. \A x \in A : (\E i \in 1 .. m : s[i] = x) <=> (\E i \in 1 .. n : s[i] = x) \/ x = e
      BY <1>1, <3>1
    <3> QED BY <1>4, <1>6, <3>2 DEF Met
  <2>2. IsFiniteSet(M) /\ Len(t) = Cardinality(M) /\ t \in Seq(Rids)
    BY DEF Gathered
  <2>3. IsFiniteSet(Met(s, A, m)) /\ Cardinality(Met(s, A, m)) = Len(t) + 1
    <3> HIDE DEF M, e
    <3>1. /\ IsFiniteSet(M \cup {e})
          /\ Cardinality(M \cup {e}) = IF e \in M THEN Cardinality(M) ELSE Cardinality(M) + 1
      BY <2>2, FS_AddElement
    <3>2. Cardinality(M \cup {e}) = Cardinality(M) + 1
      BY ONLY <2>1, <3>1
    <3>3. Cardinality(M \cup {e}) = Len(t) + 1
      BY ONLY <2>2, <3>2
    <3> QED BY ONLY <2>1, <3>1, <3>3
  <2> DEFINE u == Append(t, e[2])
  <2>4. u \in Seq(Rids) /\ Len(u) = Len(t) + 1 /\ Len(t) \in Nat
        /\ (\A i \in 1 .. Len(t) : u[i] = t[i]) /\ u[Len(t) + 1] = e[2]
    <3> DEFINE x == e[2]
    <3> HIDE DEF x
    <3>1. x \in Rids
      BY <1>5 DEF x
    <3>2. Append(t, x) \in Seq(Rids) /\ Len(Append(t, x)) = Len(t) + 1
          /\ (\A i \in 1 .. Len(t) : Append(t, x)[i] = t[i]) /\ Append(t, x)[Len(t) + 1] = x
      BY <2>2, <3>1, AppendProperties
    <3> QED BY <2>2, <3>2 DEF x
  <2> HIDE DEF u
  <2>5. ASSUME NEW r
        PROVE  (\E i \in 1 .. Len(u) : u[i] = r) <=> \E x \in Met(s, A, m) : r = x[2]
    <3>1. (\E i \in 1 .. Len(t) : t[i] = r) <=> \E x \in M : r = x[2]
      BY DEF Gathered
    <3>2. \A i : i \in 1 .. Len(u) <=> i \in 1 .. Len(t) \/ i = Len(t) + 1
      BY <2>4
    <3>3. (\E i \in 1 .. Len(u) : u[i] = r) <=> (\E i \in 1 .. Len(t) : t[i] = r) \/ r = e[2]
      BY <2>4, <3>2
    <3>4. (\E x \in Met(s, A, m) : r = x[2]) <=> (\E x \in M : r = x[2]) \/ r = e[2]
      <4> HIDE DEF M, e
      <4> QED BY ONLY <2>1
    <3> QED BY <3>1, <3>3, <3>4
  <2>6. Gathered(u, s, A, m)
    BY <2>3, <2>4, <2>5 DEF Gathered
  <2> QED BY <1>6, <2>6 DEF u, m
<1>7. CASE e \notin A
  <2>1. Met(s, A, m) = M
    <3> HIDE DEF e
    <3>1. s[m] = e
      BY DEF e
    <3>2. \A x \in A : (\E i \in 1 .. m : s[i] = x) <=> (\E i \in 1 .. n : s[i] = x)
      BY <1>1, <1>7, <3>1
    <3> QED BY <3>2 DEF Met
  <2>2. Gathered(t, s, A, m)
    BY <2>1 DEF Gathered
  <2> QED BY <1>7, <2>2 DEF m
<1> QED BY <1>6, <1>7

(* The loop that gathers has a result ...                                   *)
LEMMA GatherExists ==
  ASSUME NEW s \in Seq(Stock), NEW A
  PROVE  \E f : Gathers(f, s, A)
<1> DEFINE N == Len(s)
           V == Seq(Rids)
           D == 0 .. N
           none == <<>>
           nil == 0
           step == [i \in 1 .. N |-> [v \in V |-> IF s[i] \in A THEN Append(v, s[i][2]) ELSE v]]
<1>1. N \in Nat /\ \A i \in 1 .. N : s[i] \in Stock
  OBVIOUS
<1> HIDE DEF N
<1>2. none \in V /\ \A v \in V, r \in Rids : Append(v, r) \in V
  BY AppendProperties
<1>3. ASSUME NEW i \in 1 .. N, NEW v \in V
      PROVE  /\ step[i][v] = IF s[i] \in A THEN Append(v, s[i][2]) ELSE v
             /\ step[i][v] \in V
  <2>1. s[i][2] \in Rids
    BY <1>1, StockKeyed
  <2>2. step[i][v] = IF s[i] \in A THEN Append(v, s[i][2]) ELSE v
    <3> HIDE DEF V
    <3> QED OBVIOUS
  <2> HIDE DEF V, step
  <2> QED BY <1>2, <2>1, <2>2
<1>4. PICK f : Recurs(f, nil, nil + N, none, step)
  <2>1. nil \in Int
    OBVIOUS
  <2> HIDE DEF step, none, nil
  <2> QED BY <1>1, <2>1, RecursionExists
<1> HIDE DEF step
<1>5. nil .. nil + N = D /\ nil = 0
  BY <1>1
<1>6. f = [i \in D |-> f[i]] /\ \A i \in D : f[i] = IF i = 0 THEN none ELSE step[i][f[i - 1]]
  <2> HIDE DEF D, nil, none
  <2> QED BY <1>4, <1>5 DEF Recurs
<1>7. ASSUME NEW i \in D PROVE f[i] \in V
  <2> DEFINE T == {j \in D : f[j] \in V}
  <2>1. 0 \in T
    <3>1. 0 \in D
      BY <1>1
    <3> HIDE DEF D, V
    <3> QED BY <1>2, <1>6, <3>1
  <2>2. ASSUME NEW j \in 0 .. N - 1, j \in T PROVE j + 1 \in T
    <3> DEFINE m == j + 1
    <3>1. m \in D /\ m # 0 /\ m - 1 = j /\ m \in 1 .. N
      BY <1>1
    <3> HIDE DEF m, D, V
    <3>2. f[m] = step[m][f[j]]
      BY <1>6, <3>1
    <3>3. f[m] \in V
      BY <1>3, <2>2, <3>1, <3>2
    <3>4. m \in T
      BY <3>1, <3>3
    <3> QED BY <3>4 DEF m
  <2>3. 0 .. N \subseteq T
    <3> HIDE DEF T
    <3> QED BY <1>1, <2>1, <2>2, UpTo
  <2> QED BY <2>3
<1>8. ASSUME NEW i \in D
      PROVE  f[i] = IF i = 0 THEN <<>> ELSE IF s[i] \in A THEN Append(f[i - 1], s[i][2]) ELSE f[i - 1]
  <2>1. i # 0 => i - 1 \in D /\ i \in 1 .. N
    BY <1>1
  <2> HIDE DEF D, V
  <2>2. i # 0 => f[i - 1] \in V
    BY <1>7, <2>1
  <2> QED BY <1>3, <1>6, <2>1, <2>2
<1>9. [i \in D |-> f[i]] =
      [i \in D |-> IF i = 0 THEN <<>> ELSE IF s[i] \in A THEN Append(f[i - 1], s[i][2]) ELSE f[i - 1]]
  <2> HIDE DEF D
  <2> QED BY <1>8
<1>10. Gathers(f, s, A)
  BY <1>6, <1>9 DEF Gathers, N
<1> QED BY <1>10

(* ... which is the rows of the entries asked for, each once, whatever      *)
(* their order.                                                             *)
LEMMA GatherIs ==
  ASSUME NEW s \in Seq(Stock), Rising(s), NEW A, NEW f, Gathers(f, s, A)
  PROVE  Gathered(f[Len(s)], s, A, Len(s))
<1> DEFINE N == Len(s)
           D == 0 .. N
           T == {n \in D : Gathered(f[n], s, A, n)}
<1>1. N \in Nat
  OBVIOUS
<1>2. \A i \in D : f[i] = IF i = 0 THEN <<>> ELSE IF s[i] \in A THEN Append(f[i - 1], s[i][2]) ELSE f[i - 1]
  <2> HIDE DEF D
  <2>1. f = [i \in D |-> IF i = 0 THEN <<>> ELSE IF s[i] \in A THEN Append(f[i - 1], s[i][2]) ELSE f[i - 1]]
    BY DEF Gathers, D
  <2> QED BY <2>1
<1> HIDE DEF N
<1>3. 0 \in T
  <2>1. 0 \in D
    BY <1>1
  <2> HIDE DEF D
  <2> QED BY <1>2, <2>1, GatheredNone
<1>4. ASSUME NEW n \in 0 .. N - 1, n \in T PROVE n + 1 \in T
  <2> DEFINE m == n + 1
  <2>1. m \in D /\ m # 0 /\ m - 1 = n /\ m \in 1 .. N /\ n \in Nat
    BY <1>1
  <2>2. Gathered(IF s[m] \in A THEN Append(f[n], s[m][2]) ELSE f[n], s, A, m)
    <3>1. n + 1 \in 1 .. Len(s) /\ Gathered(f[n], s, A, n)
      BY <1>4, <2>1 DEF N
    <3> QED BY <2>1, <3>1, GatheredNext
  <2> HIDE DEF m, D
  <2>3. f[m] = IF s[m] \in A THEN Append(f[n], s[m][2]) ELSE f[n]
    BY <1>2, <2>1
  <2>4. m \in T
    BY <2>1, <2>2, <2>3
  <2> QED BY <2>4 DEF m
<1>5. 0 .. N \subseteq T
  <2> HIDE DEF T
  <2> QED BY <1>1, <1>3, <1>4, UpTo
<1>6. N \in T
  <2>1. N \in 0 .. N
    BY <1>1
  <2> HIDE DEF T
  <2> QED BY <1>5, <2>1
<1> QED BY <1>6 DEF N

-----------------------------------------------------------------------------
(* Lookups.                                                                 *)
LEMMA ScanIs ==
  ASSUME NEW h, NEW reg, NEW c, NEW pos, Shaped(nodes, root, h, reg, c, pos),
         NEW k \in Int, NEW limit \in Int
  PROVE  /\ Scanned(k, limit) \in Seq(Stock) /\ Rising(Scanned(k, limit))
         /\ \A e : Has(Scanned(k, limit), e) => e \in Stored
         /\ \A e \in Stored : k <= e[1] /\ e[1] <= limit => Has(Scanned(k, limit), e)
         /\ Stored \subseteq Stock
<1> DEFINE l == find_leaf(k)
           all == Along(l)
           s == SubSeq(all, 1, FirstNot(all, LAMBDA e : e[1] <= limit) - 1)
           none == {}
<1>0. Sound(nodes, root, h, reg) /\ Tree(nodes, root, h, reg, reg, none) /\ Order(nodes, reg, c, pos)
  BY DEF Shaped, Sound
<1> HIDE DEF none
<1>1. nodes \in Seq(NodeRecs) /\ \A n \in Addresses(nodes) : NodeInv(nodes[n]) /\ RegionInv(nodes[n], reg[n])
  BY <1>0 DEF Tree
<1>2. Leaves = LeavesOf(nodes) /\ Stored = Entries(nodes)
  BY <1>1, StoredIs
<1>3. l \in Leaves /\ k \in reg[l]
  BY <1>0, LeafOfKey
<1>4. Scanned(k, limit) = s
  BY DEF Scanned
<1> HIDE DEF l
<1>5. /\ all \in Seq(Stock) /\ Rising(all)
      /\ \A e : Has(all, e) <=> \E m \in Leaves : pos[l] <= pos[m] /\ e \in EntriesOf(nodes[m])
  BY <1>3, AlongIs
<1> HIDE DEF all
<1>6. s \in Seq(Stock) /\ Rising(s) /\ \A e : Has(s, e) <=> Has(all, e) /\ e[1] <= limit
  BY <1>5, UpToLimit
<1> HIDE DEF s
<1>7. ASSUME NEW e, Has(s, e) PROVE e \in Stored
  <2>1. PICK m \in Leaves : e \in EntriesOf(nodes[m])
    BY <1>5, <1>6, <1>7
  <2> QED BY <1>2, <2>1 DEF Entries
<1>8. ASSUME NEW e \in Stored
      PROVE  e \in Stock /\ (k <= e[1] => Has(all, e))
  <2>1. PICK m \in Leaves : e \in EntriesOf(nodes[m])
    BY <1>2 DEF Entries
  <2> DEFINE K == nodes[m].keys
             R == nodes[m].rows
  <2>2. PICK i \in 1 .. Len(K) : e = <<K[i], R[i]>>
    BY <2>1 DEF EntriesOf, EntryPairs
  <2> DEFINE x == K[i]
             r == R[i]
  <2>3. m \in Addresses(nodes) /\ nodes[m].leaf
    BY <1>2 DEF LeavesOf
  <2>4. NodeInv(nodes[m]) /\ RegionInv(nodes[m], reg[m])
    BY <1>1, <2>3
  <2>5. x \in Keys /\ x \in Int /\ r \in Rids
    <3>1. K \in Seq(Keys) /\ K \in Seq(Int) /\ R \in Seq(Rids) /\ Len(R) = Len(K)
      BY <2>3, <2>4, Fields DEF NodeInv
    <3> QED BY <3>1
  <2>6. x \in reg[m]
    BY <2>4 DEF RegionInv
  <2>7. e = <<x, r>>
    BY <2>2
  <2> HIDE DEF x, r, K, R
  <2>8. e \in Stock /\ e[1] = x
    BY <2>5, <2>7 DEF Stock
  <2>9. ASSUME k <= x PROVE Has(all, e)
    <3> DEFINE N == Len(c)
               p == pos[m]
               q == pos[l]
    <3>1. p \in 1 .. N /\ c[p] = m /\ q \in 1 .. N /\ c[q] = l
          /\ \A i1, j1 \in 1 .. N : i1 < j1 => \A y \in reg[c[i1]], w \in reg[c[j1]] : y < w
      BY <1>0, <1>2, <1>3 DEF Order
    <3> HIDE DEF N, p, q
    <3>2. p < q => x < k
      BY <1>3, <2>6, <3>1
    <3>3. p \in Int /\ q \in Int
      BY <3>1
    <3>4. q <= p
      BY <2>5, <2>9, <3>2, <3>3
    <3> QED BY <1>5, <2>1, <3>4 DEF p, q
  <2> QED BY <2>8, <2>9
<1> QED BY <1>4, <1>6, <1>7, <1>8

Bounds(A, k, limit) == \A e \in A \cap Stock : k <= e[1] /\ e[1] <= limit

Answers(t, A) == Len(t) = Cardinality(Stored \cap A) /\ Range(t) = {e[2] : e \in Stored \cap A}

(* A scan from the leaf of the lower bound that stops above the upper bound *)
(* answers exactly.                                                         *)
LEMMA Answered ==
  ASSUME NEW h, NEW reg, NEW c, NEW pos, Shaped(nodes, root, h, reg, c, pos),
         NEW k \in Int, NEW limit \in Int,
         NEW A, Bounds(A, k, limit), NEW f, Gathers(f, Scanned(k, limit), A)
  PROVE  Answers(f[Len(Scanned(k, limit))], A)
<1> DEFINE s == Scanned(k, limit)
           t == f[Len(s)]
           M == Met(s, A, Len(s))
<1>1. /\ s \in Seq(Stock) /\ Rising(s)
      /\ \A e : Has(s, e) => e \in Stored
      /\ \A e \in Stored : k <= e[1] /\ e[1] <= limit => Has(s, e)
      /\ Stored \subseteq Stock
  BY ScanIs
<1>2. Gathers(f, s, A)
  OBVIOUS
<1> HIDE DEF s
<1>3. Gathered(t, s, A, Len(s))
  BY <1>1, <1>2, GatherIs
<1> HIDE DEF t
<1>4. M = Stored \cap A
  <2>1. M = {e \in A : Has(s, e)}
    BY DEF Met, Has
  <2> HIDE DEF M
  <2> QED BY <1>1, <2>1 DEF Bounds
<1> HIDE DEF M
<1>5. /\ t \in Seq(Rids) /\ Len(t) = Cardinality(M)
      /\ \A r : (\E i \in 1 .. Len(t) : t[i] = r) <=> \E e \in M : r = e[2]
  BY <1>3 DEF Gathered, M
<1>6. Range(t) = {e[2] : e \in M}
  <2>1. Range(t) = {t[i] : i \in 1 .. Len(t)}
    <3>1. DOMAIN t = 1 .. Len(t)
      BY <1>5
    <3> QED BY <3>1 DEF Range
  <2> QED BY <1>5, <2>1
<1> QED BY <1>4, <1>5, <1>6 DEF t, s, Answers

(* find_equal returns the rows stored under its key.                        *)
LEMMA EqualFound ==
  ASSUME NEW h, NEW reg, NEW c, NEW pos, Shaped(nodes, root, h, reg, c, pos), root # Nil,
         NEW k \in Keys
  PROVE  LET A == {e \in Stock : e[1] = k} IN
         /\ Len(find_equal(k)) = Cardinality(Stored \cap A)
         /\ Range(find_equal(k)) = {e[2] : e \in Stored \cap A}
<1> DEFINE A == {e \in Stock : e[1] = k}
           s == Scanned(k, k)
           D == 0 .. Len(s)
           Step(f, i) == IF i = 0 THEN <<>>
                         ELSE IF s[i][1] = k THEN Append(f[i - 1], s[i][2]) ELSE f[i - 1]
           Fits(f) == f = [i \in 0 .. Len(s) |-> Step(f, i)]
           f == CHOOSE f : Fits(f)
<1>1. k \in Int
  BY BPlusTreeAssumption
<1>2. s \in Seq(Stock)
  BY <1>1, ScanIs
<1>3. find_equal(k) = f[Len(s)]
  BY DEF find_equal, Collected
<1>4. ASSUME NEW g PROVE Fits(g) <=> Gathers(g, s, A)
  <2>1. ASSUME NEW i \in D
        PROVE  Step(g, i) = IF i = 0 THEN <<>> ELSE IF s[i] \in A THEN Append(g[i - 1], s[i][2]) ELSE g[i - 1]
    <3>1. i # 0 => s[i] \in Stock
      <4> HIDE DEF s
      <4> QED BY <1>2
    <3>2. i # 0 => (s[i][1] = k <=> s[i] \in A)
      <4> HIDE DEF s
      <4> QED BY <3>1
    <3> HIDE DEF A, s
    <3> QED BY <3>2
  <2> HIDE DEF Step, A, D, s
  <2>2. [i \in D |-> Step(g, i)] =
        [i \in D |-> IF i = 0 THEN <<>> ELSE IF s[i] \in A THEN Append(g[i - 1], s[i][2]) ELSE g[i - 1]]
    BY <2>1
  <2> QED BY <2>2 DEF Gathers, D
<1>5. Gathers(f, s, A)
  <2> HIDE DEF Fits, s, A
  <2>1. \E g : Gathers(g, s, A)
    BY <1>2, GatherExists
  <2>2. \E g : Fits(g)
    BY <1>4, <2>1
  <2>3. Fits(f)
    BY <2>2
  <2> HIDE DEF f
  <2> QED BY <1>4, <2>3
<1>6. Bounds(A, k, k)
  BY <1>1 DEF Bounds
<1> HIDE DEF f, A
<1>7. Answers(f[Len(s)], A)
  BY <1>1, <1>5, <1>6, Answered
<1> QED BY <1>3, <1>7 DEF A, Answers

Asked(e, lo, hi, li, ri) ==
  /\ e[1] > lo \/ (li /\ e[1] = lo)
  /\ e[1] < hi \/ (ri /\ e[1] = hi)

(* range returns the rows of the entries within its limits.                 *)
LEMMA RangeFound ==
  ASSUME NEW h, NEW reg, NEW c, NEW pos, Shaped(nodes, root, h, reg, c, pos), root # Nil,
         NEW lo \in Keys, NEW hi \in Keys, NEW li \in BOOLEAN, NEW ri \in BOOLEAN
  PROVE  LET A == {e \in Stock : Asked(e, lo, hi, li, ri)} IN
         /\ Len(range(lo, hi, li, ri)) = Cardinality(Stored \cap A)
         /\ Range(range(lo, hi, li, ri)) = {e[2] : e \in Stored \cap A}
<1> DEFINE A == {e \in Stock : Asked(e, lo, hi, li, ri)}
           s == Scanned(lo, hi)
           D == 0 .. Len(s)
           Step(f, i) == IF i = 0 THEN <<>>
                         ELSE IF Asked(s[i], lo, hi, li, ri) THEN Append(f[i - 1], s[i][2]) ELSE f[i - 1]
           Fits(f) == f = [i \in 0 .. Len(s) |-> Step(f, i)]
           f == CHOOSE f : Fits(f)
<1>1. lo \in Int /\ hi \in Int
  BY BPlusTreeAssumption
<1>2. s \in Seq(Stock)
  BY <1>1, ScanIs
<1>3. range(lo, hi, li, ri) = f[Len(s)]
  BY DEF range, Collected, Asked
<1>4. ASSUME NEW g PROVE Fits(g) <=> Gathers(g, s, A)
  <2>1. ASSUME NEW i \in D
        PROVE  Step(g, i) = IF i = 0 THEN <<>> ELSE IF s[i] \in A THEN Append(g[i - 1], s[i][2]) ELSE g[i - 1]
    <3>1. i # 0 => s[i] \in Stock
      <4> HIDE DEF s
      <4> QED BY <1>2
    <3>2. i # 0 => (Asked(s[i], lo, hi, li, ri) <=> s[i] \in A)
      <4> HIDE DEF s
      <4> QED BY <3>1
    <3> HIDE DEF A, s
    <3> QED BY <3>2
  <2> HIDE DEF Step, A, D, s
  <2>2. [i \in D |-> Step(g, i)] =
        [i \in D |-> IF i = 0 THEN <<>> ELSE IF s[i] \in A THEN Append(g[i - 1], s[i][2]) ELSE g[i - 1]]
    BY <2>1
  <2> QED BY <2>2 DEF Gathers, D
<1>5. Gathers(f, s, A)
  <2> HIDE DEF Fits, s, A
  <2>1. \E g : Gathers(g, s, A)
    BY <1>2, GatherExists
  <2>2. \E g : Fits(g)
    BY <1>4, <2>1
  <2>3. Fits(f)
    BY <2>2
  <2> HIDE DEF f
  <2> QED BY <1>4, <2>3
<1>6. Bounds(A, lo, hi)
  <2>1. \A e \in Stock : e[1] \in Int
    BY StockKeyed
  <2> QED BY <1>1, <2>1 DEF Asked, Bounds
<1> HIDE DEF f, A
<1>7. Answers(f[Len(s)], A)
  BY <1>1, <1>5, <1>6, Answered
<1> QED BY <1>3, <1>7 DEF A, Answers

(* No key is stored twice.                                                  *)
LEMMA KeyOnce ==
  ASSUME NEW h, NEW reg, NEW c, NEW pos, Shaped(nodes, root, h, reg, c, pos),
         NEW k \in Int, NEW d \in Stored, NEW e \in Stored, d[1] = k, e[1] = k
  PROVE  d = e
<1> DEFINE s == Scanned(k, k)
<1>6. /\ s \in Seq(Stock) /\ Rising(s)
      /\ \A x \in Stored : k <= x[1] /\ x[1] <= k => Has(s, x)
  BY ScanIs
<1> HIDE DEF s
<1>1. /\ s \in Seq(Stock) /\ Rising(s) /\ Has(s, d) /\ Has(s, e)
  BY <1>6
<1>2. PICK i \in 1 .. Len(s) : s[i] = d
  BY <1>1 DEF Has
<1>3. PICK j \in 1 .. Len(s) : s[j] = e
  BY <1>1 DEF Has
<1>4. ~ (i < j) /\ ~ (j < i)
  BY <1>1, <1>2, <1>3 DEF Rising
<1>5. i = j
  BY <1>4
<1> QED BY <1>2, <1>3, <1>5

(* Exact lookups, from the invariant.                                       *)
LEMMA LookupsFollow ==
  ASSUME TreeInv
  PROVE  LookupsExact
<1>1. CASE root = Nil
  <2>1. nodes = <<>>
    BY <1>1 DEF TreeInv, Good
  <2>2. Stored = {}
    BY <2>1 DEF Stored, Leaves
  <2> DEFINE none == <<>>
  <2>3. Range(none) = {} /\ Len(none) = 0
    BY DEF Range
  <2>4. \A k \in Keys : find_equal(k) = none
    BY <1>1 DEF find_equal
  <2>5. \A lo, hi \in Keys, li, ri \in BOOLEAN : range(lo, hi, li, ri) = none
    BY <1>1 DEF range
  <2> HIDE DEF none
  <2> QED BY <2>2, <2>3, <2>4, <2>5, FS_EmptySet DEF LookupsExact
<1>2. CASE root # Nil
  <2>1. PICK h, reg, c, pos : Shaped(nodes, root, h, reg, c, pos)
    BY <1>2, Picture
  <2>2. Stored \subseteq Stock
    BY <2>1, ScanIs, 0 \in Int
  <2>3. ASSUME NEW k \in Keys
        PROVE  /\ Range(find_equal(k)) = {r \in Rids : <<k, r>> \in Stored}
               /\ Len(find_equal(k)) <= 1
    <3> DEFINE A == {e \in Stock : e[1] = k}
               M == Stored \cap A
    <3>1. Len(find_equal(k)) = Cardinality(M) /\ Range(find_equal(k)) = {e[2] : e \in M}
      BY <1>2, <2>1, EqualFound
    <3>2. \A d, e \in M : d = e
      <4>1. k \in Int
        BY BPlusTreeAssumption
      <4> QED BY <2>1, <4>1, KeyOnce
    <3>3. {e[2] : e \in M} = {r \in Rids : <<k, r>> \in Stored}
      <4>1. \A e \in M : e[2] \in Rids /\ e = <<k, e[2]>> /\ e \in Stored
        BY DEF Stock
      <4>2. \A r \in Rids : <<k, r>> \in Stored => <<k, r>> \in M /\ <<k, r>>[2] = r
        BY <2>2
      <4> HIDE DEF M
      <4> QED BY <4>1, <4>2
    <3> HIDE DEF M
    <3>4. Cardinality(M) <= 1
      <4>1. CASE M = {}
        BY <4>1, FS_EmptySet
      <4>2. CASE M # {}
        <5>1. PICK e : M = {e}
          BY <3>2, <4>2
        <5>2. Cardinality(M) = 1
          BY <5>1, FS_Singleton
        <5> QED BY <5>2
      <4> QED BY <4>1, <4>2
    <3> QED BY <3>1, <3>3, <3>4
  <2>4. ASSUME NEW lo \in Keys, NEW hi \in Keys, NEW li \in BOOLEAN, NEW ri \in BOOLEAN
        PROVE  LET within == {e \in Stored : Asked(e, lo, hi, li, ri)}
                   got == range(lo, hi, li, ri)
               IN  /\ Len(got) = Cardinality(within)
                   /\ Range(got) = {e[2] : e \in within}
    <3> DEFINE A == {e \in Stock : Asked(e, lo, hi, li, ri)}
               within == {e \in Stored : Asked(e, lo, hi, li, ri)}
               got == range(lo, hi, li, ri)
    <3>1. Len(got) = Cardinality(Stored \cap A) /\ Range(got) = {e[2] : e \in Stored \cap A}
      BY <1>2, <2>1, RangeFound
    <3>2. Stored \cap A = within
      BY <2>2
    <3> HIDE DEF A, within, got
    <3>3. Len(got) = Cardinality(within) /\ Range(got) = {e[2] : e \in within}
      BY <3>1, <3>2
    <3> QED BY <3>3 DEF within, got
  <2> QED BY <2>3, <2>4 DEF LookupsExact, Asked
<1> QED BY <1>1, <1>2

(* Between two calls find_equal returns exactly the row stored under a key, *)
(* and range exactly the rows within its limits, whatever calls came before *)
(* (btree.cpp:157-190).                                                     *)
THEOREM LookupsStayExact == BPlusTreeSpec => []LookupsExact
<1>1. TreeInv => LookupsExact
  BY LookupsFollow
<1> QED BY <1>1, BPlusTreeCorrect, PTL
==============================================================================
