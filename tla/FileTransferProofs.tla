------------------------- MODULE FileTransferProofs -------------------------
(***************************************************************************)
(* Proofs about FileTransfer, for every tree of files, folders and links, size  *)
(* of a file, and any number of failures, retries and items of others: what a   *)
(* batch takes away the user gave up, what it reports is so, and its progress    *)
(* counts what is done.  And about SmbClient, for any callers, length of a file and  *)
(* troubles: the context outlives its callbacks, handles are owned, and files exact.  *)
(***************************************************************************)
EXTENDS FileTransfer, SmbClient, FiniteSetTheorems, SequenceTheorems, TLAPS

-----------------------------------------------------------------------------
(* The tree.                                                                *)

\* A node is under another when it begins with its path.
LEMMA UnderIs ==
  ASSUME NEW n \in Nodes, NEW m \in Nodes
  PROVE  Under(n, m) <=> Len(n) <= Len(m) /\ \A i \in 1..Len(n) : n[i] = m[i]
<1>1. n \in Seq(STRING) /\ m \in Seq(STRING) /\ Len(n) \in Nat /\ Len(m) \in Nat
  BY NodesAssumption
<1>2. ASSUME Len(n) <= Len(m)
      PROVE  /\ SubSeq(m, 1, Len(n)) \in Seq(STRING) /\ Len(SubSeq(m, 1, Len(n))) = Len(n)
             /\ \A i \in 1..Len(n) : SubSeq(m, 1, Len(n))[i] = m[i]
  <2>1. \A i \in 1..Len(n) : m[i] \in STRING
    BY <1>1, <1>2, ElementOfSeq
  <2> QED BY <1>1, <1>2, <2>1
<1>3. CASE Len(n) <= Len(m)
  BY <1>1, <1>2, <1>3, SeqEqual DEF Under
<1>4. CASE ~(Len(n) <= Len(m))
  BY <1>4 DEF Under
<1> QED BY <1>3, <1>4

\* The paths of nodes have lengths.
LEMMA Lengths == \A n \in Nodes : n \in Seq(STRING) /\ Len(n) \in Nat /\ Len(n) > 0
<1> SUFFICES ASSUME NEW n \in Nodes PROVE n \in Seq(STRING) /\ Len(n) \in Nat /\ Len(n) > 0
  OBVIOUS
<1>1. n \in Seq(STRING) /\ n # << >>
  BY NodesAssumption
<1> QED BY <1>1, EmptySeq

\* A node is in its own subtree, and subtrees nest.
LEMMA Nested ==
  /\ \A n \in Nodes : n \in Subtree(n)
  /\ \A n \in Nodes : \A m \in Subtree(n) : Len(n) <= Len(m) /\ Subtree(m) \subseteq Subtree(n)
<1>1. ASSUME NEW n \in Nodes PROVE n \in Subtree(n)
  BY Lengths, UnderIs DEF Subtree
<1>2. ASSUME NEW n \in Nodes, NEW m \in Subtree(n)
      PROVE  Len(n) <= Len(m) /\ Subtree(m) \subseteq Subtree(n)
  <2>1. m \in Nodes /\ Len(n) <= Len(m) /\ \A i \in 1..Len(n) : n[i] = m[i]
    BY UnderIs DEF Subtree
  <2>2. SUFFICES ASSUME NEW k \in Subtree(m) PROVE k \in Subtree(n)
    BY <2>1
  <2>3. k \in Nodes /\ Len(m) <= Len(k) /\ \A i \in 1..Len(m) : m[i] = k[i]
    BY <2>1, UnderIs DEF Subtree
  <2>4. Len(n) <= Len(k) /\ \A i \in 1..Len(n) : n[i] = k[i]
    BY <2>1, <2>3, Lengths
  <2> QED BY <2>3, <2>4, UnderIs DEF Subtree
<1> QED BY <1>1, <1>2

\* Of two nodes above the same one, the longer path is under the shorter.
LEMMA Comparable ==
  ASSUME NEW n \in Nodes, NEW k \in Nodes, NEW m \in Subtree(n), m \in Subtree(k),
         Len(k) <= Len(n)
  PROVE  n \in Subtree(k)
<1>1. m \in Nodes /\ Len(n) <= Len(m) /\ \A i \in 1..Len(n) : n[i] = m[i]
  BY UnderIs DEF Subtree
<1>2. \A i \in 1..Len(k) : k[i] = m[i]
  BY <1>1, UnderIs DEF Subtree
<1>3. \A i \in 1..Len(k) : k[i] = n[i]
  BY <1>1, <1>2, Lengths
<1> QED BY <1>3, UnderIs DEF Subtree

\* Nodes of one length have nothing in common below them.
LEMMA Siblings ==
  ASSUME NEW n \in Nodes, NEW k \in Nodes, NEW m \in Subtree(n), m \in Subtree(k),
         Len(k) = Len(n)
  PROVE  n = k
<1>1. n \in Subtree(k)
  BY Lengths, Comparable
<1>2. \A i \in 1..Len(k) : k[i] = n[i]
  BY <1>1, UnderIs DEF Subtree
<1> QED BY <1>2, Lengths, SeqEqual

\* The children of a node.
LEMMA OfChildren ==
  ASSUME NEW n \in Nodes, NEW c \in Children(n)
  PROVE  /\ c \in Nodes /\ c \in Subtree(n) /\ Len(c) = Len(n) + 1
         /\ Subtree(c) \subseteq Subtree(n) /\ n \notin Subtree(c)
<1>1. c \in Nodes /\ c \in Subtree(n) /\ Len(c) = Len(n) + 1
  BY DEF Children, Subtree
<1>2. n \notin Subtree(c)
  <2> SUFFICES ASSUME n \in Subtree(c) PROVE FALSE
    OBVIOUS
  <2>1. Len(c) <= Len(n)
    BY <1>1, Nested
  <2> QED BY <1>1, <2>1, Lengths
<1> QED BY <1>1, <1>2, Nested

\* What is below a node is the node itself, or below one of its children.
LEMMA ChildAbove ==
  ASSUME NEW n \in Nodes, NEW m \in Subtree(n), m # n
  PROVE  \E c \in Children(n) : m \in Subtree(c)
<1> DEFINE k == Len(n) + 1
           c == SubSeq(m, 1, k)
<1>1. m \in Nodes /\ Len(n) <= Len(m) /\ \A i \in 1..Len(n) : n[i] = m[i]
  BY UnderIs DEF Subtree
<1>2. /\ m \in Seq(STRING) /\ n \in Seq(STRING) /\ Len(n) \in Nat /\ Len(m) \in Nat
  BY <1>1, Lengths
<1>3. Len(n) < Len(m)
  BY <1>1, <1>2, SeqEqual
<1>4. k \in 1..Len(m) /\ c \in Nodes
  BY <1>1, <1>2, <1>3, TreeAssumption
<1>5. Len(c) = k /\ \A i \in 1..k : c[i] = m[i]
  <2>1. \A i \in 1..k : m[i] \in STRING
    BY <1>2, <1>4, ElementOfSeq
  <2> QED BY <1>2, <1>4, <2>1
<1> HIDE DEF c
<1>6. m \in Subtree(c)
  BY <1>1, <1>4, <1>5, UnderIs DEF Subtree
<1>7. c \in Subtree(n)
  BY <1>1, <1>2, <1>4, <1>5, UnderIs DEF Subtree
<1> QED BY <1>4, <1>5, <1>6, <1>7 DEF Children

\* Only a folder contains something.
LEMMA Leaf ==
  ASSUME NEW n \in Nodes, Kind[n] # "folder" PROVE Children(n) = {} /\ Subtree(n) = {n}
<1>1. Children(n) = {}
  BY TreeAssumption
<1>2. Subtree(n) \subseteq {n}
  BY <1>1, ChildAbove
<1> QED BY <1>1, <1>2, Nested

-----------------------------------------------------------------------------
(* Counting.                                                                *)

FilesOf(set) == {m \in set : Kind[m] = "file"}

LEMMA Counts ==
  ASSUME NEW S, S \subseteq Nodes
  PROVE  /\ IsFiniteSet(S) /\ IsFiniteSet(FilesOf(S))
         /\ Items(S) \in Nat /\ Bytes(S) \in Nat /\ Bytes(S) = Size * Cardinality(FilesOf(S))
<1>1. IsFiniteSet(S)
  BY NodesAssumption, FS_Subset
<1>2. IsFiniteSet(FilesOf(S))
  BY <1>1, FS_Subset DEF FilesOf
<1>3. Cardinality(S) \in Nat /\ Cardinality(FilesOf(S)) \in Nat
  BY <1>1, <1>2, FS_CardinalityType
<1>4. Size \in Nat
  BY BoundsAssumption
<1> QED BY <1>1, <1>2, <1>3, <1>4 DEF Items, Bytes, FilesOf

\* Two sets without a common node.
LEMMA DisjointUnion ==
  ASSUME NEW S, NEW T, IsFiniteSet(S), IsFiniteSet(T), S \cap T = {}
  PROVE  Cardinality(S \cup T) = Cardinality(S) + Cardinality(T)
<1>1. Cardinality(S \cup T) = Cardinality(S) + Cardinality(T) - Cardinality(S \cap T)
  BY FS_Union
<1>2. Cardinality(S \cap T) = 0
  BY FS_EmptySet
<1>3. Cardinality(S) \in Nat /\ Cardinality(T) \in Nat
  BY FS_CardinalityType
<1> QED BY <1>1, <1>2, <1>3

\* The count of both is the sum.
LEMMA CountUnion ==
  ASSUME NEW S, NEW T, S \subseteq Nodes, T \subseteq Nodes, S \cap T = {}
  PROVE  Items(S \cup T) = Items(S) + Items(T) /\ Bytes(S \cup T) = Bytes(S) + Bytes(T)
<1>1. Cardinality(S \cup T) = Cardinality(S) + Cardinality(T)
  BY Counts, DisjointUnion
<1>2. Cardinality(FilesOf(S) \cup FilesOf(T)) = Cardinality(FilesOf(S)) + Cardinality(FilesOf(T))
  <2>1. FilesOf(S) \cap FilesOf(T) = {}
    BY DEF FilesOf
  <2>2. IsFiniteSet(FilesOf(S)) /\ IsFiniteSet(FilesOf(T))
    BY Counts
  <2> QED BY <2>1, <2>2, DisjointUnion
<1>3. FilesOf(S \cup T) = FilesOf(S) \cup FilesOf(T)
  BY DEF FilesOf
<1>4. /\ Cardinality(FilesOf(S)) \in Nat /\ Cardinality(FilesOf(T)) \in Nat /\ Size \in Nat
  BY Counts, FS_CardinalityType, BoundsAssumption
<1>5. Size * (Cardinality(FilesOf(S)) + Cardinality(FilesOf(T)))
        = Size * Cardinality(FilesOf(S)) + Size * Cardinality(FilesOf(T))
  BY <1>4
<1>6. /\ Bytes(S) = Size * Cardinality(FilesOf(S)) /\ Bytes(T) = Size * Cardinality(FilesOf(T))
      /\ Bytes(S \cup T) = Size * Cardinality(FilesOf(S \cup T))
  BY Counts
<1> QED BY <1>1, <1>2, <1>3, <1>5, <1>6 DEF Items

\* A part counts no more than the whole.
LEMMA CountSubset ==
  ASSUME NEW S, NEW T, S \subseteq T, T \subseteq Nodes
  PROVE  Items(S) <= Items(T) /\ Bytes(S) <= Bytes(T)
<1>1. S \cup (T \ S) = T /\ S \cap (T \ S) = {} /\ S \subseteq Nodes /\ T \ S \subseteq Nodes
  OBVIOUS
<1>2. Items(T) = Items(S) + Items(T \ S) /\ Bytes(T) = Bytes(S) + Bytes(T \ S)
  BY <1>1, CountUnion
<1>3. /\ Items(S) \in Nat /\ Items(T \ S) \in Nat /\ Bytes(S) \in Nat /\ Bytes(T \ S) \in Nat
  BY <1>1, Counts
<1> QED BY <1>2, <1>3

\* One node.
LEMMA CountOne ==
  ASSUME NEW n \in Nodes
  PROVE  Items({n}) = 1 /\ Bytes({n}) = IF Kind[n] = "file" THEN Size ELSE 0
<1>1. Cardinality({n}) = 1 /\ Cardinality({}) = 0
  BY FS_Singleton, FS_EmptySet
<1>2. FilesOf({n}) = IF Kind[n] = "file" THEN {n} ELSE {}
  BY DEF FilesOf
<1>3. Bytes({n}) = Size * Cardinality(FilesOf({n})) /\ Size \in Nat
  BY Counts, BoundsAssumption
<1> QED BY <1>1, <1>2, <1>3 DEF Items

-----------------------------------------------------------------------------
(* What is done.  A node is finished when it is below no root that is still to *)
(* come and, in every open node above it, below a child that was left.         *)

Within(f, m) ==
  m \in Subtree(f.node) => \E c \in Children(f.node) \ f.todo : m \in Subtree(c)

Finished(F, R, s) ==
  {m \in F : /\ \A r \in R : m \notin Subtree(r)
             /\ \A i \in 1..Len(s) : Within(s[i], m)}

\* The open nodes: each is below a child of the next that is no longer to do.
Chain(F, R, s) ==
  /\ F \subseteq Nodes /\ R \subseteq Roots /\ R \subseteq F
  /\ \A m \in F : Subtree(m) \subseteq F
  /\ \A i \in 1..Len(s) :
       /\ s[i].node \in F /\ s[i].todo \subseteq Children(s[i].node)
       /\ \A r \in R : s[i].node \notin Subtree(r)
  /\ \A i \in 1..Len(s), j \in 1..Len(s) : i < j =>
       \E c \in Children(s[j].node) \ s[j].todo : s[i].node \in Subtree(c)

\* The progress at which each open node began.
Begun(F, R, s) ==
  \A i \in 1..Len(s) :
    /\ s[i].items = Items(Finished(F, R, s) \ Subtree(s[i].node))
    /\ s[i].bytes = Bytes(Finished(F, R, s) \ Subtree(s[i].node))

Fresh(f) == f \in Frames /\ f.todo = Children(f.node)

\* A frame on top of others, and what is below it.
LEMMA Pushed ==
  ASSUME NEW f \in Frames, NEW s \in Seq(Frames)
  PROVE  /\ <<f>> \o s \in Seq(Frames) /\ <<f>> \o s # << >>
         /\ Len(<<f>> \o s) = Len(s) + 1 /\ (<<f>> \o s)[1] = f
         /\ \A i \in 1..Len(s) : (<<f>> \o s)[i + 1] = s[i]
         /\ Head(<<f>> \o s) = f /\ Tail(<<f>> \o s) = s
<1>1. <<f>> \in Seq(Frames) /\ Len(<<f>>) = 1 /\ <<f>>[1] = f
  OBVIOUS
<1>2. /\ <<f>> \o s \in Seq(Frames) /\ Len(<<f>> \o s) = 1 + Len(s)
      /\ \A i \in 1..(1 + Len(s)) : (<<f>> \o s)[i] = IF i <= 1 THEN <<f>>[i] ELSE s[i - 1]
  BY <1>1, ConcatProperties
<1>3. Len(s) \in Nat
  OBVIOUS
<1> DEFINE all == <<f>> \o s
<1>4. all[1] = f
  BY <1>1, <1>2, <1>3
<1>5. \A i \in 1..Len(s) : all[i + 1] = s[i]
  BY <1>2, <1>3
<1>6. all # << >> /\ Len(all) = Len(s) + 1 /\ all \in Seq(Frames)
  BY <1>2, <1>3
<1> HIDE DEF all
<1>7. Head(all) = f
  BY <1>4, <1>6
<1>8. Tail(all) = s
  <2>1. /\ Tail(all) \in Seq(Frames) /\ Len(Tail(all)) = Len(all) - 1
        /\ \A i \in 1..Len(Tail(all)) : Tail(all)[i] = all[i + 1]
    BY <1>6, HeadTailProperties
  <2>2. Len(Tail(all)) = Len(s)
    BY <1>3, <1>6, <2>1
  <2>3. \A i \in 1..Len(s) : Tail(all)[i] = s[i]
    BY <1>5, <2>1, <2>2
  <2> QED BY <2>1, <2>2, <2>3, SeqEqual
<1> QED BY <1>4, <1>5, <1>6, <1>7, <1>8 DEF all

LEMMA Popped ==
  ASSUME NEW s \in Seq(Frames), s # << >>
  PROVE  /\ Tail(s) \in Seq(Frames) /\ Len(s) \in Nat /\ Len(s) > 0
         /\ Len(Tail(s)) = Len(s) - 1 /\ \A i \in 1..Len(Tail(s)) : Tail(s)[i] = s[i + 1]
         /\ Head(s) = s[1] /\ s[1] \in Frames
<1>1. Len(s) \in Nat /\ Len(s) > 0
  BY EmptySeq
<1>2. s[1] \in Frames /\ Head(s) = s[1]
  BY <1>1, ElementOfSeq
<1> QED BY <1>1, <1>2, HeadTailProperties

\* The indices of a sequence with a frame on top.
LEMMA Above ==
  ASSUME NEW f \in Frames, NEW s \in Seq(Frames), NEW i \in 1..Len(<<f>> \o s)
  PROVE  \/ i = 1 /\ (<<f>> \o s)[i] = f
         \/ i > 1 /\ i - 1 \in 1..Len(s) /\ (<<f>> \o s)[i] = s[i - 1]
<1>1. /\ Len(<<f>> \o s) = Len(s) + 1 /\ (<<f>> \o s)[1] = f /\ Len(s) \in Nat
      /\ \A k \in 1..Len(s) : (<<f>> \o s)[k + 1] = s[k]
  BY Pushed
<1>2. CASE i = 1
  BY <1>1, <1>2
<1>3. CASE i # 1
  <2>1. i - 1 \in 1..Len(s) /\ (i - 1) + 1 = i /\ i > 1
    BY <1>1, <1>3
  <2> QED BY <1>1, <2>1
<1> QED BY <1>2, <1>3

\* Nothing below a node that is opened is finished.
LEMMA FreshUnfinished ==
  ASSUME NEW F, NEW R, NEW s \in Seq(Frames), s # << >>, Chain(F, R, s),
         s[1].todo = Children(s[1].node)
  PROVE  Finished(F, R, s) \cap Subtree(s[1].node) = {}
<1>1. 1 \in 1..Len(s)
  BY Popped
<1> QED BY <1>1 DEF Finished, Within

\* An open node is not finished.
LEMMA OpenUnfinished ==
  ASSUME NEW F, NEW R, NEW s \in Seq(Frames), Chain(F, R, s), NEW i \in 1..Len(s)
  PROVE  s[i].node \notin Finished(F, R, s)
<1>1. s[i].node \in Nodes
  BY DEF Chain
<1>2. s[i].node \in Subtree(s[i].node)
  BY <1>1, Nested
<1>3. \A c \in Children(s[i].node) : s[i].node \notin Subtree(c)
  BY <1>1, OfChildren
<1> QED BY <1>2, <1>3 DEF Finished, Within

\* A root is opened.
LEMMA PushRoot ==
  ASSUME NEW F, NEW R, Chain(F, R, << >>), NEW n \in R, NEW f, Fresh(f), f.node = n,
         f.items = Items(Finished(F, R, << >>)), f.bytes = Bytes(Finished(F, R, << >>))
  PROVE  /\ Chain(F, R \ {n}, <<f>>) /\ Begun(F, R \ {n}, <<f>>)
         /\ Finished(F, R \ {n}, <<f>>) = Finished(F, R, << >>)
<1>1. /\ Len(<<f>>) = 1 /\ <<f>>[1] = f /\ Len(<< >>) = 0 /\ f.todo = Children(n)
  BY DEF Fresh
<1>2. n \in Nodes /\ n \in F /\ R \subseteq Nodes /\ \A r \in R : Len(r) = 1
  BY DEF Chain, Roots
<1>3. \A r \in R \ {n} : n \notin Subtree(r)
  <2> SUFFICES ASSUME NEW r \in R \ {n}, n \in Subtree(r) PROVE FALSE
    OBVIOUS
  <2>1. n \in Subtree(n)
    BY <1>2, Nested
  <2> QED BY <1>2, <2>1, Siblings
<1>4. Finished(F, R \ {n}, <<f>>) = Finished(F, R, << >>)
  BY <1>1 DEF Finished, Within
<1>5. Finished(F, R, << >>) \ Subtree(n) = Finished(F, R, << >>)
  BY DEF Finished
<1>6. Chain(F, R \ {n}, <<f>>)
  BY <1>1, <1>2, <1>3 DEF Chain
<1>7. Begun(F, R \ {n}, <<f>>)
  <2> DEFINE D == Finished(F, R, << >>)
  <2>1. f.items = Items(D \ Subtree(f.node)) /\ f.bytes = Bytes(D \ Subtree(f.node))
    BY <1>5
  <2> HIDE DEF D
  <2>2. Finished(F, R \ {n}, <<f>>) = D
    BY <1>4 DEF D
  <2>3. \A i \in 1..Len(<<f>>) : <<f>>[i] = f
    BY <1>1
  <2> QED BY <2>1, <2>2, <2>3 DEF Begun
<1> QED BY <1>4, <1>6, <1>7

\* A child n of the innermost node is opened by f; g is what is left of its parent.
Pushes(F, R, s, n, f, g, t) ==
  /\ s \in Seq(Frames) /\ s # << >> /\ Chain(F, R, s) /\ Begun(F, R, s) /\ n \in s[1].todo
  /\ Fresh(f) /\ f.node = n
  /\ f.items = Items(Finished(F, R, s)) /\ f.bytes = Bytes(Finished(F, R, s))
  /\ g \in Frames /\ g.node = s[1].node /\ g.todo = s[1].todo \ {n}
  /\ g.items = s[1].items /\ g.bytes = s[1].bytes
  /\ t = <<f>> \o (<<g>> \o Tail(s))

\* What is finished stays so.
LEMMA PushChild ==
  ASSUME NEW F, NEW R, NEW s, NEW n, NEW f, NEW g, NEW t, Pushes(F, R, s, n, f, g, t)
  PROVE  /\ t \in Seq(Frames) /\ t # << >> /\ t[1] = f
         /\ Chain(F, R, t) /\ Begun(F, R, t)
         /\ Finished(F, R, t) = Finished(F, R, s)
<1>0. /\ s \in Seq(Frames) /\ s # << >> /\ Chain(F, R, s) /\ Begun(F, R, s) /\ n \in s[1].todo
      /\ Fresh(f) /\ f.node = n
      /\ f.items = Items(Finished(F, R, s)) /\ f.bytes = Bytes(Finished(F, R, s))
      /\ g \in Frames /\ g.node = s[1].node /\ g.todo = s[1].todo \ {n}
      /\ g.items = s[1].items /\ g.bytes = s[1].bytes
      /\ t = <<f>> \o (<<g>> \o Tail(s))
  BY DEF Pushes
<1> USE <1>0
<1> DEFINE p == s[1].node
<1>1. /\ Tail(s) \in Seq(Frames) /\ Len(s) \in Nat /\ Len(s) > 0 /\ Len(Tail(s)) = Len(s) - 1
      /\ \A i \in 1..Len(Tail(s)) : Tail(s)[i] = s[i + 1]
      /\ s[1] \in Frames
  BY Popped
<1>2. /\ g \in Frames /\ f \in Frames /\ g.node = p /\ g.todo = s[1].todo \ {n}
      /\ g.items = s[1].items /\ g.bytes = s[1].bytes /\ f.todo = Children(n)
  BY <1>1 DEF Frames, Fresh
<1>3. <<g>> \o Tail(s) \in Seq(Frames) /\ Len(<<g>> \o Tail(s)) = Len(s)
  <2>1. (Len(s) - 1) + 1 = Len(s)
    BY <1>1
  <2> QED BY <1>1, <1>2, <2>1, Pushed
<1>4. t \in Seq(Frames) /\ Len(t) = Len(s) + 1 /\ t # << >> /\ t[1] = f
  BY <1>2, <1>3, Pushed
<1>5. t[2] = g /\ \A i \in 2..Len(s) : t[i + 1] = s[i]
  <2> DEFINE u == <<g>> \o Tail(s)
  <2>1. \A i \in 1..Len(u) : t[i + 1] = u[i]
    BY <1>2, <1>3, Pushed
  <2>2. u[1] = g /\ \A i \in 1..Len(Tail(s)) : u[i + 1] = Tail(s)[i]
    BY <1>1, <1>2, Pushed
  <2> HIDE DEF u
  <2>3. t[2] = g
    <3>1. 1 \in 1..Len(u) /\ 1 + 1 = 2
      BY <1>1, <1>3 DEF u
    <3> QED BY <2>1, <2>2, <3>1
  <2>4. ASSUME NEW i \in 2..Len(s) PROVE t[i + 1] = s[i]
    <3>1. i \in 1..Len(u) /\ i - 1 \in 1..Len(Tail(s)) /\ (i - 1) + 1 = i
      BY <1>1, <1>3 DEF u
    <3>2. t[i + 1] = u[i]
      BY <2>1, <3>1
    <3>3. u[i] = Tail(s)[i - 1]
      BY <2>2, <3>1
    <3>4. Tail(s)[i - 1] = s[i]
      BY <1>1, <3>1
    <3> QED BY <3>2, <3>3, <3>4
  <2> QED BY <2>3, <2>4
<1> HIDE DEF Children, Subtree
<1>6. /\ p \in Nodes /\ p \in F /\ n \in Children(p) /\ n \in Nodes /\ n \in Subtree(p)
      /\ Subtree(n) \subseteq Subtree(p) /\ n \in F /\ 1 \in 1..Len(s)
      /\ s[1].todo \subseteq Children(p)
  <2>1. 1 \in 1..Len(s)
    BY <1>1
  <2>2. p \in Nodes /\ p \in F /\ s[1].todo \subseteq Children(p)
    BY <2>1 DEF Chain
  <2>3. n \in Nodes /\ n \in Subtree(p) /\ Subtree(n) \subseteq Subtree(p)
    BY <2>2, OfChildren
  <2> QED BY <2>1, <2>2, <2>3 DEF Chain
<1>7. \A i \in 1..Len(t) :
        \/ i = 1 /\ t[i] = f
        \/ i = 2 /\ t[i] = g
        \/ i > 2 /\ i - 1 \in 2..Len(s) /\ t[i] = s[i - 1]
  <2> SUFFICES ASSUME NEW i \in 1..Len(t), i # 1, i # 2
               PROVE  i > 2 /\ i - 1 \in 2..Len(s) /\ t[i] = s[i - 1]
    BY <1>4, <1>5
  <2>1. i > 2 /\ i - 1 \in 2..Len(s) /\ (i - 1) + 1 = i
    BY <1>1, <1>4
  <2> QED BY <1>5, <2>1
<1>8. \A i \in 2..Len(s) : n \in Subtree(s[i].node) /\ p \in Subtree(s[i].node)
  <2> SUFFICES ASSUME NEW i \in 2..Len(s)
               PROVE  n \in Subtree(s[i].node) /\ p \in Subtree(s[i].node)
    OBVIOUS
  <2>1. i \in 1..Len(s) /\ 1 < i
    BY <1>1
  <2>2. PICK c \in Children(s[i].node) \ s[i].todo : p \in Subtree(c)
    BY <1>6, <2>1 DEF Chain
  <2>3. s[i].node \in Nodes
    BY <2>1 DEF Chain
  <2>4. c \in Nodes /\ Subtree(c) \subseteq Subtree(s[i].node)
    BY <2>2, <2>3, OfChildren
  <2>5. Subtree(p) \subseteq Subtree(c)
    BY <2>2, <2>4, Nested
  <2> QED BY <1>6, <2>2, <2>4, <2>5
<1>9. Chain(F, R, t)
  <2>1. ASSUME NEW i \in 1..Len(t)
        PROVE  /\ t[i].node \in F /\ t[i].todo \subseteq Children(t[i].node)
               /\ \A r \in R : t[i].node \notin Subtree(r)
    <3>1. CASE i = 1
      <4>1. \A r \in R : n \notin Subtree(r)
        <5> SUFFICES ASSUME NEW r \in R, n \in Subtree(r) PROVE FALSE
          OBVIOUS
        <5>1. r \in Nodes /\ Len(r) = 1
          BY DEF Chain, Roots
        <5>2. Len(r) <= Len(p) /\ n \in Subtree(p)
          BY <1>6, <5>1, Lengths
        <5>3. p \in Subtree(r)
          BY <1>6, <5>1, <5>2, Comparable
        <5> QED BY <1>6, <5>3 DEF Chain
      <4> QED BY <1>2, <1>4, <1>6, <3>1, <4>1
    <3>2. CASE i = 2
      BY <1>2, <1>5, <1>6, <3>2 DEF Chain
    <3>3. CASE i > 2
      <4>1. i - 1 \in 1..Len(s) /\ t[i] = s[i - 1]
        BY <1>1, <1>7, <3>3
      <4> QED BY <4>1 DEF Chain
    <3> QED BY <1>7, <3>1, <3>2, <3>3
  <2>2. ASSUME NEW i \in 1..Len(t), NEW j \in 1..Len(t), i < j
        PROVE  \E c \in Children(t[j].node) \ t[j].todo : t[i].node \in Subtree(c)
    <3>1. CASE i = 1 /\ j = 2
      <4>1. n \in Subtree(n) /\ n \in Children(g.node) \ g.todo
        BY <1>2, <1>6, Nested
      <4> QED BY <1>4, <1>5, <3>1, <4>1
    <3>2. CASE i <= 2 /\ j > 2
      <4>1. j - 1 \in 2..Len(s) /\ t[j] = s[j - 1] /\ j - 1 \in 1..Len(s) /\ 1 < j - 1
        BY <1>1, <1>7, <3>2
      <4>2. PICK c \in Children(s[j - 1].node) \ s[j - 1].todo : p \in Subtree(c)
        BY <1>6, <4>1 DEF Chain
      <4>3. c \in Nodes
        BY <4>2 DEF Children, Subtree
      <4>4. n \in Subtree(c)
        BY <1>6, <4>2, <4>3, Nested
      <4>5. t[i].node \in {n, p}
        <5>1. ~(i > 2)
          BY <1>1, <1>4, <3>2
        <5>2. t[i] = f \/ t[i] = g
          BY <1>7, <5>1
        <5> QED BY <1>2, <5>2
      <4> QED BY <4>1, <4>2, <4>4, <4>5
    <3>3. CASE i > 2
      <4>1. /\ i - 1 \in 1..Len(s) /\ j - 1 \in 1..Len(s) /\ i - 1 < j - 1
            /\ t[i] = s[i - 1] /\ t[j] = s[j - 1]
        <5>1. j > 2
          BY <1>1, <1>4, <2>2, <3>3
        <5>2. i - 1 \in 2..Len(s) /\ t[i] = s[i - 1]
          BY <1>7, <3>3
        <5>3. j - 1 \in 2..Len(s) /\ t[j] = s[j - 1]
          BY <1>7, <5>1
        <5> QED BY <1>1, <1>4, <2>2, <5>2, <5>3
      <4>2. \E c \in Children(s[j - 1].node) \ s[j - 1].todo : s[i - 1].node \in Subtree(c)
        BY ONLY <1>0, <4>1 DEF Chain
      <4> QED BY <4>1, <4>2
    <3>4. \/ i = 1 /\ j = 2
          \/ i <= 2 /\ j > 2
          \/ i > 2
      BY <1>1, <1>4, <2>2
    <3> QED BY <3>1, <3>2, <3>3, <3>4
  <2> QED BY <2>1, <2>2 DEF Chain
<1>10. Finished(F, R, t) = Finished(F, R, s)
  <2>1. ASSUME NEW m \in Finished(F, R, t) PROVE m \in Finished(F, R, s)
    <3>1. m \notin Subtree(n)
      <4>1. 1 \in 1..Len(t)
        BY <1>1, <1>4
      <4>2. Within(f, m)
        BY <1>4, <2>1, <4>1 DEF Finished
      <4> QED BY <1>2, <4>2 DEF Within
    <3>2. ASSUME NEW i \in 1..Len(s) PROVE Within(s[i], m)
      <4>1. CASE i = 1
        <5>1. 2 \in 1..Len(t)
          BY <1>1, <1>4
        <5>2. Within(g, m)
          BY <1>5, <2>1, <5>1 DEF Finished
        <5> QED BY <1>2, <3>1, <4>1, <5>2 DEF Within
      <4>2. CASE i # 1
        <5>1. i + 1 \in 1..Len(t) /\ i \in 2..Len(s)
          BY <1>1, <1>4, <4>2
        <5> QED BY <1>5, <2>1, <5>1 DEF Finished
      <4> QED BY <4>1, <4>2
    <3> QED BY <2>1, <3>2 DEF Finished
  <2>2. ASSUME NEW m \in Finished(F, R, s) PROVE m \in Finished(F, R, t)
    <3>1. Within(s[1], m)
      BY <1>6, <2>2 DEF Finished
    <3>2. m \notin Subtree(n)
      <4> SUFFICES ASSUME m \in Subtree(n) PROVE FALSE
        OBVIOUS
      <4>1. PICK c \in Children(p) \ s[1].todo : m \in Subtree(c)
        BY <1>6, <3>1 DEF Within
      <4>2. c \in Nodes /\ Len(c) = Len(n)
        BY <1>6, <4>1, OfChildren
      <4>3. c = n
        BY <1>6, <4>1, <4>2, Siblings
      <4> QED BY <4>1, <4>3
    <3>3. ASSUME NEW i \in 1..Len(t) PROVE Within(t[i], m)
      <4>1. CASE i = 1
        BY <1>2, <1>4, <3>2, <4>1 DEF Within
      <4>2. CASE i = 2
        BY <1>2, <1>5, <3>1, <4>2 DEF Within
      <4>3. CASE i > 2
        <5>1. i - 1 \in 1..Len(s) /\ t[i] = s[i - 1]
          BY <1>1, <1>7, <4>3
        <5> QED BY <2>2, <5>1 DEF Finished
      <4> QED BY <1>7, <4>1, <4>2, <4>3
    <3> QED BY <2>2, <3>3 DEF Finished
  <2> QED BY <2>1, <2>2
<1>11. Finished(F, R, s) \ Subtree(n) = Finished(F, R, s)
  <2>1. 1 \in 1..Len(t)
    BY <1>1, <1>4
  <2>2. ASSUME NEW m \in Finished(F, R, t) PROVE m \notin Subtree(n)
    <3>1. Within(f, m)
      BY <1>4, <2>1 DEF Finished
    <3> QED BY <1>2, <3>1 DEF Within
  <2> QED BY <1>10, <2>2
<1>12. Begun(F, R, t)
  <2> DEFINE D == Finished(F, R, s)
  <2>1. f.items = Items(D \ Subtree(f.node)) /\ f.bytes = Bytes(D \ Subtree(f.node))
    BY <1>11
  <2>2. \A i \in 1..Len(s) : /\ s[i].items = Items(D \ Subtree(s[i].node))
                             /\ s[i].bytes = Bytes(D \ Subtree(s[i].node))
    BY DEF Begun
  <2>3. Finished(F, R, t) = D
    BY <1>10
  <2> HIDE DEF D
  <2>4. g.items = Items(D \ Subtree(g.node)) /\ g.bytes = Bytes(D \ Subtree(g.node))
    BY <1>2, <1>6, <2>2
  <2> SUFFICES ASSUME NEW i \in 1..Len(t)
               PROVE  /\ t[i].items = Items(D \ Subtree(t[i].node))
                      /\ t[i].bytes = Bytes(D \ Subtree(t[i].node))
    BY <2>3 DEF Begun
  <2>5. CASE i = 1
    BY <1>4, <2>1, <2>5
  <2>6. CASE i = 2
    BY <1>5, <2>4, <2>6
  <2>7. CASE i > 2
    <3>1. i - 1 \in 1..Len(s) /\ t[i] = s[i - 1]
      BY <1>1, <1>7, <2>7
    <3> QED BY <2>2, <3>1
  <2> QED BY <1>7, <2>5, <2>6, <2>7
<1> QED BY <1>4, <1>9, <1>10, <1>12

\* The innermost node is left: it is finished with all below it.
LEMMA Pop ==
  ASSUME NEW F, NEW R, NEW s \in Seq(Frames), s # << >>, Chain(F, R, s), Begun(F, R, s)
  PROVE  /\ Chain(F, R, Tail(s)) /\ Begun(F, R, Tail(s))
         /\ Finished(F, R, Tail(s)) = Finished(F, R, s) \cup Subtree(s[1].node)
         /\ s[1].node \in F /\ Subtree(s[1].node) \subseteq F
<1> DEFINE n == s[1].node
           t == Tail(s)
           D == Finished(F, R, s)
<1>1. /\ t \in Seq(Frames) /\ Len(s) \in Nat /\ Len(s) > 0 /\ Len(t) = Len(s) - 1
      /\ \A i \in 1..Len(t) : t[i] = s[i + 1]
  BY Popped
<1>2. /\ \A i \in 1..Len(t) : i + 1 \in 1..Len(s) /\ 1 < i + 1 /\ t[i] = s[i + 1]
      /\ \A i \in 2..Len(s) : i - 1 \in 1..Len(t) /\ t[i - 1] = s[i] /\ i \in 1..Len(s)
  <2>1. \A i \in 1..Len(t) : i + 1 \in 1..Len(s) /\ 1 < i + 1
    BY <1>1
  <2>2. \A i \in 2..Len(s) : i - 1 \in 1..Len(t) /\ (i - 1) + 1 = i /\ i \in 1..Len(s)
    BY <1>1
  <2>3. \A i \in 2..Len(s) : t[i - 1] = s[i]
    BY <1>1, <2>2
  <2> QED BY <1>1, <2>1, <2>2, <2>3
<1> HIDE DEF t
<1>3. /\ 1 \in 1..Len(s) /\ n \in F /\ n \in Nodes /\ n \in Subtree(n) /\ Subtree(n) \subseteq F
      /\ s[1].todo \subseteq Children(n)
  <2>1. 1 \in 1..Len(s)
    BY <1>1
  <2>2. n \in F /\ n \in Nodes /\ s[1].todo \subseteq Children(n)
    BY <2>1 DEF Chain
  <2> QED BY <2>1, <2>2, Nested DEF Chain
<1>4. Chain(F, R, t)
  <2>1. \A i \in 1..Len(t), j \in 1..Len(t) : i < j => i + 1 < j + 1
    BY <1>1
  <2>2. \A i \in 1..Len(t) : /\ t[i].node \in F /\ t[i].todo \subseteq Children(t[i].node)
                             /\ \A r \in R : t[i].node \notin Subtree(r)
    BY <1>2 DEF Chain
  <2>3. ASSUME NEW i \in 1..Len(t), NEW j \in 1..Len(t), i < j
        PROVE  \E c \in Children(t[j].node) \ t[j].todo : t[i].node \in Subtree(c)
    <3>1. /\ i + 1 \in 1..Len(s) /\ j + 1 \in 1..Len(s) /\ i + 1 < j + 1
          /\ t[i] = s[i + 1] /\ t[j] = s[j + 1]
      BY <1>2, <2>1, <2>3
    <3> QED BY <3>1 DEF Chain
  <2> QED BY <2>2, <2>3 DEF Chain
\* What is below the node is below none of the roots, and finished in the nodes above.
<1>5. ASSUME NEW m \in Subtree(n)
      PROVE  /\ m \in F /\ \A r \in R : m \notin Subtree(r)
             /\ \A i \in 2..Len(s) : m \in Subtree(s[i].node) /\ Within(s[i], m)
  <2>1. m \in F
    BY <1>3
  <2>2. ASSUME NEW r \in R PROVE m \notin Subtree(r)
    <3> SUFFICES ASSUME m \in Subtree(r) PROVE FALSE
      OBVIOUS
    <3>1. r \in Nodes /\ Len(r) = 1
      BY DEF Chain, Roots
    <3>2. Len(r) <= Len(n)
      BY <1>3, <3>1, Lengths
    <3>3. n \in Subtree(r)
      BY <1>3, <3>1, <3>2, Comparable
    <3> QED BY <1>3, <3>3 DEF Chain
  <2>3. ASSUME NEW i \in 2..Len(s) PROVE m \in Subtree(s[i].node) /\ Within(s[i], m)
    <3>1. i \in 1..Len(s) /\ 1 < i /\ s[i].node \in Nodes
      <4>1. i \in 1..Len(s) /\ 1 < i
        BY <1>1
      <4> QED BY <4>1 DEF Chain
    <3>2. PICK c \in Children(s[i].node) \ s[i].todo : n \in Subtree(c)
      BY <1>3, <3>1 DEF Chain
    <3>3. c \in Nodes /\ Subtree(c) \subseteq Subtree(s[i].node)
      BY <3>1, <3>2, OfChildren
    <3>4. m \in Subtree(c)
      BY <3>2, <3>3, Nested
    <3> QED BY <3>2, <3>3, <3>4 DEF Within
  <2> QED BY <2>1, <2>2, <2>3
<1>6. Finished(F, R, t) = D \cup Subtree(n)
  <2>1. ASSUME NEW m \in Finished(F, R, t), m \notin Subtree(n) PROVE m \in D
    <3>1. ASSUME NEW i \in 1..Len(s) PROVE Within(s[i], m)
      <4>1. CASE i = 1
        BY <2>1, <4>1 DEF Within
      <4>2. CASE i # 1
        <5>1. i \in 2..Len(s)
          BY <1>1, <4>2
        <5>2. i - 1 \in 1..Len(t) /\ t[i - 1] = s[i]
          BY <1>2, <5>1
        <5> QED BY <2>1, <5>2 DEF Finished
      <4> QED BY <4>1, <4>2
    <3> QED BY <2>1, <3>1 DEF Finished
  <2>2. ASSUME NEW m \in D PROVE m \in Finished(F, R, t)
    <3>1. \A i \in 1..Len(t) : Within(t[i], m)
      BY <1>2, <2>2 DEF Finished
    <3> QED BY <2>2, <3>1 DEF Finished
  <2>3. ASSUME NEW m \in Subtree(n) PROVE m \in Finished(F, R, t)
    <3>1. ASSUME NEW i \in 1..Len(t) PROVE Within(t[i], m)
      <4>1. i + 1 \in 2..Len(s) /\ t[i] = s[i + 1]
        BY <1>1, <1>2
      <4> QED BY <1>5, <4>1
    <3> QED BY <1>5, <3>1 DEF Finished
  <2> HIDE DEF D
  <2> QED BY <2>1, <2>2, <2>3
<1>7. Begun(F, R, t)
  <2>1. ASSUME NEW i \in 1..Len(t)
        PROVE  /\ t[i].items = Items(Finished(F, R, t) \ Subtree(t[i].node))
               /\ t[i].bytes = Bytes(Finished(F, R, t) \ Subtree(t[i].node))
    <3>1. i + 1 \in 2..Len(s) /\ i + 1 \in 1..Len(s) /\ t[i] = s[i + 1]
      BY <1>1, <1>2
    <3>2. Subtree(n) \subseteq Subtree(t[i].node)
      BY <1>5, <3>1
    <3>3. Finished(F, R, t) \ Subtree(t[i].node) = D \ Subtree(t[i].node)
      BY <1>6, <3>2
    <3>4. /\ s[i + 1].items = Items(D \ Subtree(s[i + 1].node))
          /\ s[i + 1].bytes = Bytes(D \ Subtree(s[i + 1].node))
      BY <3>1 DEF Begun
    <3> HIDE DEF D
    <3> QED BY <3>1, <3>3, <3>4
  <2> QED BY <2>1 DEF Begun
<1> QED BY <1>3, <1>4, <1>6, <1>7 DEF t

\* A node all of whose children were left is finished alone, when it is left.
LEMMA PopOne ==
  ASSUME NEW F, NEW R, NEW s \in Seq(Frames), s # << >>, Chain(F, R, s), Begun(F, R, s),
         s[1].todo = {}
  PROVE  /\ Finished(F, R, Tail(s)) = Finished(F, R, s) \cup {s[1].node}
         /\ s[1].node \notin Finished(F, R, s) /\ s[1].node \in F
<1> DEFINE n == s[1].node
           D == Finished(F, R, s)
<1>1. /\ Len(s) \in Nat /\ Len(s) > 0 /\ 1 \in 1..Len(s)
  BY Popped
<1>2. n \in Nodes /\ n \in F /\ n \in Subtree(n)
  <2>1. n \in Nodes /\ n \in F
    BY <1>1 DEF Chain
  <2> QED BY <2>1, Nested
<1>3. n \notin D
  BY <1>1, OpenUnfinished
<1>4. Finished(F, R, Tail(s)) = D \cup Subtree(n)
  BY Pop
<1>5. ASSUME NEW m \in Subtree(n), m # n PROVE m \in D
  <2>1. PICK c \in Children(n) : m \in Subtree(c)
    BY <1>2, <1>5, ChildAbove
  <2>2. m \in Finished(F, R, Tail(s))
    BY <1>4
  <2>3. Within(s[1], m)
    BY <2>1 DEF Within
  <2>4. ASSUME NEW i \in 1..Len(s) PROVE Within(s[i], m)
    <3>1. CASE i = 1
      BY <2>3, <3>1
    <3>2. CASE i # 1
      <4>1. i - 1 \in 1..Len(Tail(s)) /\ (i - 1) + 1 = i
        BY <1>1, <3>2, Popped
      <4>2. Tail(s)[i - 1] = s[i]
        BY <4>1, Popped
      <4> QED BY <2>2, <4>1, <4>2 DEF Finished
    <3> QED BY <3>1, <3>2
  <2> QED BY <2>2, <2>4 DEF Finished
<1> HIDE DEF D, n
<1>6. Finished(F, R, Tail(s)) = D \cup {n}
  BY <1>2, <1>4, <1>5
<1> QED BY <1>2, <1>3, <1>6 DEF D, n

\* The innermost node starts again.
Resets(F, R, s, t) ==
  /\ s \in Seq(Frames) /\ s # << >> /\ Chain(F, R, s) /\ Begun(F, R, s)
  /\ t = <<Again(s[1])>> \o Tail(s)

\* Nothing below it is finished any more.
LEMMA Reset ==
  ASSUME NEW F, NEW R, NEW s, NEW t, Resets(F, R, s, t)
  PROVE  /\ t \in Seq(Frames) /\ t # << >> /\ Len(t) = Len(s) /\ t[1] = Again(s[1])
         /\ \A i \in 1..Len(s) : t[i].node = s[i].node
         /\ Chain(F, R, t) /\ Begun(F, R, t)
         /\ Finished(F, R, t) = Finished(F, R, s) \ Subtree(s[1].node)
<1>0. /\ s \in Seq(Frames) /\ s # << >> /\ Chain(F, R, s) /\ Begun(F, R, s)
      /\ t = <<Again(s[1])>> \o Tail(s)
  BY DEF Resets
<1> USE <1>0
<1> DEFINE n == s[1].node
           f == Again(s[1])
           D == Finished(F, R, s)
<1>1. /\ Tail(s) \in Seq(Frames) /\ Len(s) \in Nat /\ Len(s) > 0 /\ Len(Tail(s)) = Len(s) - 1
      /\ \A i \in 1..Len(Tail(s)) : Tail(s)[i] = s[i + 1]
      /\ s[1] \in Frames /\ 1 \in 1..Len(s)
  BY Popped
<1>2. /\ f \in Frames /\ f.node = n /\ f.todo = Children(n) /\ f.items = s[1].items
      /\ f.bytes = s[1].bytes /\ n \in Nodes
  <2>1. n \in Nodes
    BY <1>1 DEF Chain
  <2>2. Children(n) \subseteq Nodes
    BY DEF Children, Subtree
  <2> QED BY <1>1, <2>1, <2>2 DEF Again, Frames
<1> HIDE DEF f
<1>3. t \in Seq(Frames) /\ t # << >> /\ Len(t) = (Len(s) - 1) + 1 /\ t[1] = f
  BY <1>1, <1>2, Pushed DEF f
<1>4. Len(t) = Len(s)
  BY <1>1, <1>3
<1>5. \A i \in 1..Len(s) : i # 1 => t[i] = s[i]
  <2> SUFFICES ASSUME NEW i \in 1..Len(s), i # 1 PROVE t[i] = s[i]
    OBVIOUS
  <2>1. i - 1 \in 1..Len(Tail(s)) /\ (i - 1) + 1 = i
    BY <1>1
  <2>2. t[(i - 1) + 1] = Tail(s)[i - 1]
    BY <1>1, <1>2, <2>1, Pushed DEF f
  <2> QED BY <1>1, <2>1, <2>2
<1>6. \A i \in 1..Len(s) : t[i].node = s[i].node /\ t[i].items = s[i].items /\ t[i].bytes = s[i].bytes
  BY <1>2, <1>3, <1>5
<1>7. Chain(F, R, t)
  <2>1. \A i \in 1..Len(t) : /\ t[i].node \in F /\ t[i].todo \subseteq Children(t[i].node)
                             /\ \A r \in R : t[i].node \notin Subtree(r)
    <3> SUFFICES ASSUME NEW i \in 1..Len(s)
                 PROVE  /\ t[i].node \in F /\ t[i].todo \subseteq Children(t[i].node)
                        /\ \A r \in R : t[i].node \notin Subtree(r)
      BY <1>4
    <3>1. t[i].node \in F /\ \A r \in R : t[i].node \notin Subtree(r)
      BY <1>6 DEF Chain
    <3>2. t[i].todo \subseteq Children(t[i].node)
      BY <1>2, <1>3, <1>5 DEF Chain
    <3> QED BY <3>1, <3>2
  <2>2. ASSUME NEW i \in 1..Len(t), NEW j \in 1..Len(t), i < j
        PROVE  \E c \in Children(t[j].node) \ t[j].todo : t[i].node \in Subtree(c)
    <3>1. i \in 1..Len(s) /\ j \in 1..Len(s) /\ j # 1
      BY <1>1, <1>4, <2>2
    <3>2. t[i].node = s[i].node /\ t[j] = s[j]
      BY <1>5, <1>6, <3>1
    <3> QED BY <2>2, <3>1, <3>2 DEF Chain
  <2> QED BY <2>1, <2>2 DEF Chain
<1>8. Finished(F, R, t) = D \ Subtree(n)
  <2>1. ASSUME NEW m \in Finished(F, R, t) PROVE m \in D /\ m \notin Subtree(n)
    <3>1. Within(f, m)
      BY <1>1, <1>3, <1>4, <2>1 DEF Finished
    <3>2. m \notin Subtree(n)
      BY <1>2, <3>1 DEF Within
    <3>3. ASSUME NEW i \in 1..Len(s) PROVE Within(s[i], m)
      <4>1. CASE i = 1
        BY <3>2, <4>1 DEF Within
      <4>2. CASE i # 1
        BY <1>4, <1>5, <2>1, <4>2 DEF Finished
      <4> QED BY <4>1, <4>2
    <3> QED BY <2>1, <3>2, <3>3 DEF Finished
  <2>2. ASSUME NEW m \in D, m \notin Subtree(n) PROVE m \in Finished(F, R, t)
    <3>1. ASSUME NEW i \in 1..Len(t) PROVE Within(t[i], m)
      <4>1. CASE i = 1
        <5>1. t[i].node = n
          BY <1>2, <1>3, <4>1
        <5> QED BY <2>2, <5>1 DEF Within
      <4>2. CASE i # 1
        BY <1>4, <1>5, <2>2, <4>2 DEF Finished
      <4> QED BY <4>1, <4>2
    <3> QED BY <2>2, <3>1 DEF Finished
  <2> HIDE DEF D, n
  <2> QED BY <2>1, <2>2
<1>9. Begun(F, R, t)
  <2>1. ASSUME NEW i \in 1..Len(t)
        PROVE  /\ t[i].items = Items(Finished(F, R, t) \ Subtree(t[i].node))
               /\ t[i].bytes = Bytes(Finished(F, R, t) \ Subtree(t[i].node))
    <3>1. i \in 1..Len(s)
      BY <1>4
    <3>2. Subtree(n) \subseteq Subtree(s[i].node)
      <4>1. CASE i = 1
        BY <4>1
      <4>2. CASE i # 1
        <5>1. 1 < i /\ s[i].node \in Nodes
          <6>1. 1 < i
            BY <1>1, <3>1, <4>2
          <6> QED BY <3>1, <6>1 DEF Chain
        <5>2. PICK c \in Children(s[i].node) \ s[i].todo : n \in Subtree(c)
          BY <1>1, <3>1, <5>1 DEF Chain
        <5>3. c \in Nodes /\ Subtree(c) \subseteq Subtree(s[i].node)
          BY <5>1, <5>2, OfChildren
        <5> QED BY <5>2, <5>3, Nested
      <4> QED BY <4>1, <4>2
    <3>3. Finished(F, R, t) \ Subtree(s[i].node) = D \ Subtree(s[i].node)
      BY <1>8, <3>2
    <3>4. /\ s[i].items = Items(D \ Subtree(s[i].node))
          /\ s[i].bytes = Bytes(D \ Subtree(s[i].node))
      BY <3>1 DEF Begun
    <3>5. t[i].node = s[i].node /\ t[i].items = s[i].items /\ t[i].bytes = s[i].bytes
      BY <1>6, <3>1
    <3> HIDE DEF D
    <3> QED BY <3>3, <3>4, <3>5
  <2> QED BY <2>1 DEF Begun
<1> QED BY <1>3, <1>4, <1>6, <1>7, <1>8, <1>9 DEF f

-----------------------------------------------------------------------------
(* The invariant.                                                          *)

Done == Finished(found, roots, stack)

\* What is delivered of a node.
Good(content, m) == IF Kind[m] = "folder" THEN IsFolder(content) ELSE content = "own"

\* Where no node is open; where nothing below the innermost one was begun; where it
\* is a file; where the batch has an exception.
Nowhere == {"discover", "roots", "ended"}
Unopened == {"top", "stat", "resolve", "ask", "clear", "make", "open", "copy", "close",
             "prepare", "commit", "cleanup"}
FileWork == {"open", "copy", "close", "prepare", "commit", "cleanup"}
Failing == {"cleanup", "recover", "failed"}

\* The open nodes are a way down the tree.
Shape ==
  /\ Chain(found, roots, stack)
  /\ stack = << >> <=> pc \in Nowhere
  /\ pc \in Unopened => stack[1].todo = Children(stack[1].node)
  /\ pc = "attributes" => stack[1].todo = {}
  /\ pc = "discover" => found = {}
  /\ pc \in Failing => thrown # "none"
  /\ pc \notin Failing \cup {"ended"} => thrown = "none"
  /\ pc = "ended" /\ thrown = "none" => roots = {}

\* What is open is of the kind its step is for, and the folders on the way are there.
Kinds ==
  /\ pc \in FileWork => Kind[stack[1].node] = "file"
  /\ pc = "make" => Kind[stack[1].node] # "file"
  /\ pc = "children" => Kind[stack[1].node] = "folder" /\ IsFolder(dest[stack[1].node])
  /\ pc = "attributes" => Good(dest[stack[1].node], stack[1].node)
  /\ pc \in {"resolve", "ask"} /\ seen = "folder" => IsFolder(dest[stack[1].node])
  /\ \A i \in 2..Len(stack) : IsFolder(dest[stack[i].node])

\* What was lost was given up, once and for the whole batch.
Consent ==
  /\ over \/ pc = "clear" \/ lost # {} => decision = "overwrite"
  /\ pc = "clear" /\ Kind[stack[1].node] = "file" => direction = "send" /\ ~Commits
  /\ pc = "prepare" => direction = "send"
  /\ pc = "ask" => decision = "unset"
  /\ decision = "unset" =>
       \/ asks = 0
       \/ asks = 1 /\ (pc = "ended" \/ (pc = "recover" /\ thrown = "canceled"))
  /\ asks <= 1
  /\ AtomicReplace

\* Whose a temporary file is, as far as it is known.
Owned ==
  /\ creation = "created" => owner # "foreign"
  /\ creation = "not_created" => owner # "ours"
  /\ ~foreignLost /\ (Committing => ~stranded)

\* What is finished is delivered or was skipped, unless it is to be rolled back.
Delivered ==
  \A m \in Done \ skipped :
    \/ Good(dest[m], m)
    \/ pc \in {"recover", "failed"} /\ m \in Subtree(stack[1].node)
    \/ pc = "ended" /\ thrown # "none"

\* What is counted of an unfinished file.
Part ==
  IF /\ pc \in {"copy", "close", "prepare", "clear", "commit", "cleanup", "attributes"}
     /\ Kind[stack[1].node] = "file"
  THEN copied ELSE 0

\* The progress is what is finished, or was when the innermost node began.
Counted ==
  /\ Begun(found, roots, stack)
  /\ pc \notin {"recover", "failed", "ended"} => items = Items(Done) /\ bytes = Bytes(Done) + Part
  /\ pc \in {"close", "prepare", "clear", "commit", "attributes"} =>
       (Kind[stack[1].node] = "file" => copied = Size)
  /\ pc = "failed" => items = stack[1].items /\ bytes = stack[1].bytes
  /\ items <= Items(found) /\ bytes <= Bytes(found)
  /\ pc = "ended" /\ thrown = "none" => items = Items(found) /\ bytes = Bytes(found)

TransferInv == TypeOK /\ Shape /\ Kinds /\ Consent /\ Owned /\ Delivered /\ Counted

-----------------------------------------------------------------------------
(* The types.                                                              *)

\* The innermost open node.
LEMMA OpenNode ==
  ASSUME TypeOK, Shape, pc \notin Nowhere
  PROVE  /\ stack # << >> /\ Head(stack) = stack[1] /\ stack[1] \in Frames
         /\ Tail(stack) \in Seq(Frames) /\ Node = stack[1].node /\ Node \in Nodes
         /\ Len(stack) \in Nat /\ Len(stack) > 0 /\ 1 \in 1..Len(stack)
         /\ stack \in Seq(Frames) /\ Chain(found, roots, stack)
<1>1. stack # << >> /\ stack \in Seq(Frames) /\ Chain(found, roots, stack)
  BY DEF Shape, TypeOK
<1>2. /\ Head(stack) = stack[1] /\ stack[1] \in Frames /\ Tail(stack) \in Seq(Frames)
      /\ Len(stack) \in Nat /\ Len(stack) > 0
  BY <1>1, Popped
<1>3. 1 \in 1..Len(stack) /\ stack[1].node \in Nodes
  BY <1>2 DEF Frames
<1> QED BY <1>1, <1>2, <1>3 DEF Node

LEMMA ThrowsTyped ==
  ASSUME TypeOK, NEW next, Throws(next)
  PROVE  /\ pc' = next /\ thrown' \in {"error", "canceled"} /\ faults' \in 0..MaxFaults
<1>1. MaxFaults \in Nat /\ faults \in 0..MaxFaults
  BY BoundsAssumption DEF TypeOK
<1> QED BY <1>1 DEF Throws

LEMMA BecomesTyped ==
  ASSUME TypeOK, NEW n \in Nodes, NEW content \in Contents, Becomes(n, content)
  PROVE  /\ dest' \in [Nodes -> Contents] /\ lost' \subseteq Nodes
         /\ dest'[n] = content /\ \A m \in Nodes : m # n => dest'[m] = dest[m]
         /\ \/ lost' = lost
            \/ dest[n] \in Old \cup {"partFolder"} /\ lost' = lost \cup {n}
BY DEF TypeOK, Becomes, Loses

LEMMA EnterTyped ==
  ASSUME TypeOK, NEW n \in Nodes, NEW outer \in Seq(Frames), Enter(n, outer)
  PROVE  /\ stack' \in Seq(Frames) /\ stack' # << >> /\ pc' = "top" /\ UNCHANGED <<thrown, faults>>
         /\ \E f \in Frames : /\ Fresh(f) /\ f.node = n /\ f.items = items /\ f.bytes = bytes
                              /\ stack' = <<f>> \o outer
<1> DEFINE f == [node |-> n, todo |-> Children(n), bytes |-> bytes, items |-> items]
<1>1. Children(n) \subseteq Nodes /\ bytes \in Nat /\ items \in Nat
  BY DEF Children, Subtree, TypeOK
<1>2. f \in Frames /\ Fresh(f) /\ f.node = n /\ f.items = items /\ f.bytes = bytes
  BY <1>1 DEF Frames, Fresh
<1>3. stack' = <<f>> \o outer /\ pc' = "top" /\ UNCHANGED <<thrown, faults>>
  BY DEF Enter, Goes
<1> HIDE DEF f
<1> QED BY <1>2, <1>3, Pushed

LEMMA LeaveTyped ==
  ASSUME TypeOK, stack # << >>, Leave
  PROVE  /\ stack' = Tail(stack) /\ stack' \in Seq(Frames)
         /\ \/ stack' = << >> /\ pc' = "roots"
            \/ stack' # << >> /\ pc' = "children"
<1>1. Tail(stack) \in Seq(Frames)
  BY Popped DEF TypeOK
<1> QED BY <1>1 DEF Leave

LEMMA CompleteTyped ==
  ASSUME TypeOK, Node \in Nodes, CompleteSubtree
  PROVE  /\ items' = items + Items(Subtree(Node)) /\ bytes' = bytes + Bytes(Subtree(Node))
         /\ items' \in Nat /\ bytes' \in Nat /\ skipped' = skipped \cup Subtree(Node)
         /\ skipped' \subseteq Nodes /\ found' = found
<1>1. Subtree(Node) \subseteq Nodes
  BY DEF Subtree
<1>2. Items(Subtree(Node)) \in Nat /\ Bytes(Subtree(Node)) \in Nat
  BY <1>1, Counts
<1> QED BY <1>1, <1>2 DEF CompleteSubtree, TypeOK

\* The batch's steps on its way down and up the tree.
LEMMA TypeOfTree ==
  ASSUME TypeOK, Shape, Discover \/ NextRoot \/ NextChild \/ Unwind \/ Recover \/ Decide \/ Rethrow
  PROVE  TypeOK'
<1> USE DEF outside, request, conflict, progress, temporary, history
<1>1. CASE Discover
  <2>1. /\ UNCHANGED <<outside, cancelled, stack, conflict, bytes, items, dest, temporary, history>>
        /\ pc' \in {"roots", "ended"} /\ faults' = faults
        /\ thrown' \in {"none", "error", "canceled", "abort"} \cup {thrown}
        /\ roots' \subseteq Nodes /\ found' \subseteq Nodes
    <3>1. Roots \subseteq Nodes /\ \A n \in Nodes : Subtree(n) \subseteq Nodes
      BY DEF Roots, Subtree
    <3> QED BY <1>1, <3>1 DEF Discover, Goes, TypeOK
  <2> QED BY <2>1 DEF TypeOK
<1>2. CASE NextRoot
  <2>1. /\ UNCHANGED <<outside, cancelled, conflict, progress, dest, temporary, history>>
        /\ UNCHANGED <<thrown, faults>>
        /\ pc' \in {"top", "ended"} /\ roots' \subseteq Nodes /\ stack' \in Seq(Frames)
    <3>1. CASE \E n \in roots : roots' = roots \ {n} /\ Enter(n, << >>)
      <4>1. PICK n \in roots : roots' = roots \ {n} /\ Enter(n, << >>)
        BY <3>1
      <4>2. n \in Nodes /\ << >> \in Seq(Frames) /\ roots \subseteq Nodes
        BY DEF TypeOK
      <4> QED BY <1>2, <4>1, <4>2, EnterTyped DEF NextRoot
    <3>2. CASE roots = {} /\ Goes("ended") /\ UNCHANGED <<roots, stack>>
      BY <1>2, <3>2 DEF NextRoot, Goes, TypeOK
    <3> QED BY <1>2, <3>1, <3>2 DEF NextRoot
  <2> QED BY <2>1 DEF TypeOK
<1>3. CASE NextChild
  <2>1. stack[1] \in Frames /\ Tail(stack) \in Seq(Frames) /\ Head(stack) = stack[1]
    BY <1>3, OpenNode DEF NextChild, Nowhere
  <2>2. /\ UNCHANGED <<outside, cancelled, roots, conflict, progress, dest, temporary, history>>
        /\ UNCHANGED <<thrown, faults>>
        /\ pc' \in {"top", "attributes"} /\ stack' \in Seq(Frames)
    <3>1. CASE \E n \in stack[1].todo : Enter(n, <<[stack[1] EXCEPT !.todo = @ \ {n}]>> \o Tail(stack))
      <4>1. PICK n \in stack[1].todo : Enter(n, <<[stack[1] EXCEPT !.todo = @ \ {n}]>> \o Tail(stack))
        BY <3>1
      <4> DEFINE g == [stack[1] EXCEPT !.todo = @ \ {n}]
      <4>2. n \in Nodes /\ g \in Frames
        BY <2>1 DEF Frames
      <4> HIDE DEF g
      <4>3. <<g>> \o Tail(stack) \in Seq(Frames)
        BY <2>1, <4>2, Pushed
      <4>4. Enter(n, <<g>> \o Tail(stack))
        BY <4>1 DEF g
      <4> QED BY <1>3, <4>2, <4>3, <4>4, EnterTyped DEF NextChild
    <3>2. CASE Goes("attributes") /\ UNCHANGED stack
      BY <1>3, <3>2 DEF NextChild, Goes, TypeOK
    <3> QED BY <1>3, <2>1, <3>1, <3>2 DEF NextChild
  <2> QED BY <2>2 DEF TypeOK
<1>4. CASE Unwind
  <2>1. << >> \in Seq(Frames)
    OBVIOUS
  <2> QED BY <1>4, <2>1 DEF Unwind, EndBatch, TypeOK
<1>5. CASE Recover
  <2>1. stack[1] \in Frames /\ Head(stack) = stack[1]
    BY <1>5, OpenNode DEF Recover, Nowhere
  <2>2. bytes' \in Nat /\ items' \in Nat /\ found' = found
    BY <1>5, <2>1 DEF Recover, RollBack, Frames
  <2> QED BY <1>5, <2>2 DEF Recover, TypeOK
<1>6. CASE Decide
  <2>1. /\ stack[1] \in Frames /\ Tail(stack) \in Seq(Frames) /\ Head(stack) = stack[1]
        /\ stack # << >> /\ Node \in Nodes
    BY <1>6, OpenNode DEF Decide, Nowhere
  <2>2. /\ UNCHANGED <<outside, cancelled, roots, conflict, dest, temporary, faults, lost>>
        /\ UNCHANGED <<stranded, foreignLost>>
    BY <1>6 DEF Decide
  <2>3. /\ stack' \in Seq(Frames) /\ pc' \in {"top", "roots", "children", "ended"}
        /\ thrown' \in {"none", "abort", "canceled"}
        /\ bytes' \in Nat /\ items' \in Nat /\ found' \subseteq Nodes /\ skipped' \subseteq Nodes
    <3>1. CASE pc' = "top" /\ thrown' = "none" /\ stack' = <<Again(Head(stack))>> \o Tail(stack)
               /\ UNCHANGED <<progress, skipped>>
      <4>1. Again(stack[1]) \in Frames
        <5>1. Children(stack[1].node) \subseteq Nodes
          BY DEF Children, Subtree
        <5> QED BY <2>1, <5>1 DEF Again, Frames
      <4>2. stack' \in Seq(Frames)
        BY <2>1, <3>1, <4>1, Pushed
      <4> QED BY <3>1, <4>2 DEF TypeOK
    <3>2. CASE CompleteSubtree /\ Leave /\ thrown' = "none"
      BY <2>1, <3>2, CompleteTyped, LeaveTyped DEF TypeOK
    <3>3. CASE EndBatch /\ thrown' \in {"abort", "canceled"} /\ UNCHANGED <<progress, skipped>>
      <4>1. << >> \in Seq(Frames)
        OBVIOUS
      <4> QED BY <3>3, <4>1 DEF EndBatch, TypeOK
    <3> QED BY <1>6, <3>1, <3>2, <3>3 DEF Decide
  <2> QED BY <2>2, <2>3 DEF TypeOK
<1>7. CASE Rethrow
  <2>1. Tail(stack) \in Seq(Frames)
    BY <1>7, OpenNode DEF Rethrow, Nowhere
  <2> QED BY <1>7, <2>1 DEF Rethrow, TypeOK
<1> QED BY <1>1, <1>2, <1>3, <1>4, <1>5, <1>6, <1>7

\* Its steps on the destination of a node.
LEMMA TypeOfNode ==
  ASSUME TypeOK, Shape,
         Top \/ Stat \/ Resolve \/ Ask \/ Clear \/ Make \/ Attributes
  PROVE  TypeOK'
<1> USE DEF outside, request, conflict, progress, temporary, history
<1>1. CASE Top
  <2>1. thrown' \in {"canceled", thrown} /\ faults' = faults /\ pc' \in {"recover", "stat"}
    BY <1>1 DEF Top, Goes
  <2> QED BY <1>1, <2>1 DEF Top, TypeOK
<1>2. CASE Stat
  <2>1. /\ thrown' \in {"error", "canceled", thrown} /\ faults' \in 0..MaxFaults
        /\ pc' \in {"recover", "resolve"} /\ seen' \in {"none", "folder", "other"}
    <3>1. CASE Throws("recover") /\ UNCHANGED seen
      BY <3>1, ThrowsTyped DEF TypeOK
    <3>2. CASE ~(Throws("recover") /\ UNCHANGED seen)
      BY <1>2, <3>2 DEF Stat, Goes, TypeOK
    <3> QED BY <3>1, <3>2
  <2> QED BY <1>2, <2>1 DEF Stat, TypeOK
<1>3. CASE Resolve
  <2>1. /\ stack # << >> /\ Node \in Nodes
    BY <1>3, OpenNode DEF Resolve, Nowhere
  <2>2. over' \in BOOLEAN
    <3>1. over' = Conflicts \/ over' = over
      BY <1>3 DEF Resolve
    <3>2. Conflicts \in BOOLEAN
      BY DEF Conflicts
    <3> QED BY <3>1, <3>2 DEF TypeOK
  <2>3. /\ pc' \in {"recover", "open", "clear", "children", "make", "ask", "roots"}
        /\ thrown' \in {thrown, "error", "abort"} /\ faults' = faults
        /\ stack' \in Seq(Frames) /\ bytes' \in Nat /\ items' \in Nat /\ found' = found
        /\ skipped' \subseteq Nodes
    <3>1. CASE CompleteSubtree /\ Leave /\ UNCHANGED <<over, thrown, faults>>
      BY <2>1, <3>1, CompleteTyped, LeaveTyped
    <3>2. CASE ~(CompleteSubtree /\ Leave /\ UNCHANGED <<over, thrown, faults>>)
      <4>1. UNCHANGED <<progress, skipped, stack>>
        BY <1>3, <3>2 DEF Resolve
      <4>2. /\ pc' \in {"recover", "open", "clear", "children", "make", "ask"}
            /\ thrown' \in {thrown, "error", "abort"} /\ faults' = faults
        BY <1>3, <3>2 DEF Resolve, Goes
      <4> QED BY <4>1, <4>2 DEF TypeOK
    <3> QED BY <3>1, <3>2
  <2>4. UNCHANGED <<outside, cancelled, roots, decision, asks, seen, dest, temporary,
                    lost, stranded, foreignLost>>
    BY <1>3 DEF Resolve
  <2> QED BY <2>2, <2>3, <2>4 DEF TypeOK
<1>4. CASE Ask
  <2>1. /\ asks' \in Nat /\ decision' \in {decision, "overwrite", "skip", "cancel"}
        /\ pc' \in {"resolve", "recover"} /\ thrown' \in {thrown, "canceled", "abort"}
        /\ faults' = faults
    BY <1>4 DEF Ask, Goes, TypeOK
  <2> QED BY <1>4, <2>1 DEF Ask, TypeOK
<1>5. CASE Clear
  <2>1. Node \in Nodes
    BY <1>5, OpenNode DEF Clear, Nowhere
  <2>2. dest' \in [Nodes -> Contents] /\ lost' \subseteq Nodes
    <3>1. \/ Becomes(Node, "none") \/ UNCHANGED <<dest, lost>> \/ Becomes(Node, "partFolder")
      BY <1>5 DEF Clear
    <3>2. "none" \in Contents /\ "partFolder" \in Contents
      BY DEF Contents
    <3> QED BY <2>1, <3>1, <3>2, BecomesTyped DEF TypeOK
  <2>3. /\ thrown' \in {"error", "canceled", thrown} /\ faults' \in 0..MaxFaults
        /\ pc' \in {"commit", "make", "cleanup", "recover"}
    <3>1. \/ Goes(IF Kind[Node] = "file" THEN "commit" ELSE "make")
          \/ Throws(IF Kind[Node] = "file" THEN "cleanup" ELSE "recover")
      BY <1>5 DEF Clear
    <3>2. CASE Goes(IF Kind[Node] = "file" THEN "commit" ELSE "make")
      BY <3>2 DEF Goes, TypeOK
    <3>3. CASE Throws(IF Kind[Node] = "file" THEN "cleanup" ELSE "recover")
      BY <3>3, ThrowsTyped
    <3> QED BY <3>1, <3>2, <3>3
  <2> QED BY <1>5, <2>2, <2>3 DEF Clear, TypeOK
<1>6. CASE Make
  <2>1. Node \in Nodes /\ stack # << >>
    BY <1>6, OpenNode DEF Make, Nowhere
  <2> DEFINE made == IF Kind[Node] = "folder" THEN "ownFolder" ELSE "own"
  <2>2. made \in Contents
    BY DEF Contents
  <2>3. dest' \in [Nodes -> Contents] /\ lost' \subseteq Nodes
    <3>1. Becomes(Node, made) \/ UNCHANGED <<dest, lost>>
      BY <1>6 DEF Make
    <3> HIDE DEF made
    <3> QED BY <2>1, <2>2, <3>1, BecomesTyped DEF TypeOK
  <2>4. /\ pc' \in {"children", "attributes", "recover", "roots"}
        /\ thrown' \in {thrown, "error", "canceled"} /\ faults' \in 0..MaxFaults
        /\ stack' \in Seq(Frames) /\ bytes' \in Nat /\ items' \in Nat /\ found' \subseteq Nodes
    <3>1. CASE Fulfilled /\ UNCHANGED <<thrown, faults>>
      BY <2>1, <3>1, LeaveTyped DEF Fulfilled, TypeOK
    <3>2. CASE Throws("recover") /\ UNCHANGED <<stack, progress>>
      BY <3>2, ThrowsTyped DEF TypeOK
    <3>3. CASE Goes("children") /\ UNCHANGED <<stack, progress>>
      BY <3>3 DEF Goes, TypeOK
    <3>4. CASE Goes("attributes") /\ UNCHANGED <<stack, progress>>
      BY <3>4 DEF Goes, TypeOK
    <3>5. CASE pc' = "recover" /\ thrown' = "error" /\ UNCHANGED <<faults, stack, progress>>
      BY <3>5 DEF TypeOK
    <3> QED BY <1>6, <3>1, <3>2, <3>3, <3>4, <3>5 DEF Make
  <2>5. UNCHANGED <<outside, cancelled, roots, conflict, temporary, stranded, foreignLost, skipped>>
    BY <1>6 DEF Make
  <2> QED BY <2>3, <2>4, <2>5 DEF TypeOK
<1>7. CASE Attributes
  <2>1. stack # << >>
    BY <1>7, OpenNode DEF Attributes, Nowhere
  <2>2. UNCHANGED <<outside, cancelled, roots, conflict, dest, temporary, history>>
    BY <1>7 DEF Attributes
  <2>3. CASE Fulfilled /\ UNCHANGED <<thrown, faults>>
    <3>1. /\ stack' \in Seq(Frames) /\ pc' \in {"roots", "children"} /\ items' \in Nat
          /\ bytes' = bytes /\ found' = found
      BY <2>1, <2>3, LeaveTyped DEF Fulfilled, TypeOK
    <3> QED BY <2>2, <2>3, <3>1 DEF TypeOK
  <2>4. CASE Throws("recover") /\ UNCHANGED <<stack, progress>>
    BY <2>2, <2>4, ThrowsTyped DEF TypeOK
  <2> QED BY <1>7, <2>3, <2>4 DEF Attributes
<1> QED BY <1>1, <1>2, <1>3, <1>4, <1>5, <1>6, <1>7

\* Its steps on the temporary file, and those of the environment.
LEMMA TypeOfFile ==
  ASSUME TypeOK, Shape,
         \/ Open \/ Copy \/ Close \/ Prepare \/ Commit \/ Cleanup
         \/ RequestCancel \/ ForeignCreates \/ UNCHANGED vars
  PROVE  TypeOK'
<1> USE DEF outside, request, conflict, progress, temporary, history
<1>0. Size \in Nat /\ 0 \in 0..Size
  BY BoundsAssumption
<1>1. CASE Open
  <2>1. /\ stranded' \in BOOLEAN /\ creation' \in {"unknown", "created", creation}
        /\ owner' \in {owner, "ours"} /\ copied' \in {0, copied}
    BY <1>1 DEF Open, TypeOK
  <2>2. /\ pc' \in {"copy", "recover"} /\ thrown' \in {thrown, "error", "canceled"}
        /\ faults' \in 0..MaxFaults
    <3>1. Goes("copy") \/ Throws("recover")
      BY <1>1 DEF Open
    <3> QED BY <3>1, ThrowsTyped DEF Goes, TypeOK
  <2> QED BY <1>0, <1>1, <2>1, <2>2 DEF Open, TypeOK
<1>2. CASE Copy
  <2>1. /\ creation' \in {"unknown", "not_created", "created", creation}
        /\ owner' \in {owner, "ours", "foreign", "nobody"}
    BY <1>2 DEF Copy, UploadFails
  <2>2. copied' \in 0..Size /\ bytes' \in Nat
    BY <1>0, <1>2 DEF Copy, MoreToCopy, TypeOK
  <2>3. /\ pc' \in {"copy", "close", "cleanup"} /\ thrown' \in {thrown, "error", "canceled"}
        /\ faults' \in 0..MaxFaults
    <3>1. Goes("copy") \/ Goes("close") \/ Throws("cleanup")
      BY <1>2 DEF Copy
    <3> QED BY <3>1, ThrowsTyped DEF Goes, TypeOK
  <2> QED BY <1>2, <2>1, <2>2, <2>3 DEF Copy, TypeOK
<1>3. CASE Close
  <2>1. /\ creation' \in {"unknown", "not_created", "created", creation}
        /\ owner' \in {owner, "ours", "foreign", "nobody"}
    BY <1>3 DEF Close, UploadFails
  <2>2. /\ pc' \in {"prepare", "commit", "cleanup"} /\ thrown' \in {thrown, "error", "canceled"}
        /\ faults' \in 0..MaxFaults
    <3>1. Goes("prepare") \/ Goes("commit") \/ Throws("cleanup")
      BY <1>3 DEF Close
    <3> QED BY <3>1, ThrowsTyped DEF Goes, TypeOK
  <2> QED BY <1>3, <2>1, <2>2 DEF Close, TypeOK
<1>4. CASE Prepare
  <2>1. /\ pc' \in {"clear", "commit", "cleanup"} /\ thrown' \in {thrown, "error", "canceled"}
        /\ faults' \in 0..MaxFaults
    <3>1. Goes("clear") \/ Goes("commit") \/ Throws("cleanup")
      BY <1>4 DEF Prepare
    <3> QED BY <3>1, ThrowsTyped DEF Goes, TypeOK
  <2> QED BY <1>4, <2>1 DEF Prepare, TypeOK
<1>5. CASE Commit
  <2>1. Node \in Nodes /\ stack # << >> /\ "own" \in Contents
    BY <1>5, OpenNode DEF Commit, Nowhere, Contents
  <2>2. /\ dest' \in [Nodes -> Contents] /\ lost' \subseteq Nodes /\ owner' \in {owner, "nobody"}
    <3>1. Moved \/ UNCHANGED <<dest, lost, owner>>
      BY <1>5 DEF Commit
    <3> QED BY <2>1, <3>1, BecomesTyped DEF Moved, TypeOK
  <2>3. /\ pc' \in {"attributes", "cleanup", "roots", "children"} /\ creation' \in {creation, "none"}
        /\ thrown' \in {thrown, "error", "canceled"} /\ faults' \in 0..MaxFaults
        /\ stack' \in Seq(Frames) /\ bytes' \in Nat /\ items' \in Nat /\ found' \subseteq Nodes
    <3>1. CASE Fulfilled /\ UNCHANGED <<thrown, faults>> /\ creation' = "none"
      BY <2>1, <3>1, LeaveTyped DEF Fulfilled, TypeOK
    <3>2. CASE Throws("cleanup") /\ UNCHANGED <<creation, stack, progress>>
      BY <3>2, ThrowsTyped DEF TypeOK
    <3>3. CASE /\ pc' \in {"attributes", "cleanup"} /\ thrown' \in {thrown, "error"}
               /\ UNCHANGED <<faults, stack, progress>> /\ creation' \in {creation, "none"}
      BY <3>3 DEF TypeOK
    <3> QED BY <1>5, <3>1, <3>2, <3>3 DEF Commit
  <2>4. UNCHANGED <<outside, cancelled, roots, conflict, copied, stranded, foreignLost, skipped>>
    BY <1>5 DEF Commit
  <2> QED BY <2>2, <2>3, <2>4 DEF TypeOK
<1>6. CASE Cleanup
  <2>1. /\ foreignLost' \in BOOLEAN /\ stranded' \in BOOLEAN
        /\ thrown' \in {thrown, "cleanup", "cleanupCanceled"}
    <3>1. /\ \/ foreignLost' = (foreignLost \/ owner = "foreign")
             \/ foreignLost' = foreignLost
          /\ \/ stranded' = stranded
             \/ stranded' = (stranded \/ owner = "ours")
      BY <1>6 DEF Cleanup
    <3>2. foreignLost \in BOOLEAN /\ stranded \in BOOLEAN
      BY DEF TypeOK
    <3>3. thrown' \in {thrown, "cleanup", "cleanupCanceled"}
      BY <1>6 DEF Cleanup
    <3> QED BY <3>1, <3>2, <3>3
  <2>2. faults' \in 0..MaxFaults
    BY <1>6, BoundsAssumption DEF Cleanup, MayFail, TypeOK
  <2> QED BY <1>6, <2>1, <2>2 DEF Cleanup, TypeOK
<1>7. CASE RequestCancel
  <2>1. cancelled' \in BOOLEAN
    BY <1>7 DEF RequestCancel
  <2> QED BY <1>7, <2>1 DEF RequestCancel, TypeOK
<1>8. CASE ForeignCreates
  <2>1. foreign' \in 0..MaxForeign
    BY <1>8, BoundsAssumption DEF ForeignCreates, TypeOK
  <2>2. dest' \in [Nodes -> Contents]
    BY <1>8 DEF ForeignCreates, TypeOK, Contents, Old
  <2> QED BY <1>8, <2>1, <2>2 DEF ForeignCreates, TypeOK
<1>9. CASE UNCHANGED vars
  BY <1>9 DEF vars, TypeOK
<1> QED BY <1>1, <1>2, <1>3, <1>4, <1>5, <1>6, <1>7, <1>8, <1>9

\* Every step keeps the types.
LEMMA TypeStep == ASSUME TypeOK, Shape, [Next]_vars PROVE TypeOK'
BY TypeOfTree, TypeOfNode, TypeOfFile DEF Next, Batch, Ended

-----------------------------------------------------------------------------
(* The way down and up the tree.                                             *)

TreeInv == Shape /\ Kinds /\ Delivered /\ Counted

\* What is finished was discovered; the open node is not finished and is not one
\* of those it is in, which are folders.
LEMMA Position ==
  ASSUME TypeOK, Shape
  PROVE  /\ Done \subseteq found /\ found \subseteq Nodes
         /\ \A i \in 1..Len(stack) : stack[i].node \in Nodes \ Done /\ stack[i].node \in found
         /\ \A i \in 2..Len(stack) : /\ stack[i].node # stack[1].node
                                     /\ Kind[stack[i].node] = "folder"
                                     /\ Subtree(stack[1].node) \subseteq Subtree(stack[i].node)
<1>1. Done \subseteq found /\ found \subseteq Nodes
  BY DEF Done, Finished, TypeOK
<1>2. stack \in Seq(Frames) /\ Chain(found, roots, stack) /\ Len(stack) \in Nat
  BY DEF TypeOK, Shape
<1>3. \A i \in 1..Len(stack) : stack[i].node \in Nodes \ Done /\ stack[i].node \in found
  BY <1>2, OpenUnfinished DEF Done, Chain
<1>4. ASSUME NEW i \in 2..Len(stack)
      PROVE  /\ stack[i].node # stack[1].node /\ Kind[stack[i].node] = "folder"
             /\ Subtree(stack[1].node) \subseteq Subtree(stack[i].node)
  <2>1. i \in 1..Len(stack) /\ 1 \in 1..Len(stack) /\ 1 < i
    BY <1>2
  <2>2. PICK c \in Children(stack[i].node) \ stack[i].todo : stack[1].node \in Subtree(c)
    BY <1>2, <2>1 DEF Chain
  <2>3. stack[i].node \in Nodes /\ stack[1].node \in Nodes
    BY <1>3, <2>1
  <2>4. /\ c \in Nodes /\ stack[i].node \notin Subtree(c)
        /\ Subtree(c) \subseteq Subtree(stack[i].node)
    BY <2>2, <2>3, OfChildren
  <2>5. Kind[stack[i].node] = "folder"
    BY <2>2, <2>3, TreeAssumption
  <2> QED BY <2>2, <2>4, <2>5, Nested
<1> QED BY <1>1, <1>3, <1>4

\* There is room in the progress for the node that is open.
LEMMA Bounded ==
  ASSUME TypeOK, Shape
  PROVE  /\ Items(Done) \in Nat /\ Bytes(Done) \in Nat /\ Items(found) \in Nat /\ Bytes(found) \in Nat
         /\ Items(Done) <= Items(found) /\ Bytes(Done) <= Bytes(found)
         /\ \A n \in found \ Done :
              /\ Items(Done \cup {n}) = Items(Done) + 1
              /\ Bytes(Done \cup {n}) = Bytes(Done) + (IF Kind[n] = "file" THEN Size ELSE 0)
              /\ Items(Done) + 1 <= Items(found)
              /\ Bytes(Done) + (IF Kind[n] = "file" THEN Size ELSE 0) <= Bytes(found)
<1>1. Done \subseteq found /\ found \subseteq Nodes /\ Done \subseteq Nodes
  BY Position
<1>2. ASSUME NEW n \in found \ Done
      PROVE  /\ Items(Done \cup {n}) = Items(Done) + 1
             /\ Bytes(Done \cup {n}) = Bytes(Done) + (IF Kind[n] = "file" THEN Size ELSE 0)
             /\ Items(Done) + 1 <= Items(found)
             /\ Bytes(Done) + (IF Kind[n] = "file" THEN Size ELSE 0) <= Bytes(found)
  <2>1. /\ n \in Nodes /\ Done \cap {n} = {} /\ {n} \subseteq Nodes
        /\ Done \cup {n} \subseteq found
    BY <1>1
  <2>2. /\ Items(Done \cup {n}) = Items(Done) + Items({n})
        /\ Bytes(Done \cup {n}) = Bytes(Done) + Bytes({n})
    BY <1>1, <2>1, CountUnion
  <2>3. Items({n}) = 1 /\ Bytes({n}) = IF Kind[n] = "file" THEN Size ELSE 0
    BY <2>1, CountOne
  <2>4. Items(Done \cup {n}) <= Items(found) /\ Bytes(Done \cup {n}) <= Bytes(found)
    BY <1>1, <2>1, CountSubset
  <2> QED BY <2>2, <2>3, <2>4
<1> QED BY <1>1, <1>2, Counts, CountSubset

\* The node on top is left: the folder it is in, if any, goes on.
LEMMA Uncovered ==
  ASSUME TypeOK, Shape, Kinds, stack # << >>, stack' = Tail(stack),
         \A m \in Nodes : m # stack[1].node => dest'[m] = dest[m]
  PROVE  /\ stack' # << >> => 1 \in 1..Len(stack')
         /\ \A i \in 1..Len(stack') : /\ IsFolder(dest'[stack'[i].node])
                                     /\ Kind[stack'[i].node] = "folder"
         /\ (stack' = << >> /\ pc' = "roots") \/ (stack' # << >> /\ pc' = "children") => Kinds'
<1>1. /\ stack \in Seq(Frames) /\ Len(stack) \in Nat /\ Len(stack) > 0
      /\ stack' \in Seq(Frames) /\ Len(stack') = Len(stack) - 1
      /\ \A i \in 1..Len(stack') : stack'[i] = stack[i + 1]
  BY Popped DEF TypeOK
<1>2. ASSUME NEW i \in 1..Len(stack')
      PROVE  IsFolder(dest'[stack'[i].node]) /\ Kind[stack'[i].node] = "folder"
  <2>1. i + 1 \in 2..Len(stack) /\ stack'[i] = stack[i + 1] /\ i + 1 \in 1..Len(stack)
    BY <1>1
  <2>2. /\ stack[i + 1].node # stack[1].node /\ Kind[stack[i + 1].node] = "folder"
        /\ stack[i + 1].node \in Nodes
    BY <2>1, Position
  <2>3. IsFolder(dest[stack[i + 1].node])
    BY <2>1 DEF Kinds
  <2> QED BY <2>1, <2>2, <2>3
<1>3. ASSUME stack' # << >> PROVE 1 \in 1..Len(stack')
  <2>1. Len(stack') \in Nat /\ Len(stack') > 0
    BY <1>1, <1>3, EmptySeq
  <2> QED BY <2>1
<1>4. ASSUME (stack' = << >> /\ pc' = "roots") \/ (stack' # << >> /\ pc' = "children")
      PROVE  Kinds'
  <2>1. pc' = "children" => Kind[stack'[1].node] = "folder" /\ IsFolder(dest'[stack'[1].node])
    BY <1>2, <1>3, <1>4
  <2>2. \A i \in 2..Len(stack') : i \in 1..Len(stack')
    OBVIOUS
  <2>3. \A i \in 2..Len(stack') : IsFolder(dest'[stack'[i].node])
    BY <1>2, <2>2
  <2> QED BY <1>4, <2>1, <2>3 DEF Kinds, FileWork, IsFolder
<1> QED BY <1>2, <1>3, <1>4

\* A node is complete: it is finished, and its parent or the batch goes on.
LEMMA FulfilledKeeps ==
  ASSUME TypeOK, TreeInv, Fulfilled, pc \in {"make", "attributes", "commit"},
         UNCHANGED <<thrown, roots, skipped>>, stack[1].todo = {},
         Good(dest'[stack[1].node], stack[1].node),
         \A m \in Nodes : m # stack[1].node => dest'[m] = dest[m],
         Part = IF Kind[stack[1].node] = "file" THEN Size ELSE 0
  PROVE  TreeInv'
<1> DEFINE n == stack[1].node
<1>1. /\ stack # << >> /\ stack \in Seq(Frames) /\ n \in Nodes /\ n \in found /\ n \notin Done
      /\ Chain(found, roots, stack) /\ Begun(found, roots, stack)
      /\ Len(stack) \in Nat /\ Len(stack) > 0
  BY OpenNode, Position DEF TreeInv, Nowhere, Counted
<1>2. /\ stack' = Tail(stack) /\ items' = items + 1 /\ bytes' = bytes /\ found' = found
      /\ \/ stack' = << >> /\ pc' = "roots"
         \/ stack' # << >> /\ pc' = "children"
  BY <1>1, LeaveTyped DEF Fulfilled
<1>3. Done' = Done \cup {n}
  BY <1>1, <1>2, PopOne DEF Done
<1>4. thrown = "none" /\ thrown' = "none"
  BY DEF TreeInv, Shape, Failing
<1>5. Chain(found', roots', stack') /\ Begun(found', roots', stack')
  BY <1>1, <1>2, Pop
<1>6. Shape'
  BY <1>2, <1>4, <1>5 DEF Shape, Nowhere, Unopened, Failing
<1>8. Kinds'
  BY <1>1, <1>2, Uncovered DEF TreeInv
<1>9. Delivered'
  <2> SUFFICES ASSUME NEW m \in Done' \ skipped' PROVE Good(dest'[m], m)
    BY DEF Delivered
  <2>1. CASE m = n
    BY <2>1
  <2>2. CASE m # n
    <3>1. m \in Done \ skipped /\ m \in Nodes
      BY <1>3, <2>2, Position DEF TreeInv
    <3>2. Good(dest[m], m)
      BY <1>4, <3>1 DEF TreeInv, Delivered
    <3>3. dest'[m] = dest[m]
      BY <2>2, <3>1
    <3> QED BY <3>2, <3>3
  <2> QED BY <2>1, <2>2
<1>10. Counted'
  <2>1. items = Items(Done) /\ bytes = Bytes(Done) + Part
    BY DEF TreeInv, Counted
  <2>2. /\ Items(Done \cup {n}) = Items(Done) + 1
        /\ Bytes(Done \cup {n}) = Bytes(Done) + (IF Kind[n] = "file" THEN Size ELSE 0)
        /\ Items(Done) + 1 <= Items(found)
        /\ Bytes(Done) + (IF Kind[n] = "file" THEN Size ELSE 0) <= Bytes(found)
    BY <1>1, Bounded DEF TreeInv
  <2>3. items' = Items(Done') /\ bytes' = Bytes(Done')
    BY <1>2, <1>3, <2>1, <2>2
  <2>4. items' <= Items(found') /\ bytes' <= Bytes(found')
    BY <1>2, <2>1, <2>2
  <2>5. Part' = 0
    BY <1>2 DEF Part
  <2>6. bytes' = Bytes(Done') + Part'
    <3>1. Bytes(Done') \in Nat
      BY <1>2, <2>3 DEF TypeOK
    <3> QED BY <2>3, <2>5, <3>1
  <2> QED BY <1>2, <1>5, <2>3, <2>4, <2>6 DEF Counted
<1> QED BY <1>6, <1>8, <1>9, <1>10 DEF TreeInv

\* A node is skipped: it counts as complete, with all below it.
LEMMA SkipKeeps ==
  ASSUME TypeOK, TreeInv, pc \in {"resolve", "failed"}, CompleteSubtree, Leave,
         thrown' = "none", UNCHANGED <<roots, dest>>
  PROVE  TreeInv'
<1> DEFINE n == stack[1].node
<1>1. /\ stack # << >> /\ stack \in Seq(Frames) /\ n \in Nodes /\ n \in found /\ Node = n
      /\ Chain(found, roots, stack) /\ Begun(found, roots, stack) /\ 1 \in 1..Len(stack)
  BY OpenNode, Position DEF TreeInv, Nowhere, Counted
<1>2. /\ stack' = Tail(stack) /\ found' = found /\ roots' = roots
      /\ items' = items + Items(Subtree(n)) /\ bytes' = bytes + Bytes(Subtree(n))
      /\ items' \in Nat /\ bytes' \in Nat /\ skipped' = skipped \cup Subtree(n)
      /\ \/ stack' = << >> /\ pc' = "roots"
         \/ stack' # << >> /\ pc' = "children"
  BY <1>1, LeaveTyped, CompleteTyped
<1>3. /\ Chain(found', roots', stack') /\ Begun(found', roots', stack')
      /\ Done' = Done \cup Subtree(n) /\ Subtree(n) \subseteq found /\ Done \subseteq found
      /\ found \subseteq Nodes
  BY <1>1, <1>2, Pop, Position DEF Done, TreeInv
<1>4. Shape'
  BY <1>2, <1>3 DEF Shape, Nowhere, Unopened, Failing
<1>5. Kinds'
  BY <1>1, <1>2, Uncovered DEF TreeInv
<1>6. Delivered'
  <2> SUFFICES ASSUME NEW m \in Done' \ skipped' PROVE Good(dest'[m], m)
    BY DEF Delivered
  <2>1. m \in Done \ skipped /\ m \notin Subtree(n)
    BY <1>2, <1>3
  <2>2. Good(dest[m], m)
    BY <2>1 DEF TreeInv, Delivered
  <2> QED BY <2>2
<1>7. items = Items(Done \ Subtree(n)) /\ bytes = Bytes(Done \ Subtree(n))
  <2>1. CASE pc = "resolve"
    <3>1. Done \ Subtree(n) = Done
      BY <1>1, <2>1, FreshUnfinished DEF TreeInv, Shape, Unopened, Done
    <3>2. items = Items(Done) /\ bytes = Bytes(Done) + 0
      BY <2>1 DEF TreeInv, Counted, Part
    <3>3. Bytes(Done) \in Nat
      BY Bounded DEF TreeInv
    <3> HIDE DEF n
    <3> QED BY <3>1, <3>2, <3>3
  <2>2. CASE pc = "failed"
    BY <1>1, <2>2 DEF TreeInv, Counted, Begun, Done
  <2> QED BY <2>1, <2>2
<1>8. Counted'
  <2> DEFINE rest == Done \ Subtree(n)
  <2>1. rest \subseteq Nodes /\ Subtree(n) \subseteq Nodes /\ rest \cap Subtree(n) = {}
    BY <1>3
  <2>2. Done' = rest \cup Subtree(n) /\ Done' \subseteq found /\ found \subseteq Nodes
    BY <1>3
  <2>3. /\ items = Items(rest) /\ bytes = Bytes(rest)
    BY <1>7
  <2> HIDE DEF rest, n
  <2>4. items' = Items(Done') /\ bytes' = Bytes(Done')
    BY <1>2, <2>1, <2>2, <2>3, CountUnion
  <2>5. items' <= Items(found') /\ bytes' <= Bytes(found')
    BY <1>2, <2>2, <2>4, CountSubset
  <2>6. Part' = 0 /\ bytes' = Bytes(Done') + 0
    BY <1>2, <2>4 DEF Part
  <2> QED BY <1>2, <1>3, <2>4, <2>5, <2>6 DEF Counted
<1> QED BY <1>4, <1>5, <1>6, <1>8 DEF TreeInv

\* A step that opens and leaves no node and changes at most what is delivered of the
\* innermost one, or what there was nothing at.
LEMMA QuietKeeps ==
  ASSUME TypeOK, TreeInv, UNCHANGED <<stack, roots, found, skipped>>,
         \A m \in Nodes : \/ dest'[m] = dest[m]
                          \/ dest[m] = "none"
                          \/ stack # << >> /\ m = stack[1].node,
         pc \in {"recover", "failed"} => pc' \in {"recover", "failed"},
         pc = "ended" => pc' = "ended" /\ thrown' = thrown
  PROVE  /\ Done' = Done /\ Delivered'
         /\ \A i \in 2..Len(stack') : IsFolder(dest'[stack'[i].node])
<1>1. Done' = Done
  BY DEF Done
<1>2. ASSUME NEW m \in Nodes, stack # << >> => m # stack[1].node, dest'[m] # dest[m]
      PROVE  ~Good(dest[m], m) /\ ~IsFolder(dest[m])
  BY <1>2 DEF Good, IsFolder
<1>3. Delivered'
  <2> SUFFICES ASSUME NEW m \in Done \ skipped
               PROVE  \/ Good(dest'[m], m)
                      \/ pc' \in {"recover", "failed"} /\ m \in Subtree(stack[1].node)
                      \/ pc' = "ended" /\ thrown' # "none"
    BY <1>1 DEF Delivered
  <2>1. m \in Nodes /\ (stack # << >> => m # stack[1].node)
    <3>1. stack # << >> => 1 \in 1..Len(stack)
      BY Popped DEF TypeOK
    <3> QED BY <3>1, Position DEF TreeInv
  <2>2. \/ Good(dest[m], m)
        \/ pc \in {"recover", "failed"} /\ m \in Subtree(stack[1].node)
        \/ pc = "ended" /\ thrown # "none"
    BY DEF TreeInv, Delivered
  <2>3. Good(dest[m], m) => Good(dest'[m], m)
    BY <1>2, <2>1
  <2> QED BY <2>2, <2>3
<1>4. ASSUME NEW i \in 2..Len(stack) PROVE IsFolder(dest'[stack[i].node])
  <2>1. i \in 1..Len(stack)
    OBVIOUS
  <2>2. stack[i].node \in Nodes /\ stack[i].node # stack[1].node
    BY <2>1, Position DEF TreeInv
  <2>3. IsFolder(dest[stack[i].node])
    BY DEF TreeInv, Kinds
  <2> QED BY <1>2, <2>2, <2>3
<1> QED BY <1>1, <1>3, <1>4

\* A node's attempt begins: it is opened, or tried again.
LEMMA TopKeeps ==
  ASSUME TypeOK, TreeInv, stack' # << >>, pc' = "top", thrown' = "none",
         UNCHANGED <<found, items, bytes, dest, skipped>>,
         Chain(found, roots', stack'), Begun(found, roots', stack'),
         stack'[1].todo = Children(stack'[1].node),
         items = Items(Done'), bytes = Bytes(Done'),
         \A i \in 2..Len(stack') : IsFolder(dest[stack'[i].node]),
         \A m \in Done' \ skipped : Good(dest[m], m)
  PROVE  TreeInv'
<1>1. Shape'
  BY DEF Shape, Nowhere, Unopened, Failing
<1>2. Kinds'
  BY DEF Kinds, FileWork
<1>3. Delivered'
  BY DEF Delivered
<1>4. Part' = 0 /\ bytes \in Nat
  BY DEF Part, TypeOK
<1>5. items <= Items(found) /\ bytes <= Bytes(found)
  BY DEF TreeInv, Counted
<1>6. items' = Items(Done') /\ bytes' = Bytes(Done') + Part'
  BY <1>4
<1>7. Counted'
  BY <1>5, <1>6 DEF Counted
<1> QED BY <1>1, <1>2, <1>3, <1>7 DEF TreeInv

\* What is delivered where nothing is to be rolled back.
LEMMA AllDelivered ==
  ASSUME TreeInv, pc \notin {"recover", "failed", "ended"}
  PROVE  \A m \in Done \ skipped : Good(dest[m], m)
BY DEF TreeInv, Delivered

\* A root, or a child of the innermost folder, is opened.
LEMMA EnterKeeps == ASSUME TypeOK, TreeInv, NextRoot \/ NextChild, pc' = "top" PROVE TreeInv'
<1>1. /\ pc \in {"roots", "children"} /\ UNCHANGED <<progress, dest, history>>
  BY DEF NextRoot, NextChild
<1>2. /\ thrown = "none" /\ items = Items(Done) /\ bytes = Bytes(Done)
  <2>1. thrown = "none" /\ items = Items(Done) /\ bytes = Bytes(Done) + 0
    BY <1>1 DEF TreeInv, Shape, Failing, Counted, Part
  <2>2. Bytes(Done) \in Nat
    BY Bounded DEF TreeInv
  <2> QED BY <2>1, <2>2
<1>3. \A m \in Done \ skipped : Good(dest[m], m)
  BY <1>1, AllDelivered
<1>4. CASE NextRoot
  <2>1. stack = << >> /\ Chain(found, roots, << >>) /\ pc = "roots"
    BY <1>4 DEF TreeInv, Shape, Nowhere, NextRoot
  <2>2. PICK n \in roots : roots' = roots \ {n} /\ Enter(n, << >>)
    BY <1>4 DEF NextRoot, Goes
  <2>3. n \in Nodes /\ << >> \in Seq(Frames)
    BY DEF TypeOK
  <2>4. PICK f \in Frames : /\ Fresh(f) /\ f.node = n /\ f.items = items /\ f.bytes = bytes
                            /\ stack' = <<f>> \o << >>
    BY <2>2, <2>3, EnterTyped
  <2>5. stack' = <<f>> /\ stack' # << >> /\ Len(stack') = 1 /\ stack'[1] = f
    <3>1. <<f>> \in Seq(Frames)
      OBVIOUS
    <3>2. <<f>> \o << >> = <<f>>
      BY <3>1, ConcatEmptySeq
    <3> QED BY <2>4, <3>2
  <2>6. f.items = Items(Finished(found, roots, << >>)) /\ f.bytes = Bytes(Finished(found, roots, << >>))
    BY <1>2, <2>1, <2>4 DEF Done
  <2>7. /\ Chain(found, roots', stack') /\ Begun(found, roots', stack')
        /\ Finished(found, roots', stack') = Done
    BY <2>1, <2>2, <2>4, <2>5, <2>6, PushRoot DEF Done
  <2>8. Done' = Done
    BY <1>1, <2>7 DEF Done, progress
  <2>9. /\ thrown' = "none" /\ UNCHANGED <<found, items, bytes, dest, skipped>>
    BY <1>1, <1>2, <2>2 DEF progress, history, Enter, Goes
  <2>10. stack'[1].todo = Children(stack'[1].node)
    BY <2>4, <2>5 DEF Fresh
  <2>11. 2..Len(stack') = {}
    BY <2>5
  <2>12. items = Items(Done') /\ bytes = Bytes(Done')
    BY <1>2, <2>8
  <2>13. \A m \in Done' \ skipped : Good(dest[m], m)
    BY <1>3, <2>8
  <2> QED BY <2>5, <2>7, <2>9, <2>10, <2>11, <2>12, <2>13, TopKeeps
<1>5. CASE NextChild
  <2>1. /\ stack # << >> /\ stack \in Seq(Frames) /\ Head(stack) = stack[1] /\ stack[1] \in Frames
        /\ Chain(found, roots, stack) /\ Begun(found, roots, stack) /\ pc = "children"
        /\ Tail(stack) \in Seq(Frames) /\ roots' = roots
    BY <1>5, OpenNode DEF TreeInv, Counted, NextChild, Nowhere
  <2>2. PICK n \in stack[1].todo :
          Enter(n, <<[stack[1] EXCEPT !.todo = @ \ {n}]>> \o Tail(stack))
    BY <1>5, <2>1 DEF NextChild, Goes
  <2>3. PICK g : g = [stack[1] EXCEPT !.todo = @ \ {n}]
    OBVIOUS
  <2>4. g \in Frames /\ n \in Nodes /\ <<g>> \o Tail(stack) \in Seq(Frames) /\ g.node = stack[1].node
    <3>1. g \in Frames /\ n \in Nodes /\ g.node = stack[1].node
      BY <2>1, <2>3 DEF Frames
    <3> QED BY <2>1, <3>1, Pushed
  <2>5. PICK f \in Frames : /\ Fresh(f) /\ f.node = n /\ f.items = items /\ f.bytes = bytes
                            /\ stack' = <<f>> \o (<<g>> \o Tail(stack))
    BY <2>2, <2>3, <2>4, EnterTyped
  <2>6. f.items = Items(Finished(found, roots, stack)) /\ f.bytes = Bytes(Finished(found, roots, stack))
    BY <1>2, <2>5 DEF Done
  <2>7. /\ stack' \in Seq(Frames) /\ stack' # << >> /\ stack'[1] = f
        /\ Chain(found, roots, stack') /\ Begun(found, roots, stack')
        /\ Finished(found, roots, stack') = Finished(found, roots, stack)
    <3>1. Fresh(f) /\ f.node = n /\ n \in stack[1].todo
      BY <2>5
    <3>2. /\ g \in Frames /\ g.node = stack[1].node /\ g.todo = stack[1].todo \ {n}
          /\ g.items = stack[1].items /\ g.bytes = stack[1].bytes
          /\ stack' = <<f>> \o (<<g>> \o Tail(stack))
      BY <2>1, <2>3, <2>4, <2>5 DEF Frames
    <3>3. stack # << >> /\ stack \in Seq(Frames) /\ Chain(found, roots, stack) /\ Begun(found, roots, stack)
      BY <2>1
    <3>4. Pushes(found, roots, stack, n, f, g, stack')
      BY <2>6, <3>1, <3>2, <3>3 DEF Pushes
    <3> QED BY <3>4, PushChild
  <2>8. Done' = Done
    BY <1>1, <2>1, <2>7 DEF Done, progress
  <2>9. /\ thrown' = "none" /\ UNCHANGED <<found, items, bytes, dest, skipped>>
    BY <1>1, <1>2, <2>2 DEF progress, history, Enter, Goes
  <2>10. stack'[1].todo = Children(stack'[1].node)
    BY <2>5, <2>7 DEF Fresh
  <2>11. \A i \in 2..Len(stack') : IsFolder(dest[stack'[i].node])
    <3> DEFINE u == <<g>> \o Tail(stack)
    <3>1. \A i \in 1..Len(u) : IsFolder(dest[u[i].node])
      <4> SUFFICES ASSUME NEW i \in 1..Len(u) PROVE IsFolder(dest[u[i].node])
        OBVIOUS
      <4>1. \/ i = 1 /\ u[i] = g
            \/ i > 1 /\ i - 1 \in 1..Len(Tail(stack)) /\ u[i] = Tail(stack)[i - 1]
        BY <2>1, <2>4, Above
      <4>2. CASE i = 1 /\ u[i] = g
        BY <2>1, <2>4, <4>2 DEF TreeInv, Kinds
      <4>3. CASE i > 1 /\ i - 1 \in 1..Len(Tail(stack)) /\ u[i] = Tail(stack)[i - 1]
        <5>1. /\ Len(Tail(stack)) = Len(stack) - 1 /\ Len(stack) \in Nat
              /\ Tail(stack)[i - 1] = stack[(i - 1) + 1]
          BY <2>1, <4>3, Popped
        <5>2. i \in 2..Len(stack) /\ (i - 1) + 1 = i
          BY <4>3, <5>1
        <5>3. u[i] = stack[i]
          BY <4>3, <5>1, <5>2
        <5> HIDE DEF u
        <5> QED BY <5>2, <5>3 DEF TreeInv, Kinds
      <4> QED BY <4>1, <4>2, <4>3
    <3>2. u \in Seq(Frames) /\ stack' = <<f>> \o u
      BY <2>4, <2>5
    <3> HIDE DEF u
    <3> SUFFICES ASSUME NEW i \in 2..Len(stack') PROVE IsFolder(dest[stack'[i].node])
      OBVIOUS
    <3>3. i \in 1..Len(<<f>> \o u) /\ i # 1
      BY <3>2
    <3>4. i - 1 \in 1..Len(u) /\ stack'[i] = u[i - 1]
      BY <3>2, <3>3, Above
    <3> QED BY <3>1, <3>4
  <2>12. items = Items(Done') /\ bytes = Bytes(Done')
    BY <1>2, <2>8
  <2>13. \A m \in Done' \ skipped : Good(dest[m], m)
    BY <1>3, <2>8
  <2> QED BY <2>1, <2>7, <2>9, <2>10, <2>11, <2>12, <2>13, TopKeeps
<1> QED BY <1>4, <1>5

\* The batch ends with an exception: nothing is promised but its progress.
LEMMA EndsKeeps ==
  ASSUME TypeOK, TreeInv, stack' = << >>, pc' = "ended", thrown' # "none",
         UNCHANGED <<roots, found, items, bytes>>
  PROVE  TreeInv'
<1>1. Len(stack') = 0 /\ 1..Len(stack') = {} /\ 2..Len(stack') = {}
  OBVIOUS
<1>2. Chain(found', roots', stack') /\ Begun(found', roots', stack')
  BY <1>1 DEF TreeInv, Shape, Chain, Begun
<1>3. Shape'
  BY <1>2 DEF Shape, Nowhere, Unopened, Failing
<1>4. Kinds'
  BY <1>1 DEF Kinds, FileWork
<1>5. Delivered'
  BY DEF Delivered
<1>6. Counted'
  BY <1>2 DEF TreeInv, Counted
<1> QED BY <1>3, <1>4, <1>5, <1>6 DEF TreeInv

\* The failed node starts from its beginning.
LEMMA RetryKeeps ==
  ASSUME TypeOK, TreeInv, pc = "failed", pc' = "top", thrown' = "none",
         stack' = <<Again(stack[1])>> \o Tail(stack),
         UNCHANGED <<roots, found, items, bytes, dest, skipped>>
  PROVE  TreeInv'
<1>1. /\ stack # << >> /\ stack \in Seq(Frames) /\ 1 \in 1..Len(stack) /\ stack[1] \in Frames
      /\ Chain(found, roots, stack) /\ Begun(found, roots, stack)
  BY OpenNode DEF TreeInv, Counted, Nowhere
<1>2. /\ stack' # << >> /\ Len(stack') = Len(stack) /\ stack'[1] = Again(stack[1])
      /\ \A i \in 1..Len(stack) : stack'[i].node = stack[i].node
      /\ Chain(found, roots, stack') /\ Begun(found, roots, stack')
      /\ Finished(found, roots, stack') = Done \ Subtree(stack[1].node)
  <2>1. Resets(found, roots, stack, stack')
    BY <1>1 DEF Resets
  <2> QED BY <2>1, Reset DEF Done
<1>3. Done' = Done \ Subtree(stack[1].node)
  BY <1>2 DEF Done
<1>4. items = Items(Done') /\ bytes = Bytes(Done')
  <2>1. items = stack[1].items /\ bytes = stack[1].bytes
    BY DEF TreeInv, Counted
  <2>2. /\ stack[1].items = Items(Done \ Subtree(stack[1].node))
        /\ stack[1].bytes = Bytes(Done \ Subtree(stack[1].node))
    BY <1>1 DEF Begun, Done
  <2> QED BY <1>3, <2>1, <2>2
<1>5. stack'[1].todo = Children(stack'[1].node)
  BY <1>1, <1>2 DEF Again, Frames
<1>6. \A i \in 2..Len(stack') : IsFolder(dest[stack'[i].node])
  <2> SUFFICES ASSUME NEW i \in 2..Len(stack) PROVE IsFolder(dest[stack'[i].node])
    BY <1>2
  <2>1. i \in 1..Len(stack) /\ IsFolder(dest[stack[i].node])
    BY DEF TreeInv, Kinds
  <2> QED BY <1>2, <2>1
<1>7. \A m \in Done' \ skipped : Good(dest[m], m)
  BY <1>3 DEF TreeInv, Delivered
<1> QED BY <1>2, <1>4, <1>5, <1>6, <1>7, TopKeeps

\* Without a callback the failure is that of the folder the node is in.
LEMMA RethrowKeeps == ASSUME TypeOK, TreeInv, Rethrow PROVE TreeInv'
<1> USE DEF outside, request, conflict, progress, temporary, history
<1>1. /\ stack # << >> /\ stack \in Seq(Frames) /\ stack' = Tail(stack) /\ pc = "failed"
      /\ Chain(found, roots, stack) /\ Begun(found, roots, stack)
      /\ UNCHANGED <<roots, found, items, bytes, dest, skipped, thrown>> /\ thrown # "none"
  BY OpenNode DEF TreeInv, Counted, Nowhere, Rethrow, Shape, Failing
<1>2. CASE Tail(stack) = << >>
  BY <1>1, <1>2, EndsKeeps DEF Rethrow
<1>3. CASE Tail(stack) # << >>
  <2>1. pc' = "recover"
    BY <1>3 DEF Rethrow
  <2>2. /\ Chain(found', roots', stack') /\ Begun(found', roots', stack')
        /\ Done' = Done \cup Subtree(stack[1].node)
    BY <1>1, Pop DEF Done
  <2>3. Shape'
    BY <1>1, <1>3, <2>1, <2>2 DEF Shape, Nowhere, Unopened, Failing
  <2>4. 1 \in 1..Len(stack') /\ \A i \in 1..Len(stack') : IsFolder(dest'[stack'[i].node])
    BY <1>1, <1>3, Uncovered DEF TreeInv
  <2>5. Kinds'
    <3>1. \A i \in 2..Len(stack') : i \in 1..Len(stack')
      OBVIOUS
    <3> QED BY <2>1, <2>4, <3>1 DEF Kinds, FileWork
  <2>6. Subtree(stack[1].node) \subseteq Subtree(stack'[1].node)
    <3>1. stack'[1] = stack[2] /\ 2 \in 2..Len(stack)
      <4>1. /\ Len(stack) \in Nat /\ Len(stack') = Len(stack) - 1
            /\ \A i \in 1..Len(stack') : stack'[i] = stack[i + 1]
        BY <1>1, Popped
      <4>2. stack'[1] = stack[1 + 1] /\ Len(stack) >= 2
        BY <2>4, <4>1
      <4> QED BY <4>1, <4>2
    <3> QED BY <3>1, Position DEF TreeInv
  <2>7. Delivered'
    <3> SUFFICES ASSUME NEW m \in Done' \ skipped
                 PROVE  Good(dest[m], m) \/ m \in Subtree(stack'[1].node)
      BY <1>1, <2>1 DEF Delivered
    <3>1. m \in Done \/ m \in Subtree(stack[1].node)
      BY <2>2
    <3>2. m \in Done => Good(dest[m], m) \/ m \in Subtree(stack[1].node)
      BY <1>1 DEF TreeInv, Delivered
    <3> QED BY <2>6, <3>1, <3>2
  <2>8. Counted'
    BY <1>1, <2>1, <2>2 DEF TreeInv, Counted
  <2> QED BY <2>3, <2>5, <2>7, <2>8 DEF TreeInv
<1> QED BY <1>2, <1>3

\* The progress goes back to where the node began.
LEMMA RecoverKeeps == ASSUME TypeOK, TreeInv, Recover PROVE TreeInv'
<1> USE DEF outside, request, conflict, progress, temporary, history
<1>1. /\ stack # << >> /\ Head(stack) = stack[1] /\ 1 \in 1..Len(stack)
      /\ Begun(found, roots, stack) /\ pc = "recover" /\ pc' = "failed" /\ thrown # "none"
      /\ UNCHANGED <<stack, roots, found, dest, skipped, thrown>>
      /\ items' = stack[1].items /\ bytes' = stack[1].bytes
  BY OpenNode DEF TreeInv, Counted, Nowhere, Recover, RollBack, Shape, Failing
<1>2. /\ Done' = Done /\ Delivered' /\ \A i \in 2..Len(stack') : IsFolder(dest'[stack'[i].node])
  BY <1>1, QuietKeeps
<1>3. Shape'
  BY <1>1 DEF TreeInv, Shape, Nowhere, Unopened, Failing
<1>4. Kinds'
  BY <1>1, <1>2 DEF Kinds, FileWork
<1>5. Counted'
  <2>1. items' = Items(Done \ Subtree(stack[1].node)) /\ bytes' = Bytes(Done \ Subtree(stack[1].node))
    BY <1>1 DEF Begun, Done
  <2>2. Done \ Subtree(stack[1].node) \subseteq found /\ found \subseteq Nodes
    BY Position DEF TreeInv
  <2>3. items' <= Items(found) /\ bytes' <= Bytes(found)
    BY <2>1, <2>2, CountSubset
  <2> QED BY <1>1, <2>3 DEF Counted
<1> QED BY <1>2, <1>3, <1>4, <1>5 DEF TreeInv

\* What was selected is discovered: nothing of it is finished.
LEMMA DiscoverKeeps == ASSUME TypeOK, TreeInv, Discover PROVE TreeInv'
<1> USE DEF outside, request, conflict, progress, temporary, history
<1>1. /\ pc = "discover" /\ stack = << >> /\ stack' = << >> /\ found = {} /\ thrown = "none"
      /\ UNCHANGED <<items, bytes, dest, skipped>>
  BY DEF TreeInv, Shape, Nowhere, Discover, Failing
<1>2. items = Items({}) /\ bytes = Bytes({}) /\ Items({}) = 0 /\ Bytes({}) = 0
  <2>1. Done = {}
    BY <1>1 DEF Done, Finished
  <2>2. items = Items({}) /\ bytes = Bytes({}) + 0
    BY <1>1, <2>1 DEF TreeInv, Counted, Part
  <2>3. Cardinality({}) = 0 /\ FilesOf({}) = {} /\ Size \in Nat
    BY FS_EmptySet, BoundsAssumption DEF FilesOf
  <2>4. Items({}) = 0 /\ Bytes({}) = Size * Cardinality(FilesOf({}))
    BY <2>3, Counts DEF Items
  <2>5. Bytes({}) = 0
    BY <2>3, <2>4
  <2> QED BY <2>2, <2>4, <2>5
<1>3. CASE pc' = "ended"
  <2>1. thrown' # "none" /\ UNCHANGED <<roots, found>>
    BY <1>1, <1>3 DEF Discover, Goes
  <2> QED BY <1>1, <1>3, <2>1, EndsKeeps
<1>4. CASE pc' # "ended"
  <2>1. PICK chosen \in SUBSET Roots :
          roots' = chosen /\ found' = UNION {Subtree(n) : n \in chosen} /\ Goes("roots")
    BY <1>4 DEF Discover
  <2>2. found' \subseteq Nodes /\ \A m \in found' : \E r \in roots' : r \in Nodes /\ m \in Subtree(r)
    BY <2>1 DEF Subtree, Roots
  <2>3. roots' \subseteq found' /\ \A m \in found' : Subtree(m) \subseteq found'
    <3>1. \A n \in chosen : n \in Nodes /\ n \in Subtree(n) /\ Subtree(n) \subseteq found'
      BY <2>1, Nested DEF Roots
    <3>2. roots' \subseteq found'
      BY <2>1, <3>1
    <3>3. ASSUME NEW m \in found' PROVE Subtree(m) \subseteq found'
      <4>1. PICK r \in chosen : r \in Nodes /\ m \in Subtree(r)
        BY <2>1, <2>2
      <4> QED BY <3>1, <4>1, Nested
    <3> QED BY <3>2, <3>3
  <2>4. 1..Len(stack') = {} /\ 2..Len(stack') = {}
    BY <1>1
  <2>5. Chain(found', roots', stack') /\ Begun(found', roots', stack')
    BY <2>1, <2>2, <2>3, <2>4 DEF Chain, Begun
  <2>6. Done' = {}
    BY <2>2 DEF Done, Finished
  <2>7. pc' = "roots" /\ thrown' = "none"
    BY <1>1, <2>1 DEF Goes
  <2>8. Shape'
    BY <1>1, <2>5, <2>7 DEF Shape, Nowhere, Unopened, Failing
  <2>9. Kinds'
    BY <2>4, <2>7 DEF Kinds, FileWork
  <2>10. Delivered'
    BY <2>6 DEF Delivered
  <2>11. Counted'
    <3>1. Part' = 0
      BY <2>7 DEF Part
    <3>2. Items(found') \in Nat /\ Bytes(found') \in Nat
      BY <2>2, Counts
    <3>3. items' = Items(Done') /\ bytes' = Bytes(Done') + Part'
      BY <1>1, <1>2, <2>6, <3>1
    <3>4. items' <= Items(found') /\ bytes' <= Bytes(found')
      BY <1>1, <1>2, <3>2
    <3> QED BY <2>5, <2>7, <3>3, <3>4 DEF Counted
  <2> QED BY <2>8, <2>9, <2>10, <2>11 DEF TreeInv
<1> QED BY <1>3, <1>4

\* The end of the batch, and of the children of a folder.
LEMMA NextKeeps == ASSUME TypeOK, TreeInv, NextRoot \/ NextChild, pc' # "top" PROVE TreeInv'
<1> USE DEF outside, request, conflict, progress, temporary, history
<1>1. /\ pc \in {"roots", "children"} /\ thrown = "none" /\ Begun(found, roots, stack)
      /\ UNCHANGED <<stack, roots, found, items, bytes, dest, skipped, thrown>>
  BY DEF TreeInv, Shape, Failing, Counted, NextRoot, NextChild, Enter, Goes
<1>2. /\ Done' = Done /\ Delivered' /\ \A i \in 2..Len(stack') : IsFolder(dest'[stack'[i].node])
  BY <1>1, QuietKeeps
<1>3. items = Items(Done) /\ bytes = Bytes(Done)
  <2>1. items = Items(Done) /\ bytes = Bytes(Done) + 0
    BY <1>1 DEF TreeInv, Counted, Part
  <2>2. Bytes(Done) \in Nat
    BY Bounded DEF TreeInv
  <2> QED BY <2>1, <2>2
<1>4. CASE NextRoot
  <2>1. pc = "roots" /\ pc' = "ended" /\ roots = {} /\ stack = << >>
    BY <1>4 DEF NextRoot, Enter, Goes, TreeInv, Shape, Nowhere
  <2>2. Done = found
    BY <2>1 DEF Done, Finished
  <2>3. Shape'
    BY <1>1, <2>1 DEF TreeInv, Shape, Nowhere, Unopened, Failing
  <2>4. Kinds'
    BY <1>2, <2>1 DEF Kinds, FileWork
  <2>5. Counted'
    BY <1>1, <1>3, <2>1, <2>2 DEF TreeInv, Counted
  <2> QED BY <1>2, <2>3, <2>4, <2>5 DEF TreeInv
<1>5. CASE NextChild
  <2>1. /\ pc = "children" /\ pc' = "attributes" /\ stack # << >> /\ Head(stack) = stack[1]
        /\ stack[1].todo = {} /\ Kind[stack[1].node] = "folder" /\ IsFolder(dest[stack[1].node])
    BY <1>5, OpenNode DEF NextChild, Enter, Goes, TreeInv, Kinds, Nowhere
  <2>2. Shape'
    BY <1>1, <2>1 DEF TreeInv, Shape, Nowhere, Unopened, Failing
  <2>3. Kinds'
    BY <1>1, <1>2, <2>1 DEF Kinds, FileWork, Good
  <2>4. Counted'
    <3>1. Part' = 0
      BY <1>1, <2>1 DEF Part
    <3>2. bytes' = Bytes(Done') + Part' /\ items' = Items(Done')
      <4>1. Bytes(Done) \in Nat
        BY Bounded DEF TreeInv
      <4> QED BY <1>1, <1>2, <1>3, <3>1, <4>1
    <3> QED BY <1>1, <2>1, <3>2 DEF TreeInv, Counted
  <2> QED BY <1>2, <2>2, <2>3, <2>4 DEF TreeInv
<1> QED BY <1>4, <1>5

\* The batch's way down and up the tree.
LEMMA TreeSteps ==
  ASSUME TypeOK, TreeInv,
         Discover \/ NextRoot \/ NextChild \/ Unwind \/ Recover \/ Decide \/ Rethrow
  PROVE  TreeInv'
<1> USE DEF outside, request, conflict, progress, temporary, history
<1>1. CASE Unwind
  <2>1. thrown' # "none" /\ stack' = << >> /\ pc' = "ended" /\ UNCHANGED <<roots, found, items, bytes>>
    BY <1>1 DEF Unwind, EndBatch
  <2> QED BY <2>1, EndsKeeps
<1>2. CASE Decide
  <2>1. Head(stack) = stack[1] /\ pc = "failed" /\ UNCHANGED <<roots, dest>>
    BY <1>2, OpenNode DEF Decide, Nowhere, TreeInv
  <2>2. CASE /\ pc' = "top" /\ thrown' = "none" /\ UNCHANGED <<progress, skipped>>
             /\ stack' = <<Again(Head(stack))>> \o Tail(stack)
    BY <2>1, <2>2, RetryKeeps
  <2>3. CASE CompleteSubtree /\ Leave /\ thrown' = "none"
    BY <2>1, <2>3, SkipKeeps
  <2>4. CASE EndBatch /\ thrown' \in {"abort", "canceled"} /\ UNCHANGED <<progress, skipped>>
    BY <2>1, <2>4, EndsKeeps DEF EndBatch
  <2> QED BY <1>2, <2>2, <2>3, <2>4 DEF Decide
<1> QED BY <1>1, <1>2, DiscoverKeeps, EnterKeeps, NextKeeps, RecoverKeeps, RethrowKeeps

-----------------------------------------------------------------------------
(* The steps of one node.                                                   *)

\* What the attempt may do to the destination.
Touches ==
  /\ \A m \in Nodes : m # stack[1].node => dest'[m] = dest[m]
  /\ UNCHANGED <<stack, roots, found, skipped>>

\* The attempt fails.
LEMMA FailsKeeps ==
  ASSUME TypeOK, TreeInv, pc \notin Nowhere, Touches, pc' = "recover", thrown' # "none",
         UNCHANGED <<items, bytes>>
  PROVE  TreeInv'
<1>1. stack # << >> /\ UNCHANGED <<stack, roots, found, skipped>>
  BY OpenNode DEF TreeInv, Touches
<1>2. pc # "ended"
  BY DEF Nowhere
<1>3. /\ Done' = Done /\ Delivered' /\ \A i \in 2..Len(stack') : IsFolder(dest'[stack'[i].node])
  BY <1>1, <1>2, QuietKeeps DEF Touches
<1>4. Shape'
  BY <1>1 DEF TreeInv, Shape, Nowhere, Unopened, Failing
<1>5. Kinds'
  BY <1>3 DEF Kinds, FileWork
<1>6. Counted'
  BY <1>1 DEF TreeInv, Counted
<1> QED BY <1>3, <1>4, <1>5, <1>6 DEF TreeInv

\* The attempt goes on, or cleans up.
GoesOn ==
  /\ pc \in Unopened \ {"cleanup"} /\ pc' \in Unopened \cup {"children", "attributes"}
  /\ Touches /\ UNCHANGED <<items, bytes>>
  /\ IF pc' = "cleanup" THEN thrown' # "none" ELSE thrown' = "none"
  /\ pc' \in FileWork => Kind[stack[1].node] = "file"
  /\ pc' = "make" => Kind[stack[1].node] # "file"
  /\ pc' = "children" => Kind[stack[1].node] = "folder" /\ IsFolder(dest'[stack[1].node])
  /\ pc' = "attributes" => /\ Kind[stack[1].node] # "folder"
                           /\ Good(dest'[stack[1].node], stack[1].node)
  /\ pc' \in {"resolve", "ask"} /\ seen' = "folder" => IsFolder(dest'[stack[1].node])
  /\ Part' = Part
  /\ Kind[stack[1].node] = "file" =>
       (pc' \in {"close", "prepare", "clear", "commit", "attributes"} => copied' = Size)

\* What is finished, and the progress, stay as they are.
LEMMA GoesOnKeeps == ASSUME TypeOK, TreeInv, GoesOn PROVE TreeInv'
<1> USE DEF GoesOn
<1>1. /\ stack # << >> /\ UNCHANGED <<stack, roots, found, skipped>> /\ stack[1].node \in Nodes
      /\ pc \notin Nowhere
  BY OpenNode DEF TreeInv, Touches, Unopened, Nowhere
<1>2. pc \notin {"ended", "recover", "failed"}
  BY DEF Unopened
<1>3. /\ Done' = Done /\ Delivered' /\ \A i \in 2..Len(stack') : IsFolder(dest'[stack'[i].node])
  BY <1>1, <1>2, QuietKeeps DEF Touches
<1>4. Shape'
  <2>1. stack[1].todo = Children(stack[1].node) /\ thrown = "none"
    BY DEF TreeInv, Shape, Failing, Unopened
  <2>2. pc' = "attributes" => stack[1].todo = {}
    BY <1>1, <2>1, Leaf
  <2> QED BY <1>1, <2>1, <2>2 DEF TreeInv, Shape, Nowhere, Unopened, Failing
<1>5. Kinds'
  BY <1>1, <1>3 DEF Kinds
<1>6. Counted'
  <2>1. items = Items(Done) /\ bytes = Bytes(Done) + Part
    BY <1>2 DEF TreeInv, Counted
  <2>2. items' = Items(Done') /\ bytes' = Bytes(Done') + Part'
    BY <1>3, <2>1
  <2>3. pc' \notin {"ended", "recover", "failed"}
    BY DEF Unopened
  <2> QED BY <1>1, <2>2, <2>3 DEF TreeInv, Counted
<1> QED BY <1>3, <1>4, <1>5, <1>6 DEF TreeInv

\* What a change of the innermost node's destination touches.
LEMMA BecomesTouches ==
  ASSUME TypeOK, TreeInv, pc \notin Nowhere, UNCHANGED <<stack, roots, found, skipped>>,
         NEW content \in Contents, Becomes(Node, content)
  PROVE  Touches /\ dest'[stack[1].node] = content
<1>1. Node = stack[1].node /\ Node \in Nodes
  BY OpenNode DEF TreeInv
<1> QED BY <1>1, BecomesTyped DEF Touches

\* The look at the destination, and the conflict.
LEMMA ConflictSteps ==
  ASSUME TypeOK, TreeInv, Top \/ Stat \/ Resolve \/ Ask PROVE TreeInv'
<1> USE DEF outside, request, conflict, progress, temporary, history
<1>1. /\ pc \in {"top", "stat", "resolve", "ask"} /\ pc \in Unopened \ {"cleanup"}
      /\ pc \notin Nowhere /\ UNCHANGED dest
  BY DEF Top, Stat, Resolve, Ask, Unopened, Nowhere
<1>2. Node = stack[1].node /\ thrown = "none" /\ Part = 0
  BY <1>1, OpenNode DEF TreeInv, Shape, Failing, Part
<1>3. CASE Top
  <2>1. Touches /\ UNCHANGED <<items, bytes>>
    BY <1>3 DEF Touches, Top
  <2>2. CASE pc' = "recover"
    <3>1. thrown' # "none"
      BY <1>3, <2>2 DEF Top, Goes
    <3> QED BY <1>1, <2>1, <2>2, <3>1, FailsKeeps
  <2>3. CASE pc' # "recover"
    <3>1. pc' = "stat" /\ thrown' = "none"
      BY <1>2, <1>3, <2>3 DEF Top, Goes
    <3>2. Part' = 0
      BY <3>1 DEF Part
    <3>3. GoesOn
      BY <1>1, <1>2, <2>1, <3>1, <3>2 DEF GoesOn, Unopened, FileWork
    <3> QED BY <3>3, GoesOnKeeps
  <2> QED BY <2>2, <2>3
<1>4. CASE Stat
  <2>1. Touches /\ UNCHANGED <<items, bytes>>
    BY <1>4 DEF Touches, Stat
  <2>2. CASE Throws("recover") /\ UNCHANGED seen
    <3>1. pc' = "recover" /\ thrown' # "none"
      BY <2>2, ThrowsTyped
    <3> QED BY <1>1, <2>1, <3>1, FailsKeeps
  <2>3. CASE ~(Throws("recover") /\ UNCHANGED seen)
    <3>1. /\ pc' = "resolve" /\ thrown' = "none"
          /\ seen' = "folder" => IsFolder(dest'[stack[1].node])
      BY <1>1, <1>2, <1>4, <2>3 DEF Stat, Goes
    <3>2. Part' = 0
      BY <3>1 DEF Part
    <3>3. GoesOn
      BY <1>1, <1>2, <2>1, <3>1, <3>2 DEF GoesOn, Unopened, FileWork
    <3> QED BY <3>3, GoesOnKeeps
  <2> QED BY <2>2, <2>3
<1>5. CASE Resolve
  <2>0. pc = "resolve" /\ UNCHANGED <<roots, seen, dest>>
    BY <1>5 DEF Resolve
  <2>1. CASE CompleteSubtree /\ Leave /\ UNCHANGED <<over, thrown, faults>>
    BY <1>2, <2>0, <2>1, SkipKeeps
  <2>2. CASE ~(CompleteSubtree /\ Leave /\ UNCHANGED <<over, thrown, faults>>)
    <3>1. Touches /\ UNCHANGED <<items, bytes>>
      BY <1>5, <2>0, <2>2 DEF Resolve, Touches
    <3>2. CASE pc' = "recover"
      <4>1. thrown' # "none"
        BY <1>5, <2>2, <3>2 DEF Resolve, Goes
      <4> QED BY <1>1, <3>1, <3>2, <4>1, FailsKeeps
    <3>3. CASE pc' # "recover"
      <4>1. \/ pc' = "open" /\ Kind[Node] = "file"
            \/ pc' = "clear" /\ Kind[Node] # "file"
            \/ pc' = "children" /\ Merges
            \/ pc' = "make" /\ Kind[Node] # "file"
            \/ pc' = "ask"
        BY <1>5, <2>2, <3>3 DEF Resolve, Goes, Conflicts
      <4>2. thrown' = "none"
        BY <1>2, <1>5, <2>2, <3>3 DEF Resolve, Goes
      <4>3. seen = "folder" => IsFolder(dest'[stack[1].node])
        BY <2>0 DEF TreeInv, Kinds
      <4>4. Part' = 0
        <5>1. stack' = stack
          BY <3>1 DEF Touches
        <5> QED BY <1>2, <4>1, <5>1 DEF Part
      <4>5. GoesOn
        BY <1>1, <1>2, <2>0, <3>1, <4>1, <4>2, <4>3, <4>4 DEF GoesOn, Unopened, FileWork, Merges
      <4> QED BY <4>5, GoesOnKeeps
    <3> QED BY <3>2, <3>3
  <2> QED BY <2>1, <2>2
<1>6. CASE Ask
  <2>1. Touches /\ UNCHANGED <<items, bytes, seen, dest>> /\ pc = "ask"
    BY <1>6 DEF Touches, Ask
  <2>2. CASE pc' = "recover"
    <3>1. thrown' # "none"
      BY <1>6, <2>2 DEF Ask, Goes
    <3> QED BY <1>1, <2>1, <2>2, <3>1, FailsKeeps
  <2>3. CASE pc' # "recover"
    <3>1. pc' = "resolve" /\ thrown' = "none"
      BY <1>2, <1>6, <2>3 DEF Ask, Goes
    <3>2. seen = "folder" => IsFolder(dest'[stack[1].node])
      BY <2>1 DEF TreeInv, Kinds
    <3>3. Part' = 0
      BY <3>1 DEF Part
    <3>4. GoesOn
      BY <1>1, <1>2, <2>1, <3>1, <3>2, <3>3 DEF GoesOn, Unopened, FileWork
    <3> QED BY <3>4, GoesOnKeeps
  <2> QED BY <2>2, <2>3
<1> QED BY <1>3, <1>4, <1>5, <1>6

\* What is in the way is removed; folders and links are made; attributes are set.
LEMMA NodeSteps ==
  ASSUME TypeOK, TreeInv, Clear \/ Make \/ Attributes PROVE TreeInv'
<1> USE DEF outside, request, conflict, progress, temporary, history
<1>1. /\ pc \in {"clear", "make", "attributes"} /\ pc \notin Nowhere /\ thrown = "none"
      /\ Node = stack[1].node /\ Node \in Nodes
  <2>1. pc \in {"clear", "make", "attributes"}
    BY DEF Clear, Make, Attributes
  <2> QED BY <2>1, OpenNode DEF TreeInv, Shape, Failing, Nowhere
<1>2. {"none", "own", "ownFolder", "partFolder"} \subseteq Contents
  BY DEF Contents
<1>3. CASE Clear
  <2>1. /\ UNCHANGED <<stack, roots, found, skipped, items, bytes, copied>> /\ pc = "clear"
    BY <1>3 DEF Clear
  <2>2. Touches
    <3>1. \/ Becomes(Node, "none") \/ UNCHANGED <<dest, lost>> \/ Becomes(Node, "partFolder")
      BY <1>3 DEF Clear
    <3>2. CASE UNCHANGED <<dest, lost>>
      BY <2>1, <3>2 DEF Touches
    <3> QED BY <1>1, <1>2, <2>1, <3>1, <3>2, BecomesTouches
  <2>3. CASE pc' = "recover"
    <3>1. thrown' # "none"
      <4>1. \/ Goes(IF Kind[Node] = "file" THEN "commit" ELSE "make")
            \/ Throws(IF Kind[Node] = "file" THEN "cleanup" ELSE "recover")
        BY <1>3 DEF Clear
      <4> QED BY <2>3, <4>1, ThrowsTyped DEF Goes
    <3> QED BY <1>1, <2>1, <2>2, <2>3, <3>1, FailsKeeps
  <2>4. CASE pc' # "recover"
    <3>1. \/ pc' = "commit" /\ Kind[Node] = "file" /\ thrown' = "none"
          \/ pc' = "make" /\ Kind[Node] # "file" /\ thrown' = "none"
          \/ pc' = "cleanup" /\ Kind[Node] = "file" /\ thrown' # "none"
      <4>1. \/ Goes(IF Kind[Node] = "file" THEN "commit" ELSE "make")
            \/ Throws(IF Kind[Node] = "file" THEN "cleanup" ELSE "recover")
        BY <1>3 DEF Clear
      <4> QED BY <1>1, <2>4, <4>1, ThrowsTyped DEF Goes
    <3>2. Part' = Part
      BY <1>1, <2>1, <3>1 DEF Part
    <3>3. Kind[Node] = "file" => copied' = Size
      BY <1>1, <2>1 DEF TreeInv, Counted
    <3>4. GoesOn
      BY <1>1, <2>1, <2>2, <3>1, <3>2, <3>3 DEF GoesOn, Unopened, FileWork
    <3> QED BY <3>4, GoesOnKeeps
  <2> QED BY <2>3, <2>4
<1>4. CASE Make
  <2>0. /\ pc = "make" /\ UNCHANGED <<roots, skipped>> /\ Kind[Node] # "file" /\ Part = 0
    BY <1>1, <1>4 DEF Make, TreeInv, Kinds, Part
  <2>1. CASE pc' = "recover"
    <3>1. UNCHANGED <<stack, progress>> /\ thrown' # "none"
      <4>1. CASE Throws("recover") /\ UNCHANGED <<stack, progress>>
        BY <4>1, ThrowsTyped
      <4>2. CASE Fulfilled
        BY <2>1, <4>2 DEF Fulfilled, Leave
      <4>3. CASE ~(Throws("recover") /\ UNCHANGED <<stack, progress>>) /\ ~Fulfilled
        BY <1>4, <2>1, <4>3 DEF Make, Goes
      <4> QED BY <4>1, <4>2, <4>3
    <3>2. Touches
      <4>1. \/ UNCHANGED <<dest, lost>>
            \/ Becomes(Node, IF Kind[Node] = "folder" THEN "ownFolder" ELSE "own")
        BY <1>4 DEF Make
      <4>2. CASE UNCHANGED <<dest, lost>>
        BY <2>0, <3>1, <4>2 DEF Touches
      <4> QED BY <1>1, <1>2, <2>0, <3>1, <4>1, <4>2, BecomesTouches
    <3> QED BY <1>1, <2>1, <3>1, <3>2, FailsKeeps
  <2>2. CASE pc' # "recover"
    <3> DEFINE made == IF Kind[Node] = "folder" THEN "ownFolder" ELSE "own"
    <3>1. Becomes(Node, made) /\ made \in Contents
      BY <1>2, <1>4, <2>2, ThrowsTyped DEF Make
    <3>2. /\ dest'[Node] = made /\ \A m \in Nodes : m # Node => dest'[m] = dest[m]
      <4> HIDE DEF made
      <4> QED BY <1>1, <3>1, BecomesTyped
    <3>3. CASE Fulfilled /\ UNCHANGED <<thrown, faults>>
      <4>1. Kind[Node] = "link"
        BY <1>4, <2>2, <3>3, ThrowsTyped DEF Make, Fulfilled, Goes, Leave
      <4>2. stack[1].todo = {}
        BY <1>1, <2>0, <4>1, Leaf DEF TreeInv, Shape, Unopened
      <4>3. Good(dest'[Node], Node)
        BY <3>2, <4>1 DEF Good
      <4> QED BY <1>1, <2>0, <3>2, <3>3, <4>1, <4>2, <4>3, FulfilledKeeps
    <3>4. CASE ~(Fulfilled /\ UNCHANGED <<thrown, faults>>)
      <4>1. /\ UNCHANGED <<stack, progress>> /\ thrown' = "none"
            /\ \/ pc' = "children" /\ Kind[Node] = "folder"
               \/ pc' = "attributes" /\ Kind[Node] = "link"
        BY <1>1, <1>4, <2>2, <3>4, ThrowsTyped DEF Make, Goes
      <4>2. Touches
        BY <1>1, <2>0, <3>2, <4>1 DEF Touches
      <4>3. Part' = 0
        BY <1>1, <4>1 DEF Part
      <4>4. /\ Kind[Node] = "folder" => IsFolder(dest'[Node])
            /\ Kind[Node] = "link" => Good(dest'[Node], Node)
        BY <3>2 DEF Good, IsFolder
      <4>5. GoesOn
        BY <1>1, <2>0, <4>1, <4>2, <4>3, <4>4 DEF GoesOn, Unopened, FileWork
      <4> QED BY <4>5, GoesOnKeeps
    <3> QED BY <3>3, <3>4
  <2> QED BY <2>1, <2>2
<1>5. CASE Attributes
  <2>1. /\ pc = "attributes" /\ UNCHANGED <<roots, dest, skipped>> /\ stack[1].todo = {}
        /\ Good(dest'[Node], Node)
    BY <1>1, <1>5 DEF Attributes, TreeInv, Shape, Kinds
  <2>2. CASE Fulfilled /\ UNCHANGED <<thrown, faults>>
    <3>1. Part = IF Kind[Node] = "file" THEN Size ELSE 0
      BY <1>1, <2>1 DEF Part, TreeInv, Counted
    <3> QED BY <1>1, <2>1, <2>2, <3>1, FulfilledKeeps
  <2>3. CASE Throws("recover") /\ UNCHANGED <<stack, progress>>
    <3>1. pc' = "recover" /\ thrown' # "none"
      BY <2>3, ThrowsTyped
    <3>2. Touches
      BY <2>1, <2>3 DEF Touches
    <3> QED BY <1>1, <2>3, <3>1, <3>2, FailsKeeps
  <2> QED BY <1>5, <2>2, <2>3 DEF Attributes
<1> QED BY <1>3, <1>4, <1>5

\* A regular file, on its way to its final name.
LEMMA FileSteps ==
  ASSUME TypeOK, TreeInv, Open \/ Copy \/ Close \/ Prepare \/ Commit \/ Cleanup
  PROVE  TreeInv'
<1> USE DEF outside, request, conflict, progress, temporary, history
<1>1. /\ pc \in FileWork /\ pc \in Unopened /\ pc \notin Nowhere
      /\ Node = stack[1].node /\ Node \in Nodes /\ Kind[Node] = "file"
      /\ pc # "cleanup" => thrown = "none"
      /\ stack[1].todo = Children(Node) /\ Children(Node) = {}
  <2>1. pc \in FileWork /\ pc \in Unopened /\ pc \notin Nowhere
    BY DEF Open, Copy, Close, Prepare, Commit, Cleanup, FileWork, Unopened, Nowhere
  <2>2. Node = stack[1].node /\ Node \in Nodes
    BY <2>1, OpenNode DEF TreeInv
  <2>3. Kind[Node] = "file"
    BY <2>1, <2>2 DEF TreeInv, Kinds
  <2>4. pc # "cleanup" => thrown = "none"
    BY <2>1 DEF TreeInv, Shape, Failing, FileWork
  <2>5. stack[1].todo = Children(Node) /\ Children(Node) = {}
    BY <2>1, <2>2, <2>3, Leaf DEF TreeInv, Shape
  <2> QED BY <2>1, <2>2, <2>3, <2>4, <2>5
<1>2. CASE Open
  <2>1. Touches /\ UNCHANGED <<items, bytes, stack>> /\ pc = "open" /\ Part = 0
    BY <1>2 DEF Touches, Open, Part
  <2>2. CASE pc' = "recover"
    <3>1. thrown' # "none"
      BY <1>2, <2>2, ThrowsTyped DEF Open, Goes
    <3> QED BY <1>1, <2>1, <2>2, <3>1, FailsKeeps
  <2>3. CASE pc' # "recover"
    <3>1. pc' = "copy" /\ thrown' = "none" /\ copied' = 0
      BY <1>1, <1>2, <2>1, <2>3, ThrowsTyped DEF Open, Goes
    <3>2. Part' = 0
      BY <3>1 DEF Part
    <3>3. GoesOn
      BY <1>1, <2>1, <3>1, <3>2 DEF GoesOn, Unopened, FileWork
    <3> QED BY <3>3, GoesOnKeeps
  <2> QED BY <2>2, <2>3
<1>3. CASE Copy
  <2>1. Touches /\ UNCHANGED <<items, stack, roots, found, dest, skipped>> /\ pc = "copy" /\ Part = copied
    BY <1>1, <1>3 DEF Touches, Copy, Part
  <2>2. CASE pc' = "copy"
    <3>1. /\ copied < Size /\ copied' = copied + 1 /\ bytes' = bytes + 1 /\ thrown' = "none"
      BY <1>1, <1>3, <2>1, <2>2, ThrowsTyped DEF Copy, Goes, MoreToCopy
    <3>2. /\ Done' = Done /\ Delivered' /\ \A i \in 2..Len(stack') : IsFolder(dest'[stack'[i].node])
      BY <2>1, <2>2, QuietKeeps
    <3>3. stack # << >>
      BY <1>1, OpenNode DEF TreeInv
    <3>4. Shape'
      BY <1>1, <2>1, <2>2, <3>1, <3>3 DEF TreeInv, Shape, Nowhere, Unopened, Failing
    <3>5. Kinds'
      BY <1>1, <2>1, <2>2, <3>2 DEF Kinds, FileWork
    <3>6. Counted'
      <4>1. items = Items(Done) /\ bytes = Bytes(Done) + copied
        BY <2>1 DEF TreeInv, Counted
      <4>2. Part' = copied'
        BY <1>1, <2>1, <2>2 DEF Part
      <4>3. /\ copied \in Nat /\ Size \in Nat /\ Bytes(Done) \in Nat /\ Bytes(found) \in Nat
            /\ Bytes(Done) + Size <= Bytes(found) /\ items <= Items(found)
        <5>1. Node \in found \ Done
          <6>1. 1 \in 1..Len(stack)
            BY <1>1, OpenNode DEF TreeInv
          <6> QED BY <1>1, <6>1, Position DEF TreeInv
        <5>2. copied \in Nat /\ Size \in Nat
          BY BoundsAssumption DEF TypeOK
        <5>3. Bytes(Done) + Size <= Bytes(found)
          BY <1>1, <5>1, Bounded DEF TreeInv
        <5> QED BY <5>2, <5>3, Bounded DEF TreeInv, Counted
      <4>4. items' = Items(Done') /\ bytes' = Bytes(Done') + Part'
        BY <2>1, <3>1, <3>2, <4>1, <4>2, <4>3
      <4>5. items' <= Items(found') /\ bytes' <= Bytes(found')
        BY <2>1, <3>1, <4>1, <4>3
      <4> QED BY <2>1, <2>2, <4>4, <4>5 DEF TreeInv, Counted
    <3> QED BY <3>2, <3>4, <3>5, <3>6 DEF TreeInv
  <2>3. CASE pc' # "copy"
    <3>1. /\ UNCHANGED <<bytes, copied>>
          /\ \/ pc' = "close" /\ thrown' = "none" /\ copied' = Size
             \/ pc' = "cleanup" /\ thrown' # "none"
      BY <1>1, <1>3, <2>1, <2>3, ThrowsTyped DEF Copy, Goes
    <3>2. Part' = Part
      BY <1>1, <2>1, <3>1 DEF Part
    <3>3. GoesOn
      BY <1>1, <2>1, <3>1, <3>2 DEF GoesOn, Unopened, FileWork
    <3> QED BY <3>3, GoesOnKeeps
  <2> QED BY <2>2, <2>3
<1>4. CASE Close \/ Prepare
  <2>1. /\ Touches /\ UNCHANGED <<items, bytes, stack, copied>> /\ pc \in {"close", "prepare"}
        /\ copied = Size
    <3>1. Touches /\ UNCHANGED <<items, bytes, stack, copied>> /\ pc \in {"close", "prepare"}
      BY <1>4 DEF Touches, Close, Prepare
    <3> QED BY <1>1, <3>1 DEF TreeInv, Counted
  <2>2. \/ pc' \in {"prepare", "commit", "clear"} /\ thrown' = "none"
        \/ pc' = "cleanup" /\ thrown' # "none"
    BY <1>1, <1>4, <2>1, ThrowsTyped DEF Close, Prepare, Goes
  <2>3. Part' = Part
    BY <1>1, <2>1, <2>2 DEF Part
  <2>4. GoesOn
    BY <1>1, <2>1, <2>2, <2>3 DEF GoesOn, Unopened, FileWork
  <2> QED BY <2>4, GoesOnKeeps
<1>5. CASE Commit
  <2>1. pc = "commit" /\ UNCHANGED <<roots, copied, skipped>> /\ copied = Size /\ Part = Size
    BY <1>1, <1>5 DEF Commit, TreeInv, Counted, Part
  <2>2. \A m \in Nodes : m # stack[1].node => dest'[m] = dest[m]
    <3>1. "own" \in Contents /\ (Becomes(Node, "own") \/ UNCHANGED dest)
      BY <1>5 DEF Commit, Moved, Contents
    <3> QED BY <1>1, <3>1, BecomesTyped
  <2>3. CASE MayReplace /\ Moved /\ direction = "send" /\ Fulfilled /\ UNCHANGED <<thrown, faults>>
    <3>1. Good(dest'[Node], Node)
      <4>1. "own" \in Contents
        BY DEF Contents
      <4> QED BY <1>1, <2>3, <4>1, BecomesTyped DEF Moved, Good
    <3> QED BY <1>1, <2>1, <2>2, <2>3, <3>1, FulfilledKeeps
  <2>4. CASE ~(MayReplace /\ Moved /\ direction = "send" /\ Fulfilled /\ UNCHANGED <<thrown, faults>>)
    <3>1. /\ UNCHANGED <<stack, progress>>
          /\ \/ pc' = "attributes" /\ Moved /\ thrown' = "none"
             \/ pc' = "cleanup" /\ thrown' # "none"
      BY <1>1, <1>5, <2>1, <2>4, ThrowsTyped DEF Commit
    <3>2. Touches
      BY <2>1, <2>2, <3>1 DEF Touches
    <3>3. pc' = "attributes" => Good(dest'[Node], Node)
      <4>1. "own" \in Contents
        BY DEF Contents
      <4> QED BY <1>1, <3>1, <4>1, BecomesTyped DEF Moved, Good
    <3>4. Part' = Part
      BY <1>1, <2>1, <3>1 DEF Part
    <3>5. GoesOn
      BY <1>1, <2>1, <3>1, <3>2, <3>3, <3>4 DEF GoesOn, Unopened, FileWork
    <3> QED BY <3>5, GoesOnKeeps
  <2> QED BY <2>3, <2>4
<1>6. CASE Cleanup
  <2>1. /\ Touches /\ UNCHANGED <<items, bytes>> /\ pc = "cleanup" /\ pc' = "recover"
    BY <1>6 DEF Touches, Cleanup
  <2>2. thrown' # "none"
    <3>1. thrown # "none"
      BY <2>1 DEF TreeInv, Shape, Failing
    <3> QED BY <1>6, <3>1 DEF Cleanup
  <2> QED BY <1>1, <2>1, <2>2, FailsKeeps
<1> QED BY <1>2, <1>3, <1>4, <1>5, <1>6

\* The environment.
LEMMA OtherSteps ==
  ASSUME TypeOK, TreeInv, RequestCancel \/ ForeignCreates \/ UNCHANGED vars
  PROVE  TreeInv'
<1> USE DEF outside, request, conflict, progress, temporary, history
<1>1. /\ UNCHANGED <<pc, stack, roots, found, skipped, thrown, items, bytes, copied, seen>>
      /\ \A m \in Nodes : dest'[m] = dest[m] \/ dest[m] = "none"
  <2>1. CASE ForeignCreates
    <3>1. UNCHANGED <<pc, stack, roots, found, skipped, thrown, items, bytes, copied, seen>>
      BY <2>1 DEF ForeignCreates
    <3>2. PICK n \in Nodes : dest[n] = "none" /\ dest' = [dest EXCEPT ![n] = "foreign"]
      BY <2>1 DEF ForeignCreates
    <3> QED BY <3>1, <3>2 DEF TypeOK
  <2>2. CASE RequestCancel
    BY <2>2 DEF RequestCancel
  <2>3. CASE UNCHANGED vars
    BY <2>3 DEF vars
  <2> QED BY <2>1, <2>2, <2>3
<1>2. /\ Done' = Done /\ Delivered' /\ \A i \in 2..Len(stack') : IsFolder(dest'[stack'[i].node])
  BY <1>1, QuietKeeps
<1>3. Shape'
  BY <1>1 DEF TreeInv, Shape
<1>4. Kinds'
  <2>1. stack # << >> => stack[1].node \in Nodes
    <3>1. stack # << >> => 1 \in 1..Len(stack)
      BY Popped DEF TypeOK
    <3> QED BY <3>1, Position DEF TreeInv
  <2>2. /\ stack # << >> /\ IsFolder(dest[stack[1].node]) => IsFolder(dest'[stack[1].node])
        /\ stack # << >> /\ Good(dest[stack[1].node], stack[1].node)
             => Good(dest'[stack[1].node], stack[1].node)
    BY <1>1, <2>1 DEF IsFolder, Good
  <2>3. pc \in {"children", "attributes", "resolve", "ask"} => stack # << >>
    BY DEF TreeInv, Shape, Nowhere
  <2> QED BY <1>1, <1>2, <2>2, <2>3 DEF TreeInv, Kinds
<1>5. Counted'
  BY <1>1, <1>2 DEF TreeInv, Counted, Part
<1> QED BY <1>2, <1>3, <1>4, <1>5 DEF TreeInv

\* Every step keeps the tree.
LEMMA TreeStep == ASSUME TypeOK, TreeInv, [Next]_vars PROVE TreeInv'
BY TreeSteps, ConflictSteps, NodeSteps, FileSteps, OtherSteps DEF Next, Batch, Ended

-----------------------------------------------------------------------------
(* Consent, and whose the temporary file is.                                  *)

\* A step that decides nothing, takes nothing and comes to no step that does.
AsksNothing ==
  /\ UNCHANGED <<over, lost, decision, asks, dest, direction, service>>
  /\ pc' \notin {"clear", "prepare", "ask"} /\ (pc = "ended" => pc' = "ended")
  /\ pc = "recover" /\ thrown = "canceled" => pc' = "ended"

\* It keeps the consent.
LEMMA AsksNothingKeeps == ASSUME Consent, AsksNothing PROVE Consent'
<1>1. AtomicReplace'
  BY DEF AsksNothing, Consent, AtomicReplace, Commits
<1>2. over' \/ lost' # {} => decision' = "overwrite"
  BY DEF AsksNothing, Consent
<1>3. /\ decision' = "unset" => asks' = 0 \/ (asks' = 1 /\ pc' = "ended")
      /\ asks' <= 1
  BY DEF AsksNothing, Consent
<1>4. pc' \notin {"clear", "prepare", "ask"}
  BY DEF AsksNothing
<1> QED BY <1>1, <1>2, <1>3, <1>4 DEF Consent

\* The user is asked once, and what is lost was given up.
LEMMA ConsentStep == ASSUME TypeOK, Shape, Kinds, Consent, [Next]_vars PROVE Consent'
<1> USE DEF outside, request, conflict, progress, temporary, history
<1>1. ASSUME Discover \/ NextRoot \/ NextChild \/ Unwind \/ Recover \/ Decide \/ Rethrow
      PROVE  AsksNothing
  <2>1. CASE Discover \/ NextRoot \/ NextChild
    BY <2>1 DEF Discover, NextRoot, NextChild, Enter, Goes, AsksNothing
  <2>2. CASE Unwind \/ Recover \/ Decide \/ Rethrow
    BY <2>2 DEF Unwind, Recover, Decide, Rethrow, EndBatch, Leave, AsksNothing
  <2> QED BY <1>1, <2>1, <2>2
<1>2. ASSUME Top \/ Stat \/ Attributes \/ Open \/ Copy \/ Cleanup PROVE AsksNothing
  <2>1. CASE Top \/ Attributes
    BY <2>1 DEF Top, Attributes, Throws, Goes, Fulfilled, Leave, AsksNothing
  <2>2. CASE Stat
    BY <2>2 DEF Stat, Throws, Goes, AsksNothing
  <2>3. CASE Open \/ Copy \/ Cleanup
    BY <2>3 DEF Open, Copy, Cleanup, Throws, Goes, AsksNothing
  <2> QED BY <1>2, <2>1, <2>2, <2>3
<1>3. ASSUME Resolve PROVE Consent'
  <2>1. /\ pc = "resolve" /\ UNCHANGED <<decision, asks, lost, dest, direction, service>>
        /\ \/ over' = over
           \/ over' = Conflicts /\ (~Conflicts \/ decision = "overwrite")
        /\ pc' \in {"recover", "open", "clear", "children", "make", "ask", "roots"}
    BY <1>3 DEF Resolve, Goes, Leave
  <2>2. pc' = "ask" => decision = "unset"
    BY <1>3 DEF Resolve, Goes, Leave, Undecided
  <2>3. pc' = "clear" => decision = "overwrite" /\ Kind[Node] # "file" /\ stack' = stack
    BY <1>3 DEF Resolve, Goes, Leave
  <2>4. pc' = "clear" => Node = stack'[1].node
    BY <2>1, <2>3, OpenNode DEF Nowhere
  <2>5. over' \/ pc' = "clear" \/ lost' # {} => decision' = "overwrite"
    BY <2>1, <2>3 DEF Consent
  <2>6. AtomicReplace'
    BY <2>1 DEF Consent, AtomicReplace, Commits
  <2>7. decision = "unset" => asks = 0
    BY <2>1 DEF Consent
  <2> QED BY <2>1, <2>2, <2>3, <2>4, <2>5, <2>6, <2>7 DEF Consent
<1>4. ASSUME Ask PROVE Consent'
  <2>1. /\ pc = "ask" /\ UNCHANGED <<over, lost, dest, direction, service>>
        /\ pc' \in {"resolve", "recover"}
        /\ \/ asks' = asks + 1 /\ decision' # "unset"
           \/ asks' = asks + 1 /\ decision' = decision /\ pc' = "recover" /\ thrown' = "canceled"
           \/ asks' = asks /\ decision' = decision
    BY <1>4 DEF Ask, Goes
  <2>2. decision = "unset" /\ asks = 0 /\ ~over /\ lost = {}
    BY <2>1 DEF Consent, TypeOK
  <2>3. AtomicReplace'
    BY <2>1 DEF Consent, AtomicReplace, Commits
  <2>4. over' \/ pc' = "clear" \/ lost' # {} => decision' = "overwrite"
    BY <2>1, <2>2
  <2> QED BY <2>1, <2>2, <2>3, <2>4 DEF Consent
<1>5. ASSUME Clear PROVE Consent'
  <2>1. /\ pc = "clear" /\ decision = "overwrite" /\ UNCHANGED <<over, decision, asks, direction, service>>
        /\ Node = stack[1].node /\ Node \in Nodes
    BY <1>5, OpenNode DEF Clear, Consent, Nowhere
  <2>2. pc' \in {"make", "commit", "recover", "cleanup"}
    BY <1>5, ThrowsTyped DEF Clear, Goes
  <2>3. AtomicReplace'
    <3>1. \/ Becomes(Node, "none") \/ UNCHANGED <<dest, lost>> \/ Becomes(Node, "partFolder")
      BY <1>5 DEF Clear
    <3>2. "none" \in Contents /\ "partFolder" \in Contents
      BY DEF Contents
    <3>3. lost' \subseteq lost \cup {Node} /\ \A m \in Nodes : m # Node => dest'[m] = dest[m]
      BY <2>1, <3>1, <3>2, BecomesTyped
    <3> SUFFICES ASSUME direction = "receive" \/ Commits, NEW n \in lost', Kind[n] = "file"
                 PROVE  dest'[n] = "own"
      BY <2>1 DEF AtomicReplace, Commits
    <3>4. n # Node
      BY <2>1 DEF Consent
    <3>5. n \in lost /\ n \in Nodes
      BY <3>3, <3>4 DEF TypeOK
    <3> QED BY <3>3, <3>4, <3>5 DEF Consent, AtomicReplace
  <2> QED BY <2>1, <2>2, <2>3 DEF Consent
<1>6. ASSUME Make PROVE Consent'
  <2>1. /\ pc = "make" /\ Node = stack[1].node /\ Node \in Nodes /\ Kind[Node] # "file"
        /\ UNCHANGED <<over, decision, asks, direction, service>>
    BY <1>6, OpenNode DEF Make, Kinds, Nowhere
  <2>2. pc' \in {"children", "attributes", "recover", "roots"}
    BY <1>6, ThrowsTyped DEF Make, Goes, Fulfilled, Leave
  <2>3. lost' = lost /\ \A m \in Nodes : m # Node => dest'[m] = dest[m]
    <3> DEFINE made == IF Kind[Node] = "folder" THEN "ownFolder" ELSE "own"
    <3>1. (dest[Node] = "none" /\ Becomes(Node, made)) \/ UNCHANGED <<dest, lost>>
      BY <1>6 DEF Make
    <3>2. made \in Contents
      BY DEF Contents
    <3>3. "none" \notin Old \cup {"partFolder"}
      BY DEF Old
    <3> HIDE DEF made
    <3> QED BY <2>1, <3>1, <3>2, <3>3, BecomesTyped
  <2>4. AtomicReplace'
    BY <2>1, <2>3 DEF Consent, AtomicReplace, Commits, TypeOK
  <2>5. decision = "unset" => asks = 0
    BY <2>1 DEF Consent
  <2> QED BY <2>1, <2>2, <2>3, <2>4, <2>5 DEF Consent
<1>7. ASSUME Close \/ Prepare PROVE Consent'
  <2>1. /\ pc \in {"close", "prepare"} /\ UNCHANGED <<over, decision, asks, direction, service, dest, lost>>
        /\ stack' = stack
    BY <1>7 DEF Close, Prepare
  <2>2. /\ pc' \in {"prepare", "commit", "clear", "cleanup"}
        /\ pc' = "prepare" => direction = "send"
        /\ pc' = "clear" => over /\ ~Commits /\ direction = "send"
    BY <1>7, <2>1, ThrowsTyped DEF Close, Prepare, Goes, RemovesFirst, Consent
  <2>3. AtomicReplace'
    BY <2>1 DEF Consent, AtomicReplace, Commits
  <2>4. decision = "unset" => asks = 0
    BY <2>1 DEF Consent
  <2>5. over' \/ pc' = "clear" \/ lost' # {} => decision' = "overwrite"
    BY <2>1, <2>2 DEF Consent
  <2> QED BY <2>1, <2>2, <2>3, <2>4, <2>5 DEF Consent, Commits
<1>8. ASSUME Commit PROVE Consent'
  <2>1. /\ pc = "commit" /\ UNCHANGED <<over, decision, asks, direction, service>>
        /\ Node = stack[1].node /\ Node \in Nodes
    BY <1>8, OpenNode DEF Commit, Nowhere
  <2>2. pc' \in {"attributes", "cleanup", "roots", "children"}
    BY <1>8, ThrowsTyped DEF Commit, Fulfilled, Leave
  <2>3. \/ UNCHANGED <<dest, lost>>
        \/ /\ dest'[Node] = "own" /\ \A m \in Nodes : m # Node => dest'[m] = dest[m]
           /\ \/ lost' = lost
              \/ lost' = lost \cup {Node} /\ decision = "overwrite"
    <3>1. UNCHANGED <<dest, lost>> \/ (MayReplace /\ Becomes(Node, "own"))
      BY <1>8 DEF Commit, Moved
    <3>2. "own" \in Contents /\ "none" \notin Old \cup {"partFolder"}
      BY DEF Contents, Old
    <3>3. MayReplace /\ dest[Node] # "none" => decision = "overwrite"
      BY DEF MayReplace, Replaces, Consent
    <3> QED BY <2>1, <3>1, <3>2, <3>3, BecomesTyped
  <2>4. AtomicReplace'
    BY <2>1, <2>3 DEF Consent, AtomicReplace, Commits, TypeOK
  <2>5. decision = "unset" => asks = 0
    BY <2>1 DEF Consent
  <2>6. over' \/ pc' = "clear" \/ lost' # {} => decision' = "overwrite"
    BY <2>1, <2>2, <2>3 DEF Consent
  <2> QED BY <2>1, <2>2, <2>4, <2>5, <2>6 DEF Consent
<1>9. ASSUME ForeignCreates PROVE Consent'
  <2>1. UNCHANGED <<pc, thrown, stack, over, decision, asks, direction, service, lost>>
    BY <1>9 DEF ForeignCreates
  <2>2. PICK n \in Nodes : dest[n] = "none" /\ dest' = [dest EXCEPT ![n] = "foreign"]
    BY <1>9 DEF ForeignCreates
  <2>3. AtomicReplace'
    BY <2>1, <2>2 DEF Consent, AtomicReplace, Commits, TypeOK
  <2> QED BY <2>1, <2>3 DEF Consent, Commits
<1>10. ASSUME RequestCancel \/ UNCHANGED vars PROVE Consent'
  <2>1. UNCHANGED <<pc, thrown, stack, over, decision, asks, direction, service, lost, dest>>
    BY <1>10 DEF RequestCancel, vars
  <2>2. AtomicReplace'
    BY <2>1 DEF Consent, AtomicReplace, Commits
  <2> QED BY <2>1, <2>2 DEF Consent, Commits
<1> QED BY <1>1, <1>2, <1>3, <1>4, <1>5, <1>6, <1>7, <1>8, <1>9, <1>10, AsksNothingKeeps
        DEF Next, Batch, Ended

\* A temporary file that may be another's stays, and one that stays was named.
LEMMA OwnedStep == ASSUME TypeOK, Owned, [Next]_vars PROVE Owned'
<1> USE DEF outside, request, conflict, progress, temporary, history
<1>1. CASE \/ Discover \/ NextRoot \/ NextChild \/ Unwind \/ Recover \/ Decide \/ Rethrow
           \/ Top \/ Stat \/ Resolve \/ Ask \/ Clear \/ Make \/ Attributes \/ Prepare
           \/ RequestCancel \/ ForeignCreates \/ UNCHANGED vars
  <2>1. UNCHANGED <<creation, owner, foreignLost, stranded, direction, service>>
    BY <1>1 DEF Discover, NextRoot, NextChild, Unwind, Recover, Decide, Rethrow, Top, Stat,
                Resolve, Ask, Clear, Make, Attributes, Prepare, RequestCancel, ForeignCreates,
                vars
  <2> QED BY <2>1 DEF Owned, Committing, Commits
<1>2. CASE Open
  <2>1. UNCHANGED <<foreignLost, direction, service>> /\ Committing' = Committing
    BY <1>2 DEF Open, Committing, Commits
  <2>2. \/ creation' = "unknown"
        \/ creation' = "created" /\ owner' = "ours"
        \/ UNCHANGED <<creation, owner>>
    BY <1>2 DEF Open
  <2>3. Committing => stranded' = stranded
    BY <1>2 DEF Open, Committing
  <2> QED BY <2>1, <2>2, <2>3 DEF Owned
<1>3. CASE Copy \/ Close
  BY <1>3 DEF Copy, Close, UploadFails, Owned, Committing, Commits
<1>4. CASE Commit
  BY <1>4 DEF Commit, Moved, Owned, Committing, Commits
<1>5. CASE Cleanup
  <2>1. UNCHANGED <<direction, service>> /\ creation' = "none"
    BY <1>5 DEF Cleanup
  <2>2. ~foreignLost'
    BY <1>5 DEF Cleanup, ProvenOurs, Owned
  <2>3. Committing => ~stranded'
    BY <1>5 DEF Cleanup, Reports, Owned
  <2> QED BY <2>1, <2>2, <2>3 DEF Owned, Committing, Commits
<1> QED BY <1>1, <1>2, <1>3, <1>4, <1>5 DEF Next, Batch, Ended

-----------------------------------------------------------------------------
(* The theorems.                                                            *)

\* Nothing is discovered, open, counted, asked or lost.
LEMMA InitInv == Init => TransferInv
<1> SUFFICES ASSUME Init PROVE TransferInv
  OBVIOUS
<1> USE DEF Init
<1>1. TypeOK
  <2>1. initial \in [Nodes -> Contents] /\ dest \in [Nodes -> Contents]
    BY DEF Contents, Old
  <2>2. 0 \in 0..Size /\ 0 \in 0..MaxFaults /\ 0 \in 0..MaxForeign
    BY BoundsAssumption
  <2>3. stack \in Seq(Frames)
    OBVIOUS
  <2> QED BY <2>1, <2>2, <2>3 DEF TypeOK
<1>2. 1..Len(stack) = {} /\ 2..Len(stack) = {}
  OBVIOUS
<1>3. Chain(found, roots, stack) /\ Begun(found, roots, stack)
  BY <1>2 DEF Chain, Begun
<1>4. Shape
  BY <1>3 DEF Shape, Nowhere, Unopened, Failing
<1>5. Kinds
  BY <1>2 DEF Kinds, FileWork
<1>6. Done = {}
  BY DEF Done, Finished
<1>7. Delivered
  BY <1>6 DEF Delivered
<1>8. Counted
  <2>1. Cardinality({}) = 0 /\ FilesOf({}) = {} /\ Size \in Nat
    BY FS_EmptySet, BoundsAssumption DEF FilesOf
  <2>2. Items({}) = 0 /\ Bytes({}) = Size * 0
    BY <2>1, Counts DEF Items
  <2>3. Bytes({}) = 0
    BY ONLY <2>1, <2>2
  <2>4. Part = 0
    BY DEF Part
  <2> QED BY <1>3, <1>6, <2>2, <2>3, <2>4 DEF Counted
<1>9. Consent /\ Owned
  BY DEF Consent, Owned, AtomicReplace
<1> QED BY <1>1, <1>4, <1>5, <1>7, <1>8, <1>9 DEF TransferInv

\* The inductive invariant: the open nodes are a way down the tree, what is finished
\* beside it is counted and delivered, and what is gone was given up.
THEOREM TransferInvariant == Spec => []TransferInv
<1>1. TransferInv /\ [Next]_vars => TransferInv'
  BY TypeStep, TreeStep, ConsentStep, OwnedStep DEF TransferInv, TreeInv
<1> QED BY <1>1, InitInv, PTL DEF Spec

\* Retries, skips and failures leave no residue in the progress, which is exact
\* when the batch ends well (lines 717-722, 1188-1215).
THEOREM ProgressIsExact == Spec => []ProgressExact
<1>1. TransferInv => ProgressExact
  BY DEF TransferInv, Counted, ProgressExact
<1> QED BY <1>1, TransferInvariant, PTL

\* No step of a batch takes from the destination what the user did not give up, and
\* none takes a temporary file that may be another's (lines 954-969, 1020-1076).
THEOREM NothingIsLost == Spec => []NothingLost
<1>1. TransferInv => NothingLost
  BY DEF TransferInv, Consent, Owned, NothingLost, ConsentedLoss, ForeignKept
<1> QED BY <1>1, TransferInvariant, PTL

\* What the batch tells its user is so: what it delivered, named, and asked for.
THEOREM OutcomeIsTrue == Spec => []OutcomeTrue
<1>1. TransferInv => OutcomeTrue
  <2> SUFFICES ASSUME TransferInv PROVE OutcomeTrue
    OBVIOUS
  <2>1. SuccessDelivers
    <3> SUFFICES ASSUME pc = "ended", thrown = "none", NEW n \in found \ skipped
                 PROVE  IF Kind[n] = "folder" THEN IsFolder(dest[n]) ELSE dest[n] = "own"
      BY DEF SuccessDelivers
    <3>1. roots = {} /\ stack = << >>
      BY DEF TransferInv, Shape, Nowhere
    <3>2. Done = found
      BY <3>1 DEF Done, Finished
    <3> QED BY <3>2 DEF TransferInv, Delivered, Good
  <2> QED BY <2>1 DEF OutcomeTrue, TransferInv, Owned, Consent, CommitAccounts, AskedOnce
<1> QED BY <1>1, TransferInvariant, PTL

-----------------------------------------------------------------------------
(* The SMB client: the invariant.                                          *)

\* The call of a caller is one of its kind; a stream that is held is open, or is a writer's.
CallFits(c) ==
  /\ stage[c] \in {"waits", "runs"} =>
       /\ call[c].asks \in {"stat", "modify"} => kind[c] = call[c].asks
       /\ call[c].asks \in {"open", "read"} => kind[c] = "read"
       /\ call[c].asks = "write" => kind[c] = "write"
       /\ call[c].asks = "close" => c \in Streams
       /\ call[c].asks = "open" => ~streams[c].handle
       /\ call[c].asks # "open" /\ kind[c] = "read" => streams[c].handle
  /\ stage[c] = "held" => c \in Streams /\ (kind[c] = "read" => streams[c].handle)
  /\ stage[c] = "new" => ~streams[c].handle /\ streams[c].left = 0 /\ ~call[c].failed
  /\ streams[c].closed => stage[c] \in {"held", "over"}

\* What may be left of the commands of a call.
Plans(c) ==
  CASE call[c].asks = "stat"   -> {<<"open", "close">>, <<"close">>}
    [] call[c].asks = "modify" -> {<<"open", "close", "open", "set", "close">>, <<"close", "open", "set", "close">>,
                                   <<"open", "set", "close">>, <<"set", "close">>, <<"close">>}
    [] call[c].asks = "open"   -> {<<"open">>}
    [] call[c].asks = "read"   -> {<<"read">>}
    [] call[c].asks = "write"  -> {<<"create", "write">>, <<"write">>}
    [] call[c].asks = "close"  ->
         IF kind[c] = "read" THEN {<<"close">>}
         ELSE IF streams[c].offset = Length
         THEN {<<"create", "flush", "close">>, <<"flush", "close">>, <<"close">>}
         ELSE {<<"create", "close">>, <<"close">>}
Current(c) == Head(todo[c])
PlanFits(c) == session.active = c =>
  /\ todo[c] \in Plans(c)
  /\ c \in Streams => ~call[c].failed
  /\ kind[c] = "write" => (Current(c) = "create" <=> ~streams[c].handle)
  /\ net.answer = "ok" /\ Current(c) = "read" => net.count <= Length - streams[c].offset

\* On a connection that goes on, a handle at the server is a stream's, or the running call will
\* close it, unless the call was canceled.
HandleOwned(c) == Connected /\ c \in server.handles /\ ~cancel[c] =>
  IF session.active = c
  THEN /\ net.answer = "ok" => Current(c) # "close"
       /\ net.answer \in {"none", "error", "bad"} => Current(c) \notin {"open", "create"}
  ELSE c \in Streams /\ streams[c].handle /\ ~streams[c].closed /\ stage[c] # "over"

\* What a writer knows of its file, and when.
Creating(c) == session.active = c /\ Current(c) = "create"
CreationKnown(c) == kind[c] = "write" =>
  /\ streams[c].creation = "not_created" => ~server.files[c].created
  /\ streams[c].creation = "created" => server.files[c].created
  /\ streams[c].creation = "unknown" => streams[c].broken \/ Creating(c)
  /\ Creating(c) => /\ streams[c].creation = "unknown"
                    /\ net.answer = "ok" => server.files[c].created
                    /\ net.answer \in {"none", "error", "bad"} => ~server.files[c].created
  /\ streams[c].handle => streams[c].creation = "created"
  /\ ~streams[c].handle /\ ~streams[c].broken => streams[c].creation = "not_created" \/ Creating(c)

\* What a reader has got are the file's bytes up to its offset.
ReadSoFar(c) ==
  /\ streams[c].got = Positions(0, Len(streams[c].got))
  /\ kind[c] = "read" => streams[c].offset = Len(streams[c].got)

\* The file of a writer has the bytes up to its offset at least, and those of the write under way.
WrittenSoFar(c) == kind[c] = "write" =>
  /\ streams[c].offset = streams[c].given - streams[c].left
  /\ server.files[c].content = Positions(0, Len(server.files[c].content))
  /\ streams[c].offset <= Len(server.files[c].content) /\ Len(server.files[c].content) <= streams[c].given
  /\ session.active = c /\ Current(c) = "write" /\ net.answer = "ok" =>
       net.count <= streams[c].left /\ Len(server.files[c].content) = streams[c].offset + net.count
  /\ stage[c] = "held" /\ ~call[c].failed /\ ~streams[c].closed => streams[c].left = 0

\* A file that is closed with success was flushed behind its last byte.
FlushedAtEnd(c) == kind[c] = "write" =>
  /\ /\ session.active = c /\ call[c].asks = "close" /\ streams[c].offset = Length
     /\ Current(c) = "close" \/ (Current(c) = "flush" /\ net.answer = "ok")
     => server.files[c].flushed
  /\ streams[c].closed /\ ~call[c].failed =>
       server.files[c] = [created |-> TRUE, flushed |-> TRUE, content |-> Positions(0, Length)]

CallerFits(c) ==
  CallFits(c) /\ PlanFits(c) /\ HandleOwned(c) /\ CreationKnown(c) /\ ReadSoFar(c) /\ WrittenSoFar(c) /\ FlushedAtEnd(c)

\* The active command is that of the owner of the lock.
OwnerServes ==
  /\ ~Idle => session.context /\ stage[session.active] = "runs" /\ queue # << >> /\ Head(queue) = session.active
  /\ \A c \in Callers : stage[c] = "runs" => session.active = c
ShareInv == SmbTypeOK /\ OwnerServes /\ \A c \in Callers : CallerFits(c)

-----------------------------------------------------------------------------
(* Types, and the step of one caller.                                      *)

\* The types of what a caller has.
StreamStates == [handle : BOOLEAN, closed : BOOLEAN, offset : 0..Length, given : 0..Length,
                 left : 0..Length, got : Seq(1..Length), broken : BOOLEAN,
                 creation : {"not_created", "unknown", "created"}]
CallStates == [asks : {"stat", "modify", "open", "read", "write", "close"}, failed : BOOLEAN]
FileStates == [created : BOOLEAN, flushed : BOOLEAN, content : Seq(1..Length)]
Stages == {"new", "waits", "runs", "held", "over"}
Netted == [answer : {"none", "ok", "error", "bad", "never"}, count : 0..Chunk]
Sessions == [context : BOOLEAN, stopping : BOOLEAN, active : Callers \cup {"nobody"}]
ShareTypesOf ==
  /\ kind \in [Callers -> {"stat", "modify", "read", "write"}] /\ session \in Sessions
  /\ queue \in Seq(Callers \cup {"stop"}) /\ stage \in [Callers -> Stages]
  /\ call \in [Callers -> CallStates] /\ todo \in [Callers -> Seq(Commands)] /\ cancel \in [Callers -> BOOLEAN]
  /\ streams \in [Callers -> StreamStates] /\ net \in Netted
  /\ server \in [handles : SUBSET Callers, files : [Callers -> FileStates]]
  /\ stop \in {"new", "waits", "over"} /\ troubles \in 0..MaxTroubles

LEMMA SmbTypes ==
  /\ SmbTypeOK => ShareTypesOf
  /\ ShareTypesOf' /\ kind' \in Roles => SmbTypeOK'
<1>1. ASSUME SmbTypeOK PROVE ShareTypesOf
  BY <1>1, SmbAssumption DEF SmbTypeOK, ShareTypesOf, StreamStates, CallStates, FileStates, Stages, Netted, Sessions
<1>2. ASSUME ShareTypesOf', kind' \in Roles PROVE SmbTypeOK'
  BY <1>2 DEF SmbTypeOK, ShareTypesOf, StreamStates, CallStates, FileStates, Stages, Netted, Sessions
<1> QED BY <1>1, <1>2

\* What a caller has is of its type.
LEMMA CallerTypes ==
  ASSUME SmbTypeOK, NEW c \in Callers
  PROVE  /\ kind[c] \in {"stat", "modify", "read", "write"} /\ stage[c] \in Stages
         /\ call[c] \in CallStates /\ todo[c] \in Seq(Commands) /\ cancel[c] \in BOOLEAN
         /\ streams[c] \in StreamStates /\ server.files[c] \in FileStates /\ c # "nobody" /\ c # "stop"
<1>1. server.files \in [Callers -> FileStates]
  BY SmbTypes DEF ShareTypesOf
<1> QED BY <1>1, SmbTypes, SmbAssumption DEF ShareTypesOf

\* One caller's part of a variable changes.
LEMMA OneOf ==
  ASSUME NEW T, NEW f \in [Callers -> T], NEW c \in Callers, NEW x \in T, NEW g, g = [f EXCEPT ![c] = x]
  PROVE  g \in [Callers -> T] /\ g[c] = x /\ \A d \in Callers \ {c} : g[d] = f[d]
OBVIOUS

\* Or stays as it is.
LEMMA NoneOf ==
  ASSUME NEW T, NEW f \in [Callers -> T], NEW c \in Callers
  PROVE  f = [f EXCEPT ![c] = f[c]]
OBVIOUS

\* A caller is as it was when nothing of it changes, and no handle appears.
LEMMA CallerRests ==
  ASSUME SmbTypeOK, NEW d \in Callers, CallerFits(d), kind' = kind,
         stage'[d] = stage[d], call'[d] = call[d], todo'[d] = todo[d], cancel'[d] = cancel[d],
         streams'[d] = streams[d], server'.files[d] = server.files[d],
         session.active = d <=> session'.active = d, session.active = d => net' = net,
         Connected' => Connected, d \in server'.handles => d \in server.handles
  PROVE  CallerFits(d)'
<1>1. Streams' = Streams /\ Plans(d)' = Plans(d) /\ Current(d)' = Current(d)
  BY DEF Streams, Plans, Current
<1>2. CallFits(d)' BY <1>1 DEF CallerFits, CallFits
<1>3. PlanFits(d)' BY <1>1 DEF CallerFits, PlanFits
<1>4. HandleOwned(d)' BY <1>1 DEF CallerFits, HandleOwned
<1>5. CreationKnown(d)' BY <1>1 DEF CallerFits, CreationKnown, Creating
<1>6. ReadSoFar(d)' BY <1>1 DEF CallerFits, ReadSoFar, Positions
<1>7. WrittenSoFar(d)' BY <1>1 DEF CallerFits, WrittenSoFar, Positions
<1>8. FlushedAtEnd(d)' BY <1>1 DEF CallerFits, FlushedAtEnd, Positions
<1> QED BY <1>2, <1>3, <1>4, <1>5, <1>6, <1>7, <1>8 DEF CallerFits

\* Who acts leaves the others as they are.
OthersRest(c) ==
  /\ kind' = kind
  /\ \A d \in Callers \ {c} :
       /\ stage'[d] = stage[d] /\ call'[d] = call[d] /\ todo'[d] = todo[d] /\ cancel'[d] = cancel[d]
       /\ streams'[d] = streams[d] /\ server'.files[d] = server.files[d]
       /\ session.active = d <=> session'.active = d
       /\ session.active = d => net' = net
       /\ d \in server'.handles => d \in server.handles
  /\ Connected' => Connected
LEMMA OneActs ==
  ASSUME ShareInv, NEW c \in Callers, OthersRest(c), ShareTypesOf', OwnerServes', CallerFits(c)'
  PROVE  ShareInv'
<1>1. SmbTypeOK'
  BY SmbTypes DEF ShareInv, SmbTypeOK, OthersRest
<1>2. ASSUME NEW d \in Callers, d # c PROVE CallerFits(d)'
  BY <1>2, CallerRests DEF ShareInv, OthersRest
<1> QED BY <1>1, <1>2 DEF ShareInv

-----------------------------------------------------------------------------
(* Calls that are made, canceled and dropped, and the stop.                *)

\* What is appended leaves the first one first.
LEMMA QueueGrows ==
  ASSUME queue \in Seq(Callers \cup {"stop"}), NEW q \in Callers \cup {"stop"}, queue' = Append(queue, q)
  PROVE  /\ queue' \in Seq(Callers \cup {"stop"})
         /\ queue # << >> => queue' # << >> /\ Head(queue') = Head(queue)
<1>1. queue' \in Seq(Callers \cup {"stop"}) /\ Len(queue') = Len(queue) + 1 /\ Len(queue) \in Nat
      /\ \A i \in 1..Len(queue) : queue'[i] = queue[i]
  BY AppendProperties
<1>2. ASSUME queue # << >> PROVE queue' # << >> /\ Head(queue') = Head(queue)
  <2>1. Len(queue) > 0 /\ 1 \in 1..Len(queue) BY <1>1, <1>2, EmptySeq
  <2>2. Len(queue') # 0 BY <1>1, <2>1
  <2>3. queue' # << >> BY <1>1, <2>2
  <2>4. Head(queue') = queue'[1] /\ Head(queue) = queue[1] BY <1>1, <1>2, <2>3, HeadTailProperties
  <2> QED BY <1>1, <2>1, <2>3, <2>4
<1> QED BY <1>1, <1>2

\* A caller that asks for something waits for the lock.
LEMMA QueuesKeeps ==
  ASSUME ShareInv, NEW c \in Callers, stage[c] \in {"new", "held"},
         NEW what \in {"stat", "modify", "open", "read", "write", "close"}, Queues(c, what),
         NEW s \in StreamStates, streams' = [streams EXCEPT ![c] = s],
         s.handle = streams[c].handle, ~s.closed, ~streams[c].closed, s.offset = streams[c].offset,
         s.got = streams[c].got, s.broken = streams[c].broken, s.creation = streams[c].creation,
         s.given - s.left = streams[c].given - streams[c].left, s.given >= streams[c].given,
         what \in {"stat", "modify"} => kind[c] = what, what \in {"open", "read"} => kind[c] = "read",
         what = "write" => kind[c] = "write", what = "close" => c \in Streams,
         what = "open" => ~streams[c].handle, what # "open" /\ kind[c] = "read" => streams[c].handle
  PROVE  ShareInv'
<1>1. ShareTypesOf /\ c # "nobody"
  BY SmbTypes, CallerTypes DEF ShareInv
<1>2. /\ kind' = kind /\ session' = session /\ todo' = todo /\ cancel' = cancel /\ net' = net /\ server' = server
      /\ stop' = stop /\ troubles' = troubles /\ queue' = Append(queue, c)
      /\ stage' = [stage EXCEPT ![c] = "waits"] /\ call' = [call EXCEPT ![c] = [asks |-> what, failed |-> FALSE]]
  BY DEF Queues
<1>3. session.active # c
  BY <1>1 DEF ShareInv, OwnerServes, Idle
<1>4. /\ stage' \in [Callers -> Stages] /\ stage'[c] = "waits" /\ \A d \in Callers \ {c} : stage'[d] = stage[d]
  <2>1. "waits" \in Stages BY DEF Stages
  <2> QED BY <1>1, <1>2, <2>1, OneOf DEF ShareTypesOf
<1>5. /\ call' \in [Callers -> CallStates] /\ call'[c] = [asks |-> what, failed |-> FALSE]
      /\ \A d \in Callers \ {c} : call'[d] = call[d]
  <2>1. [asks |-> what, failed |-> FALSE] \in CallStates BY DEF CallStates
  <2> QED BY <1>1, <1>2, <2>1, OneOf DEF ShareTypesOf
<1>6. /\ streams' \in [Callers -> StreamStates] /\ streams'[c] = s
      /\ \A d \in Callers \ {c} : streams'[d] = streams[d]
  BY <1>1, OneOf DEF ShareTypesOf
<1>7. queue' \in Seq(Callers \cup {"stop"}) /\ (queue # << >> => queue' # << >> /\ Head(queue') = Head(queue))
  BY <1>1, <1>2, QueueGrows DEF ShareTypesOf
<1>8. ShareTypesOf'
  BY <1>1, <1>2, <1>4, <1>5, <1>6, <1>7 DEF ShareTypesOf
<1>9. OthersRest(c)
  BY <1>2, <1>4, <1>5, <1>6 DEF OthersRest, Connected
<1>10. OwnerServes'
  <2>1. session.active \in Callers \cup {"nobody"} BY <1>1 DEF ShareTypesOf, Sessions
  <2> QED BY <1>2, <1>3, <1>4, <1>7, <2>1 DEF ShareInv, OwnerServes, Idle
<1>11. CallerFits(c)'
  <2>1. CallerFits(c) /\ Streams' = Streams BY <1>2 DEF ShareInv, Streams
  <2>2. CallFits(c)' BY <1>2, <1>4, <1>5, <1>6, <2>1 DEF CallerFits, CallFits
  <2>3. PlanFits(c)' BY <1>2, <1>3 DEF PlanFits
  <2>4. HandleOwned(c)' BY <1>2, <1>3, <1>4, <1>6, <2>1 DEF CallerFits, HandleOwned, Connected
  <2>5. CreationKnown(c)' BY <1>2, <1>3, <1>6, <2>1 DEF CallerFits, CreationKnown, Creating
  <2>6. ReadSoFar(c)' BY <1>2, <1>6, <2>1 DEF CallerFits, ReadSoFar, Positions
  <2>7. WrittenSoFar(c)'
    <3>1. kind[c] = "write" => /\ s.offset = s.given - s.left /\ Len(server.files[c].content) <= s.given
      <4>1. server.files \in [Callers -> FileStates] /\ streams[c] \in StreamStates BY <1>1 DEF ShareTypesOf
      <4>2. Len(server.files[c].content) \in Nat BY <4>1 DEF FileStates
      <4>3. s.given \in Int /\ streams[c].given \in Int BY <4>1, SmbAssumption DEF StreamStates
      <4> QED BY <2>1, <4>2, <4>3 DEF CallerFits, WrittenSoFar
    <3> QED BY <1>2, <1>3, <1>4, <1>6, <2>1, <3>1 DEF CallerFits, WrittenSoFar, Positions
  <2>8. FlushedAtEnd(c)' BY <1>2, <1>3, <1>6 DEF FlushedAtEnd
  <2> QED BY <2>2, <2>3, <2>4, <2>5, <2>6, <2>7, <2>8 DEF CallerFits
<1> QED BY <1>8, <1>9, <1>10, <1>11, OneActs

LEMMA BeginsCallKeeps == ASSUME ShareInv, NEW c \in Callers, BeginsCall(c) PROVE ShareInv'
<1>1. ShareTypesOf /\ CallerFits(c) /\ kind[c] \in {"stat", "modify", "read"} /\ stage[c] = "new"
  BY SmbTypes DEF ShareInv, BeginsCall, ShareTypesOf
<1>2. ~streams[c].handle /\ ~streams[c].closed
  BY <1>1 DEF CallerFits, CallFits
<1> DEFINE what == IF kind[c] = "read" THEN "open" ELSE kind[c]
<1>3. Queues(c, what) /\ streams' = streams
  BY DEF BeginsCall
<1>4. /\ what \in {"stat", "modify", "open", "read", "write", "close"}
      /\ what \in {"stat", "modify"} => kind[c] = what
      /\ what \in {"open", "read"} => kind[c] = "read"
      /\ what # "write" /\ what # "close" /\ (what # "open" => kind[c] # "read")
  BY <1>1
<1> DEFINE s == streams[c]
<1>5. s \in StreamStates /\ streams' = [streams EXCEPT ![c] = s] /\ s.given - s.left = streams[c].given - streams[c].left
      /\ s.given >= streams[c].given
  <2>1. s \in StreamStates BY <1>1 DEF ShareTypesOf
  <2>2. streams' = [streams EXCEPT ![c] = s] BY <1>1, <1>3, NoneOf DEF ShareTypesOf
  <2>3. s.given \in Int BY <2>1, SmbAssumption DEF StreamStates
  <2> QED BY <2>1, <2>2, <2>3
<1> HIDE DEF what
<1> QED BY <1>1, <1>2, <1>3, <1>4, <1>5, QueuesKeeps

LEMMA ReadsKeeps == ASSUME ShareInv, NEW c \in Callers, Reads(c) PROVE ShareInv'
<1>1. /\ ShareTypesOf /\ CallerFits(c) /\ kind[c] = "read" /\ stage[c] = "held" /\ ~streams[c].closed
      /\ Queues(c, "read") /\ streams' = streams
  BY SmbTypes DEF ShareInv, Reads
<1>2. streams[c].handle
  BY <1>1 DEF CallerFits, CallFits
<1> DEFINE s == streams[c]
<1>5. s \in StreamStates /\ streams' = [streams EXCEPT ![c] = s] /\ s.given - s.left = streams[c].given - streams[c].left
      /\ s.given >= streams[c].given
  <2>1. s \in StreamStates BY <1>1 DEF ShareTypesOf
  <2>2. streams' = [streams EXCEPT ![c] = s] BY <1>1, NoneOf DEF ShareTypesOf
  <2>3. s.given \in Int BY <2>1, SmbAssumption DEF StreamStates
  <2> QED BY <2>1, <2>2, <2>3
<1> QED BY <1>1, <1>2, <1>5, QueuesKeeps

LEMMA ClosesStreamKeeps == ASSUME ShareInv, NEW c \in Callers, ClosesStream(c) PROVE ShareInv'
<1>1. /\ ShareTypesOf /\ CallerFits(c) /\ stage[c] = "held" /\ ~streams[c].closed
      /\ Queues(c, "close") /\ streams' = streams
  BY SmbTypes DEF ShareInv, ClosesStream
<1>2. c \in Streams /\ (kind[c] = "read" => streams[c].handle)
  BY <1>1 DEF CallerFits, CallFits
<1> DEFINE s == streams[c]
<1>5. s \in StreamStates /\ streams' = [streams EXCEPT ![c] = s] /\ s.given - s.left = streams[c].given - streams[c].left
      /\ s.given >= streams[c].given
  <2>1. s \in StreamStates BY <1>1 DEF ShareTypesOf
  <2>2. streams' = [streams EXCEPT ![c] = s] BY <1>1, NoneOf DEF ShareTypesOf
  <2>3. s.given \in Int BY <2>1, SmbAssumption DEF StreamStates
  <2> QED BY <2>1, <2>2, <2>3
<1> QED BY <1>1, <1>2, <1>5, QueuesKeeps

LEMMA WritesKeeps == ASSUME ShareInv, NEW c \in Callers, Writes(c) PROVE ShareInv'
<1>1. /\ ShareTypesOf /\ CallerFits(c) /\ stage[c] = "held" /\ ~streams[c].closed /\ ~call[c].failed
      /\ Queues(c, "write") /\ kind[c] = "write"
  BY SmbTypes DEF ShareInv, Writes
<1>2. PICK n \in 1..(Length - streams[c].given) :
        streams' = [streams EXCEPT ![c].given = @ + n, ![c].left = n]
  BY DEF Writes
<1>3. streams[c] \in StreamStates /\ streams \in [Callers -> StreamStates]
  BY <1>1 DEF ShareTypesOf
<1>4. streams[c].left = 0 /\ streams[c].given \in 0..Length /\ Length \in Nat
  BY <1>1, <1>3, SmbAssumption DEF CallerFits, WrittenSoFar, StreamStates
<1> DEFINE s == [streams[c] EXCEPT !.given = streams[c].given + n, !.left = n]
<1>5. s \in StreamStates
  <2>1. streams[c].given + n \in 0..Length /\ n \in 0..Length BY <1>4
  <2> QED BY <1>3, <2>1 DEF StreamStates
<1>6. streams' = [streams EXCEPT ![c] = s]
  BY <1>2, <1>3
<1>7. /\ s.given = streams[c].given + n /\ s.left = n /\ s.handle = streams[c].handle /\ s.closed = streams[c].closed
      /\ s.offset = streams[c].offset /\ s.got = streams[c].got /\ s.broken = streams[c].broken
      /\ s.creation = streams[c].creation
  BY <1>3 DEF StreamStates
<1>8. s.given - s.left = streams[c].given - streams[c].left /\ s.given >= streams[c].given
  BY <1>4, <1>7
<1> HIDE DEF s
<1> QED BY <1>1, <1>5, <1>6, <1>7, <1>8, QueuesKeeps

\* A writer is there, or is not.
LEMMA OpensWriterKeeps == ASSUME ShareInv, NEW c \in Callers, OpensWriter(c) PROVE ShareInv'
<1>1. ShareTypesOf /\ c # "nobody" /\ kind[c] = "write" /\ stage[c] = "new" /\ CallerFits(c)
  BY SmbTypes, CallerTypes DEF ShareInv, OpensWriter
<1>2. UNCHANGED <<kind, session, queue, call, todo, cancel, streams, net, server, stop, troubles>>
  BY DEF OpensWriter
<1>3. session.active # c
  BY <1>1 DEF ShareInv, OwnerServes, Idle
<1>4. PICK x \in {"held", "over"} : stage' = [stage EXCEPT ![c] = x]
  BY DEF OpensWriter
<1>5. stage' \in [Callers -> Stages] /\ stage'[c] = x /\ \A d \in Callers \ {c} : stage'[d] = stage[d]
  <2>1. x \in Stages BY DEF Stages
  <2> QED BY <1>1, <1>4, <2>1, OneOf DEF ShareTypesOf
<1>6. ShareTypesOf' BY <1>1, <1>2, <1>5 DEF ShareTypesOf
<1>7. OthersRest(c) BY <1>2, <1>5 DEF OthersRest, Connected
<1>8. OwnerServes'
  <2>1. session.active \in Callers \cup {"nobody"} BY <1>1 DEF ShareTypesOf, Sessions
  <2> QED BY <1>2, <1>3, <1>5, <2>1 DEF ShareInv, OwnerServes, Idle
<1>9. CallerFits(c)'
  <2>1. Streams' = Streams /\ c \in Streams BY <1>1, <1>2 DEF Streams
  <2>2. CallFits(c)' BY <1>1, <1>2, <1>5, <2>1 DEF CallerFits, CallFits
  <2>3. PlanFits(c)' BY <1>2, <1>3 DEF PlanFits
  <2>4. HandleOwned(c)' BY <1>1, <1>2, <1>3, <2>1 DEF CallerFits, CallFits, HandleOwned, Connected
  <2>5. CreationKnown(c)' BY <1>1, <1>2, <1>3 DEF CallerFits, CreationKnown, Creating
  <2>6. ReadSoFar(c)' BY <1>1, <1>2 DEF CallerFits, ReadSoFar, Positions
  <2>7. WrittenSoFar(c)' BY <1>1, <1>2, <1>3 DEF CallerFits, CallFits, WrittenSoFar, Positions
  <2>8. FlushedAtEnd(c)' BY <1>1, <1>2, <1>3 DEF CallerFits, FlushedAtEnd, Positions
  <2> QED BY <2>2, <2>3, <2>4, <2>5, <2>6, <2>7, <2>8 DEF CallerFits
<1> QED BY <1>6, <1>7, <1>8, <1>9, OneActs

LEMMA CancelsCallKeeps == ASSUME ShareInv, NEW c \in Callers, CancelsCall(c) PROVE ShareInv'
<1>1. ShareTypesOf /\ CallerFits(c) BY SmbTypes DEF ShareInv
<1>2. UNCHANGED <<kind, session, queue, stage, call, todo, streams, net, server, stop, troubles>>
  BY DEF CancelsCall
<1>3. cancel' \in [Callers -> BOOLEAN] /\ cancel'[c] /\ \A d \in Callers \ {c} : cancel'[d] = cancel[d]
  BY <1>1 DEF CancelsCall, ShareTypesOf
<1>4. ShareTypesOf' BY <1>1, <1>2, <1>3 DEF ShareTypesOf
<1>5. OthersRest(c) BY <1>2, <1>3 DEF OthersRest, Connected
<1>6. OwnerServes' BY <1>2 DEF ShareInv, OwnerServes, Idle
<1>7. CallerFits(c)'
  <2>1. Streams' = Streams /\ Plans(c)' = Plans(c) /\ Current(c)' = Current(c)
    BY <1>2 DEF Streams, Plans, Current
  <2>2. CallFits(c)' BY <1>1, <1>2, <2>1 DEF CallerFits, CallFits
  <2>3. PlanFits(c)' BY <1>1, <1>2, <2>1 DEF CallerFits, PlanFits
  <2>4. HandleOwned(c)' BY <1>3 DEF HandleOwned
  <2>5. CreationKnown(c)' BY <1>1, <1>2, <2>1 DEF CallerFits, CreationKnown, Creating
  <2>6. ReadSoFar(c)' BY <1>1, <1>2 DEF CallerFits, ReadSoFar, Positions
  <2>7. WrittenSoFar(c)' BY <1>1, <1>2, <2>1 DEF CallerFits, WrittenSoFar, Positions
  <2>8. FlushedAtEnd(c)' BY <1>1, <1>2, <2>1 DEF CallerFits, FlushedAtEnd, Positions
  <2> QED BY <2>2, <2>3, <2>4, <2>5, <2>6, <2>7, <2>8 DEF CallerFits
<1> QED BY <1>4, <1>5, <1>6, <1>7, OneActs

\* An aborted session has no command and no handles.
LEMMA AbortedIs ==
  ASSUME SmbTypeOK, NEW b \in BOOLEAN, Aborts(b)
  PROVE  /\ session' \in Sessions /\ net' \in Netted
         /\ server' \in [handles : SUBSET Callers, files : [Callers -> FileStates]]
         /\ session'.active = "nobody" /\ ~session'.context /\ server'.handles = {} /\ server'.files = server.files
         /\ ~Connected' /\ Idle'
<1>1. server \in [handles : SUBSET Callers, files : [Callers -> FileStates]]
  BY SmbTypes DEF ShareTypesOf
<1>2. session' = [context |-> FALSE, stopping |-> b, active |-> "nobody"]
  BY DEF Aborts
<1>3. server' = [server EXCEPT !.handles = {}]
  BY DEF Aborts
<1>4. net' \in Netted
  <2>1. 0 \in 0..Chunk BY SmbAssumption
  <2> QED BY <2>1 DEF Aborts, NoAnswer, Netted
<1>5. server' \in [handles : SUBSET Callers, files : [Callers -> FileStates]]
      /\ server'.handles = {} /\ server'.files = server.files
  BY <1>1, <1>3
<1> QED BY <1>2, <1>4, <1>5 DEF Sessions, Connected, Idle

\* A stop asked for aborts what is idle, and is remembered otherwise.
LEMMA StopIsAsked ==
  ASSUME SmbTypeOK, RequestStop
  PROVE  /\ session' \in Sessions /\ net' \in Netted
         /\ server' \in [handles : SUBSET Callers, files : [Callers -> FileStates]]
         /\ server'.files = server.files /\ server'.handles \subseteq server.handles
         /\ session'.active = session.active /\ ~Connected'
         /\ ~Idle => net' = net /\ session'.context = session.context
<1>1. session \in Sessions /\ net \in Netted /\ server \in [handles : SUBSET Callers, files : [Callers -> FileStates]]
  BY SmbTypes DEF ShareTypesOf
<1>2. CASE Idle
  <2>1. Aborts(TRUE) BY <1>2 DEF RequestStop
  <2> QED BY <1>2, <2>1, AbortedIs DEF Idle
<1>3. CASE ~Idle
  <2>1. session' = [session EXCEPT !.stopping = TRUE] /\ net' = net /\ server' = server
    BY <1>3 DEF RequestStop
  <2>2. /\ session' \in Sessions /\ session'.active = session.active /\ session'.context = session.context
        /\ session'.stopping
    BY <1>1, <2>1 DEF Sessions
  <2> QED BY <1>1, <2>1, <2>2 DEF Connected
<1> QED BY <1>2, <1>3

\* A stream that is abandoned goes, or takes the session with it.
LEMMA DropsKeeps == ASSUME ShareInv, NEW c \in Callers, Drops(c) PROVE ShareInv'
<1>1. ShareTypesOf /\ c # "nobody" /\ stage[c] = "held" /\ CallerFits(c) /\ SmbTypeOK
  BY SmbTypes, CallerTypes DEF ShareInv, Drops
<1>2. UNCHANGED <<kind, queue, call, todo, cancel, streams, stop, troubles>> /\ stage' = [stage EXCEPT ![c] = "over"]
  BY DEF Drops
<1>3. session.active # c
  BY <1>1 DEF ShareInv, OwnerServes, Idle
<1>4. /\ session' \in Sessions /\ net' \in Netted
      /\ server' \in [handles : SUBSET Callers, files : [Callers -> FileStates]]
      /\ server'.files = server.files /\ server'.handles \subseteq server.handles
      /\ session'.active = session.active
      /\ ~Idle => net' = net /\ session'.context = session.context
      /\ Connected' => Connected /\ (~streams[c].handle \/ streams[c].closed)
  <2>1. CASE streams[c].handle /\ ~streams[c].closed
    <3>1. RequestStop BY <2>1 DEF Drops
    <3> QED BY <1>1, <3>1, StopIsAsked
  <2>2. CASE ~(streams[c].handle /\ ~streams[c].closed)
    <3>1. UNCHANGED <<session, net, server>> BY <2>2 DEF Drops
    <3> QED BY <1>1, <2>2, <3>1 DEF Connected, ShareTypesOf
  <2> QED BY <2>1, <2>2
<1>5. stage' \in [Callers -> Stages] /\ stage'[c] = "over" /\ \A d \in Callers \ {c} : stage'[d] = stage[d]
  <2>1. "over" \in Stages BY DEF Stages
  <2> QED BY <1>1, <1>2, <2>1, OneOf DEF ShareTypesOf
<1>6. ShareTypesOf' BY <1>1, <1>2, <1>4, <1>5 DEF ShareTypesOf
<1>7. OthersRest(c) BY <1>1, <1>2, <1>4, <1>5, CallerTypes DEF OthersRest, Idle
<1>8. OwnerServes'
  <2>1. session.active \in Callers \cup {"nobody"} BY <1>1 DEF ShareTypesOf, Sessions
  <2> QED BY <1>2, <1>3, <1>4, <1>5, <2>1 DEF ShareInv, OwnerServes, Idle
<1>9. CallerFits(c)'
  <2>1. Streams' = Streams BY <1>2 DEF Streams
  <2>2. CallFits(c)' BY <1>1, <1>2, <1>5, <2>1 DEF CallerFits, CallFits
  <2>3. PlanFits(c)' BY <1>3, <1>4 DEF PlanFits
  <2>4. HandleOwned(c)' BY <1>1, <1>2, <1>3, <1>4 DEF CallerFits, HandleOwned
  <2>5. CreationKnown(c)' BY <1>1, <1>2, <1>3, <1>4 DEF CallerFits, CreationKnown, Creating
  <2>6. ReadSoFar(c)' BY <1>1, <1>2 DEF CallerFits, ReadSoFar, Positions
  <2>7. WrittenSoFar(c)' BY <1>1, <1>2, <1>3, <1>4, <1>5 DEF CallerFits, CallFits, WrittenSoFar, Positions
  <2>8. FlushedAtEnd(c)' BY <1>1, <1>2, <1>3, <1>4 DEF CallerFits, FlushedAtEnd, Positions
  <2> QED BY <2>2, <2>3, <2>4, <2>5, <2>6, <2>7, <2>8 DEF CallerFits
<1> QED BY <1>6, <1>7, <1>8, <1>9, OneActs

\* A part of the queue is taken out behind its head.
LEMMA QueueShrinks ==
  ASSUME queue \in Seq(Callers \cup {"stop"}), NEW i \in 1..Len(queue),
         queue' = SubSeq(queue, 1, i - 1) \o SubSeq(queue, i + 1, Len(queue))
  PROVE  /\ queue' \in Seq(Callers \cup {"stop"})
         /\ Head(queue) # queue[i] => queue' # << >> /\ Head(queue') = Head(queue)
<1> DEFINE a == SubSeq(queue, 1, i - 1)
           b == SubSeq(queue, i + 1, Len(queue))
<1>1. Len(queue) \in Nat /\ i \in Nat /\ 1 <= i /\ i <= Len(queue) OBVIOUS
<1>2. a \in Seq(Callers \cup {"stop"}) /\ b \in Seq(Callers \cup {"stop"})
  <2>1. \A k \in 1..(i - 1) : queue[k] \in Callers \cup {"stop"} BY <1>1
  <2>2. \A k \in (i + 1)..Len(queue) : queue[k] \in Callers \cup {"stop"} BY <1>1
  <2> QED BY <1>1, <2>1, <2>2, SubSeqProperties
<1>3. i - 1 \in Nat /\ Len(a) = i - 1 /\ \A k \in 1..(i - 1) : a[k] = queue[k]
  <2>1. i - 1 <= Len(queue) /\ i - 1 \in Nat /\ 1 \in Nat BY <1>1
  <2>2. Len(a) = IF 1 <= i - 1 THEN i - 1 - 1 + 1 ELSE 0 BY <1>1
  <2> QED BY <1>1, <2>1, <2>2
<1> HIDE DEF a, b
<1>4. /\ a \o b \in Seq(Callers \cup {"stop"}) /\ Len(a \o b) = Len(a) + Len(b) /\ Len(b) \in Nat
      /\ \A k \in 1..(Len(a) + Len(b)) : (a \o b)[k] = IF k <= Len(a) THEN a[k] ELSE b[k - Len(a)]
  BY <1>2, ConcatProperties
<1>5. ASSUME Head(queue) # queue[i] PROVE queue' # << >> /\ Head(queue') = Head(queue)
  <2>1. Head(queue) = queue[1] /\ i # 1 /\ i - 1 >= 1 BY <1>1, <1>5
  <2>2. 1 \in 1..(Len(a) + Len(b)) /\ 1 <= Len(a) /\ 1 \in 1..(i - 1) BY <1>1, <1>3, <1>4, <2>1
  <2>3. queue' = a \o b BY DEF a, b
  <2>4. queue'[1] = queue[1] /\ Len(queue') > 0 BY <1>1, <1>3, <1>4, <2>2, <2>3
  <2>7. queue' \in Seq(Callers \cup {"stop"}) BY <1>4, <2>3
  <2>8. Len(queue') # 0
    <3>1. Len(queue') = (i - 1) + Len(b) /\ Len(b) \in Nat BY <1>3, <1>4, <2>3
    <3> QED BY <2>1, <3>1
  <2>5. queue' # << >> BY <2>7, <2>8
  <2>9. ASSUME NEW T, NEW u \in Seq(T), u # << >> PROVE Head(u) = u[1]
    BY <2>9, Len(u) # 0
  <2>6. Head(queue') = queue'[1] BY <2>5, <2>7, <2>9
  <2> QED BY <2>1, <2>4, <2>5, <2>6
<1>6. queue' = a \o b BY DEF a, b
<1> QED BY <1>4, <1>5, <1>6

\* A caller that no longer waits for the lock.
LEMMA WithdrawsCallKeeps == ASSUME ShareInv, NEW c \in Callers, WithdrawsCall(c) PROVE ShareInv'
<1>1. ShareTypesOf /\ c # "nobody" /\ stage[c] = "waits" /\ CallerFits(c) /\ cancel[c] /\ Head(queue) # c
  BY SmbTypes, CallerTypes DEF ShareInv, WithdrawsCall
<1>2. UNCHANGED <<kind, session, todo, cancel, streams, net, server, stop, troubles>>
  BY DEF WithdrawsCall
<1>3. session.active # c
  BY <1>1 DEF ShareInv, OwnerServes, Idle
<1>4. queue' \in Seq(Callers \cup {"stop"}) /\ queue' # << >> /\ Head(queue') = Head(queue)
  <2>1. PICK i \in 1..Len(queue) :
          queue[i] = c /\ queue' = SubSeq(queue, 1, i - 1) \o SubSeq(queue, i + 1, Len(queue))
    BY DEF WithdrawsCall
  <2> QED BY <1>1, <2>1, QueueShrinks DEF ShareTypesOf
<1>5. PICK x \in {"held", "over"} : stage' = [stage EXCEPT ![c] = x] /\ (x = "held" => call[c].asks \in {"read", "write", "close"})
  BY DEF WithdrawsCall
<1>6. stage' \in [Callers -> Stages] /\ stage'[c] = x /\ \A d \in Callers \ {c} : stage'[d] = stage[d]
  <2>1. x \in Stages BY DEF Stages
  <2> QED BY <1>1, <1>5, <2>1, OneOf DEF ShareTypesOf
<1>7. /\ call' \in [Callers -> CallStates] /\ call'[c].failed /\ call'[c].asks = call[c].asks
      /\ \A d \in Callers \ {c} : call'[d] = call[d]
  <2>1. call[c] \in CallStates BY <1>1 DEF ShareTypesOf
  <2> DEFINE y == [call[c] EXCEPT !.failed = TRUE]
  <2>2. y \in CallStates /\ y.failed /\ y.asks = call[c].asks BY <2>1 DEF CallStates
  <2>3. call' = [call EXCEPT ![c] = y] BY <1>1 DEF WithdrawsCall, ShareTypesOf
  <2> HIDE DEF y
  <2> QED BY <1>1, <2>2, <2>3, OneOf DEF ShareTypesOf
<1>8. ShareTypesOf' BY <1>1, <1>2, <1>4, <1>6, <1>7 DEF ShareTypesOf
<1>9. OthersRest(c) BY <1>2, <1>6, <1>7 DEF OthersRest, Connected
<1>10. OwnerServes'
  <2>1. session.active \in Callers \cup {"nobody"} BY <1>1 DEF ShareTypesOf, Sessions
  <2> QED BY <1>2, <1>3, <1>4, <1>6, <2>1 DEF ShareInv, OwnerServes, Idle
<1>11. CallerFits(c)'
  <2>1. Streams' = Streams BY <1>2 DEF Streams
  <2>2. CallFits(c)'
    <3>1. x = "held" => c \in Streams /\ (kind[c] = "read" => streams[c].handle)
      BY <1>1, <1>5 DEF CallerFits, CallFits, Streams
    <3> QED BY <1>1, <1>2, <1>6, <2>1, <3>1 DEF CallerFits, CallFits
  <2>3. PlanFits(c)' BY <1>2, <1>3 DEF PlanFits
  <2>4. HandleOwned(c)' BY <1>1, <1>2 DEF HandleOwned
  <2>5. CreationKnown(c)' BY <1>1, <1>2, <1>3 DEF CallerFits, CreationKnown, Creating
  <2>6. ReadSoFar(c)' BY <1>1, <1>2 DEF CallerFits, ReadSoFar, Positions
  <2>7. WrittenSoFar(c)' BY <1>1, <1>2, <1>3, <1>7 DEF CallerFits, WrittenSoFar, Positions
  <2>8. FlushedAtEnd(c)' BY <1>2, <1>3, <1>7 DEF FlushedAtEnd
  <2> QED BY <2>2, <2>3, <2>4, <2>5, <2>6, <2>7, <2>8 DEF CallerFits
<1> QED BY <1>8, <1>9, <1>10, <1>11, OneActs

\* The client is told to stop, and is stopped.
LEMMA StopBeginsKeeps == ASSUME ShareInv, StopBegins PROVE ShareInv'
<1>1. ShareTypesOf /\ SmbTypeOK BY SmbTypes DEF ShareInv
<1>2. /\ stop' = "waits" /\ queue' = Append(queue, "stop")
      /\ UNCHANGED <<kind, stage, call, todo, cancel, streams, troubles>> /\ RequestStop
  BY DEF StopBegins, callers
<1>3. /\ session' \in Sessions /\ net' \in Netted
      /\ server' \in [handles : SUBSET Callers, files : [Callers -> FileStates]]
      /\ server'.files = server.files /\ server'.handles \subseteq server.handles
      /\ session'.active = session.active /\ ~Connected'
      /\ ~Idle => net' = net /\ session'.context = session.context
  BY <1>1, <1>2, StopIsAsked
<1>4. queue' \in Seq(Callers \cup {"stop"}) /\ (queue # << >> => queue' # << >> /\ Head(queue') = Head(queue))
  BY <1>1, <1>2, QueueGrows DEF ShareTypesOf
<1>5. SmbTypeOK'
  <2>1. ShareTypesOf' BY <1>1, <1>2, <1>3, <1>4 DEF ShareTypesOf
  <2> QED BY <1>1, <1>2, <2>1, SmbTypes DEF SmbTypeOK
<1>6. OwnerServes' BY <1>2, <1>3, <1>4 DEF ShareInv, OwnerServes, Idle
<1>7. ASSUME NEW d \in Callers PROVE CallerFits(d)'
  <2>1. d # "nobody" /\ CallerFits(d) BY <1>1, CallerTypes DEF ShareInv
  <2> QED BY <1>1, <1>2, <1>3, <2>1, CallerRests DEF Idle
<1> QED BY <1>5, <1>6, <1>7 DEF ShareInv

LEMMA StopEndsKeeps == ASSUME ShareInv, StopEnds PROVE ShareInv'
<1>1. ShareTypesOf /\ SmbTypeOK BY SmbTypes DEF ShareInv
<1>2. /\ stop' = "over" /\ queue' = Tail(queue) /\ Head(queue) = "stop" /\ stop = "waits"
      /\ UNCHANGED <<kind, stage, call, todo, cancel, streams, troubles>> /\ Aborts(TRUE)
  BY DEF StopEnds, callers
<1>3. Idle
  <2>1. session.active \in Callers \cup {"nobody"} BY <1>1 DEF ShareTypesOf, Sessions
  <2> QED BY <1>2, <2>1, SmbAssumption DEF ShareInv, OwnerServes, Idle
<1>4. /\ session' \in Sessions /\ net' \in Netted
      /\ server' \in [handles : SUBSET Callers, files : [Callers -> FileStates]]
      /\ session'.active = "nobody" /\ server'.handles = {} /\ server'.files = server.files
      /\ ~Connected' /\ Idle'
  BY <1>1, <1>2, AbortedIs
<1>5. queue' \in Seq(Callers \cup {"stop"})
  <2>1. queue # << >> BY DEF StopEnds
  <2> QED BY <1>1, <1>2, <2>1, HeadTailProperties DEF ShareTypesOf
<1>6. SmbTypeOK'
  <2>1. ShareTypesOf' BY <1>1, <1>2, <1>4, <1>5 DEF ShareTypesOf
  <2> QED BY <1>1, <1>2, <2>1, SmbTypes DEF SmbTypeOK
<1>7. OwnerServes' BY <1>2, <1>3, <1>4, SmbAssumption DEF ShareInv, OwnerServes, Idle
<1>8. ASSUME NEW d \in Callers PROVE CallerFits(d)'
  <2>1. d # "nobody" /\ CallerFits(d) BY <1>1, CallerTypes DEF ShareInv
  <2> QED BY <1>1, <1>2, <1>3, <1>4, <2>1, CallerRests DEF Idle
<1> QED BY <1>6, <1>7, <1>8 DEF ShareInv

-----------------------------------------------------------------------------
(* What the server does.                                                   *)

\* The places of a file, in order.
LEMMA PositionsAre ==
  ASSUME NEW first \in Nat, NEW n \in Nat
  PROVE  /\ Positions(first, n) \in Seq(Nat) /\ Len(Positions(first, n)) = n
         /\ \A i \in 1..n : Positions(first, n)[i] = first + i
         /\ first + n <= Length => Positions(first, n) \in Seq(1..Length)
<1> DEFINE p == [i \in 1..n |-> first + i]
<1>1. p \in Seq(Nat) /\ Len(p) = n
  OBVIOUS
<1>2. ASSUME first + n <= Length PROVE p \in Seq(1..Length)
  <2>1. \A i \in 1..n : first + i \in 1..Length BY <1>2, SmbAssumption
  <2> QED BY <2>1
<1> QED BY <1>1, <1>2 DEF Positions

LEMMA PositionsJoin ==
  ASSUME NEW a \in Nat, NEW b \in Nat
  PROVE  Positions(0, a) \o Positions(a, b) = Positions(0, a + b)
<1> DEFINE p == Positions(0, a)
           q == Positions(a, b)
           r == Positions(0, a + b)
<1>1. /\ p \in Seq(Nat) /\ Len(p) = a /\ q \in Seq(Nat) /\ Len(q) = b /\ r \in Seq(Nat) /\ Len(r) = a + b
      /\ \A i \in 1..a : p[i] = 0 + i
      /\ \A i \in 1..b : q[i] = a + i
      /\ \A i \in 1..(a + b) : r[i] = 0 + i
  BY a + b \in Nat, 0 \in Nat, PositionsAre
<1> HIDE DEF p, q, r
<1>2. /\ p \o q \in Seq(Nat) /\ Len(p \o q) = a + b
      /\ \A i \in 1..(a + b) : (p \o q)[i] = IF i <= a THEN p[i] ELSE q[i - a]
  BY <1>1, ConcatProperties
<1>3. ASSUME NEW i \in 1..(a + b) PROVE (p \o q)[i] = r[i]
  <2>1. CASE i <= a
    <3>1. i \in 1..a BY <2>1
    <3> QED BY <1>1, <1>2, <2>1, <3>1
  <2>2. CASE ~(i <= a)
    <3>1. i - a \in 1..b /\ a + (i - a) = i /\ 0 + i = i BY <2>2
    <3>2. (p \o q)[i] = q[i - a] BY <1>2, <2>2
    <3> QED BY <1>1, <3>1, <3>2
  <2> QED BY <2>1, <2>2
<1>4. p \o q = r
  BY <1>1, <1>2, <1>3, SeqEqual
<1> QED BY <1>4 DEF p, q, r

LEMMA PositionsFirst ==
  ASSUME NEW m \in Nat, NEW k \in 0..m
  PROVE  SubSeq(Positions(0, m), 1, k) = Positions(0, k)
<1> DEFINE p == Positions(0, m)
           q == Positions(0, k)
           r == SubSeq(p, 1, k)
<1>1. /\ p \in Seq(Nat) /\ Len(p) = m /\ q \in Seq(Nat) /\ Len(q) = k
      /\ \A i \in 1..m : p[i] = 0 + i
      /\ \A i \in 1..k : q[i] = 0 + i
  BY k \in Nat, 0 \in Nat, PositionsAre
<1> HIDE DEF p, q
<1>2. r \in Seq(Nat) /\ Len(r) = k /\ \A i \in 1..k : r[i] = p[i]
  <2>1. r \in Seq(Nat) /\ Len(r) = (IF 1 <= k THEN k - 1 + 1 ELSE 0) /\ \A i \in 1..(k - 1 + 1) : r[i] = p[1 + i - 1]
    <3>1. 1 \in Nat /\ k \in Nat /\ 1 \in 1..(m + 1) /\ k \in 0..m OBVIOUS
    <3>2. \A i \in 1..k : p[i] \in Nat BY <1>1
    <3> QED BY <1>1, <3>1, <3>2, SubSeqProperties
  <2>2. k - 1 + 1 = k /\ \A i \in 1..k : 1 + i - 1 = i OBVIOUS
  <2> QED BY <2>1, <2>2
<1>3. \A i \in 1..k : r[i] = q[i]
  BY <1>1, <1>2
<1>4. r = q
  BY <1>1, <1>2, <1>3, SeqEqual
<1> QED BY <1>4 DEF p, q

\* The active caller runs, and is none of the others.
LEMMA ActiveRuns ==
  ASSUME ShareInv, ~Idle
  PROVE  /\ session.active \in Callers /\ session.active # "nobody" /\ stage[session.active] = "runs"
         /\ session.context /\ queue # << >> /\ Head(queue) = session.active
         /\ CallerFits(session.active) /\ ~streams[session.active].closed
         /\ todo[session.active] \in Plans(session.active)
<1>1. session.active \in Callers /\ session.active # "nobody"
  BY SmbTypes DEF ShareInv, ShareTypesOf, Sessions, Idle
<1>2. stage[session.active] = "runs" /\ session.context /\ queue # << >> /\ Head(queue) = session.active
  BY DEF ShareInv, OwnerServes
<1>3. CallerFits(session.active)
  BY <1>1 DEF ShareInv
<1>4. ~streams[session.active].closed
  BY <1>1, <1>2, <1>3, CallerTypes DEF ShareInv, CallerFits, CallFits, StreamStates
<1>5. todo[session.active] \in Plans(session.active)
  BY <1>3 DEF CallerFits, PlanFits
<1> QED BY <1>1, <1>2, <1>3, <1>4, <1>5

\* What the plans of the calls are made of.
CommandLists ==
  {<<"close">>, <<"open">>, <<"read">>, <<"write">>, <<"open", "close">>, <<"set", "close">>, <<"create", "write">>, <<"flush", "close">>, <<"create", "close">>,
   <<"open", "set", "close">>, <<"create", "flush", "close">>, <<"close", "open", "set", "close">>, <<"open", "close", "open", "set", "close">>}
LEMMA CommandListsAre ==
  /\ <<"close">> # << >> /\ Head(<<"close">>) = "close" /\ Tail(<<"close">>) = << >>
  /\ <<"open">> # << >> /\ Head(<<"open">>) = "open" /\ Tail(<<"open">>) = << >>
  /\ <<"read">> # << >> /\ Head(<<"read">>) = "read" /\ Tail(<<"read">>) = << >>
  /\ <<"write">> # << >> /\ Head(<<"write">>) = "write" /\ Tail(<<"write">>) = << >>
  /\ <<"open", "close">> # << >> /\ Head(<<"open", "close">>) = "open" /\ Tail(<<"open", "close">>) = <<"close">>
  /\ <<"set", "close">> # << >> /\ Head(<<"set", "close">>) = "set" /\ Tail(<<"set", "close">>) = <<"close">>
  /\ <<"create", "write">> # << >> /\ Head(<<"create", "write">>) = "create" /\ Tail(<<"create", "write">>) = <<"write">>
  /\ <<"flush", "close">> # << >> /\ Head(<<"flush", "close">>) = "flush" /\ Tail(<<"flush", "close">>) = <<"close">>
  /\ <<"create", "close">> # << >> /\ Head(<<"create", "close">>) = "create" /\ Tail(<<"create", "close">>) = <<"close">>
  /\ <<"open", "set", "close">> # << >> /\ Head(<<"open", "set", "close">>) = "open" /\ Tail(<<"open", "set", "close">>) = <<"set", "close">>
  /\ <<"create", "flush", "close">> # << >> /\ Head(<<"create", "flush", "close">>) = "create" /\ Tail(<<"create", "flush", "close">>) = <<"flush", "close">>
  /\ <<"close", "open", "set", "close">> # << >> /\ Head(<<"close", "open", "set", "close">>) = "close" /\ Tail(<<"close", "open", "set", "close">>) = <<"open", "set", "close">>
  /\ <<"open", "close", "open", "set", "close">> # << >> /\ Head(<<"open", "close", "open", "set", "close">>) = "open" /\ Tail(<<"open", "close", "open", "set", "close">>) = <<"close", "open", "set", "close">>
OBVIOUS

\* The command of a call goes with what it asks for, and what follows it.
LEMMA PlansAre ==
  ASSUME SmbTypeOK, NEW c \in Callers, todo[c] \in Plans(c), CallFits(c), stage[c] = "runs"
  PROVE  /\ todo[c] \in CommandLists /\ todo[c] # << >> /\ Current(c) \in Commands
         /\ call[c].asks = "stat" =>
              \/ Current(c) = "open" /\ Tail(todo[c]) = <<"close">>
              \/ Current(c) = "close" /\ Tail(todo[c]) = << >>
         /\ call[c].asks = "modify" =>
              \/ Current(c) = "open" /\ Tail(todo[c]) \in {<<"close", "open", "set", "close">>, <<"set", "close">>}
              \/ Current(c) = "close" /\ Tail(todo[c]) \in {<<"open", "set", "close">>, << >>}
              \/ Current(c) = "set" /\ Tail(todo[c]) = <<"close">>
         /\ call[c].asks = "open" => Current(c) = "open" /\ Tail(todo[c]) = << >>
         /\ call[c].asks = "read" => Current(c) = "read" /\ Tail(todo[c]) = << >>
         /\ call[c].asks = "write" =>
              \/ Current(c) = "create" /\ Tail(todo[c]) = <<"write">>
              \/ Current(c) = "write" /\ Tail(todo[c]) = << >>
         /\ call[c].asks = "close" /\ kind[c] = "read" => Current(c) = "close" /\ Tail(todo[c]) = << >>
         /\ call[c].asks = "close" /\ kind[c] = "write" =>
              \/ Current(c) = "close" /\ Tail(todo[c]) = << >>
              \/ Current(c) = "flush" /\ streams[c].offset = Length /\ Tail(todo[c]) = <<"close">>
              \/ Current(c) = "create" /\ streams[c].offset = Length /\ Tail(todo[c]) = <<"flush", "close">>
              \/ Current(c) = "create" /\ streams[c].offset # Length /\ Tail(todo[c]) = <<"close">>
<1>1. call[c].asks \in {"stat", "modify", "open", "read", "write", "close"}
  BY CallerTypes DEF CallStates
<1>2. CASE call[c].asks = "stat"
  <2>1. todo[c] \in {<<"open", "close">>, <<"close">>} BY <1>2 DEF Plans
  <2> QED BY <1>2, <2>1, CommandListsAre DEF Current, Commands, CommandLists
<1>3. CASE call[c].asks = "modify"
  <2>1. todo[c] \in {<<"open", "close", "open", "set", "close">>, <<"close", "open", "set", "close">>, <<"open", "set", "close">>, <<"set", "close">>, <<"close">>} BY <1>3 DEF Plans
  <2> QED BY <1>3, <2>1, CommandListsAre DEF Current, Commands, CommandLists
<1>4. CASE call[c].asks = "open"
  <2>1. todo[c] \in {<<"open">>} BY <1>4 DEF Plans
  <2> QED BY <1>4, <2>1, CommandListsAre DEF Current, Commands, CommandLists
<1>5. CASE call[c].asks = "read"
  <2>1. todo[c] \in {<<"read">>} BY <1>5 DEF Plans
  <2> QED BY <1>5, <2>1, CommandListsAre DEF Current, Commands, CommandLists
<1>6. CASE call[c].asks = "write"
  <2>1. todo[c] \in {<<"create", "write">>, <<"write">>} BY <1>6 DEF Plans
  <2> QED BY <1>6, <2>1, CommandListsAre DEF Current, Commands, CommandLists
<1>7. CASE call[c].asks = "close"
  <2>1. kind[c] \in {"read", "write"} BY <1>7 DEF CallFits, Streams
  <2>2. CASE kind[c] = "read"
    <3>1. todo[c] \in {<<"close">>} BY <1>7, <2>2 DEF Plans
    <3> QED BY <1>7, <2>2, <3>1, CommandListsAre DEF Current, Commands, CommandLists
  <2>3. CASE kind[c] = "write" /\ streams[c].offset = Length
    <3>1. todo[c] \in {<<"create", "flush", "close">>, <<"flush", "close">>, <<"close">>} BY <1>7, <2>3 DEF Plans
    <3> QED BY <1>7, <2>3, <3>1, CommandListsAre DEF Current, Commands, CommandLists
  <2>4. CASE kind[c] = "write" /\ streams[c].offset # Length
    <3>1. todo[c] \in {<<"create", "close">>, <<"close">>} BY <1>7, <2>4 DEF Plans
    <3> QED BY <1>7, <2>4, <3>1, CommandListsAre DEF Current, Commands, CommandLists
  <2> QED BY <2>1, <2>2, <2>3, <2>4
<1> QED BY <1>1, <1>2, <1>3, <1>4, <1>5, <1>6, <1>7

\* An answer that carries nothing out, or no answer.
LEMMA RefusalKeeps ==
  ASSUME ShareInv, NEW c \in Callers, session.active = c, NEW a \in {"error", "bad", "never"}, Answers(a, 0), net.answer = "none" \/ a = "never",
         UNCHANGED <<session, queue, callers, server, stop>>, troubles' \in 0..MaxTroubles
  PROVE  ShareInv'
<1>1. /\ ShareTypesOf /\ c # "nobody" /\ stage[c] = "runs" /\ CallerFits(c) /\ ~streams[c].closed
  BY SmbTypes, CallerTypes, ActiveRuns DEF ShareInv, Idle
<1>2. /\ UNCHANGED <<session, queue, kind, stage, call, todo, cancel, streams, server, stop>>
      /\ net' = [answer |-> a, count |-> 0] /\ net'.answer = a
  BY DEF Answers, callers
<1>3. ShareTypesOf'
  <2>1. net' \in Netted BY <1>2, SmbAssumption DEF Netted
  <2> QED BY <1>1, <1>2, <2>1 DEF ShareTypesOf
<1>4. OthersRest(c) BY <1>2 DEF OthersRest, Connected
<1>5. OwnerServes' BY <1>2 DEF ShareInv, OwnerServes, Idle
<1>6. CallerFits(c)'
  <2>1. Streams' = Streams /\ Plans(c)' = Plans(c) /\ Current(c)' = Current(c) BY <1>2 DEF Streams, Plans, Current
  <2>2. CallFits(c)' BY <1>1, <1>2, <2>1 DEF CallerFits, CallFits
  <2>3. PlanFits(c)' BY <1>1, <1>2, <2>1 DEF CallerFits, PlanFits
  <2>4. HandleOwned(c)' BY <1>1, <1>2, <2>1 DEF CallerFits, HandleOwned, Connected
  <2>5. CreationKnown(c)' BY <1>1, <1>2, <2>1 DEF CallerFits, CreationKnown, Creating
  <2>6. ReadSoFar(c)' BY <1>1, <1>2 DEF CallerFits, ReadSoFar, Positions
  <2>7. WrittenSoFar(c)' BY <1>1, <1>2, <2>1 DEF CallerFits, WrittenSoFar, Positions
  <2>8. FlushedAtEnd(c)' BY <1>1, <1>2, <2>1 DEF CallerFits, FlushedAtEnd, Positions
  <2> QED BY <2>2, <2>3, <2>4, <2>5, <2>6, <2>7, <2>8 DEF CallerFits
<1> QED BY <1>1, <1>3, <1>4, <1>5, <1>6, OneActs

LEMMA RefusesKeeps == ASSUME ShareInv, Refuses PROVE ShareInv'
<1>1. /\ ~Idle /\ net.answer = "none" /\ (Answers("error", 0) \/ Answers("bad", 0))
      /\ UNCHANGED <<session, queue, callers, server, stop>> /\ Fails
  BY DEF Refuses
<1>2. troubles' \in 0..MaxTroubles
  BY <1>1, SmbAssumption, SmbTypes DEF Fails, ShareInv, ShareTypesOf
<1>3. PICK c \in Callers : session.active = c BY <1>1, ActiveRuns
<1> QED BY <1>1, <1>2, <1>3, RefusalKeeps

LEMMA LosesAnswerKeeps == ASSUME ShareInv, LosesAnswer PROVE ShareInv'
<1>1. /\ ~Idle /\ Answers("never", 0) /\ UNCHANGED <<session, queue, callers, server, stop>> /\ Fails
  BY DEF LosesAnswer
<1>2. troubles' \in 0..MaxTroubles
  BY <1>1, SmbAssumption, SmbTypes DEF Fails, ShareInv, ShareTypesOf
<1>3. PICK c \in Callers : session.active = c BY <1>1, ActiveRuns
<1> QED BY <1>1, <1>2, <1>3, RefusalKeeps

\* The server changes one file.
LEMMA FileChanges ==
  ASSUME ShareTypesOf, NEW c \in Callers, NEW f \in FileStates, server' = [server EXCEPT !.files[c] = f]
  PROVE  /\ server' \in [handles : SUBSET Callers, files : [Callers -> FileStates]]
         /\ server'.handles = server.handles /\ server'.files[c] = f
         /\ \A d \in Callers \ {c} : server'.files[d] = server.files[d]
<1>1. server \in [handles : SUBSET Callers, files : [Callers -> FileStates]] BY DEF ShareTypesOf
<1>2. server'.files = [server.files EXCEPT ![c] = f] /\ server'.handles = server.handles
      /\ server' = [handles |-> server'.handles, files |-> server'.files]
  BY <1>1
<1>3. server'.files \in [Callers -> FileStates] /\ server'.files[c] = f
      /\ \A d \in Callers \ {c} : server'.files[d] = server.files[d]
  BY <1>1, <1>2, OneOf
<1> QED BY <1>1, <1>2, <1>3

\* The server carries a command out: what the rest of the state makes of it.
LEMMA AppliedKeeps ==
  ASSUME ShareInv, NEW c \in Callers, session.active = c, UNCHANGED <<session, queue, callers, stop, troubles>>,
         NEW n \in 0..Chunk, Answers("ok", n),
         server' \in [handles : SUBSET Callers, files : [Callers -> FileStates]],
         \A d \in Callers \ {c} : server'.files[d] = server.files[d]
                                               /\ (d \in server'.handles => d \in server.handles),
         Current(c) = "close" => c \notin server'.handles,
         Current(c) = "read" => n <= Length - streams[c].offset,
         CreationKnown(c)', WrittenSoFar(c)', FlushedAtEnd(c)'
  PROVE  ShareInv'
<1>1. /\ ShareTypesOf /\ c # "nobody" /\ stage[c] = "runs" /\ CallerFits(c) /\ ~streams[c].closed
  BY SmbTypes, CallerTypes, ActiveRuns DEF ShareInv, Idle
<1>2. /\ UNCHANGED <<session, queue, kind, stage, call, todo, cancel, streams, stop, troubles>>
      /\ net' = [answer |-> "ok", count |-> n] /\ net'.answer = "ok" /\ net'.count = n
  BY DEF Answers, callers
<1>3. ShareTypesOf'
  <2>1. net' \in Netted BY <1>2 DEF Netted
  <2> QED BY <1>1, <1>2, <2>1 DEF ShareTypesOf
<1>4. OthersRest(c) BY <1>2 DEF OthersRest, Connected
<1>5. OwnerServes' BY <1>2 DEF ShareInv, OwnerServes, Idle
<1>6. CallerFits(c)'
  <2>1. Streams' = Streams /\ Plans(c)' = Plans(c) /\ Current(c)' = Current(c) BY <1>2 DEF Streams, Plans, Current
  <2>2. CallFits(c)' BY <1>1, <1>2, <2>1 DEF CallerFits, CallFits
  <2>3. PlanFits(c)' BY <1>1, <1>2, <2>1 DEF CallerFits, PlanFits
  <2>4. HandleOwned(c)' BY <1>1, <1>2, <2>1 DEF CallerFits, HandleOwned, Connected
  <2>6. ReadSoFar(c)' BY <1>1, <1>2 DEF CallerFits, ReadSoFar, Positions
  <2> QED BY <2>2, <2>3, <2>4, <2>6 DEF CallerFits
<1> QED BY <1>1, <1>3, <1>4, <1>5, <1>6, OneActs

\* What the commands of a caller say of what it is.
LEMMA CommandsFit ==
  ASSUME ShareInv, NEW c \in Callers, session.active = c
  PROVE  /\ todo[c] \in CommandLists /\ todo[c] # << >> /\ Current(c) \in Commands
         /\ Current(c) \in {"open", "set"} => kind[c] # "write" /\ call[c].asks \in {"stat", "modify", "open"}
         /\ Current(c) = "open" /\ c \in Streams => Tail(todo[c]) = << >> /\ kind[c] = "read"
         /\ Current(c) = "read" => kind[c] = "read" /\ call[c].asks = "read"
         /\ Current(c) = "write" => kind[c] = "write" /\ call[c].asks = "write"
         /\ Current(c) = "create" => kind[c] = "write" /\ call[c].asks \in {"write", "close"}
         /\ Current(c) = "flush" => kind[c] = "write" /\ call[c].asks = "close" /\ streams[c].offset = Length
         /\ Current(c) = "close" => call[c].asks \in {"stat", "modify", "close"}
<1>1. /\ SmbTypeOK /\ CallFits(c) /\ stage[c] = "runs" /\ todo[c] \in Plans(c)
      /\ call[c].asks \in {"stat", "modify", "open", "read", "write", "close"}
      /\ kind[c] \in {"stat", "modify", "read", "write"}
  BY ActiveRuns, CallerTypes DEF ShareInv, CallerFits, CallStates, Idle
<1>2. /\ call[c].asks \in {"stat", "modify"} => kind[c] = call[c].asks
      /\ call[c].asks \in {"open", "read"} => kind[c] = "read"
      /\ call[c].asks = "write" => kind[c] = "write"
      /\ call[c].asks = "close" => kind[c] \in {"read", "write"}
      /\ c \in Streams => kind[c] \in {"read", "write"}
  BY <1>1 DEF CallFits, Streams
<1>3. todo[c] \in CommandLists /\ todo[c] # << >> /\ Current(c) \in Commands BY <1>1, PlansAre
<1>4. CASE call[c].asks = "stat" BY <1>1, <1>2, <1>3, <1>4, PlansAre
<1>5. CASE call[c].asks = "modify" BY <1>1, <1>2, <1>3, <1>5, PlansAre
<1>6. CASE call[c].asks = "open" BY <1>1, <1>2, <1>3, <1>6, PlansAre
<1>7. CASE call[c].asks = "read" BY <1>1, <1>2, <1>3, <1>7, PlansAre
<1>8. CASE call[c].asks = "write" BY <1>1, <1>2, <1>3, <1>8, PlansAre
<1>9. CASE call[c].asks = "close" BY <1>1, <1>2, <1>3, <1>9, PlansAre
<1> QED BY <1>1, <1>4, <1>5, <1>6, <1>7, <1>8, <1>9

\* A write overwrites what is behind its offset.
LEMMA OverwrittenIs ==
  ASSUME NEW content, NEW k \in Nat, content = Positions(0, k), NEW offset \in 0..k, NEW n \in Nat, offset + n <= Length
  PROVE  /\ SubSeq(content, 1, offset) \o Positions(offset, n) = Positions(0, offset + n)
         /\ Positions(0, offset + n) \in Seq(1..Length) /\ Len(Positions(0, offset + n)) = offset + n
<1>1. SubSeq(content, 1, offset) = Positions(0, offset) BY PositionsFirst
<1>2. offset \in Nat /\ offset + n \in Nat /\ 0 + (offset + n) <= Length /\ 0 \in Nat BY SmbAssumption
<1>3. Positions(0, offset) \o Positions(offset, n) = Positions(0, offset + n) BY <1>2, PositionsJoin
<1>4. Positions(0, offset + n) \in Seq(1..Length) /\ Len(Positions(0, offset + n)) = offset + n
  BY <1>2, PositionsAre
<1> QED BY <1>1, <1>3, <1>4

LEMMA LowerIs ==
  ASSUME NEW a \in Nat, NEW b \in Int, NEW n \in 0..Lower(a, b)
  PROVE  n \in 0..a /\ n <= b
BY DEF Lower

LEMMA AppliesKeeps == ASSUME ShareInv, Applies PROVE ShareInv'
<1> DEFINE Writing(f) == server' = [server EXCEPT !.files[session.active] = f]
<1>1. ~Idle /\ net.answer = "none" /\ UNCHANGED <<session, queue, callers, stop, troubles>>
  BY DEF Applies
<1>2. PICK c \in Callers : session.active = c
  BY <1>1, ActiveRuns
<1>3. /\ ShareTypesOf /\ c # "nobody" /\ stage[c] = "runs" /\ CallerFits(c) /\ ~streams[c].closed
      /\ streams[c] \in StreamStates /\ server.files[c] \in FileStates
      /\ server \in [handles : SUBSET Callers, files : [Callers -> FileStates]]
  BY <1>1, <1>2, SmbTypes, CallerTypes, ActiveRuns DEF ShareInv, ShareTypesOf
<1>4. Streams' = Streams /\ Plans(c)' = Plans(c) /\ Current(c)' = Current(c)
      /\ UNCHANGED <<session, queue, kind, stage, call, todo, cancel, streams, stop, troubles>>
  BY <1>1 DEF Streams, Plans, Current, callers
<1> DEFINE file == server.files[c]
           command == Current(c)
<1>5. \/ command = "open" /\ Answers("ok", 0) /\ server' = [server EXCEPT !.handles = @ \cup {c}]
      \/ command = "close" /\ Answers("ok", 0) /\ server' = [server EXCEPT !.handles = @ \ {c}]
      \/ command = "set" /\ Answers("ok", 0) /\ UNCHANGED server
      \/ /\ command = "create" /\ Answers("ok", 0)
         /\ server' = [handles |-> server.handles \cup {c}, files |-> [server.files EXCEPT ![c].created = TRUE]]
      \/ /\ command = "flush" /\ Answers("ok", 0)
         /\ server' = [server EXCEPT !.files[c] = [file EXCEPT !.flushed = TRUE]]
      \/ /\ command = "read" /\ UNCHANGED server
         /\ \E n \in 0..Lower(Chunk, Length - streams[c].offset) : Answers("ok", n)
      \/ /\ command = "write"
         /\ \E n \in 1..Lower(Chunk, streams[c].left) :
              /\ Answers("ok", n)
              /\ server' = [server EXCEPT !.files[c] = [file EXCEPT !.flushed = FALSE,
                   !.content = SubSeq(@, 1, streams[c].offset) \o Positions(streams[c].given - streams[c].left, n)]]
  BY <1>2 DEF Applies, Current
<1>6. 0 \in 0..Chunk /\ Chunk \in Nat /\ Length \in Nat BY SmbAssumption
<1>7. \A n : Answers("ok", n) => net'.answer = "ok" /\ net'.count = n BY DEF Answers
\* The commands that leave the files as they are.
<1>8. ASSUME server'.files = server.files, command \notin {"create", "flush", "write"},
             NEW n \in 0..Chunk, Answers("ok", n), server'.handles \subseteq server.handles \cup {c},
             server' \in [handles : SUBSET Callers, files : [Callers -> FileStates]],
             command = "close" => c \notin server'.handles,
             command = "read" => n <= Length - streams[c].offset
      PROVE  ShareInv'
  <2>1. CreationKnown(c)' BY <1>2, <1>3, <1>4, <1>8 DEF CallerFits, CreationKnown, Creating
  <2>2. WrittenSoFar(c)' BY <1>2, <1>3, <1>4, <1>8 DEF CallerFits, WrittenSoFar, Positions
  <2>3. FlushedAtEnd(c)' BY <1>2, <1>3, <1>4, <1>8 DEF CallerFits, FlushedAtEnd, Positions
  <2> QED BY <1>1, <1>2, <1>8, <2>1, <2>2, <2>3, AppliedKeeps
<1>9. CASE command = "open" /\ Answers("ok", 0) /\ server' = [server EXCEPT !.handles = @ \cup {c}]
  <2>1. server'.files = server.files /\ server'.handles = server.handles \cup {c}
        /\ server' \in [handles : SUBSET Callers, files : [Callers -> FileStates]]
    BY <1>3, <1>9
  <2> QED BY <1>6, <1>8, <1>9, <2>1
<1>10. CASE command = "close" /\ Answers("ok", 0) /\ server' = [server EXCEPT !.handles = @ \ {c}]
  <2>1. server'.files = server.files /\ server'.handles = server.handles \ {c}
        /\ server' \in [handles : SUBSET Callers, files : [Callers -> FileStates]]
    BY <1>3, <1>10
  <2> QED BY <1>6, <1>8, <1>10, <2>1
<1>11. CASE command = "set" /\ Answers("ok", 0) /\ UNCHANGED server
  BY <1>3, <1>6, <1>8, <1>11
<1>12. CASE command = "read" /\ UNCHANGED server
            /\ \E n \in 0..Lower(Chunk, Length - streams[c].offset) : Answers("ok", n)
  <2>1. PICK n \in 0..Lower(Chunk, Length - streams[c].offset) : Answers("ok", n) BY <1>12
  <2>2. Length - streams[c].offset \in Int BY <1>3, <1>6 DEF StreamStates
  <2>3. n \in 0..Chunk /\ n <= Length - streams[c].offset BY <1>6, <2>2, LowerIs
  <2> QED BY <1>3, <1>8, <1>12, <2>1, <2>3
<1>13. CASE /\ command = "create" /\ Answers("ok", 0)
            /\ server' = [handles |-> server.handles \cup {c}, files |-> [server.files EXCEPT ![c].created = TRUE]]
  <2> DEFINE f == [file EXCEPT !.created = TRUE]
  <2>1. f \in FileStates /\ f.created /\ f.flushed = file.flushed /\ f.content = file.content
    BY <1>3 DEF FileStates
  <2>2. server'.files = [server.files EXCEPT ![c] = f] /\ server'.handles = server.handles \cup {c}
    BY <1>3, <1>13
  <2> HIDE DEF f
  <2>3. server'.files \in [Callers -> FileStates] /\ server'.files[c] = f
        /\ \A d \in Callers \ {c} : server'.files[d] = server.files[d]
    BY <1>3, <2>1, <2>2, OneOf
  <2>4. server' \in [handles : SUBSET Callers, files : [Callers -> FileStates]]
    BY <1>3, <1>13, <2>2, <2>3
  <2>5. CreationKnown(c)' BY <1>2, <1>3, <1>4, <1>7, <1>13, <2>1, <2>3 DEF CallerFits, CreationKnown, Creating
  <2>6. WrittenSoFar(c)' BY <1>2, <1>3, <1>4, <1>13, <2>1, <2>3 DEF CallerFits, WrittenSoFar, Positions
  <2>7. FlushedAtEnd(c)' BY <1>2, <1>3, <1>4, <1>13, <2>1, <2>3 DEF FlushedAtEnd
  <2> QED BY <1>1, <1>2, <1>6, <1>13, <2>2, <2>3, <2>4, <2>5, <2>6, <2>7, AppliedKeeps
<1>14. CASE /\ command = "flush" /\ Answers("ok", 0)
            /\ server' = [server EXCEPT !.files[c] = [file EXCEPT !.flushed = TRUE]]
  <2> DEFINE f == [file EXCEPT !.flushed = TRUE]
  <2>1. f \in FileStates /\ f.flushed /\ f.created = file.created /\ f.content = file.content
    BY <1>3 DEF FileStates
  <2>2. server' = [server EXCEPT !.files[c] = f] BY <1>14
  <2> HIDE DEF f
  <2>3. /\ server' \in [handles : SUBSET Callers, files : [Callers -> FileStates]]
        /\ server'.handles = server.handles /\ server'.files[c] = f
        /\ \A d \in Callers \ {c} : server'.files[d] = server.files[d]
    BY <1>3, <2>1, <2>2, FileChanges
  <2>5. CreationKnown(c)' BY <1>2, <1>3, <1>4, <1>14, <2>1, <2>3 DEF CallerFits, CreationKnown, Creating
  <2>6. WrittenSoFar(c)' BY <1>2, <1>3, <1>4, <1>14, <2>1, <2>3 DEF CallerFits, WrittenSoFar, Positions
  <2>7. FlushedAtEnd(c)' BY <1>2, <1>3, <1>4, <1>14, <2>1, <2>3 DEF FlushedAtEnd
  <2> QED BY <1>1, <1>2, <1>6, <1>14, <2>3, <2>5, <2>6, <2>7, AppliedKeeps
<1>15. CASE /\ command = "write"
            /\ \E n \in 1..Lower(Chunk, streams[c].left) :
                 /\ Answers("ok", n)
                 /\ server' = [server EXCEPT !.files[c] = [file EXCEPT !.flushed = FALSE,
                      !.content = SubSeq(@, 1, streams[c].offset) \o Positions(streams[c].given - streams[c].left, n)]]
  <2>1. PICK n \in 1..Lower(Chunk, streams[c].left) :
          /\ Answers("ok", n)
          /\ server' = [server EXCEPT !.files[c] = [file EXCEPT !.flushed = FALSE,
               !.content = SubSeq(@, 1, streams[c].offset) \o Positions(streams[c].given - streams[c].left, n)]]
    BY <1>15
  <2> DEFINE s == streams[c]
  <2>2. /\ kind[c] = "write" /\ call[c].asks = "write"
        /\ s.offset \in Nat /\ s.left \in Nat /\ s.given \in 0..Length
    BY <1>2, <1>3, <1>6, <1>15, CommandsFit DEF StreamStates
  <2>3. /\ s.offset = s.given - s.left /\ file.content = Positions(0, Len(file.content))
        /\ s.offset <= Len(file.content) /\ Len(file.content) <= s.given /\ Len(file.content) \in Nat
    BY <1>3, <2>2 DEF CallerFits, WrittenSoFar, FileStates
  <2>4. n \in 0..Chunk /\ n <= s.left /\ n \in Nat
    <3>1. n \in 0..Lower(Chunk, s.left) OBVIOUS
    <3>2. s.left \in Int BY <2>2
    <3> QED BY <1>6, <3>1, <3>2, LowerIs
  <2>5. s.offset \in 0..Len(file.content) /\ s.offset + n <= s.given /\ s.offset + n <= Length
    BY <1>6, <2>2, <2>3, <2>4
  <2> DEFINE p == Positions(0, s.offset + n)
             f == [file EXCEPT !.flushed = FALSE, !.content = p]
  <2>6. SubSeq(file.content, 1, s.offset) \o Positions(s.offset, n) = p /\ p \in Seq(1..Length) /\ Len(p) = s.offset + n
    BY <2>3, <2>4, <2>5, OverwrittenIs
  <2>7. SubSeq(file.content, 1, s.offset) \o Positions(s.given - s.left, n) = p
    BY <2>3, <2>6
  <2>8. p = Positions(0, Len(p)) BY <2>6
  <2>9. server' = [server EXCEPT !.files[c] = f]
    BY <2>1, <2>7
  <2> HIDE DEF p
  <2>10. f \in FileStates /\ f.created = file.created /\ f.content = p
    BY <1>3, <2>6 DEF FileStates
  <2> HIDE DEF f
  <2>11. /\ server' \in [handles : SUBSET Callers, files : [Callers -> FileStates]]
         /\ server'.handles = server.handles /\ server'.files[c] = f
         /\ \A d \in Callers \ {c} : server'.files[d] = server.files[d]
    BY <1>3, <2>9, <2>10, FileChanges
  <2>12. CreationKnown(c)' BY <1>2, <1>3, <1>4, <1>15, <2>10, <2>11 DEF CallerFits, CreationKnown, Creating
  <2>13. WrittenSoFar(c)'
    <3>1. s.offset <= s.offset + n /\ s.offset + n <= s.given BY <2>2, <2>4, <2>5
    <3>2. server'.files[c].content = p /\ p = [i \in 1..Len(p) |-> 0 + i] BY <2>8, <2>10, <2>11 DEF Positions
    <3>3. net'.count = n /\ streams' = streams /\ stage'[c] = "runs" BY <1>3, <1>4, <1>7, <2>1
    <3> QED BY <2>3, <2>4, <2>6, <3>1, <3>2, <3>3 DEF WrittenSoFar, Positions
  <2>14. FlushedAtEnd(c)' BY <1>2, <1>3, <1>4, <2>2 DEF FlushedAtEnd
  <2> QED BY <1>1, <1>2, <1>15, <2>1, <2>4, <2>11, <2>12, <2>13, <2>14, AppliedKeeps
<1> HIDE DEF command, file
<1> QED BY <1>5, <1>9, <1>10, <1>11, <1>12, <1>13, <1>14, <1>15

-----------------------------------------------------------------------------
(* The end of a command, and what follows it.                              *)

\* What a stream may be when a command of its caller has ended.
StreamFits(c, s) ==
  /\ s \in StreamStates /\ (streams[c].handle => s.handle)
  /\ s.got = Positions(0, Len(s.got)) /\ (kind[c] = "read" => s.offset = Len(s.got))
  /\ kind[c] = "write" =>
       /\ s.offset = s.given - s.left
       /\ s.offset <= Len(server.files[c].content) /\ Len(server.files[c].content) <= s.given
       /\ s.creation = "not_created" => ~server.files[c].created
       /\ s.creation = "created" => server.files[c].created
       /\ s.creation = "unknown" => s.broken
       /\ s.handle => s.creation = "created"
       /\ ~s.handle /\ ~s.broken => s.creation = "not_created"

\* What holds of it when its call ends, failed or not.
EndFits(c, s, failed) ==
  /\ call[c].asks = "open" /\ ~failed => s.handle
  /\ kind[c] = "write" /\ ~failed =>
       IF s.closed
       THEN server.files[c] = [created |-> TRUE, flushed |-> TRUE, content |-> Positions(0, Length)]
       ELSE s.left = 0

LEMMA LeavesKeeps ==
  ASSUME ShareInv, NEW c \in Callers, stage[c] \in {"waits", "runs"}, queue # << >>,
         session.active \in {c, "nobody"}, NEW failed \in BOOLEAN, Leaves(c, failed),
         NEW s, StreamFits(c, s), EndFits(c, s, failed), streams' = [streams EXCEPT ![c] = s],
         UNCHANGED <<kind, cancel, stop, troubles>>,
         session' \in Sessions, session'.active = "nobody", Connected' => Connected, net' \in Netted,
         server' \in [handles : SUBSET Callers, files : [Callers -> FileStates]],
         server'.files = server.files, server'.handles \subseteq server.handles,
         Connected' /\ c \in server'.handles /\ ~cancel[c] =>
           c \in Streams /\ s.handle /\ ~s.closed /\ (call[c].asks = "open" => ~failed)
  PROVE  ShareInv'
<1>1. ShareTypesOf /\ c # "nobody" /\ CallerFits(c) /\ call[c] \in CallStates
  BY SmbTypes, CallerTypes DEF ShareInv
<1>2. queue' \in Seq(Callers \cup {"stop"})
  <2>1. queue' = Tail(queue) BY DEF Leaves
  <2> QED BY <1>1, <2>1, HeadTailProperties DEF ShareTypesOf
<1>3. todo' \in [Callers -> Seq(Commands)] /\ \A d \in Callers \ {c} : todo'[d] = todo[d]
  <2>1. << >> \in Seq(Commands) OBVIOUS
  <2> QED BY <1>1, <2>1, OneOf DEF Leaves, ShareTypesOf
<1>4. /\ call' \in [Callers -> CallStates] /\ call'[c].failed = failed /\ call'[c].asks = call[c].asks
      /\ \A d \in Callers \ {c} : call'[d] = call[d]
  <2> DEFINE y == [call[c] EXCEPT !.failed = failed]
  <2>1. y \in CallStates /\ y.failed = failed /\ y.asks = call[c].asks BY <1>1 DEF CallStates
  <2>2. call' = [call EXCEPT ![c] = y] BY <1>1 DEF Leaves, ShareTypesOf
  <2> HIDE DEF y
  <2> QED BY <1>1, <2>1, <2>2, OneOf DEF ShareTypesOf
<1> DEFINE held == call[c].asks \in {"read", "write", "close"} \/ (call[c].asks = "open" /\ ~failed)
           x == IF held THEN "held" ELSE "over"
<1>5. stage' \in [Callers -> Stages] /\ stage'[c] = x /\ \A d \in Callers \ {c} : stage'[d] = stage[d]
  <2>1. x \in Stages BY DEF Stages
  <2>2. stage' = [stage EXCEPT ![c] = x] BY DEF Leaves
  <2> HIDE DEF x
  <2> QED BY <1>1, <2>1, <2>2, OneOf DEF ShareTypesOf
<1>6. streams' \in [Callers -> StreamStates] /\ streams'[c] = s /\ \A d \in Callers \ {c} : streams'[d] = streams[d]
  BY <1>1, OneOf DEF ShareTypesOf, StreamFits
<1>7. ShareTypesOf' BY <1>1, <1>2, <1>3, <1>4, <1>5, <1>6 DEF ShareTypesOf
<1>8. OthersRest(c)
  <2>1. \A d \in Callers \ {c} : session.active # d /\ session'.active # d BY SmbAssumption
  <2> QED BY <1>3, <1>4, <1>5, <1>6, <2>1 DEF OthersRest
<1>9. OwnerServes'
  <2>1. ASSUME NEW d \in Callers, stage'[d] = "runs" PROVE FALSE
    <3>1. d # c BY <1>5, <2>1
    <3>2. stage[d] = "runs" BY <1>5, <2>1, <3>1
    <3> QED BY <3>1, <3>2, SmbAssumption DEF ShareInv, OwnerServes
  <2> QED BY <2>1 DEF OwnerServes, Idle
<1>10. x \in {"held", "over"} /\ (x = "held" <=> held) OBVIOUS
<1>11. /\ Streams' = Streams /\ server'.files[c] = server.files[c]
       /\ call[c].asks \in {"stat", "modify", "open", "read", "write", "close"}
       /\ c \in Streams <=> kind[c] \in {"read", "write"}
  BY <1>1 DEF Streams, CallStates
<1> HIDE DEF x
<1>12. CallFits(c)'
  <2>1. held => c \in Streams /\ (kind[c] = "read" => s.handle)
    BY <1>1, <1>11 DEF CallerFits, CallFits, StreamFits, EndFits
  <2> QED BY <1>5, <1>6, <1>10, <1>11, <2>1 DEF CallFits
<1>13. PlanFits(c)' BY <1>1 DEF PlanFits
<1>14. HandleOwned(c)'
  <2>1. c \in Streams /\ (call[c].asks = "open" => ~failed) => held
    BY <1>1, <1>11 DEF CallerFits, CallFits
  <2> QED BY <1>1, <1>5, <1>6, <1>10, <1>11, <2>1 DEF HandleOwned
<1>15. CreationKnown(c)' BY <1>1, <1>6, <1>11 DEF StreamFits, CreationKnown, Creating
<1>16. ReadSoFar(c)' BY <1>6 DEF StreamFits, ReadSoFar, Positions
<1>17. WrittenSoFar(c)' BY <1>1, <1>4, <1>6, <1>11 DEF StreamFits, EndFits, CallerFits, WrittenSoFar, Positions
<1>18. FlushedAtEnd(c)' BY <1>1, <1>4, <1>6, <1>11 DEF EndFits, FlushedAtEnd, Positions
<1>19. CallerFits(c)' BY <1>12, <1>13, <1>14, <1>15, <1>16, <1>17, <1>18 DEF CallerFits
<1> QED BY <1>7, <1>8, <1>9, <1>19, OneActs

\* What must hold when another command follows.
NextFits(c, commands, s, failed) ==
  /\ commands \in CommandLists /\ commands \in Plans(c) /\ call[c].asks # "open" /\ Head(commands) # "create"
  /\ ~s.closed /\ (call[c].asks = "close" => s.offset = streams[c].offset)
  /\ c \in Streams => ~failed
  /\ kind[c] = "write" => s.handle
  /\ Connected /\ c \in server.handles /\ ~cancel[c] => Head(commands) # "open"
  /\ kind[c] = "write" /\ call[c].asks = "close" /\ s.offset = Length /\ Head(commands) = "close" => server.files[c].flushed

\* The next command is sent.
LEMMA NextCommandKeeps ==
  ASSUME ShareInv, NEW c \in Callers, session.active = c, NEW failed \in BOOLEAN, NEW s, StreamFits(c, s),
         NEW commands, NextFits(c, commands, s, failed),
         call' = [call EXCEPT ![c].failed = failed], todo' = [todo EXCEPT ![c] = commands], net' = NoAnswer,
         streams' = [streams EXCEPT ![c] = s],
         UNCHANGED <<kind, session, queue, stage, cancel, server, stop, troubles>>
  PROVE  ShareInv'
<1>1. /\ ShareTypesOf /\ c # "nobody" /\ CallerFits(c) /\ call[c] \in CallStates /\ stage[c] = "runs"
      /\ streams[c] \in StreamStates
  BY SmbTypes, CallerTypes, ActiveRuns DEF ShareInv, Idle
<1>2. net' \in Netted /\ net'.answer = "none"
  BY SmbAssumption DEF NoAnswer, Netted
<1>3. todo' \in [Callers -> Seq(Commands)] /\ todo'[c] = commands /\ \A d \in Callers \ {c} : todo'[d] = todo[d]
  <2>1. commands \in Seq(Commands)
    <3>1. CommandLists \subseteq Seq(Commands) BY DEF CommandLists, Commands
    <3> QED BY <3>1 DEF NextFits
  <2> QED BY <1>1, <2>1, OneOf DEF ShareTypesOf
<1>4. /\ call' \in [Callers -> CallStates] /\ call'[c].failed = failed /\ call'[c].asks = call[c].asks
      /\ \A d \in Callers \ {c} : call'[d] = call[d]
  <2> DEFINE y == [call[c] EXCEPT !.failed = failed]
  <2>1. y \in CallStates /\ y.failed = failed /\ y.asks = call[c].asks BY <1>1 DEF CallStates
  <2>2. call' = [call EXCEPT ![c] = y] BY <1>1 DEF ShareTypesOf
  <2> HIDE DEF y
  <2>3. call' \in [Callers -> CallStates] /\ call'[c] = y /\ \A d \in Callers \ {c} : call'[d] = call[d]
    <3>1. call \in [Callers -> CallStates] BY <1>1 DEF ShareTypesOf
    <3> QED BY <2>1, <2>2, <3>1, OneOf
  <2> QED BY <2>1, <2>3
<1>6. streams' \in [Callers -> StreamStates] /\ streams'[c] = s /\ \A d \in Callers \ {c} : streams'[d] = streams[d]
  BY <1>1, OneOf DEF ShareTypesOf, StreamFits
<1>7. ShareTypesOf' BY <1>1, <1>2, <1>3, <1>4, <1>6 DEF ShareTypesOf
<1>8. OthersRest(c) BY <1>3, <1>4, <1>6 DEF OthersRest, Connected
<1>9. OwnerServes' BY DEF ShareInv, OwnerServes, Idle
<1>11. Streams' = Streams /\ Current(c)' = Head(commands) BY <1>3 DEF Streams, Current
<1>12. CallFits(c)'
  BY <1>1, <1>4, <1>6, <1>11 DEF CallerFits, CallFits, StreamFits, NextFits
<1>13. PlanFits(c)'
  <2>1. Plans(c)' = Plans(c)
    <3>1. CASE call[c].asks = "close" BY <1>4, <1>6, <3>1 DEF Plans, NextFits
    <3>2. CASE call[c].asks # "close"
      <4>1. call[c].asks \in {"stat", "modify", "open", "read", "write"} BY <1>1, <3>2 DEF CallStates
      <4> QED BY <1>4, <4>1 DEF Plans
    <3> QED BY <3>1, <3>2
  <2> QED BY <1>2, <1>3, <1>4, <1>6, <1>11, <2>1 DEF PlanFits, NextFits
<1>14. HandleOwned(c)' BY <1>1, <1>2, <1>3, <1>11 DEF HandleOwned, NextFits, Connected
<1>15. CreationKnown(c)' BY <1>1, <1>2, <1>6, <1>11 DEF StreamFits, NextFits, CreationKnown, Creating
<1>16. ReadSoFar(c)' BY <1>6 DEF StreamFits, ReadSoFar, Positions
<1>17. WrittenSoFar(c)' BY <1>1, <1>2, <1>4, <1>6, <1>11 DEF StreamFits, CallerFits, WrittenSoFar, Positions
<1>18. FlushedAtEnd(c)' BY <1>1, <1>2, <1>4, <1>6, <1>11 DEF NextFits, FlushedAtEnd, Positions
<1>19. CallerFits(c)' BY <1>12, <1>13, <1>14, <1>15, <1>16, <1>17, <1>18 DEF CallerFits
<1> QED BY <1>7, <1>8, <1>9, <1>19, OneActs

\* The session is idle again.
LEMMA BecomesIdle ==
  ASSUME ShareTypesOf, session' = [session EXCEPT !.active = "nobody"], net' = NoAnswer, UNCHANGED server
  PROVE  /\ session' \in Sessions /\ session'.active = "nobody" /\ (Connected' => Connected) /\ net' \in Netted
         /\ server' \in [handles : SUBSET Callers, files : [Callers -> FileStates]]
         /\ server'.files = server.files /\ server'.handles \subseteq server.handles
<1>1. session' \in Sessions /\ session'.active = "nobody" /\ (Connected' => Connected)
  BY DEF ShareTypesOf, Sessions, Connected
<1>2. net' \in Netted BY SmbAssumption DEF NoAnswer, Netted
<1>3. server' \in [handles : SUBSET Callers, files : [Callers -> FileStates]] BY DEF ShareTypesOf
<1> QED BY <1>1, <1>2, <1>3

\* A command has ended: its call ends, or goes on, or is not let go on.
LEMMA ContinuesKeeps ==
  ASSUME ShareInv, NEW c \in Callers, session.active = c, NEW failed \in BOOLEAN, NEW s, StreamFits(c, s),
         NEW commands, Continues(c, commands, s, failed), UNCHANGED <<kind, cancel, stop, troubles>>,
         commands = << >> =>
           /\ EndFits(c, s, failed)
           /\ Connected /\ c \in server.handles /\ ~cancel[c] =>
                c \in Streams /\ s.handle /\ ~s.closed /\ (call[c].asks = "open" => ~failed),
         commands # << >> => NextFits(c, commands, s, failed)
  PROVE  ShareInv'
<1>1. ShareTypesOf /\ SmbTypeOK /\ c # "nobody" /\ stage[c] = "runs" /\ queue # << >>
  BY SmbTypes, CallerTypes, ActiveRuns DEF ShareInv, Idle
<1>2. CASE commands = << >>
  <2>1. /\ Leaves(c, failed) /\ streams' = [streams EXCEPT ![c] = s]
        /\ session' = [session EXCEPT !.active = "nobody"] /\ net' = NoAnswer /\ UNCHANGED server
    BY <1>2 DEF Continues
  <2> QED BY <1>1, <1>2, <2>1, BecomesIdle, LeavesKeeps
<1>3. CASE commands # << >> /\ MayIssue(c)
  BY <1>3, NextCommandKeeps DEF Continues
<1>4. CASE commands # << >> /\ ~MayIssue(c)
  <2>1. /\ Leaves(c, TRUE) /\ streams' = [streams EXCEPT ![c] = s]
        /\ \/ Aborts(TRUE)
           \/ session' = [session EXCEPT !.active = "nobody"] /\ net' = NoAnswer /\ UNCHANGED server
    BY <1>4 DEF Continues
  <2>2. EndFits(c, s, TRUE) BY DEF EndFits
  <2>3. /\ session' \in Sessions /\ session'.active = "nobody" /\ (Connected' => Connected) /\ net' \in Netted
        /\ server' \in [handles : SUBSET Callers, files : [Callers -> FileStates]]
        /\ server'.files = server.files /\ server'.handles \subseteq server.handles
    BY <1>1, <2>1, BecomesIdle, AbortedIs
  <2>4. ~(Connected' /\ ~cancel[c]) BY <1>4, <2>3 DEF MayIssue
  <2> QED BY <1>1, <2>1, <2>2, <2>3, <2>4, LeavesKeeps
<1> QED BY <1>2, <1>3, <1>4

\* A stream that is not being created fits as it is.
LEMMA StreamStays ==
  ASSUME ShareInv, NEW c \in Callers, ~Creating(c)
  PROVE  StreamFits(c, streams[c])
<1>1. CallerFits(c) /\ streams[c] \in StreamStates BY CallerTypes DEF ShareInv
<1>2. streams[c].got = Positions(0, Len(streams[c].got)) /\ (kind[c] = "read" => streams[c].offset = Len(streams[c].got))
  BY <1>1 DEF CallerFits, ReadSoFar
<1>3. kind[c] = "write" =>
        /\ streams[c].offset = streams[c].given - streams[c].left
        /\ streams[c].offset <= Len(server.files[c].content) /\ Len(server.files[c].content) <= streams[c].given
  BY <1>1 DEF CallerFits, WrittenSoFar
<1> QED BY <1>1, <1>2, <1>3 DEF StreamFits, CallerFits, CreationKnown

\* What an answered command makes of the stream.
LEMMA TakenFits ==
  ASSUME ShareInv, NEW c \in Callers, session.active = c, net.answer = "ok", NEW s, s = Taken(c, Current(c))
  PROVE  /\ StreamFits(c, s) /\ s.given = streams[c].given /\ (s.closed <=> Current(c) = "close" /\ c \in Streams)
         /\ Current(c) \notin {"read", "write"} => s.offset = streams[c].offset
         /\ Current(c) \in {"open", "create"} /\ c \in Streams => s.handle
         /\ Current(c) \notin {"open", "create"} => s.handle = streams[c].handle
<1> DEFINE o == streams[c]
<1>1. /\ CallerFits(c) /\ o \in StreamStates /\ stage[c] = "runs" /\ ~o.closed /\ Current(c) \in Commands
      /\ net \in Netted
  BY CallerTypes, ActiveRuns, CommandsFit, SmbTypes DEF ShareInv, ShareTypesOf, Idle
<1>2. Current(c) # "create" => StreamFits(c, o)
  BY StreamStays DEF Creating
<1>3. Length \in Nat BY SmbAssumption
<1>4. net.count \in Nat /\ o.offset \in Nat /\ o.left \in Nat /\ o.given \in Nat
  BY <1>1, <1>3, SmbAssumption DEF StreamStates, Netted
<1>5. CASE Current(c) = "open"
  <2>1. s = IF c \in Streams THEN [o EXCEPT !.handle = TRUE] ELSE o
    BY <1>1, <1>5 DEF Taken, StreamStates
  <2>2. CASE c \in Streams
    <3>1. kind[c] = "read" BY <1>5, <2>2, CommandsFit
    <3>2. s = [o EXCEPT !.handle = TRUE] BY <2>1, <2>2
    <3>3. /\ s \in StreamStates /\ s.handle /\ s.offset = o.offset /\ s.given = o.given /\ s.left = o.left
          /\ s.got = o.got /\ s.closed = o.closed
      BY <1>1, <3>2 DEF StreamStates
    <3> QED BY <1>1, <1>2, <1>5, <3>1, <3>3 DEF StreamFits
  <2>3. CASE c \notin Streams BY <1>1, <1>2, <1>5, <2>1, <2>3
  <2> QED BY <2>2, <2>3
<1>6. CASE Current(c) = "create"
  <2>1. kind[c] = "write" /\ c \in Streams BY <1>6, CommandsFit DEF Streams
  <2>2. s = [o EXCEPT !.handle = TRUE, !.creation = "created"] BY <1>1, <1>6, <2>1 DEF Taken
  <2>3. /\ s \in StreamStates /\ s.handle /\ s.offset = o.offset /\ s.given = o.given /\ s.left = o.left
        /\ s.got = o.got /\ s.closed = o.closed /\ s.creation = "created"
    BY <1>1, <2>2 DEF StreamStates
  <2>4. server.files[c].created BY <1>1, <1>6, <2>1 DEF CallerFits, CreationKnown, Creating
  <2>5. /\ o.got = Positions(0, Len(o.got)) /\ o.offset = o.given - o.left
        /\ o.offset <= Len(server.files[c].content) /\ Len(server.files[c].content) <= o.given
    BY <1>1, <2>1 DEF CallerFits, ReadSoFar, WrittenSoFar
  <2> QED BY <1>1, <1>6, <2>1, <2>3, <2>4, <2>5 DEF StreamFits
<1>7. CASE Current(c) = "read"
  <2>1. s = [o EXCEPT !.got = @ \o Positions(o.offset, net.count), !.offset = @ + net.count] BY <1>7 DEF Taken
  <2>2. /\ kind[c] = "read" /\ o.offset = Len(o.got) /\ o.got = Positions(0, Len(o.got))
        /\ net.count <= Length - o.offset
    BY <1>1, <1>7, CommandsFit DEF CallerFits, ReadSoFar, PlanFits
  <2>3. o.offset + net.count \in Nat /\ o.offset + net.count <= Length /\ 0 + (o.offset + net.count) <= Length /\ 0 \in Nat
    BY <1>3, <1>4, <2>2
  <2> DEFINE p == Positions(0, o.offset + net.count)
  <2>4. o.got \o Positions(o.offset, net.count) = p
    <3>1. o.got = Positions(0, o.offset) BY <2>2
    <3> QED BY <1>4, <3>1, PositionsJoin
  <2>5. p \in Seq(1..Length) /\ Len(p) = o.offset + net.count BY <2>3, PositionsAre
  <2>6. p = Positions(0, Len(p)) BY <2>5
  <2>7. s = [o EXCEPT !.got = p, !.offset = o.offset + net.count] BY <1>1, <2>1, <2>4 DEF StreamStates
  <2> HIDE DEF p
  <2>8. o.offset + net.count \in 0..Length BY <2>3
  <2>9. /\ s \in StreamStates /\ s.handle = o.handle /\ s.offset = o.offset + net.count /\ s.given = o.given
        /\ s.got = p /\ s.closed = o.closed
    BY <1>1, <2>5, <2>7, <2>8 DEF StreamStates
  <2> QED BY <1>1, <1>7, <2>2, <2>5, <2>6, <2>9 DEF StreamFits
<1>8. CASE Current(c) = "write"
  <2>1. s = [o EXCEPT !.offset = o.offset + net.count, !.left = o.left - net.count]
    BY <1>1, <1>8 DEF Taken, StreamStates
  <2>2. kind[c] = "write" BY <1>8, CommandsFit
  <2>3. /\ o.offset = o.given - o.left /\ net.count <= o.left /\ Len(server.files[c].content) = o.offset + net.count
        /\ Len(server.files[c].content) <= o.given
    BY <1>1, <1>8, <2>2 DEF CallerFits, WrittenSoFar
  <2>4. o.offset + net.count = o.given - (o.left - net.count) /\ o.left - net.count \in 0..Length
        /\ o.offset + net.count \in 0..Length
    <3>1. o.left \in 0..Length /\ o.given \in 0..Length BY <1>1 DEF StreamStates
    <3> QED BY <1>3, <1>4, <2>3, <3>1
  <2>5. /\ s \in StreamStates /\ s.handle = o.handle /\ s.offset = o.offset + net.count /\ s.left = o.left - net.count
        /\ s.given = o.given /\ s.got = o.got /\ s.closed = o.closed /\ s.creation = o.creation /\ s.broken = o.broken
    BY <1>1, <2>1, <2>4 DEF StreamStates
  <2>6. s.offset <= Len(server.files[c].content) BY <1>4, <2>3, <2>5
  <2> QED BY <1>1, <1>2, <1>8, <2>2, <2>3, <2>4, <2>5, <2>6 DEF StreamFits
<1>9. CASE Current(c) = "close"
  <2>1. s = [o EXCEPT !.closed = c \in Streams] BY <1>9 DEF Taken
  <2>2. (c \in Streams) \in BOOLEAN OBVIOUS
  <2>3. /\ s \in StreamStates /\ s.handle = o.handle /\ s.offset = o.offset /\ s.left = o.left
        /\ s.given = o.given /\ s.got = o.got /\ (s.closed <=> c \in Streams) /\ s.creation = o.creation /\ s.broken = o.broken
    BY <1>1, <2>1, <2>2 DEF StreamStates
  <2> QED BY <1>2, <1>9, <2>3 DEF StreamFits
<1>10. CASE Current(c) \in {"flush", "set"}
  <2>1. s = o BY <1>10 DEF Taken
  <2> QED BY <1>1, <1>2, <1>10, <2>1
<1>11. Current(c) \in {"open", "create", "read", "write", "flush", "set", "close"} BY <1>1 DEF Commands
<1> QED BY <1>5, <1>6, <1>7, <1>8, <1>9, <1>10, <1>11

\* What follows an answered command fits: the end of its call, or the next command.
LEMMA FollowsFit ==
  ASSUME ShareInv, NEW c \in Callers, session.active = c, net.answer = "ok", NEW s, s = Taken(c, Current(c)),
         NEW rest, rest = (IF Current(c) = "write" /\ s.left > 0 THEN todo[c] ELSE Tail(todo[c])),
         NEW failed \in BOOLEAN, failed = (call[c].failed \/ (Current(c) = "close" /\ c \in Writers /\ s.offset # Length))
  PROVE  /\ rest = << >> =>
              /\ EndFits(c, s, failed)
              /\ Connected /\ c \in server.handles /\ ~cancel[c] =>
                   c \in Streams /\ s.handle /\ ~s.closed /\ (call[c].asks = "open" => ~failed)
         /\ rest # << >> => NextFits(c, rest, s, failed)
<1> DEFINE o == streams[c]
<1>1. /\ SmbTypeOK /\ CallFits(c) /\ PlanFits(c) /\ HandleOwned(c) /\ CreationKnown(c) /\ WrittenSoFar(c) /\ FlushedAtEnd(c)
      /\ o \in StreamStates /\ stage[c] = "runs" /\ ~o.closed /\ todo[c] \in Plans(c) /\ todo[c] # << >>
      /\ todo[c] \in CommandLists /\ server.files[c] \in FileStates
      /\ call[c].failed \in BOOLEAN /\ call[c].asks \in {"stat", "modify", "open", "read", "write", "close"}
      /\ kind[c] \in {"stat", "modify", "read", "write"}
  BY CallerTypes, ActiveRuns, CommandsFit DEF ShareInv, CallerFits, CallStates, Idle
<1>2. /\ StreamFits(c, s) /\ s.given = o.given /\ (s.closed <=> Current(c) = "close" /\ c \in Streams)
      /\ Current(c) \notin {"read", "write"} => s.offset = o.offset
      /\ Current(c) \in {"open", "create"} /\ c \in Streams => s.handle
      /\ Current(c) \notin {"open", "create"} => s.handle = o.handle
  BY TakenFits
<1>3. /\ c \in Streams <=> kind[c] \in {"read", "write"}
      /\ c \in Writers <=> kind[c] = "write"
  BY DEF Streams, Writers
<1>4. /\ c \in Streams => ~call[c].failed
      /\ kind[c] = "write" => (Current(c) = "create" <=> ~o.handle)
      /\ Connected /\ c \in server.handles /\ ~cancel[c] => Current(c) # "close"
  BY <1>1 DEF PlanFits, HandleOwned
<1>5. CASE call[c].asks = "stat"
  <2>1. kind[c] = "stat" /\ c \notin Streams BY <1>1, <1>3, <1>5 DEF CallFits
  <2>2. \/ Current(c) = "open" /\ Tail(todo[c]) = <<"close">>
        \/ Current(c) = "close" /\ Tail(todo[c]) = << >>
    BY <1>1, <1>5, PlansAre
  <2>3. rest = Tail(todo[c]) /\ ~s.closed BY <1>2, <2>1, <2>2
  <2>4. CASE Current(c) = "open" /\ Tail(todo[c]) = <<"close">>
    <3>1. rest # << >> /\ rest \in CommandLists /\ Head(rest) = "close" /\ rest \in Plans(c)
      BY <1>5, <2>3, <2>4, CommandListsAre DEF CommandLists, Plans
    <3> QED BY <1>5, <2>1, <2>3, <3>1 DEF NextFits
  <2>5. CASE Current(c) = "close" /\ Tail(todo[c]) = << >>
    BY <1>4, <1>5, <2>1, <2>3, <2>5 DEF EndFits
  <2> QED BY <2>2, <2>4, <2>5
<1>6. CASE call[c].asks = "modify"
  <2>1. kind[c] = "modify" /\ c \notin Streams BY <1>1, <1>3, <1>6 DEF CallFits
  <2>2. \/ Current(c) = "open" /\ Tail(todo[c]) \in {<<"close", "open", "set", "close">>, <<"set", "close">>}
        \/ Current(c) = "close" /\ Tail(todo[c]) \in {<<"open", "set", "close">>, << >>}
        \/ Current(c) = "set" /\ Tail(todo[c]) = <<"close">>
    BY <1>1, <1>6, PlansAre
  <2>3. rest = Tail(todo[c]) /\ ~s.closed BY <1>2, <2>1, <2>2
  <2>4. CASE rest \in {<<"close", "open", "set", "close">>, <<"set", "close">>, <<"close">>}
    <3>1. rest # << >> /\ rest \in CommandLists /\ Head(rest) \in {"close", "set"} /\ rest \in Plans(c)
      BY <1>6, <2>4, CommandListsAre DEF CommandLists, Plans
    <3> QED BY <1>6, <2>1, <2>3, <3>1 DEF NextFits
  <2>5. CASE Current(c) = "close" /\ rest = <<"open", "set", "close">>
    <3>1. rest # << >> /\ rest \in CommandLists /\ Head(rest) = "open" /\ rest \in Plans(c)
      BY <1>6, <2>5, CommandListsAre DEF CommandLists, Plans
    <3> QED BY <1>4, <1>6, <2>1, <2>3, <2>5, <3>1 DEF NextFits
  <2>6. CASE Current(c) = "close" /\ rest = << >>
    BY <1>4, <1>6, <2>1, <2>3, <2>6 DEF EndFits
  <2> QED BY <2>2, <2>3, <2>4, <2>5, <2>6
<1>7. CASE call[c].asks = "open"
  <2>1. kind[c] = "read" /\ c \in Streams BY <1>1, <1>3, <1>7 DEF CallFits
  <2>2. Current(c) = "open" /\ Tail(todo[c]) = << >> BY <1>1, <1>7, PlansAre
  <2>3. rest = << >> /\ ~s.closed /\ s.handle /\ ~failed BY <1>2, <1>4, <2>1, <2>2
  <2> QED BY <2>1, <2>3 DEF EndFits
<1>8. CASE call[c].asks = "read"
  <2>1. kind[c] = "read" /\ c \in Streams /\ o.handle BY <1>1, <1>3, <1>8 DEF CallFits
  <2>2. Current(c) = "read" /\ Tail(todo[c]) = << >> BY <1>1, <1>8, PlansAre
  <2>3. rest = << >> /\ ~s.closed /\ s.handle BY <1>2, <2>1, <2>2
  <2> QED BY <1>8, <2>1, <2>3 DEF EndFits
<1>9. CASE call[c].asks = "write"
  <2>1. kind[c] = "write" /\ c \in Streams BY <1>1, <1>3, <1>9 DEF CallFits
  <2>2. \/ Current(c) = "create" /\ Tail(todo[c]) = <<"write">>
        \/ Current(c) = "write" /\ Tail(todo[c]) = << >>
    BY <1>1, <1>9, PlansAre
  <2>3. ~s.closed /\ s.handle /\ ~failed BY <1>2, <1>4, <2>1, <2>2
  <2>4. CASE Current(c) = "create"
    <3>1. rest = <<"write">> BY <2>2, <2>4
    <3>2. rest # << >> /\ rest \in CommandLists /\ Head(rest) = "write" /\ rest \in Plans(c)
      BY <1>9, <3>1, CommandListsAre DEF CommandLists, Plans
    <3> QED BY <1>9, <2>3, <3>2 DEF NextFits
  <2>5. CASE Current(c) = "write" /\ s.left > 0
    <3>1. rest = todo[c] /\ Head(rest) = "write" BY <2>5 DEF Current
    <3> QED BY <1>1, <1>9, <2>3, <3>1 DEF NextFits
  <2>6. CASE Current(c) = "write" /\ ~(s.left > 0)
    <3>1. rest = << >> BY <2>2, <2>6
    <3>2. s.left = 0 BY <1>2, <2>6, SmbAssumption DEF StreamFits, StreamStates
    <3> QED BY <1>9, <2>1, <2>3, <3>1, <3>2 DEF EndFits
  <2> QED BY <2>2, <2>4, <2>5, <2>6
<1>10. CASE call[c].asks = "close" /\ kind[c] = "read"
  <2>1. c \in Streams /\ o.handle BY <1>1, <1>3, <1>10 DEF CallFits
  <2>2. Current(c) = "close" /\ Tail(todo[c]) = << >> BY <1>1, <1>10, PlansAre
  <2>3. rest = << >> BY <2>2
  <2> QED BY <1>4, <1>10, <2>2, <2>3 DEF EndFits
<1>11. CASE call[c].asks = "close" /\ kind[c] = "write"
  <2>1. c \in Streams /\ c \in Writers BY <1>3, <1>11
  <2>2. \/ Current(c) = "close" /\ Tail(todo[c]) = << >>
        \/ Current(c) = "flush" /\ o.offset = Length /\ Tail(todo[c]) = <<"close">>
        \/ Current(c) = "create" /\ o.offset = Length /\ Tail(todo[c]) = <<"flush", "close">>
        \/ Current(c) = "create" /\ o.offset # Length /\ Tail(todo[c]) = <<"close">>
    BY <1>1, <1>11, PlansAre
  <2>3. rest = Tail(todo[c]) /\ s.offset = o.offset BY <1>2, <2>2
  <2>4. CASE Current(c) = "close"
    <3>1. rest = << >> /\ s.closed BY <1>2, <2>1, <2>2, <2>3, <2>4
    <3>2. ASSUME ~failed
          PROVE  server.files[c] = [created |-> TRUE, flushed |-> TRUE, content |-> Positions(0, Length)]
      <4>1. o.offset = Length BY <2>1, <2>3, <2>4, <3>2
      <4>2. server.files[c].flushed BY <1>1, <1>11, <2>4, <4>1 DEF FlushedAtEnd
      <4>3. server.files[c].created BY <1>1, <1>4, <1>11, <2>4 DEF CreationKnown
      <4>4. /\ server.files[c].content = Positions(0, Len(server.files[c].content))
            /\ Length <= Len(server.files[c].content) /\ Len(server.files[c].content) <= o.given
        BY <1>1, <1>11, <4>1 DEF WrittenSoFar
      <4>5. Len(server.files[c].content) \in Nat /\ o.given <= Length /\ Length \in Nat /\ o.given \in Nat
        BY <1>1, SmbAssumption DEF FileStates, StreamStates
      <4>6. Len(server.files[c].content) = Length BY <4>4, <4>5
      <4>7. server.files[c].content = Positions(0, Length) BY <4>4, <4>6
      <4> QED BY <1>1, <4>2, <4>3, <4>7 DEF FileStates
    <3> QED BY <1>4, <1>11, <2>4, <3>1, <3>2 DEF EndFits
  <2>5. CASE Current(c) \in {"flush", "create"}
    <3>1. ~s.closed /\ ~failed /\ s.handle BY <1>2, <1>4, <1>11, <2>1, <2>5
    <3>2. rest \in {<<"close">>, <<"flush", "close">>} /\ (o.offset # Length => rest = <<"close">>)
          /\ (rest = <<"close">> /\ o.offset = Length => Current(c) = "flush")
      <4>1. <<"close">> # <<"flush", "close">> BY CommandListsAre
      <4> QED BY <2>2, <2>3, <2>5, <4>1
    <3>3. rest # << >> /\ rest \in CommandLists /\ Head(rest) \in {"flush", "close"} /\ rest \in Plans(c)
          /\ (Head(rest) = "close" => rest = <<"close">>)
      BY <1>11, <3>2, CommandListsAre DEF CommandLists, Plans
    <3>4. Head(rest) = "close" /\ s.offset = Length => server.files[c].flushed
      BY <1>1, <1>11, <2>3, <3>2, <3>3 DEF FlushedAtEnd
    <3> QED BY <1>11, <2>3, <3>1, <3>3, <3>4 DEF NextFits
  <2> QED BY <2>2, <2>4, <2>5
<1> QED BY <1>1, <1>5, <1>6, <1>7, <1>8, <1>9, <1>10, <1>11 DEF CallFits, Streams

LEMMA SucceedsKeeps ==
  ASSUME ShareInv, NEW c \in Callers, session.active = c, Succeeds(c), UNCHANGED <<kind, cancel, stop, troubles>>
  PROVE  ShareInv'
<1> DEFINE s == Taken(c, Current(c))
           rest == IF Current(c) = "write" /\ s.left > 0 THEN todo[c] ELSE Tail(todo[c])
           failed == call[c].failed \/ (Current(c) = "close" /\ c \in Writers /\ s.offset # Length)
<1>1. net.answer = "ok" /\ Continues(c, rest, s, failed) BY DEF Succeeds, Current
<1>2. failed \in BOOLEAN BY CallerTypes DEF ShareInv, CallStates
<1>3. s = Taken(c, Current(c)) OBVIOUS
<1> HIDE DEF s
<1>4. rest = IF Current(c) = "write" /\ s.left > 0 THEN todo[c] ELSE Tail(todo[c]) OBVIOUS
<1>5. failed = (call[c].failed \/ (Current(c) = "close" /\ c \in Writers /\ s.offset # Length)) OBVIOUS
<1> HIDE DEF rest, failed
<1>6. StreamFits(c, s) BY <1>1, <1>3, TakenFits
<1>7. /\ rest = << >> =>
           /\ EndFits(c, s, failed)
           /\ Connected /\ c \in server.handles /\ ~cancel[c] =>
                c \in Streams /\ s.handle /\ ~s.closed /\ (call[c].asks = "open" => ~failed)
      /\ rest # << >> => NextFits(c, rest, s, failed)
  BY <1>1, <1>2, <1>3, <1>4, <1>5, FollowsFit
<1> QED BY <1>1, <1>2, <1>6, <1>7, ContinuesKeeps

LEMMA CommandRefusedKeeps ==
  ASSUME ShareInv, NEW c \in Callers, session.active = c, CommandRefused(c), UNCHANGED <<kind, cancel, stop, troubles>>
  PROVE  ShareInv'
<1> DEFINE o == streams[c]
<1>1. /\ ShareTypesOf /\ SmbTypeOK /\ CallFits(c) /\ PlanFits(c) /\ HandleOwned(c) /\ CreationKnown(c)
      /\ o \in StreamStates /\ stage[c] = "runs" /\ ~o.closed /\ todo[c] \in Plans(c) /\ queue # << >>
      /\ Current(c) \in Commands /\ net.answer \in {"error", "bad"} /\ c # "nobody"
      /\ kind[c] \in {"stat", "modify", "read", "write"}
  BY SmbTypes, CallerTypes, ActiveRuns, CommandsFit DEF ShareInv, CallerFits, CommandRefused, Idle
<1>2. CASE Current(c) = "set"
  <2>1. Continues(c, <<"close">>, o, TRUE) BY <1>2 DEF CommandRefused, Current
  <2>2. kind[c] # "write" /\ call[c].asks \in {"stat", "modify", "open"} BY <1>2, CommandsFit
  <2>3. call[c].asks = "modify"
    <3>1. ~(call[c].asks = "stat") /\ ~(call[c].asks = "open") BY <1>1, <1>2, PlansAre
    <3> QED BY <2>2, <3>1
  <2>4. c \notin Streams BY <1>1, <2>3 DEF CallFits, Streams
  <2>5. StreamFits(c, o) BY <1>2, StreamStays DEF Creating
  <2>6. <<"close">> # << >> /\ <<"close">> \in CommandLists /\ Head(<<"close">>) = "close" /\ <<"close">> \in Plans(c)
    BY <2>3, CommandListsAre DEF CommandLists, Plans
  <2>7. NextFits(c, <<"close">>, o, TRUE) BY <1>1, <2>2, <2>3, <2>4, <2>6 DEF NextFits
  <2> QED BY <2>1, <2>5, <2>6, <2>7, ContinuesKeeps
<1>3. CASE Current(c) # "set"
  <2> DEFINE s == IF Current(c) = "create" THEN [CreationFails(c) EXCEPT !.creation = "not_created"] ELSE o
  <2>1. /\ Leaves(c, TRUE) /\ streams' = [streams EXCEPT ![c] = s]
        /\ IF Current(c) = "close" THEN Aborts(TRUE)
           ELSE session' = [session EXCEPT !.active = "nobody"] /\ net' = NoAnswer /\ UNCHANGED server
    BY <1>1, <1>3 DEF CommandRefused, Current, ShareTypesOf
  <2>2. StreamFits(c, s) /\ s.handle = o.handle /\ s.closed = o.closed
    <3>1. CASE Current(c) # "create" BY <3>1, StreamStays DEF Creating
    <3>2. CASE Current(c) = "create"
      <4>1. kind[c] = "write" /\ ~o.handle BY <1>1, <3>2, CommandsFit DEF PlanFits
      <4>2. ~server.files[c].created BY <1>1, <3>2, <4>1 DEF CreationKnown, Creating
      <4>3. s = [o EXCEPT !.broken = TRUE, !.creation = "not_created"] BY <3>2 DEF CreationFails
      <4>4. /\ s \in StreamStates /\ s.handle = o.handle /\ s.closed = o.closed /\ s.offset = o.offset
            /\ s.given = o.given /\ s.left = o.left /\ s.got = o.got /\ s.broken /\ s.creation = "not_created"
        BY <1>1, <4>3 DEF StreamStates
      <4>5. /\ o.got = Positions(0, Len(o.got)) /\ o.offset = o.given - o.left
            /\ o.offset <= Len(server.files[c].content) /\ Len(server.files[c].content) <= o.given
        BY <4>1 DEF ShareInv, CallerFits, ReadSoFar, WrittenSoFar
      <4> HIDE DEF s
      <4> QED BY <4>1, <4>2, <4>4, <4>5 DEF StreamFits
    <3> QED BY <3>1, <3>2
  <2> HIDE DEF s
  <2>3. EndFits(c, s, TRUE) BY DEF EndFits
  <2>4. /\ session' \in Sessions /\ session'.active = "nobody" /\ (Connected' => Connected) /\ net' \in Netted
        /\ server' \in [handles : SUBSET Callers, files : [Callers -> FileStates]]
        /\ server'.files = server.files /\ server'.handles \subseteq server.handles
        /\ Current(c) = "close" => server'.handles = {}
    BY <1>1, <2>1, BecomesIdle, AbortedIs
  <2>5. Connected' /\ c \in server'.handles /\ ~cancel[c] =>
          c \in Streams /\ s.handle /\ ~s.closed /\ (call[c].asks = "open" => ~TRUE)
    <3> SUFFICES ASSUME Connected', c \in server'.handles, ~cancel[c]
                 PROVE  c \in Streams /\ s.handle /\ ~s.closed /\ call[c].asks # "open"
      OBVIOUS
    <3>1. Current(c) \notin {"open", "create", "close", "set"} BY <1>1, <1>3, <2>4 DEF HandleOwned
    <3>2. Current(c) \in {"read", "write", "flush"} BY <1>1, <3>1 DEF Commands
    <3>3. /\ kind[c] \in {"read", "write"} /\ call[c].asks \in {"read", "write", "close"}
          /\ kind[c] = "read" => call[c].asks = "read"
      BY <3>2, CommandsFit
    <3>4. o.handle BY <1>1, <3>1, <3>3 DEF CallFits, PlanFits
    <3> QED BY <1>1, <2>2, <3>3, <3>4 DEF Streams
  <2> QED BY <1>1, <2>1, <2>2, <2>3, <2>4, <2>5, LeavesKeeps
<1> QED BY <1>2, <1>3

LEMMA BreaksKeeps ==
  ASSUME ShareInv, NEW c \in Callers, session.active = c, Breaks(c), UNCHANGED <<kind, cancel, stop, troubles>>
  PROVE  ShareInv'
<1> DEFINE o == streams[c]
           s == IF Current(c) = "create" THEN CreationFails(c) ELSE o
<1>1. /\ ShareTypesOf /\ SmbTypeOK /\ PlanFits(c) /\ CreationKnown(c) /\ session.stopping \in BOOLEAN
      /\ o \in StreamStates /\ stage[c] = "runs" /\ ~o.closed /\ queue # << >> /\ c # "nobody"
  BY SmbTypes, CallerTypes, ActiveRuns DEF ShareInv, CallerFits, ShareTypesOf, Sessions, Idle
<1>2. Leaves(c, TRUE) /\ Aborts(session.stopping) /\ streams' = [streams EXCEPT ![c] = s]
  BY <1>1 DEF Breaks, Current, ShareTypesOf
<1>3. StreamFits(c, s)
  <2>1. CASE Current(c) # "create" BY <2>1, StreamStays DEF Creating
  <2>2. CASE Current(c) = "create"
    <3>1. kind[c] = "write" /\ ~o.handle BY <1>1, <2>2, CommandsFit DEF PlanFits
    <3>2. o.creation = "unknown" BY <1>1, <2>2, <3>1 DEF CreationKnown, Creating
    <3>3. s = [o EXCEPT !.broken = TRUE] BY <2>2 DEF CreationFails
    <3>4. /\ s \in StreamStates /\ s.handle = o.handle /\ s.closed = o.closed /\ s.offset = o.offset
          /\ s.given = o.given /\ s.left = o.left /\ s.got = o.got /\ s.broken /\ s.creation = o.creation
      BY <1>1, <3>3 DEF StreamStates
    <3>5. /\ o.got = Positions(0, Len(o.got)) /\ o.offset = o.given - o.left
          /\ o.offset <= Len(server.files[c].content) /\ Len(server.files[c].content) <= o.given
      BY <3>1 DEF ShareInv, CallerFits, ReadSoFar, WrittenSoFar
    <3> HIDE DEF s
    <3> QED BY <3>1, <3>2, <3>4, <3>5 DEF StreamFits
  <2> QED BY <2>1, <2>2
<1> HIDE DEF s
<1>4. EndFits(c, s, TRUE) BY DEF EndFits
<1>5. /\ session' \in Sessions /\ session'.active = "nobody" /\ ~Connected' /\ net' \in Netted
      /\ server' \in [handles : SUBSET Callers, files : [Callers -> FileStates]]
      /\ server'.files = server.files /\ server'.handles = {}
  BY <1>1, <1>2, AbortedIs
<1> QED BY <1>1, <1>2, <1>3, <1>4, <1>5, LeavesKeeps

LEMMA CommandEndsKeeps == ASSUME ShareInv, NEW c \in Callers, CommandEnds(c) PROVE ShareInv'
BY SucceedsKeeps, CommandRefusedKeeps, BreaksKeeps DEF CommandEnds

-----------------------------------------------------------------------------
(* The lock is granted.                                                    *)

\* A list with one more behind it.
LEMMA OneMore ==
  ASSUME NEW T, NEW a \in T, NEW b \in T, NEW d \in T
  PROVE  <<a>> \o <<b>> = <<a, b>> /\ <<a, b>> \o <<d>> = <<a, b, d>>
<1>1. <<a>> \in Seq(T) /\ <<b>> \in Seq(T) /\ <<d>> \in Seq(T) /\ <<a, b>> \in Seq(T) /\ <<a, b, d>> \in Seq(T)
      /\ Len(<<a>>) = 1 /\ Len(<<b>>) = 1 /\ Len(<<d>>) = 1 /\ Len(<<a, b>>) = 2 /\ Len(<<a, b, d>>) = 3
  OBVIOUS
<1>2. <<a>> \o <<b>> = <<a, b>>
  <2> DEFINE u == <<a>> \o <<b>>
             v == <<a, b>>
  <2>1. u \in Seq(T) /\ Len(u) = 2 /\ \A i \in 1..2 : u[i] = IF i <= 1 THEN <<a>>[i] ELSE <<b>>[i - 1]
    BY <1>1, ConcatProperties
  <2>2. u[1] = a /\ u[2] = b BY <2>1
  <2>3. v[1] = a /\ v[2] = b OBVIOUS
  <2> HIDE DEF u, v
  <2>4. \A i \in 1..2 : u[i] = v[i] BY <2>2, <2>3
  <2>5. v \in Seq(T) /\ Len(v) = 2 BY <1>1 DEF v
  <2> QED BY <2>1, <2>4, <2>5, SeqEqual DEF u, v
<1>3. <<a, b>> \o <<d>> = <<a, b, d>>
  <2> DEFINE u == <<a, b>> \o <<d>>
             v == <<a, b, d>>
  <2>1. u \in Seq(T) /\ Len(u) = 3 /\ \A i \in 1..3 : u[i] = IF i <= 2 THEN <<a, b>>[i] ELSE <<d>>[i - 2]
    BY <1>1, ConcatProperties
  <2>2. u[1] = a /\ u[2] = b /\ u[3] = d BY <2>1
  <2>3. v[1] = a /\ v[2] = b /\ v[3] = d OBVIOUS
  <2> HIDE DEF u, v
  <2>4. \A i \in 1..3 : u[i] = v[i] BY <2>2, <2>3
  <2>5. v \in Seq(T) /\ Len(v) = 3 BY <1>1 DEF v
  <2> QED BY <2>1, <2>4, <2>5, SeqEqual DEF u, v
<1> QED BY <1>2, <1>3

\* A call begins with a plan of its own, and creates the file first when there is no handle.
LEMMA ProgramIs ==
  ASSUME SmbTypeOK, NEW c \in Callers, CallFits(c), stage[c] = "waits"
  PROVE  /\ Program(c) \in Plans(c) /\ Program(c) \in CommandLists
         /\ kind[c] = "write" => (Head(Program(c)) = "create" <=> ~streams[c].handle)
         /\ kind[c] # "write" => Head(Program(c)) # "create"
         /\ c \in Streams /\ streams[c].handle => Head(Program(c)) # "open"
         /\ kind[c] = "write" /\ call[c].asks = "close" /\ streams[c].offset = Length => Head(Program(c)) # "close"
<1> DEFINE p == Program(c)
<1>1. /\ call[c].asks \in {"stat", "modify", "open", "read", "write", "close"} /\ streams[c].handle \in BOOLEAN
      /\ kind[c] \in {"stat", "modify", "read", "write"}
  BY CallerTypes DEF CallStates, StreamStates
<1>2. CASE call[c].asks = "stat"
  <2>1. p = <<"open", "close">> BY <1>2 DEF Program
  <2>2. Head(p) = "open" /\ p \in CommandLists /\ p \in Plans(c) BY <1>2, <2>1, CommandListsAre DEF CommandLists, Plans
  <2> QED BY <1>2, <2>2 DEF CallFits, Streams
<1>3. CASE call[c].asks = "modify"
  <2>1. p = <<"open", "close", "open", "set", "close">> BY <1>3 DEF Program
  <2>2. Head(p) = "open" /\ p \in CommandLists /\ p \in Plans(c) BY <1>3, <2>1, CommandListsAre DEF CommandLists, Plans
  <2> QED BY <1>3, <2>2 DEF CallFits, Streams
<1>4. CASE call[c].asks = "open"
  <2>1. p = <<"open">> BY <1>4 DEF Program
  <2>2. Head(p) = "open" /\ p \in CommandLists /\ p \in Plans(c) BY <1>4, <2>1, CommandListsAre DEF CommandLists, Plans
  <2> QED BY <1>4, <2>2 DEF CallFits
<1>5. CASE call[c].asks = "read"
  <2>1. p = <<"read">> BY <1>5 DEF Program
  <2>2. Head(p) = "read" /\ p \in CommandLists /\ p \in Plans(c) BY <1>5, <2>1, CommandListsAre DEF CommandLists, Plans
  <2> QED BY <1>5, <2>2 DEF CallFits
<1>6. CASE call[c].asks = "write"
  <2>1. p = IF streams[c].handle THEN <<"write">> ELSE <<"create", "write">>
    <3>1. << >> \o <<"write">> = <<"write">> OBVIOUS
    <3>2. <<"create">> \o <<"write">> = <<"create", "write">> 
      <4>1. "create" \in Commands /\ "write" \in Commands BY DEF Commands
      <4> QED BY <4>1, OneMore
    <3> QED BY <1>6, <3>1, <3>2 DEF Program, Creates
  <2>2. Head(p) = (IF streams[c].handle THEN "write" ELSE "create") /\ p \in CommandLists /\ p \in Plans(c)
    BY <1>6, <2>1, CommandListsAre DEF CommandLists, Plans
  <2> QED BY <1>6, <2>2 DEF CallFits
<1>7. CASE call[c].asks = "close" /\ kind[c] = "read"
  <2>1. p = <<"close">> BY <1>7 DEF Program
  <2>2. Head(p) = "close" /\ p \in CommandLists /\ p \in Plans(c) BY <1>7, <2>1, CommandListsAre DEF CommandLists, Plans
  <2> QED BY <1>7, <2>2
<1>8. CASE call[c].asks = "close" /\ kind[c] = "write"
  <2>1. p = Creates(c) \o (IF streams[c].offset = Length THEN <<"flush">> ELSE << >>) \o <<"close">>
    BY <1>8 DEF Program
  <2>2. p = IF streams[c].handle
            THEN IF streams[c].offset = Length THEN <<"flush", "close">> ELSE <<"close">>
            ELSE IF streams[c].offset = Length THEN <<"create", "flush", "close">> ELSE <<"create", "close">>
    <3>1. << >> \o << >> = << >> /\ << >> \o <<"close">> = <<"close">> /\ << >> \o <<"flush">> = <<"flush">>
          /\ <<"create">> \o << >> = <<"create">>
      OBVIOUS
    <3>2. /\ <<"flush">> \o <<"close">> = <<"flush", "close">> /\ <<"create">> \o <<"close">> = <<"create", "close">>
          /\ <<"create">> \o <<"flush">> = <<"create", "flush">>
          /\ <<"create", "flush">> \o <<"close">> = <<"create", "flush", "close">>
      <4>1. "create" \in Commands /\ "flush" \in Commands /\ "close" \in Commands BY DEF Commands
      <4> QED BY <4>1, OneMore
    <3> QED BY <2>1, <3>1, <3>2 DEF Creates
  <2>3. /\ Head(p) = IF streams[c].handle THEN (IF streams[c].offset = Length THEN "flush" ELSE "close") ELSE "create"
        /\ p \in CommandLists /\ p \in Plans(c)
    BY <1>8, <2>2, CommandListsAre DEF CommandLists, Plans
  <2> QED BY <1>8, <2>3
<1> QED BY <1>1, <1>2, <1>3, <1>4, <1>5, <1>6, <1>7, <1>8 DEF CallFits, Streams

\* The first command of a call is sent.
LEMMA IssuesKeeps ==
  ASSUME ShareInv, NEW c \in Callers, stage[c] = "waits", queue # << >>, Head(queue) = c, Idle, Connected, ~cancel[c],
         ~streams[c].closed, ~streams[c].broken, Issues(c, Program(c), streams[c]), UNCHANGED <<kind, cancel, stop, troubles>>
  PROVE  ShareInv'
<1> DEFINE o == streams[c]
           p == Program(c)
           s == IF Head(p) = "create" THEN [o EXCEPT !.creation = "unknown"] ELSE o
<1>1. /\ ShareTypesOf /\ SmbTypeOK /\ CallerFits(c) /\ CallFits(c) /\ c # "nobody" /\ call[c] \in CallStates
      /\ o \in StreamStates /\ session \in Sessions
  BY SmbTypes, CallerTypes DEF ShareInv, CallerFits, ShareTypesOf
<1>2. /\ p \in Plans(c) /\ p \in CommandLists
      /\ kind[c] = "write" => (Head(p) = "create" <=> ~o.handle)
      /\ kind[c] # "write" => Head(p) # "create"
      /\ c \in Streams /\ o.handle => Head(p) # "open"
      /\ kind[c] = "write" /\ call[c].asks = "close" /\ o.offset = Length => Head(p) # "close"
  BY <1>1, ProgramIs
<1>3. todo' \in [Callers -> Seq(Commands)] /\ todo'[c] = p /\ \A d \in Callers \ {c} : todo'[d] = todo[d]
  <2>1. p \in Seq(Commands)
    <3>1. CommandLists \subseteq Seq(Commands) BY DEF CommandLists, Commands
    <3> QED BY <1>2, <3>1
  <2>2. todo' = [todo EXCEPT ![c] = p] BY DEF Issues
  <2> HIDE DEF p
  <2> QED BY <1>1, <2>1, <2>2, OneOf DEF ShareTypesOf
<1>4. /\ call' \in [Callers -> CallStates] /\ ~call'[c].failed /\ call'[c].asks = call[c].asks
      /\ \A d \in Callers \ {c} : call'[d] = call[d]
  <2> DEFINE y == [call[c] EXCEPT !.failed = FALSE]
  <2>1. y \in CallStates /\ ~y.failed /\ y.asks = call[c].asks BY <1>1 DEF CallStates
  <2>2. call' = [call EXCEPT ![c] = y] BY <1>1 DEF Issues, ShareTypesOf
  <2> HIDE DEF y
  <2>3. call' \in [Callers -> CallStates] /\ call'[c] = y /\ \A d \in Callers \ {c} : call'[d] = call[d]
    <3>1. call \in [Callers -> CallStates] BY <1>1 DEF ShareTypesOf
    <3> QED BY <2>1, <2>2, <3>1, OneOf
  <2> QED BY <2>1, <2>3
<1>5. /\ s \in StreamStates /\ s.handle = o.handle /\ s.closed = o.closed /\ s.offset = o.offset
      /\ s.given = o.given /\ s.left = o.left /\ s.got = o.got /\ s.broken = o.broken
      /\ Head(p) = "create" => s.creation = "unknown"
      /\ Head(p) # "create" => s.creation = o.creation
  <2> HIDE DEF p
  <2> QED BY <1>1 DEF StreamStates
<1>6. streams' \in [Callers -> StreamStates] /\ streams'[c] = s /\ \A d \in Callers \ {c} : streams'[d] = streams[d]
  <2>1. streams' = [streams EXCEPT ![c] = s] BY DEF Issues
  <2> HIDE DEF s
  <2> QED BY <1>1, <1>5, <2>1, OneOf DEF ShareTypesOf
<1>7. stage' \in [Callers -> Stages] /\ stage'[c] = "runs" /\ \A d \in Callers \ {c} : stage'[d] = stage[d]
  <2>1. "runs" \in Stages BY DEF Stages
  <2> QED BY <1>1, <2>1, OneOf DEF Issues, ShareTypesOf
<1>8. /\ session' \in Sessions /\ session'.active = c /\ session'.context /\ (Connected' <=> Connected)
      /\ net' \in Netted /\ net'.answer = "none" /\ queue' = queue /\ server' = server
  <2>1. session' = [session EXCEPT !.active = c] /\ net' = NoAnswer /\ queue' = queue /\ server' = server BY DEF Issues
  <2> QED BY <1>1, <2>1, SmbAssumption DEF Sessions, Connected, NoAnswer, Netted
<1>9. ShareTypesOf' BY <1>1, <1>3, <1>4, <1>6, <1>7, <1>8 DEF ShareTypesOf
<1> HIDE DEF p, s
<1>10. OthersRest(c)
  <2>1. \A d \in Callers \ {c} : session.active # d /\ session'.active # d BY <1>8, SmbAssumption DEF Idle
  <2> QED BY <1>3, <1>4, <1>6, <1>7, <1>8, <2>1 DEF OthersRest
<1>11. OwnerServes'
  <2>1. ASSUME NEW d \in Callers, stage'[d] = "runs", d # c PROVE FALSE
    <3>1. stage[d] = "runs" BY <1>7, <2>1
    <3> QED BY <3>1, SmbAssumption DEF ShareInv, OwnerServes, Idle
  <2> QED BY <1>7, <1>8, <2>1 DEF OwnerServes
<1>12. Streams' = Streams /\ Current(c)' = Head(p) BY <1>3 DEF Streams, Current
<1>13. session.active # c BY <1>1 DEF Idle
<1>14. CallFits(c)' BY <1>1, <1>4, <1>5, <1>6, <1>7, <1>12 DEF CallFits
<1>15. PlanFits(c)'
  <2>1. Plans(c)' = Plans(c)
    <3>1. call'[c].asks = call[c].asks /\ kind' = kind /\ streams'[c].offset = streams[c].offset BY <1>4, <1>5, <1>6
    <3> QED BY <3>1 DEF Plans
  <2> QED BY <1>2, <1>3, <1>4, <1>5, <1>6, <1>8, <1>12, <2>1 DEF PlanFits
<1>16. HandleOwned(c)'
  BY <1>1, <1>2, <1>8, <1>12, <1>13 DEF CallerFits, HandleOwned, Streams
<1>17. CreationKnown(c)'
  BY <1>1, <1>2, <1>5, <1>6, <1>8, <1>12, <1>13 DEF CallerFits, CreationKnown, Creating
<1>18. ReadSoFar(c)' BY <1>1, <1>5, <1>6 DEF CallerFits, ReadSoFar, Positions
<1>19. WrittenSoFar(c)' BY <1>1, <1>5, <1>6, <1>7, <1>8 DEF CallerFits, WrittenSoFar, Positions
<1>20. FlushedAtEnd(c)' BY <1>1, <1>2, <1>4, <1>5, <1>6, <1>8, <1>12 DEF FlushedAtEnd
<1>21. CallerFits(c)' BY <1>14, <1>15, <1>16, <1>17, <1>18, <1>19, <1>20 DEF CallerFits
<1> QED BY <1>9, <1>10, <1>11, <1>21, OneActs

\* The lock is granted.
LEMMA EntersKeeps == ASSUME ShareInv, NEW c \in Callers, Enters(c) PROVE ShareInv'
<1> DEFINE o == streams[c]
           failed == ~(o.closed /\ call[c].asks = "close")
<1>1. /\ ShareTypesOf /\ SmbTypeOK /\ CallerFits(c) /\ c # "nobody" /\ c # "stop" /\ o \in StreamStates
      /\ session.active \in Callers \cup {"nobody"}
  BY SmbTypes, CallerTypes DEF ShareInv, ShareTypesOf, Sessions
<1>2. stage[c] = "waits" /\ queue # << >> /\ Head(queue) = c /\ UNCHANGED <<kind, cancel, stop, troubles>>
  BY DEF Enters
<1>3. Idle BY <1>2 DEF ShareInv, OwnerServes
<1>4. ~o.closed BY <1>1, <1>2 DEF CallerFits, CallFits
<1>5. CASE (~Connected \/ o.closed \/ o.broken) \/ cancel[c]
  <2>1. Leaves(c, TRUE) /\ UNCHANGED <<session, net, server, streams>> BY <1>4, <1>5 DEF Enters
  <2>2. StreamFits(c, o)
    <3>1. ~Creating(c) BY <1>1, <1>3 DEF Creating, Idle
    <3> QED BY <3>1, StreamStays
  <2>3. EndFits(c, o, TRUE) BY DEF EndFits
  <2>4. streams' = [streams EXCEPT ![c] = o] BY <1>1, <2>1, NoneOf DEF ShareTypesOf
  <2>5. /\ session' \in Sessions /\ session'.active = "nobody" /\ (Connected' => Connected) /\ net' \in Netted
        /\ server' \in [handles : SUBSET Callers, files : [Callers -> FileStates]]
        /\ server'.files = server.files /\ server'.handles \subseteq server.handles
    BY <1>1, <1>3, <2>1 DEF ShareTypesOf, Connected, Idle
  <2>6. Connected' /\ c \in server'.handles /\ ~cancel[c] =>
          c \in Streams /\ o.handle /\ ~o.closed /\ (call[c].asks = "open" => ~TRUE)
    BY <1>1, <1>2, <1>3, <2>1, <2>5 DEF CallerFits, CallFits, HandleOwned, Idle, Streams
  <2> QED BY <1>1, <1>2, <1>3, <2>1, <2>2, <2>3, <2>4, <2>5, <2>6, LeavesKeeps DEF Idle
<1>6. CASE ~((~Connected \/ o.closed \/ o.broken) \/ cancel[c])
  <2>1. Issues(c, Program(c), streams[c]) BY <1>6 DEF Enters
  <2> QED BY <1>2, <1>3, <1>6, <2>1, IssuesKeeps
<1> QED BY <1>5, <1>6

-----------------------------------------------------------------------------
(* The SMB client, step by step.                                           *)

LEMMA ShareBegins == SmbInit => ShareInv
<1> SUFFICES ASSUME SmbInit PROVE ShareInv
  OBVIOUS
<1>1. ShareTypesOf
  <2>1. /\ 0 \in 0..Length /\ 0 \in 0..Chunk /\ 0 \in 0..MaxTroubles /\ << >> \in Seq(1..Length) /\ << >> \in Seq(Commands)
        /\ << >> \in Seq(Callers \cup {"stop"}) /\ kind \in [Callers -> {"stat", "modify", "read", "write"}]
    BY SmbAssumption DEF SmbInit
  <2>2. stage \in [Callers -> Stages] /\ call \in [Callers -> CallStates] BY DEF SmbInit, Stages, CallStates
  <2>3. streams \in [Callers -> StreamStates] BY <2>1 DEF SmbInit, StreamStates
  <2>4. server \in [handles : SUBSET Callers, files : [Callers -> FileStates]] BY <2>1 DEF SmbInit, FileStates
  <2>5. net \in Netted /\ session \in Sessions BY <2>1 DEF SmbInit, NoAnswer, Netted, Sessions
  <2> QED BY <2>1, <2>2, <2>3, <2>4, <2>5 DEF SmbInit, ShareTypesOf
<1>2. SmbTypeOK BY <1>1 DEF SmbInit, SmbTypeOK, ShareTypesOf, StreamStates, CallStates, FileStates, Stages, Netted, Sessions
<1>3. OwnerServes BY DEF SmbInit, OwnerServes, Idle
<1>4. ASSUME NEW c \in Callers PROVE CallerFits(c)
  <2>1. /\ stage[c] = "new" /\ session.active # c /\ ~call[c].failed /\ server.handles = {}
    BY SmbAssumption DEF SmbInit
  <2>2. /\ ~streams[c].handle /\ ~streams[c].closed /\ streams[c].offset = 0 /\ streams[c].given = 0
        /\ streams[c].left = 0 /\ streams[c].got = << >> /\ ~streams[c].broken
        /\ streams[c].creation = "not_created" /\ ~server.files[c].created /\ server.files[c].content = << >>
    BY DEF SmbInit
  <2>3. Positions(0, 0) = << >> /\ Len(<< >>) = 0
    <3>1. Positions(0, 0) \in Seq(Nat) /\ Len(Positions(0, 0)) = 0 BY 0 \in Nat, PositionsAre
    <3> QED BY <3>1, EmptySeq
  <2>4. CallFits(c) BY <2>1, <2>2 DEF CallFits
  <2>5. PlanFits(c) /\ HandleOwned(c) BY <2>1 DEF PlanFits, HandleOwned
  <2>6. CreationKnown(c) BY <2>1, <2>2 DEF CreationKnown, Creating
  <2>7. ReadSoFar(c) /\ WrittenSoFar(c) BY <2>1, <2>2, <2>3 DEF ReadSoFar, WrittenSoFar
  <2>8. FlushedAtEnd(c) BY <2>1, <2>2 DEF FlushedAtEnd
  <2> QED BY <2>4, <2>5, <2>6, <2>7, <2>8 DEF CallerFits
<1> QED BY <1>2, <1>3, <1>4 DEF ShareInv

LEMMA ShareStays == ShareInv /\ UNCHANGED smb => ShareInv'
<1> SUFFICES ASSUME ShareInv, UNCHANGED smb PROVE ShareInv'
  OBVIOUS
<1>1. UNCHANGED <<kind, session, queue, stage, call, todo, cancel, streams, net, server, stop, troubles>>
  BY DEF smb, callers
<1>2. SmbTypeOK' BY <1>1 DEF ShareInv, SmbTypeOK
<1>3. OwnerServes' BY <1>1 DEF ShareInv, OwnerServes, Idle
<1>4. ASSUME NEW d \in Callers PROVE CallerFits(d)'
  BY <1>1, CallerRests DEF ShareInv, Connected
<1> QED BY <1>2, <1>3, <1>4 DEF ShareInv

\* What the SMB client rests on: the active command is that of the lock's owner, its caller's
\* plan, handle and file are as they should be, and so are those of every other caller.
THEOREM ShareInvariant == SmbSpec => []ShareInv
<1>1. ASSUME ShareInv, SmbNext PROVE ShareInv'
  <2>1. CASE Applies BY <1>1, <2>1, AppliesKeeps
  <2>2. CASE Refuses BY <1>1, <2>2, RefusesKeeps
  <2>3. CASE LosesAnswer BY <1>1, <2>3, LosesAnswerKeeps
  <2>4. CASE StopBegins BY <1>1, <2>4, StopBeginsKeeps
  <2>5. CASE StopEnds BY <1>1, <2>5, StopEndsKeeps
  <2>6. ASSUME NEW c \in Callers,
               Turn(c) \/ BeginsCall(c) \/ OpensWriter(c) \/ Reads(c) \/ Writes(c) \/ ClosesStream(c) \/ Drops(c) \/ CancelsCall(c)
        PROVE  ShareInv'
    BY <1>1, <2>6, EntersKeeps, CommandEndsKeeps, WithdrawsCallKeeps, BeginsCallKeeps, OpensWriterKeeps, ReadsKeeps,
       WritesKeeps, ClosesStreamKeeps, DropsKeeps, CancelsCallKeeps DEF Turn
  <2> QED BY <1>1, <2>1, <2>2, <2>3, <2>4, <2>5, <2>6 DEF SmbNext
<1> QED BY <1>1, ShareBegins, ShareStays, PTL DEF SmbSpec

\* On any number of callers, however long the file and whatever is lost: the context outlives
\* its callbacks, no handle is forgotten at the server, a writer tells the truth about the file
\* it was to create, and a stream that was closed with success has the file's bytes.
THEOREM ShareIsSound == SmbSpec => []SmbSound
<1>1. ShareInv => SmbSound
  <2> SUFFICES ASSUME ShareInv PROVE SmbSound
    OBVIOUS
  <2>1. SmbTypeOK /\ \A c \in Callers : CallerFits(c) BY DEF ShareInv
  <2>2. CallbackSafe BY DEF ShareInv, OwnerServes, CallbackSafe
  <2>3. HandlesOwned
    <3>1. server.handles \subseteq Callers BY SmbTypes, <2>1 DEF ShareTypesOf
    <3>2. \A c \in Callers : HandleOwned(c) BY <2>1 DEF CallerFits
    <3> QED BY <3>1, <3>2 DEF HandlesOwned, HandleOwned
  <2>4. CreationTrue
    <3>1. \A c \in Callers : Creating(c) => stage[c] = "runs" BY ActiveRuns, SmbAssumption DEF Creating, Idle
    <3>2. \A c \in Callers : CreationKnown(c) BY <2>1 DEF CallerFits
    <3> QED BY <3>1, <3>2 DEF CreationTrue, CreationKnown, Writers
  <2>5. BytesExact
    BY <2>1 DEF CallerFits, ReadSoFar, FlushedAtEnd, BytesExact, Streams, Writers
  <2> QED BY <2>1, <2>2, <2>3, <2>4, <2>5 DEF SmbSound
<1> QED BY <1>1, ShareInvariant, PTL

=============================================================================
