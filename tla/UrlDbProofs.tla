----------------------------- MODULE UrlDbProofs -----------------------------
(* The URL database finds its nodes and sends the right cookies, for any      *)
(* hosts, paths and cookies.                                                  *)
EXTENDS UrlDb, ListLemmas

Sorted(s) == \A i, j \in DOMAIN s : i < j => Place(s[i]) < Place(s[j])

(* The children of a node are those of its paths and in order, so that the    *)
(* search takes the right one.                                                *)
Ordered(tree) ==
  \A n \in Node : /\ tree[n] \in Seq(Segment) /\ Sorted(tree[n])
                  /\ \A s \in ToSet(tree[n]) : Append(n[2], s) \in Path

(* All of the path is in the tree. *)
Rooted(tree, h, p) == \A k \in 1..Len(p) : p[k] \in ToSet(tree[<<h, SubSeq(p, 1, k - 1)>>])

(* The cookies of a node belong there and are different. *)
Belong(list, n) ==
  /\ list \in Seq(Cookie) /\ Injective(list)
  /\ \A c \in ToSet(list) : /\ Home(c) = n
                            /\ \A d \in ToSet(list) : Same(c, d) => c = d

Housed(tree, ck) ==
  \A n \in Node : /\ Belong(ck[n], n)
                  /\ ck[n] # <<>> => Rooted(tree, n[1], n[2])

(* What is not expired is where it should be. *)
Listed(ck) == \A c \in Cookie : ~Expired(c) => (c \in jar <=> c \in ToSet(ck[Home(c)]))

IInv ==
  /\ TypeOK /\ Ordered(children) /\ Housed(children, cookies) /\ Listed(cookies)

-----------------------------------------------------------------------------
(* Paths and their beginnings.                                                *)

(* The beginnings of a sequence. *)
LEMMA PrefixOf ==
  ASSUME NEW S, NEW p \in Seq(S), NEW k \in 0..Len(p)
  PROVE  /\ SubSeq(p, 1, k) \in Seq(S) /\ Len(SubSeq(p, 1, k)) = k
         /\ \A i \in 1..k : SubSeq(p, 1, k)[i] = p[i]
<1>1. Len(p) \in Nat /\ k \in Int /\ \A i \in 1..k : p[i] \in S
  BY ElementOfSeq, LenProperties
<1> QED BY <1>1, SubSeqProperties

(* The beginning of a beginning. *)
LEMMA PrefixOfPrefix ==
  ASSUME NEW S, NEW p \in Seq(S), NEW k \in 0..Len(p), NEW l \in 0..k
  PROVE  SubSeq(SubSeq(p, 1, k), 1, l) = SubSeq(p, 1, l)
<1> DEFINE q == SubSeq(p, 1, k)
<1>1. Len(p) \in Nat /\ q \in Seq(S) /\ Len(q) = k /\ \A i \in 1..k : q[i] = p[i]
  BY PrefixOf, LenProperties
<1>2. /\ SubSeq(q, 1, l) \in Seq(S) /\ Len(SubSeq(q, 1, l)) = l
      /\ \A i \in 1..l : SubSeq(q, 1, l)[i] = q[i]
  BY <1>1, PrefixOf
<1>3. l \in 0..Len(p)
  BY <1>1
<1>4. /\ SubSeq(p, 1, l) \in Seq(S) /\ Len(SubSeq(p, 1, l)) = l
      /\ \A i \in 1..l : SubSeq(p, 1, l)[i] = p[i]
  BY <1>3, PrefixOf
<1> HIDE DEF q
<1>5. SubSeq(q, 1, l) = SubSeq(p, 1, l)
  <2>1. Len(SubSeq(q, 1, l)) = Len(SubSeq(p, 1, l))
    BY <1>2, <1>4
  <2>2. \A i \in 1..Len(SubSeq(q, 1, l)) : SubSeq(q, 1, l)[i] = SubSeq(p, 1, l)[i]
    BY <1>1, <1>2, <1>4
  <2> QED BY <2>1, <2>2, <1>2, <1>4, SeqEqual
<1> QED BY <1>5 DEF q

(* A sequence is a beginning of another if it is cut out of it. *)
LEMMA PrefixMeans ==
  ASSUME NEW S, NEW p \in Seq(S), NEW q \in Seq(S)
  PROVE  /\ IsPrefix(q, p) <=> Len(q) <= Len(p) /\ q = SubSeq(p, 1, Len(q))
         /\ IsStrictPrefix(q, p) <=> Len(q) < Len(p) /\ q = SubSeq(p, 1, Len(q))
<1>1. SubSeq(q, 1, Len(q)) = q /\ SubSeq(p, 1, Len(p)) = p
  BY SubSeqFull
<1>2. Len(q) \in Nat /\ Len(p) \in Nat
  BY LenProperties
<1> QED BY <1>1, <1>2 DEF IsPrefix, IsStrictPrefix

(* A sequence without its last member and the member again. *)
LEMMA FrontLast ==
  ASSUME NEW S, NEW p \in Seq(S), p # <<>>
  PROVE  /\ Len(p) \in Nat \ {0} /\ Front(p) = SubSeq(p, 1, Len(p) - 1)
         /\ Last(p) = p[Len(p)] /\ Last(p) \in S
         /\ Front(p) \in Seq(S) /\ Append(Front(p), Last(p)) = p
<1>1. Len(p) \in Nat \ {0} /\ Len(p) - 1 \in 0..Len(p)
  BY EmptySeq
<1>2. Front(p) = SubSeq(p, 1, Len(p) - 1) /\ Last(p) = p[Len(p)]
  BY DEF Front, Last
<1>3. Last(p) \in S
  BY <1>1, <1>2, ElementOfSeq
<1>4. /\ Front(p) \in Seq(S) /\ Len(Front(p)) = Len(p) - 1
      /\ \A i \in 1..(Len(p) - 1) : Front(p)[i] = p[i]
  <2>1. \A k \in 0..Len(p) : /\ SubSeq(p, 1, k) \in Seq(S) /\ Len(SubSeq(p, 1, k)) = k
                            /\ \A i \in 1..k : SubSeq(p, 1, k)[i] = p[i]
    BY PrefixOf
  <2> QED BY <1>1, <1>2, <2>1
<1> DEFINE q == Append(Front(p), Last(p))
<1>5. /\ q \in Seq(S) /\ Len(q) = Len(p)
      /\ \A i \in 1..(Len(p) - 1) : q[i] = p[i]
      /\ q[Len(p)] = Last(p)
  BY <1>1, <1>3, <1>4, AppendProperties
<1> HIDE DEF q
<1>6. \A i \in 1..Len(q) : q[i] = p[i]
  BY <1>1, <1>2, <1>5
<1>7. q = p
  BY <1>5, <1>6, SeqEqual
<1> QED BY <1>1, <1>2, <1>3, <1>4, <1>7 DEF q

(* The next beginning of a sequence. *)
LEMMA NextPrefix ==
  ASSUME NEW S, NEW p \in Seq(S), NEW k \in 1..Len(p)
  PROVE  Append(SubSeq(p, 1, k - 1), p[k]) = SubSeq(p, 1, k)
<1> DEFINE q == SubSeq(p, 1, k)
<1>1. Len(p) \in Nat /\ k \in 0..Len(p) /\ k - 1 \in 0..k /\ k \in Nat \ {0}
  BY LenProperties
<1>2. q \in Seq(S) /\ Len(q) = k /\ q[k] = p[k]
  BY <1>1, PrefixOf
<1>3. SubSeq(q, 1, k - 1) = SubSeq(p, 1, k - 1)
  BY <1>1, PrefixOfPrefix
<1> HIDE DEF q
<1>4. q # <<>>
  BY <1>1, <1>2, EmptySeq
<1>5. Append(Front(q), Last(q)) = q /\ Front(q) = SubSeq(q, 1, k - 1) /\ Last(q) = p[k]
  BY <1>2, <1>4, FrontLast
<1>6. Append(SubSeq(p, 1, k - 1), p[k]) = q
  BY <1>3, <1>5
<1> QED BY <1>6 DEF q

(* The paths of the tree are sequences of segments, with all beginnings. *)
LEMMA Paths ==
  /\ UrlPath \subseteq Path /\ <<>> \in Path /\ Path \subseteq Seq(Segment)
  /\ \A p \in UrlPath : p # <<>>
  /\ \A p \in Path : \A k \in 0..Len(p) : SubSeq(p, 1, k) \in Path
<1>1. UrlPath \subseteq Seq(Segment) /\ <<Empty>> \in UrlPath
      /\ \A p \in UrlPath : p # <<>>
  BY UrlDbAssumption
<1>2. UrlPath \subseteq Path
  <2>1. SUFFICES ASSUME NEW p \in UrlPath PROVE p \in Path
    OBVIOUS
  <2>2. SubSeq(p, 1, Len(p)) = p /\ Len(p) \in 0..Len(p)
    BY <1>1, SubSeqFull, LenProperties
  <2> DEFINE begin(l) == SubSeq(p, 1, l)
  <2>3. Prefixes(p) = {begin(l) : l \in 0..Len(p)} /\ begin(Len(p)) = p
    BY <2>2 DEF Prefixes
  <2> HIDE DEF begin
  <2>4. p \in Prefixes(p)
    BY <2>2, <2>3
  <2> QED BY <2>4 DEF Path
<1>3. \A p \in Path : \E u \in UrlPath : \E l \in 0..Len(u) : p = SubSeq(u, 1, l)
  BY DEF Path, Prefixes
<1>4. ASSUME NEW p \in Path
      PROVE  /\ p \in Seq(Segment)
             /\ \A k \in 0..Len(p) : SubSeq(p, 1, k) \in Path
  <2>0. PICK u \in UrlPath : \E l \in 0..Len(u) : p = SubSeq(u, 1, l)
    BY <1>3
  <2>1. PICK l \in 0..Len(u) : p = SubSeq(u, 1, l)
    BY <2>0
  <2>2. u \in Seq(Segment) /\ Len(u) \in Nat
    BY <1>1, LenProperties
  <2>3. p \in Seq(Segment) /\ Len(p) = l /\ \A i \in 1..l : p[i] = u[i]
    BY <2>1, <2>2, PrefixOf
  <2>4. ASSUME NEW k \in 0..Len(p) PROVE SubSeq(p, 1, k) \in Path
    <3>1. k \in 0..l /\ k \in 0..Len(u)
      BY <2>2, <2>3
    <3>2. SubSeq(p, 1, k) = SubSeq(u, 1, k)
      BY <2>1, <2>2, <3>1, PrefixOfPrefix
    <3> QED BY <3>1, <3>2 DEF Path, Prefixes
  <2> QED BY <2>3, <2>4
<1>5. <<>> \in Path
  <2>1. <<Empty>> \in Path /\ 0 \in 0..Len(<<Empty>>) /\ SubSeq(<<Empty>>, 1, 0) = <<>>
    BY <1>1, <1>2, SubSeqEmpty
  <2> QED BY <1>4, <2>1
<1> QED BY <1>1, <1>2, <1>4, <1>5

(* A part of a path is the name of a node. *)
LEMMA Nodes ==
  /\ \A h \in Site, p \in Path : \A k \in 0..Len(p) : <<h, SubSeq(p, 1, k)>> \in Node
  /\ \A n \in Node : n = <<n[1], n[2]>> /\ n[1] \in Site /\ n[2] \in Path
<1>1. ASSUME NEW h \in Site, NEW p \in Path, NEW k \in 0..Len(p)
      PROVE  <<h, SubSeq(p, 1, k)>> \in Node
  <2>1. SubSeq(p, 1, k) \in Path
    BY Paths
  <2> QED BY <2>1 DEF Node
<1>2. ASSUME NEW n \in Node PROVE n = <<n[1], n[2]>> /\ n[1] \in Site /\ n[2] \in Path
  BY DEF Node
<1> QED BY <1>1, <1>2

(* The order of segments. *)
LEMMA Places ==
  /\ \A s \in Segment : Place(s) \in Nat /\ Place(s) \in DOMAIN Segments /\ Segments[Place(s)] = s
  /\ \A s, t \in Segment : Place(s) = Place(t) => s = t
<1>1. DOMAIN Segments \subseteq Nat
  BY UrlDbAssumption, LenProperties
<1>2. ASSUME NEW s \in Segment
      PROVE  Place(s) \in DOMAIN Segments /\ Segments[Place(s)] = s
  <2>1. \E i \in DOMAIN Segments : Segments[i] = s
    BY DEF Segment, Range
  <2> QED BY <2>1 DEF Place
<1> QED BY <1>1, <1>2

-----------------------------------------------------------------------------
(* The children of a node stay in order.                                      *)

LEMMA Minimum ==
  ASSUME NEW T \in SUBSET Nat, T # {}
  PROVE  Min(T) \in T /\ \A x \in T : Min(T) <= x
<1>1. \E x \in T : \A y \in T : x =< y
  BY Least
<1> QED BY <1>1 DEF Min

(* A member comes in before place i, and those from there move on. *)
LEMMA InsertAtPlaces ==
  ASSUME NEW S, NEW s \in Seq(S), NEW i \in 1..(Len(s) + 1), NEW e \in S
  PROVE  /\ InsertAt(s, i, e) \in Seq(S) /\ Len(InsertAt(s, i, e)) = Len(s) + 1
         /\ \A k \in 1..(Len(s) + 1) :
              InsertAt(s, i, e)[k] = IF k < i THEN s[k] ELSE IF k = i THEN e ELSE s[k - 1]
<1> DEFINE a == SubSeq(s, 1, i - 1)
           b == SubSeq(s, i, Len(s))
           c == a \o <<e>>
           t == c \o b
<1>1. Len(s) \in Nat /\ i \in Int /\ DOMAIN s = 1..Len(s)
  OBVIOUS
<1>2. a \in Seq(S) /\ Len(a) = i - 1 /\ \A k \in 1..(i - 1) : a[k] = s[k]
  BY <1>1, SubSeqProperties
<1>3. b \in Seq(S) /\ Len(b) = Len(s) - i + 1
      /\ \A k \in 1..(Len(s) - i + 1) : b[k] = s[i + k - 1]
  BY <1>1, SubSeqProperties, SMTT(40)
<1>4. <<e>> \in Seq(S) /\ Len(<<e>>) = 1 /\ <<e>>[1] = e
  OBVIOUS
<1> HIDE DEF a, b
<1>5. c \in Seq(S) /\ Len(c) = i /\ \A k \in 1..i : c[k] = IF k < i THEN s[k] ELSE e
  <2>1. /\ c \in Seq(S) /\ Len(c) = Len(a) + 1
        /\ \A k \in 1..(Len(a) + 1) : c[k] = IF k <= Len(a) THEN a[k] ELSE <<e>>[k - Len(a)]
    BY <1>2, <1>4, ConcatProperties
  <2> HIDE DEF c
  <2>2. ASSUME NEW k \in 1..i PROVE c[k] = IF k < i THEN s[k] ELSE e
    <3>1. CASE k < i
      BY <1>1, <1>2, <2>1, <3>1
    <3>2. CASE k = i
      <4>1. c[k] = <<e>>[k - Len(a)] /\ k - Len(a) = 1
        BY <1>1, <1>2, <2>1, <3>2
      <4> QED BY <1>1, <1>4, <3>2, <4>1
    <3> QED BY <1>1, <3>1, <3>2
  <2>3. Len(c) = i
    BY <1>1, <1>2, <2>1
  <2> QED BY <2>1, <2>2, <2>3
<1> HIDE DEF c
<1>6. /\ t \in Seq(S) /\ Len(t) = Len(c) + Len(b)
      /\ \A k \in 1..(Len(c) + Len(b)) : t[k] = IF k <= Len(c) THEN c[k] ELSE b[k - Len(c)]
  BY <1>3, <1>5, ConcatProperties
<1> HIDE DEF t
<1>7. Len(t) = Len(s) + 1
  BY <1>1, <1>3, <1>5, <1>6
<1>8. ASSUME NEW k \in 1..(Len(s) + 1)
      PROVE  t[k] = IF k < i THEN s[k] ELSE IF k = i THEN e ELSE s[k - 1]
  <2>1. CASE k <= i
    BY <1>1, <1>3, <1>5, <1>6, <2>1
  <2>2. CASE k > i
    <3>1. k - i \in 1..(Len(s) - i + 1) /\ i + (k - i) - 1 = k - 1
      BY <1>1, <2>2
    <3>2. t[k] = b[k - i]
      BY <1>1, <1>3, <1>5, <1>6, <2>2
    <3>3. b[k - i] = s[i + (k - i) - 1]
      BY <1>3, <3>1
    <3>4. t[k] = s[k - 1]
      BY <3>1, <3>2, <3>3
    <3>5. ~(k < i) /\ k # i
      BY <1>1, <2>2
    <3> QED BY <3>4, <3>5
  <2> QED BY <1>1, <2>1, <2>2
<1>9. InsertAt(s, i, e) = t
  BY DEF InsertAt, t, a, b, c
<1> QED BY <1>6, <1>7, <1>8, <1>9

(* Where urldb_add_path_node puts a segment (urldb.c:1675-1701): behind those *)
(* before it, in front of the first that comes after it.                      *)
LEMMA InsertionPlace ==
  ASSUME NEW s \in Seq(Segment), NEW e \in Segment, Sorted(s)
  PROVE  \E i \in 1..(Len(s) + 1) :
           /\ urldb_add_path_node(s, e) = InsertAt(s, i, e)
           /\ \A k \in DOMAIN s : IF k < i THEN Place(s[k]) <= Place(e)
                                           ELSE Place(s[k]) > Place(e)
<1> DEFINE I == {k \in 1..Len(s) : Place(s[k]) > Place(e)}
           i == IF I = {} THEN Len(s) + 1 ELSE Min(I)
<1>1. DOMAIN s = 1..Len(s) /\ Len(s) \in Nat /\ \A k \in 1..Len(s) : s[k] \in Segment
  BY ElementOfSeq, LenProperties
<1>2. Place(e) \in Nat /\ \A k \in 1..Len(s) : Place(s[k]) \in Nat
  BY <1>1, Places
<1>3. I # {} => Min(I) \in I /\ \A x \in I : Min(I) <= x
  <2>1. I \in SUBSET Nat
    BY <1>1
  <2> HIDE DEF I
  <2> QED BY <2>1, Minimum
<1>4. i \in 1..(Len(s) + 1)
  BY <1>1, <1>3
<1>5. urldb_add_path_node(s, e) = InsertAt(s, i, e)
  <2>1. SelectInSeq(s, LAMBDA x : Place(x) > Place(e)) = IF I # {} THEN Min(I) ELSE 0
    BY DEF SelectInSeq
  <2>2. I # {} => Min(I) # 0
    BY <1>1, <1>3
  <2> HIDE DEF I
  <2> QED BY <2>1, <2>2 DEF urldb_add_path_node
<1>6. ASSUME NEW k \in 1..Len(s)
      PROVE  IF k < i THEN Place(s[k]) <= Place(e) ELSE Place(s[k]) > Place(e)
  <2>1. CASE k < i
    <3>1. k \notin I
      BY <1>1, <1>3, <2>1
    <3> QED BY <1>2, <2>1, <3>1
  <2>2. CASE k >= i
    <3>1. Min(I) \in I /\ i = Min(I)
      BY <1>1, <1>3, <2>2
    <3>2. i \in 1..Len(s) /\ Place(s[i]) > Place(e)
      BY <3>1
    <3> HIDE DEF i
    <3>3. i = k \/ Place(s[i]) < Place(s[k])
      BY <1>1, <2>2, <3>2 DEF Sorted
    <3>4. Place(s[k]) > Place(e)
      BY <1>2, <3>2, <3>3
    <3> QED BY <1>1, <2>2, <3>2, <3>4
  <2> QED BY <1>1, <1>4, <2>1, <2>2
<1> QED BY <1>1, <1>4, <1>5, <1>6

(* A new segment joins the children, which stay in order. *)
LEMMA AddNode ==
  ASSUME NEW s \in Seq(Segment), NEW e \in Segment \ ToSet(s), Sorted(s)
  PROVE  /\ urldb_add_path_node(s, e) \in Seq(Segment)
         /\ Sorted(urldb_add_path_node(s, e))
         /\ ToSet(urldb_add_path_node(s, e)) = ToSet(s) \cup {e}
<1> DEFINE t == urldb_add_path_node(s, e)
<1>1. DOMAIN s = 1..Len(s) /\ Len(s) \in Nat /\ \A k \in 1..Len(s) : s[k] \in Segment /\ s[k] # e
  BY ElementOfSeq, LenProperties DEF ToSet
<1>2. Place(e) \in Nat /\ \A k \in 1..Len(s) : Place(s[k]) \in Nat /\ Place(s[k]) # Place(e)
  BY <1>1, Places
<1>3. PICK i \in 1..(Len(s) + 1) :
        /\ t = InsertAt(s, i, e)
        /\ \A k \in DOMAIN s : IF k < i THEN Place(s[k]) <= Place(e)
                                        ELSE Place(s[k]) > Place(e)
  BY InsertionPlace
<1>4. /\ t \in Seq(Segment) /\ Len(t) = Len(s) + 1
      /\ \A k \in 1..(Len(s) + 1) :
           t[k] = IF k < i THEN s[k] ELSE IF k = i THEN e ELSE s[k - 1]
  <2>1. e \in Segment
    OBVIOUS
  <2>2. LET u == InsertAt(s, i, e)
        IN  /\ u \in Seq(Segment) /\ Len(u) = Len(s) + 1
            /\ \A k \in 1..(Len(s) + 1) :
                 u[k] = IF k < i THEN s[k] ELSE IF k = i THEN e ELSE s[k - 1]
    BY <2>1, InsertAtPlaces, SMTT(30)
  <2>3. t = InsertAt(s, i, e)
    BY <1>3
  <2> HIDE DEF t
  <2> QED BY <2>2, <2>3
<1> HIDE DEF t
<1>5. DOMAIN t = 1..(Len(s) + 1)
  BY <1>1, <1>4
<1>6. Sorted(t)
  <2> SUFFICES ASSUME NEW k \in 1..(Len(s) + 1), NEW l \in 1..(Len(s) + 1), k < l
               PROVE  Place(t[k]) < Place(t[l])
    BY <1>5 DEF Sorted
  <2>1. \A a, b \in 1..Len(s) : a < b => Place(s[a]) < Place(s[b])
    BY <1>1 DEF Sorted
  <2>2. \A a \in 1..Len(s) : IF a < i THEN Place(s[a]) < Place(e) ELSE Place(e) < Place(s[a])
    <3> TAKE a \in 1..Len(s)
    <3>1. IF a < i THEN Place(s[a]) <= Place(e) ELSE Place(s[a]) > Place(e)
      BY <1>1, <1>3
    <3>2. Place(s[a]) \in Nat /\ Place(s[a]) # Place(e) /\ Place(e) \in Nat
      BY <1>2
    <3> QED BY <3>1, <3>2
  <2>3. CASE l < i
    BY <1>1, <1>4, <2>1, <2>3
  <2>4. CASE l = i
    BY <1>1, <1>4, <2>2, <2>4
  <2>5. CASE l > i /\ k < i
    <3>1. t[k] = s[k] /\ t[l] = s[l - 1] /\ k \in 1..Len(s) /\ l - 1 \in 1..Len(s)
      BY <1>1, <1>4, <2>5
    <3>2. Place(s[k]) < Place(e)
      BY <2>2, <2>5, <3>1
    <3>3. ~(l - 1 < i)
      BY <1>1, <2>5
    <3>4. Place(e) < Place(s[l - 1])
      BY <2>2, <3>1, <3>3
    <3>5. Place(s[k]) \in Nat /\ Place(s[l - 1]) \in Nat
      BY <1>2, <3>1
    <3>6. Place(s[k]) < Place(s[l - 1])
      BY <1>2, <3>2, <3>4, <3>5
    <3> QED BY <3>1, <3>6
  <2>6. CASE k = i
    <3>1. t[k] = e /\ t[l] = s[l - 1] /\ l - 1 \in 1..Len(s) /\ ~(l - 1 < i)
      BY <1>1, <1>4, <2>6
    <3> QED BY <2>2, <3>1
  <2>7. CASE k > i
    <3>1. t[k] = s[k - 1] /\ t[l] = s[l - 1] /\ k - 1 \in 1..Len(s) /\ l - 1 \in 1..Len(s) /\ k - 1 < l - 1
      BY <1>1, <1>4, <2>7
    <3> QED BY <2>1, <3>1
  <2> QED BY <1>1, <2>3, <2>4, <2>5, <2>6, <2>7
<1>7. ToSet(t) \subseteq ToSet(s) \cup {e}
  <2>1. ASSUME NEW k \in 1..(Len(s) + 1) PROVE t[k] \in ToSet(s) \cup {e}
    <3>1. t[k] = e \/ \E l \in 1..Len(s) : t[k] = s[l]
      BY <1>1, <1>4
    <3> QED BY <1>1, <3>1 DEF ToSet
  <2> QED BY <1>5, <2>1 DEF ToSet
<1>8. ToSet(s) \cup {e} \subseteq ToSet(t)
  <2>1. t[i] = e /\ i \in DOMAIN t
    BY <1>4, <1>5
  <2>2. ASSUME NEW k \in 1..Len(s) PROVE \E l \in DOMAIN t : t[l] = s[k]
    <3>1. CASE k < i
      <4>1. k \in 1..(Len(s) + 1) /\ t[k] = s[k]
        BY <1>1, <1>4, <3>1
      <4> QED BY <1>5, <4>1
    <3>2. CASE k >= i
      <4>1. k + 1 \in 1..(Len(s) + 1) /\ t[k + 1] = s[k]
        BY <1>1, <1>4, <3>2
      <4> QED BY <1>5, <4>1
    <3> QED BY <1>1, <3>1, <3>2
  <2> QED BY <1>1, <2>1, <2>2 DEF ToSet
<1> QED BY <1>4, <1>6, <1>7, <1>8 DEF t

(* Children that stay are in order still. *)
LEMMA SublistSorted ==
  ASSUME NEW s \in Seq(Segment), Sorted(s), NEW S
  PROVE  Sorted(Sublist(s, S))
<1> DEFINE at == {i \in DOMAIN s : s[i] \in S}
           n == Cardinality(at)
           upto(i) == {j \in at : j <= i}
           rank(i) == Cardinality({j \in at : j <= i})
           pos(k) == CHOOSE i \in at : rank(i) = k
           t == Sublist(s, S)
<1>1. DOMAIN s = 1..Len(s) /\ Len(s) \in Nat /\ at \in SUBSET Nat /\ at \subseteq DOMAIN s
  OBVIOUS
<1>2. IsFiniteSet(at) /\ n \in Nat
  <2>1. IsFiniteSet(1..Len(s)) /\ at \in SUBSET (1..Len(s))
    BY <1>1, FS_Interval
  <2> HIDE DEF at
  <2> QED BY <2>1, FS_Subset, FS_CardinalityType
<1>3. \A k \in 1..n : \E i \in at : rank(i) = k
  <2> HIDE DEF at
  <2> QED BY <1>1, <1>2, Ranks
<1>4. \A k \in 1..n : pos(k) \in at /\ rank(pos(k)) = k
  <2> HIDE DEF at, n, rank
  <2> QED BY <1>3
<1>5. t = [k \in 1..n |-> s[pos(k)]]
  BY DEF Sublist
<1>6. ASSUME NEW i \in at, NEW j \in at, i <= j PROVE rank(i) <= rank(j)
  <2> HIDE DEF at
  <2>1. {x \in at : x <= i} \subseteq {x \in at : x <= j}
    <3>1. i \in Nat /\ j \in Nat /\ \A x \in at : x \in Nat
      BY <1>1
    <3>2. \A x \in at : x <= i => x <= j
      BY <1>6, <3>1
    <3> QED BY <3>2
  <2>2. {x \in at : x <= j} \subseteq at
    OBVIOUS
  <2>3. IsFiniteSet({x \in at : x <= j})
    BY <1>2, <2>2, FS_Subset
  <2> QED BY <2>1, <2>3, FS_Subset
<1>7. ASSUME NEW k \in 1..n, NEW l \in 1..n, k < l PROVE pos(k) < pos(l)
  <2>1. pos(k) \in at /\ pos(l) \in at /\ rank(pos(k)) = k /\ rank(pos(l)) = l
    BY <1>4
  <2> HIDE DEF at, n, rank, pos
  <2>2. pos(l) <= pos(k) => rank(pos(l)) <= rank(pos(k))
    BY <1>6, <2>1
  <2>3. ~(pos(l) <= pos(k))
    BY <1>2, <1>7, <2>1, <2>2
  <2>4. pos(k) \in Nat /\ pos(l) \in Nat
    BY <1>1, <2>1
  <2> QED BY <2>3, <2>4
<1> HIDE DEF at, n, rank, pos, t
<1>8. ASSUME NEW k \in 1..n, NEW l \in 1..n, k < l PROVE Place(t[k]) < Place(t[l])
  BY <1>1, <1>4, <1>5, <1>7, <1>8 DEF Sorted
<1>9. DOMAIN t = 1..n
  BY <1>5
<1> QED BY <1>8, <1>9 DEF Sorted, t

-----------------------------------------------------------------------------
(* The tree grows and is searched.                                            *)

(* A path added is in the tree, and what was there stays. *)
LEMMA AddPath ==
  ASSUME NEW tree, Ordered(tree), NEW h \in Site, NEW path \in UrlPath
  PROVE  /\ urldb_add_path(tree, h, path) \in [Node -> Seq(Segment)]
         /\ Ordered(urldb_add_path(tree, h, path))
         /\ Rooted(urldb_add_path(tree, h, path), h, path)
         /\ \A n \in Node : ToSet(tree[n]) \subseteq ToSet(urldb_add_path(tree, h, path)[n])
<1> DEFINE t == urldb_add_path(tree, h, path)
           next(n) == path[Len(n[2]) + 1]
           Grows(n) == n[1] = h /\ IsStrictPrefix(n[2], path) /\ next(n) \notin ToSet(tree[n])
<1>1. path \in Seq(Segment) /\ path \in Path /\ Len(path) \in Nat
  BY Paths, LenProperties
<1>2. t = [n \in Node |-> IF Grows(n) THEN urldb_add_path_node(tree[n], next(n)) ELSE tree[n]]
  BY DEF urldb_add_path
<1>3. ASSUME NEW n \in Node, IsStrictPrefix(n[2], path)
      PROVE  /\ Len(n[2]) + 1 \in 1..Len(path) /\ next(n) \in Segment
             /\ Append(n[2], next(n)) \in Path
  <2> DEFINE k == Len(n[2]) + 1
  <2>1. n[2] \in Seq(Segment) /\ Len(n[2]) \in Nat
    BY Nodes, Paths, LenProperties
  <2>2. Len(n[2]) < Len(path) /\ n[2] = SubSeq(path, 1, Len(n[2]))
    BY <1>1, <1>3, <2>1, PrefixMeans
  <2>3. k \in 1..Len(path) /\ k \in 0..Len(path) /\ k - 1 = Len(n[2])
    BY <1>1, <2>1, <2>2
  <2> HIDE DEF k
  <2>4. path[k] \in Segment
    BY <1>1, <2>3, ElementOfSeq
  <2>5. Append(SubSeq(path, 1, k - 1), path[k]) = SubSeq(path, 1, k)
    BY <1>1, <2>3, NextPrefix
  <2>6. SubSeq(path, 1, k) \in Path
    BY <1>1, <2>3, Paths
  <2>7. Append(n[2], path[k]) \in Path
    BY <2>2, <2>3, <2>5, <2>6
  <2> QED BY <2>3, <2>4, <2>7 DEF k
<1> HIDE DEF t
<1>4. ASSUME NEW n \in Node
      PROVE  /\ t[n] \in Seq(Segment) /\ Sorted(t[n])
             /\ \A s \in ToSet(t[n]) : Append(n[2], s) \in Path
             /\ ToSet(tree[n]) \subseteq ToSet(t[n])
             /\ n[1] = h /\ IsStrictPrefix(n[2], path) => next(n) \in ToSet(t[n])
  <2>1. /\ tree[n] \in Seq(Segment) /\ Sorted(tree[n])
        /\ \A s \in ToSet(tree[n]) : Append(n[2], s) \in Path
    BY DEF Ordered
  <2>2. CASE Grows(n)
    <3>1. next(n) \in Segment \ ToSet(tree[n]) /\ Append(n[2], next(n)) \in Path
      BY <1>3, <2>2
    <3>2. t[n] = urldb_add_path_node(tree[n], next(n))
      BY <1>2, <2>2
    <3> HIDE DEF next
    <3>3. t[n] \in Seq(Segment) /\ Sorted(t[n]) /\ ToSet(t[n]) = ToSet(tree[n]) \cup {next(n)}
      BY <2>1, <3>1, <3>2, AddNode
    <3> QED BY <2>1, <3>1, <3>3
  <2>3. CASE ~Grows(n)
    <3>1. t[n] = tree[n]
      BY <1>2, <2>3
    <3> QED BY <2>1, <2>3, <3>1
  <2> QED BY <2>2, <2>3
<1>5. t \in [Node -> Seq(Segment)]
  BY <1>2, <1>4
<1>6. Ordered(t)
  BY <1>4 DEF Ordered
<1>7. ASSUME NEW k \in 1..Len(path) PROVE path[k] \in ToSet(t[<<h, SubSeq(path, 1, k - 1)>>])
  <2> DEFINE q == SubSeq(path, 1, k - 1)
             n == <<h, q>>
  <2>1. k - 1 \in 0..Len(path) /\ k \in Nat
    BY <1>1
  <2>2. n \in Node
    BY <1>1, <2>1, Nodes
  <2>3. q \in Seq(Segment) /\ Len(q) = k - 1
    BY <1>1, <2>1, PrefixOf
  <2>4. Len(q) < Len(path) /\ q = SubSeq(path, 1, Len(q))
    BY <1>1, <2>1, <2>3
  <2> HIDE DEF q
  <2>5. IsStrictPrefix(q, path)
    BY <1>1, <2>3, <2>4, PrefixMeans
  <2>6. n[1] = h /\ n[2] = q /\ Len(n[2]) + 1 = k
    BY <2>1, <2>3
  <2> HIDE DEF n
  <2>7. path[k] \in ToSet(t[n])
    BY <1>4, <2>2, <2>5, <2>6
  <2> QED BY <2>7 DEF n, q
<1>8. Rooted(t, h, path)
  BY <1>7 DEF Rooted
<1> QED BY <1>4, <1>5, <1>6, <1>8 DEF t

(* In a tree that has grown every path that was there is still. *)
LEMMA StaysRooted ==
  ASSUME NEW tree, NEW t, \A n \in Node : ToSet(tree[n]) \subseteq ToSet(t[n]),
         NEW h \in Site, NEW p \in Path, Rooted(tree, h, p)
  PROVE  Rooted(t, h, p)
<1>1. p \in Seq(Segment) /\ Len(p) \in Nat
  BY Paths, LenProperties
<1>2. ASSUME NEW k \in 1..Len(p) PROVE <<h, SubSeq(p, 1, k - 1)>> \in Node
  <2>1. k - 1 \in 0..Len(p)
    BY <1>1
  <2> QED BY <2>1, Nodes
<1> QED BY <1>2 DEF Rooted

(* The search for a child that is there finds it: what stands before it does  *)
(* not begin with it.                                                         *)
LEMMA LeadsTo ==
  ASSUME NEW s \in Seq(Segment), Sorted(s), NEW w \in ToSet(s), NEW x
  PROVE  Leads(s, w, x) <=> x = w
<1> DEFINE I == {k \in 1..Len(s) : <<s[k], w>> \in Longer}
           i == Min(I)
<1>1. DOMAIN s = 1..Len(s) /\ Len(s) \in Nat /\ \A k \in 1..Len(s) : s[k] \in Segment
  BY ElementOfSeq, LenProperties
<1>2. PICK j \in 1..Len(s) : s[j] = w
  BY <1>1 DEF ToSet
<1>3. w \in Segment /\ j \in I
  BY <1>1, <1>2, UrlDbAssumption
<1>4. i \in I /\ i <= j
  <2>1. I \in SUBSET Nat /\ I # {}
    BY <1>1, <1>3
  <2> HIDE DEF I
  <2> QED BY <1>3, <2>1, Minimum
<1>5. i \in 1..Len(s) /\ <<s[i], w>> \in Longer
  BY <1>4
<1>6. I # {}
  BY <1>3
<1>7. SelectInSeq(s, LAMBDA e : <<e, w>> \in Longer) = i
  BY <1>6 DEF SelectInSeq
<1> HIDE DEF I, i
<1>8. Place(w) <= Place(s[i])
  BY <1>1, <1>3, <1>5, UrlDbAssumption
<1>9. i = j
  <2>1. i < j => Place(s[i]) < Place(w)
    BY <1>1, <1>2, <1>5 DEF Sorted
  <2>2. Place(w) \in Nat /\ Place(s[i]) \in Nat
    BY <1>1, <1>3, <1>5, Places
  <2> QED BY <1>4, <1>5, <1>8, <2>1, <2>2
<1>10. Leads(s, w, x) <=> i # 0 /\ x = s[i]
  BY <1>7 DEF Leads
<1> QED BY <1>2, <1>5, <1>9, <1>10

(* A path that is in the tree is the one found for it. *)
LEMMA MatchPath ==
  ASSUME NEW tree, Ordered(tree), NEW h \in Site, NEW p \in Path, Rooted(tree, h, p)
  PROVE  urldb_match_path(tree, h, p) = p
<1> DEFINE below(q, i) == tree[<<h, SubSeq(q, 1, i - 1)>>]
           found == {q \in Path :
                       /\ Len(q) = Len(p)
                       /\ \A i \in 1..Len(p) : Leads(below(q, i), p[i], q[i])}
<1>1. p \in Seq(Segment) /\ Len(p) \in Nat
  BY Paths, LenProperties
<1>2. ASSUME NEW i \in 1..Len(p), NEW x PROVE Leads(below(p, i), p[i], x) <=> x = p[i]
  <2>1. i - 1 \in 0..Len(p)
    BY <1>1
  <2>2. <<h, SubSeq(p, 1, i - 1)>> \in Node
    BY <2>1, Nodes
  <2>3. below(p, i) \in Seq(Segment) /\ Sorted(below(p, i))
    BY <2>2 DEF Ordered
  <2>4. p[i] \in ToSet(below(p, i))
    BY DEF Rooted
  <2> HIDE DEF below
  <2> QED BY <2>3, <2>4, LeadsTo
<1>3. p \in found
  BY <1>2
<1>4. ASSUME NEW q \in found PROVE q = p
  <2>1. q \in Seq(Segment) /\ Len(q) = Len(p) /\ \A i \in 1..Len(p) : Leads(below(q, i), p[i], q[i])
    BY Paths
  <2> DEFINE bad == {i \in 1..Len(p) : q[i] # p[i]}
  <2>2. CASE bad = {}
    <3>1. \A i \in 1..Len(q) : q[i] = p[i]
      BY <2>1, <2>2
    <3> QED BY <1>1, <2>1, <3>1, SeqEqual
  <2>3. CASE bad # {}
    <3>1. bad \in SUBSET Nat
      BY <1>1
    <3>2. PICK i \in bad : \A j \in bad : i <= j
      <4> HIDE DEF bad
      <4> QED BY <2>3, <3>1, Least
    <3>3. i \in 1..Len(p) /\ i - 1 \in 0..Len(p) /\ i - 1 \in 0..Len(q)
      BY <1>1, <2>1, <3>2
    <3>4. \A j \in 1..(i - 1) : q[j] = p[j]
      BY <1>1, <3>2, <3>3
    <3>5. /\ SubSeq(p, 1, i - 1) \in Seq(Segment) /\ Len(SubSeq(p, 1, i - 1)) = i - 1
          /\ \A j \in 1..(i - 1) : SubSeq(p, 1, i - 1)[j] = p[j]
      BY <1>1, <3>3, PrefixOf
    <3>6. /\ SubSeq(q, 1, i - 1) \in Seq(Segment) /\ Len(SubSeq(q, 1, i - 1)) = i - 1
          /\ \A j \in 1..(i - 1) : SubSeq(q, 1, i - 1)[j] = q[j]
      BY <2>1, <3>3, PrefixOf
    <3>7. SubSeq(p, 1, i - 1) = SubSeq(q, 1, i - 1)
      <4> DEFINE a == SubSeq(p, 1, i - 1)
                 b == SubSeq(q, 1, i - 1)
      <4>1. a \in Seq(Segment) /\ b \in Seq(Segment) /\ Len(a) = Len(b)
        BY <3>5, <3>6
      <4>2. \A j \in 1..Len(a) : a[j] = b[j]
        BY <3>4, <3>5, <3>6
      <4> HIDE DEF a, b
      <4>3. a = b
        BY <4>1, <4>2, SeqEqual
      <4> QED BY <4>3 DEF a, b
    <3>8. below(q, i) = below(p, i)
      BY <3>7
    <3>9. Leads(below(p, i), p[i], q[i])
      BY <2>1, <3>3, <3>8
    <3> HIDE DEF below
    <3>10. q[i] = p[i]
      BY <1>2, <3>3, <3>9
    <3> QED BY <3>2, <3>10
  <2> QED BY <2>2, <2>3
<1>5. urldb_match_path(tree, h, p) = IF found = {} THEN NULL ELSE CHOOSE q \in found : TRUE
  BY DEF urldb_match_path
<1> HIDE DEF found
<1> QED BY <1>3, <1>4, <1>5

(* A path is in the tree when each of its nodes is. *)
LEMMA KeptPath ==
  ASSUME NEW h \in Site, NEW p \in Path
  PROVE  (\A q \in Prefixes(p) : Kept(h, q)) <=> Rooted(children, h, p)
<1>1. p \in Seq(Segment) /\ Len(p) \in Nat
  BY Paths, LenProperties
<1> DEFINE begin(l) == SubSeq(p, 1, l)
<1>2. Prefixes(p) = {begin(l) : l \in 0..Len(p)}
  BY DEF Prefixes
<1>3. Kept(h, begin(0))
  BY SubSeqEmpty DEF Kept
<1>4. ASSUME NEW k \in 1..Len(p)
      PROVE  Kept(h, begin(k)) <=> p[k] \in ToSet(children[<<h, begin(k - 1)>>])
  <2> DEFINE q == SubSeq(p, 1, k)
  <2>1. k \in 0..Len(p) /\ k - 1 \in 0..k /\ k \in Nat \ {0}
    BY <1>1
  <2>2. q \in Seq(Segment) /\ Len(q) = k /\ q[k] = p[k]
    BY <1>1, <2>1, PrefixOf
  <2>3. SubSeq(q, 1, k - 1) = SubSeq(p, 1, k - 1)
    BY <1>1, <2>1, PrefixOfPrefix
  <2> HIDE DEF q
  <2>4. q # <<>>
    BY <2>1, <2>2, EmptySeq
  <2>5. Front(q) = SubSeq(p, 1, k - 1) /\ Last(q) = p[k]
    BY <2>2, <2>3, <2>4, FrontLast
  <2>6. Kept(h, q) <=> p[k] \in ToSet(children[<<h, SubSeq(p, 1, k - 1)>>])
    BY <2>4, <2>5 DEF Kept
  <2> QED BY <2>6 DEF q
<1>5. Rooted(children, h, p) <=> \A k \in 1..Len(p) : p[k] \in ToSet(children[<<h, begin(k - 1)>>])
  BY DEF Rooted
<1> HIDE DEF begin
<1>6. (\A q \in Prefixes(p) : Kept(h, q)) <=> \A k \in 1..Len(p) : Kept(h, begin(k))
  <2>1. (\A q \in Prefixes(p) : Kept(h, q)) <=> \A k \in 0..Len(p) : Kept(h, begin(k))
    BY <1>2
  <2>2. 0..Len(p) = {0} \cup 1..Len(p)
    BY <1>1
  <2> QED BY <1>3, <2>1, <2>2
<1> QED BY <1>4, <1>5, <1>6

(* What the invariant says of the search. *)
LEMMA FindsThem == IInv => FindsUrls
<1> SUFFICES ASSUME IInv PROVE FindsUrls
  OBVIOUS
<1>1. TypeOK /\ Ordered(children) /\ Housed(children, cookies)
  BY DEF IInv
<1>2. ASSUME NEW h \in Site, NEW p \in Path
      PROVE  LET there == \A q \in Prefixes(p) : Kept(h, q) IN
             /\ there /\ p # <<>> => urldb_match_path(children, h, p) = p
             /\ ~there => cookies[<<h, p>>] = <<>>
  <2> DEFINE there == \A q \in Prefixes(p) : Kept(h, q)
  <2>1. there <=> Rooted(children, h, p)
    BY KeptPath
  <2>2. there => urldb_match_path(children, h, p) = p
    BY <1>1, <2>1, MatchPath
  <2> DEFINE n == <<h, p>>
  <2>3. n \in Node /\ n[1] = h /\ n[2] = p
    BY DEF Node
  <2> HIDE DEF n
  <2>4. cookies[n] # <<>> => Rooted(children, h, p)
    BY <1>1, <2>3 DEF Housed
  <2>5. cookies[<<h, p>>] # <<>> => there
    BY <2>1, <2>4 DEF n
  <2> HIDE DEF there
  <2>6. /\ there /\ p # <<>> => urldb_match_path(children, h, p) = p
        /\ ~there => cookies[<<h, p>>] = <<>>
    BY <2>2, <2>5
  <2> QED BY <2>6 DEF there
<1> QED BY <1>1, <1>2 DEF FindsUrls

-----------------------------------------------------------------------------
(* The lists of cookies.                                                      *)

(* What is not empty has a member. *)
LEMMA SomeMember ==
  ASSUME NEW S, NEW s \in Seq(S), s # <<>>
  PROVE  ToSet(s) # {}
<1>1. Len(s) \in Nat \ {0} /\ DOMAIN s = 1..Len(s)
  BY EmptySeq, LenProperties
<1>2. s[1] \in ToSet(s)
  BY <1>1 DEF ToSet
<1> QED BY <1>2

(* A member of a list gives way to another. *)
LEMMA ReplaceAtProperties ==
  ASSUME NEW S, NEW s \in Seq(S), NEW i \in DOMAIN s, Injective(s),
         NEW e \in S, e \notin ToSet(s) \ {s[i]}
  PROVE  /\ ReplaceAt(s, i, e) \in Seq(S) /\ Injective(ReplaceAt(s, i, e))
         /\ ToSet(ReplaceAt(s, i, e)) = (ToSet(s) \ {s[i]}) \cup {e}
<1> DEFINE t == ReplaceAt(s, i, e)
<1>1. DOMAIN s = 1..Len(s) /\ Len(s) \in Nat
  OBVIOUS
<1>2. t \in Seq(S) /\ Len(t) = Len(s) /\ \A j \in 1..Len(s) : t[j] = IF j = i THEN e ELSE s[j]
  BY <1>1, ExceptSeq DEF ReplaceAt
<1> HIDE DEF t
<1>3. DOMAIN t = 1..Len(s)
  BY <1>1, <1>2
<1>4. \A j \in 1..Len(s) : j # i => s[j] # s[i] /\ s[j] # e
  <2> SUFFICES ASSUME NEW j \in 1..Len(s), j # i PROVE s[j] # s[i] /\ s[j] # e
    OBVIOUS
  <2>1. s[j] # s[i]
    BY <1>1 DEF Injective
  <2>2. s[j] \in ToSet(s)
    BY <1>1 DEF ToSet
  <2> QED BY <2>1, <2>2
<1>5. Injective(t)
  <2> SUFFICES ASSUME NEW j \in 1..Len(s), NEW k \in 1..Len(s), t[j] = t[k] PROVE j = k
    BY <1>3 DEF Injective
  <2>1. CASE j = i \/ k = i
    BY <1>2, <1>4, <2>1
  <2>2. CASE j # i /\ k # i
    <3>1. s[j] = s[k]
      BY <1>2, <2>2
    <3> QED BY <1>1, <3>1 DEF Injective
  <2> QED BY <2>1, <2>2
<1>6. ASSUME NEW x PROVE x \in ToSet(t) <=> x \in (ToSet(s) \ {s[i]}) \cup {e}
  <2>1. x \in ToSet(t) <=> \E j \in 1..Len(s) : x = t[j]
    BY <1>3 DEF ToSet
  <2>2. x \in ToSet(s) <=> \E j \in 1..Len(s) : x = s[j]
    BY <1>1 DEF ToSet
  <2> QED BY <1>1, <1>2, <1>4, <2>1, <2>2
<1> QED BY <1>2, <1>5, <1>6 DEF t

(* Every cookie has a node of its own (urldb.c:3316-3350). *)
LEMMA Homes ==
  /\ \A c \in Cookie : Home(c) \in Node
  /\ \A c, d : Same(c, d) => Home(c) = Home(d)
<1>1. ASSUME NEW c \in Cookie PROVE Home(c) \in Node
  <2>1. c.host \in Site /\ c.path \in UrlPath
    BY DEF Cookie
  <2> QED BY <2>1, Paths DEF Home, Node
<1>2. ASSUME NEW c, NEW d, Same(c, d) PROVE Home(c) = Home(d)
  BY <1>2 DEF Same, Home
<1> QED BY <1>1, <1>2

(* Some members of a list, in their order. *)
LEMMA SomeBelong ==
  ASSUME NEW list, NEW n, Belong(list, n), NEW S
  PROVE  Belong(Sublist(list, S), n) /\ ToSet(Sublist(list, S)) = ToSet(list) \cap S
<1>1. /\ Sublist(list, S) \in Seq(Cookie) /\ Injective(Sublist(list, S))
      /\ ToSet(Sublist(list, S)) = ToSet(list) \cap S
  BY SublistProperties DEF Belong
<1> QED BY <1>1 DEF Belong

(* The cookie at a place goes. *)
LEMMA OneGoes ==
  ASSUME NEW list, NEW n, Belong(list, n), NEW i \in DOMAIN list
  PROVE  Belong(RemoveAt(list, i), n) /\ ToSet(RemoveAt(list, i)) = ToSet(list) \ {list[i]}
<1>1. /\ RemoveAt(list, i) \in Seq(Cookie) /\ Injective(RemoveAt(list, i))
      /\ ToSet(RemoveAt(list, i)) = ToSet(list) \ {list[i]}
  BY RemoveAtProperties DEF Belong
<1> QED BY <1>1 DEF Belong

(* A cookie set takes the place of the one that is the same, if there is one, *)
(* and nothing else changes of what has not expired (urldb.c:3352-3405).      *)
LEMMA Inserted ==
  ASSUME NEW list, NEW c \in Cookie, Belong(list, Home(c))
  PROVE  /\ Belong(urldb_insert_cookie(list, c), Home(c))
         /\ \A d : ~Expired(d) =>
              (d \in ToSet(urldb_insert_cookie(list, c))
                 <=> d = c \/ (d \in ToSet(list) /\ ~Same(c, d)))
<1> DEFINE I == {k \in 1..Len(list) : Same(c, list[k])}
           i == SelectInSeq(list, LAMBDA d : Same(c, d))
           t == urldb_insert_cookie(list, c)
           n == Home(c)
<1>1. /\ list \in Seq(Cookie) /\ Injective(list) /\ DOMAIN list = 1..Len(list) /\ Len(list) \in Nat
      /\ \A a \in ToSet(list) : /\ a \in Cookie /\ Home(a) = n
                                /\ \A b \in ToSet(list) : Same(a, b) => a = b
  <2>1. list \in Seq(Cookie) /\ Injective(list)
    BY DEF Belong
  <2>2. DOMAIN list = 1..Len(list) /\ Len(list) \in Nat /\ \A k \in 1..Len(list) : list[k] \in Cookie
    BY <2>1, LenProperties, ElementOfSeq
  <2> QED BY <2>1, <2>2 DEF Belong, ToSet
<1>2. i = IF I # {} THEN Min(I) ELSE 0
  BY DEF SelectInSeq
<1>3. I # {} => Min(I) \in I
  <2>1. I \in SUBSET Nat
    BY <1>1
  <2> HIDE DEF I
  <2> QED BY <2>1, Minimum
<1>4. Same(c, c) /\ \A a, b : Same(c, a) /\ Same(c, b) => Same(a, b)
  BY DEF Same
<1>5. t = IF i = 0 THEN Append(list, c) ELSE IF Expired(c) THEN RemoveAt(list, i)
          ELSE ReplaceAt(list, i, c)
  BY DEF urldb_insert_cookie
<1>6. CASE I = {}
  <2>1. t = Append(list, c)
    BY <1>2, <1>5, <1>6
  <2>2. \A a \in ToSet(list) : ~Same(c, a)
    BY <1>1, <1>6 DEF ToSet
  <2>3. c \notin ToSet(list)
    BY <1>4, <2>2
  <2>4. t \in Seq(Cookie) /\ ToSet(t) = ToSet(list) \cup {c} /\ Injective(t)
    BY <1>1, <2>1, <2>3, AppendNew
  <2> HIDE DEF t, I, i
  <2>5. Belong(t, n)
    <3>1. \A a \in ToSet(list) : ~Same(a, c)
      BY <2>2 DEF Same
    <3> QED BY <1>1, <2>2, <2>4, <3>1 DEF Belong
  <2> QED BY <2>2, <2>4, <2>5 DEF t
<1>7. CASE I # {}
  <2> HIDE DEF i, t
  <2>1. i \in 1..Len(list) /\ Same(c, list[i])
    BY <1>2, <1>3, <1>7
  <2> HIDE DEF I
  <2>2. i # 0 /\ i \in DOMAIN list /\ list[i] \in ToSet(list)
    BY <1>1, <2>1 DEF ToSet
  <2>3. \A a \in ToSet(list) : Same(c, a) => a = list[i]
    BY <1>1, <1>4, <2>1, <2>2
  <2>4. CASE Expired(c)
    <3>1. t = RemoveAt(list, i)
      BY <1>5, <2>2, <2>4
    <3>2. Belong(t, n) /\ ToSet(t) = ToSet(list) \ {list[i]}
      BY <2>2, <3>1, OneGoes
    <3>3. \A d : ~Expired(d) => d # c
      BY <2>4
    <3> QED BY <2>1, <2>3, <3>2, <3>3 DEF t
  <2>5. CASE ~Expired(c)
    <3>1. t = ReplaceAt(list, i, c)
      BY <1>5, <2>2, <2>5
    <3>2. c \notin ToSet(list) \ {list[i]}
      BY <1>4, <2>3
    <3>3. t \in Seq(Cookie) /\ Injective(t) /\ ToSet(t) = (ToSet(list) \ {list[i]}) \cup {c}
      BY <1>1, <2>2, <3>1, <3>2, ReplaceAtProperties
    <3>4. \A a \in ToSet(list) \ {list[i]} : ~Same(c, a) /\ ~Same(a, c)
      BY <2>3 DEF Same
    <3>5. Belong(t, n)
      BY <1>1, <3>3, <3>4 DEF Belong
    <3> QED BY <2>1, <3>3, <3>4, <3>5 DEF t
  <2> QED BY <2>4, <2>5
<1> QED BY <1>6, <1>7

-----------------------------------------------------------------------------
(* The steps.                                                                 *)

LEMMA Starts == Init => IInv
<1> SUFFICES ASSUME Init PROVE IInv
  OBVIOUS
<1>1. \A n \in Node : children[n] = <<>> /\ cookies[n] = <<>>
  BY DEF Init
<1>2. /\ ToSet(<<>>) = {} /\ Sorted(<<>>) /\ Injective(<<>>)
      /\ <<>> \in Seq(Segment) /\ <<>> \in Seq(Cookie)
  BY DEF ToSet, Sorted, Injective
<1>3. TypeOK
  <2>1. now \in 1..MaxTime /\ set \in 0..MaxCookies /\ fetched \in 0..MaxUrls /\ jar \subseteq Cookie
    BY UrlDbAssumption DEF Init
  <2>2. children \in [Node -> Seq(Segment)] /\ cookies \in [Node -> Seq(Cookie)]
    BY DEF Init
  <2> QED BY <2>1, <2>2 DEF TypeOK
<1>4. Ordered(children)
  <2>1. ASSUME NEW n \in Node
        PROVE  /\ children[n] \in Seq(Segment) /\ Sorted(children[n])
               /\ \A s \in ToSet(children[n]) : Append(n[2], s) \in Path
    <3>1. children[n] = <<>>
      BY <1>1
    <3> QED BY <1>2, <3>1
  <2> QED BY <2>1 DEF Ordered
<1>5. Housed(children, cookies)
  <2>1. ASSUME NEW n \in Node PROVE cookies[n] = <<>> /\ Belong(cookies[n], n)
    <3>1. cookies[n] = <<>>
      BY <1>1
    <3>2. Belong(<<>>, n)
      BY <1>2 DEF Belong
    <3> QED BY <3>1, <3>2
  <2> QED BY <2>1 DEF Housed
<1>6. Listed(cookies)
  BY <1>1, <1>2, Homes DEF Listed, Init
<1> QED BY <1>3, <1>4, <1>5, <1>6 DEF IInv

(* When the tree grows the cookies are where they were. *)
LEMMA StaysHoused ==
  ASSUME NEW tree, NEW t, NEW ck, Housed(tree, ck),
         \A n \in Node : ToSet(tree[n]) \subseteq ToSet(t[n])
  PROVE  Housed(t, ck)
<1>1. ASSUME NEW n \in Node, ck[n] # <<>> PROVE Rooted(t, n[1], n[2])
  BY <1>1, StaysRooted, Nodes DEF Housed
<1> QED BY <1>1 DEF Housed

(* A URL is added. *)
LEMMA AddUrl ==
  ASSUME IInv, NEW h \in Site, NEW path \in UrlPath, urldb_add_url(h, path)
  PROVE  IInv'
<1>1. TypeOK /\ Ordered(children) /\ Housed(children, cookies) /\ Listed(cookies)
  BY DEF IInv
<1>2. children' = urldb_add_path(children, h, path)
  BY DEF urldb_add_url
<1>3. /\ children' \in [Node -> Seq(Segment)] /\ Ordered(children')
      /\ \A n \in Node : ToSet(children[n]) \subseteq ToSet(children'[n])
  BY <1>1, <1>2, AddPath
<1>4. UNCHANGED <<cookies, now, jar, set>>
  BY DEF urldb_add_url
<1>5. fetched' \in 0..MaxUrls
  BY <1>1, UrlDbAssumption DEF TypeOK, urldb_add_url
<1>6. Housed(children', cookies')
  BY <1>1, <1>3, <1>4, StaysHoused
<1>7. Listed(cookies)'
  BY <1>1, <1>4 DEF Listed, Expired
<1>8. TypeOK'
  BY <1>1, <1>3, <1>4, <1>5 DEF TypeOK
<1>9. Ordered(children)' /\ Housed(children, cookies)'
  BY <1>3, <1>6 DEF Ordered, Housed, Rooted, Belong
<1> QED BY <1>7, <1>8, <1>9 DEF IInv

(* What a response can set is a cookie (urldb.c:3127-3180). *)
LEMMA Parsed == Received \subseteq Cookie
<1>1. ASSUME NEW h \in Site, NEW path \in UrlPath, NEW domain \in Host \cup {NULL},
             NEW for \in UrlPath \cup {NULL}, NEW name \in Name, NEW expires \in Expiry,
             Acceptable(urldb_parse_cookie(h, path, domain, for, name, expires), h, path)
      PROVE  urldb_parse_cookie(h, path, domain, for, name, expires) \in Cookie
  <2> DEFINE c == urldb_parse_cookie(h, path, domain, for, name, expires)
  <2>1. /\ c.domain = (domain # NULL) /\ c.host = (IF domain # NULL THEN domain ELSE h)
        /\ c.path = (IF for # NULL THEN for
                     ELSE IF Len(path) = 1 THEN <<Empty>> ELSE Front(path))
        /\ c.name = name /\ c.expires = expires
        /\ c = [domain |-> c.domain, host |-> c.host, path |-> c.path, name |-> c.name, expires |-> c.expires]
    BY DEF urldb_parse_cookie
  <2>2. Len(c.host) >= 2 /\ IsPrefix(c.host, h)
    BY <1>1 DEF Acceptable
  <2> HIDE DEF c
  <2>3. c.host \in Site
    <3>1. h \in Seq(STRING) /\ Len(h) \in Nat
      BY UrlDbAssumption, LenProperties
    <3>2. c.host \in Seq(STRING)
      <4>1. ASSUME NEW g \in Host PROVE g \in Seq(STRING)
        <5>1. PICK x \in Site : g \in Prefixes(x)
          BY DEF Host
        <5>2. PICK l \in 0..Len(x) : g = SubSeq(x, 1, l)
          BY <5>1 DEF Prefixes
        <5>3. x \in Seq(STRING)
          BY UrlDbAssumption
        <5> QED BY <5>2, <5>3, PrefixOf
      <4> QED BY <2>1, <3>1, <4>1
    <3>3. Len(c.host) <= Len(h) /\ c.host = SubSeq(h, 1, Len(c.host)) /\ Len(c.host) \in Nat
      BY <2>2, <3>1, <3>2, PrefixMeans, LenProperties
    <3>4. Len(c.host) \in 0..Len(h)
      BY <3>1, <3>3
    <3> DEFINE begin(l) == SubSeq(h, 1, l)
    <3>5. Prefixes(h) = {begin(l) : l \in 0..Len(h)} /\ begin(Len(c.host)) = c.host
      BY <3>3 DEF Prefixes
    <3> HIDE DEF begin
    <3>6. c.host \in Prefixes(h)
      BY <3>4, <3>5
    <3> QED BY <2>2, <3>6, UrlDbAssumption
  <2>4. c.path \in UrlPath
    <3>1. path \in Seq(Segment) /\ path # <<>> /\ Len(path) \in Nat \ {0}
      BY UrlDbAssumption, EmptySeq
    <3>2. Len(path) # 1 => Front(path) \in UrlPath
      BY <3>1, UrlDbAssumption
    <3>3. <<Empty>> \in UrlPath
      BY UrlDbAssumption
    <3> QED BY <2>1, <3>2, <3>3
  <2>5. c \in Cookie
    BY <2>1, <2>3, <2>4 DEF Cookie
  <2> QED BY <2>5 DEF c
<1>2. ASSUME NEW c \in Received PROVE c \in Cookie
  <2>1. PICK h \in Site, path \in UrlPath, domain \in Host \cup {NULL},
             for \in UrlPath \cup {NULL}, name \in Name, expires \in Expiry :
               /\ c = urldb_parse_cookie(h, path, domain, for, name, expires)
               /\ Acceptable(c, h, path)
    BY DEF Received
  <2> QED BY <1>1, <2>1
<1> QED BY <1>2

(* A cookie is set. *)
LEMMA SetCookie ==
  ASSUME IInv, NEW c \in Received, urldb_set_cookie(c)
  PROVE  IInv'
<1> DEFINE n == Home(c)
           list == urldb_insert_cookie(cookies[n], c)
<1>1. TypeOK /\ Ordered(children) /\ Housed(children, cookies) /\ Listed(cookies)
  BY DEF IInv
<1>2. c \in Cookie /\ n \in Node /\ c.host \in Site /\ c.path \in UrlPath
  <2>1. c \in Cookie
    BY Parsed
  <2> QED BY <2>1, Homes DEF Cookie
<1>3. UNCHANGED <<now, fetched>> /\ set' = set + 1 /\ set < MaxCookies
  BY DEF urldb_set_cookie
<1>4. /\ children' \in [Node -> Seq(Segment)] /\ Ordered(children')
      /\ \A m \in Node : ToSet(children[m]) \subseteq ToSet(children'[m])
      /\ Rooted(children', n[1], n[2])
  <2>1. CASE c.domain
    <3>1. children' = children
      BY <2>1 DEF urldb_set_cookie
    <3>2. n[1] = c.host /\ n[2] = <<>>
      BY <2>1 DEF Home
    <3>3. Rooted(children', n[1], n[2])
      BY <3>2 DEF Rooted
    <3> QED BY <1>1, <3>1, <3>3 DEF TypeOK
  <2>2. CASE ~c.domain
    <3>1. children' = urldb_add_path(children, c.host, c.path)
      BY <2>2 DEF urldb_set_cookie
    <3>2. n[1] = c.host /\ n[2] = c.path
      BY <2>2 DEF Home
    <3> QED BY <1>1, <1>2, <3>1, <3>2, AddPath
  <2> QED BY <2>1, <2>2
<1>5. Housed(children', cookies)
  BY <1>1, <1>4, StaysHoused
<1>6. Belong(cookies[n], n)
  BY <1>1, <1>2 DEF Housed
<1>7. /\ Belong(list, n)
      /\ \A d : ~Expired(d) => (d \in ToSet(list) <=> d = c \/ (d \in ToSet(cookies[n]) /\ ~Same(c, d)))
  BY <1>2, <1>6, Inserted
<1> HIDE DEF list
<1>8. cookies' = [cookies EXCEPT ![n] = list] /\ list \in Seq(Cookie)
  <2>1. cookies' = [cookies EXCEPT ![n] = list]
    BY DEF urldb_set_cookie, list
  <2> QED BY <1>7, <2>1 DEF Belong
<1> HIDE DEF n
<1>9. cookies \in [Node -> Seq(Cookie)]
  BY <1>1 DEF TypeOK
<1>10. \A m \in Node : cookies'[m] = IF m = n THEN list ELSE cookies[m]
  BY <1>8, <1>9
<1>11. Housed(children', cookies')
  <2>1. ASSUME NEW m \in Node
        PROVE  Belong(cookies'[m], m) /\ (cookies'[m] # <<>> => Rooted(children', m[1], m[2]))
    BY <1>4, <1>5, <1>7, <1>10 DEF Housed
  <2> QED BY <2>1 DEF Housed
<1>12. jar' = {d \in jar : ~Same(c, d)} \cup (IF Expired(c) THEN {} ELSE {c})
  BY DEF urldb_set_cookie
<1>13. TypeOK'
  <2>1. jar' \subseteq Cookie
    BY <1>1, <1>2, <1>12 DEF TypeOK
  <2>2. cookies' \in [Node -> Seq(Cookie)]
    BY <1>8, <1>9
  <2>3. set' \in 0..MaxCookies
    BY <1>1, <1>3, UrlDbAssumption DEF TypeOK
  <2> QED BY <1>1, <1>3, <1>4, <2>1, <2>2, <2>3 DEF TypeOK
<1>14. ASSUME NEW d \in Cookie, ~Expired(d) PROVE d \in jar' <=> d \in ToSet(cookies'[Home(d)])
  <2>1. d \in jar <=> d \in ToSet(cookies[Home(d)])
    BY <1>1, <1>14 DEF Listed
  <2>2. d \in jar' <=> d = c \/ (d \in jar /\ ~Same(c, d))
    <3>1. Same(c, c)
      BY DEF Same
    <3> QED BY <1>12, <1>14, <3>1
  <2>3. Home(d) \in Node
    BY Homes
  <2>4. CASE Home(d) = n
    <3>1. cookies'[Home(d)] = list
      BY <1>10, <2>3, <2>4
    <3>2. d \in ToSet(list) <=> d = c \/ (d \in ToSet(cookies[n]) /\ ~Same(c, d))
      BY <1>7, <1>14
    <3> QED BY <2>1, <2>2, <2>4, <3>1, <3>2
  <2>5. CASE Home(d) # n
    <3>1. d # c /\ ~Same(c, d)
      BY <2>5, Homes DEF n
    <3>2. cookies'[Home(d)] = cookies[Home(d)]
      BY <1>10, <2>3, <2>5
    <3> QED BY <2>1, <2>2, <3>1, <3>2
  <2> QED BY <2>4, <2>5
<1>15. Listed(cookies)'
  BY <1>3, <1>14 DEF Listed, Expired
<1>16. Ordered(children)' /\ Housed(children, cookies)'
  BY <1>4, <1>11 DEF Ordered, Housed, Rooted, Belong
<1> QED BY <1>13, <1>15, <1>16 DEF IInv

(* A cookie is deleted. *)
LEMMA DeleteCookie ==
  ASSUME IInv, NEW m \in Node, NEW c \in ToSet(cookies[m]), urldb_delete_cookie(c)
  PROVE  IInv'
<1> DEFINE n == Home(c)
<1>1. TypeOK /\ Ordered(children) /\ Housed(children, cookies) /\ Listed(cookies)
  BY DEF IInv
<1>2. Belong(cookies[m], m)
  BY <1>1 DEF Housed
<1>3. c \in Cookie /\ n = m
  BY <1>2, SeqOfRange DEF Belong, ToSet
<1>4. PICK i \in DOMAIN cookies[n] : /\ Same(cookies[n][i], c)
                                    /\ cookies' = [cookies EXCEPT ![n] = RemoveAt(@, i)]
  BY DEF urldb_delete_cookie
<1> DEFINE list == RemoveAt(cookies[n], i)
<1>5. Belong(list, n) /\ ToSet(list) = ToSet(cookies[n]) \ {cookies[n][i]}
  BY <1>2, <1>3, OneGoes
<1>6. cookies[n][i] = c
  <2>1. cookies[n][i] \in ToSet(cookies[n]) /\ c \in ToSet(cookies[n])
    BY <1>3 DEF ToSet
  <2>2. \A a, b \in ToSet(cookies[n]) : Same(a, b) => a = b
    BY <1>2, <1>3 DEF Belong
  <2> QED BY <1>4, <2>1, <2>2
<1> HIDE DEF n
<1>7. cookies \in [Node -> Seq(Cookie)]
  BY <1>1 DEF TypeOK
<1>8. cookies' = [cookies EXCEPT ![n] = list]
  BY <1>4
<1> HIDE DEF list
<1>9. /\ \A l \in Node : cookies'[l] = IF l = n THEN list ELSE cookies[l]
      /\ cookies' \in [Node -> Seq(Cookie)]
  <2>1. list \in Seq(Cookie)
    BY <1>5 DEF Belong
  <2> QED BY <1>7, <1>8, <2>1
<1>10. UNCHANGED <<children, now, set, fetched>> /\ jar' = {d \in jar : ~Same(c, d)}
  BY DEF urldb_delete_cookie
<1>11. ASSUME NEW l \in Node
       PROVE  Belong(cookies'[l], l) /\ (cookies'[l] # <<>> => Rooted(children, l[1], l[2]))
  <2>1. Belong(cookies[l], l) /\ (cookies[l] # <<>> => Rooted(children, l[1], l[2]))
    BY <1>1 DEF Housed
  <2>2. cookies[n] # <<>>
    BY <1>3 DEF ToSet
  <2> QED BY <1>5, <1>9, <2>1, <2>2
<1>12. Housed(children, cookies)'
  BY <1>10, <1>11 DEF Housed, Rooted, Belong
<1>13. \A d \in Cookie : d \in ToSet(cookies[n]) => (Same(c, d) <=> d = c)
  <2>1. \A a, b \in ToSet(cookies[n]) : Same(a, b) => a = b
    BY <1>2, <1>3 DEF Belong
  <2>2. Same(c, c)
    BY DEF Same
  <2> QED BY <1>3, <2>1, <2>2
<1>14. ASSUME NEW d \in Cookie, ~Expired(d) PROVE d \in jar' <=> d \in ToSet(cookies'[Home(d)])
  <2>1. d \in jar <=> d \in ToSet(cookies[Home(d)])
    BY <1>1, <1>14 DEF Listed
  <2>2. Home(d) \in Node /\ (Same(c, d) => Home(d) = n)
    BY Homes DEF n
  <2>3. CASE Home(d) = n
    <3>1. d \in ToSet(cookies'[Home(d)]) <=> d \in ToSet(cookies[n]) /\ d # c
      BY <1>5, <1>6, <1>9, <2>2, <2>3
    <3> QED BY <1>10, <1>13, <2>1, <2>3, <3>1
  <2>4. CASE Home(d) # n
    BY <1>9, <1>10, <2>1, <2>2, <2>4
  <2> QED BY <2>3, <2>4
<1>15. Listed(cookies)'
  BY <1>10, <1>14 DEF Listed, Expired
<1>16. Ordered(children)'
  BY <1>1, <1>10 DEF Ordered
<1>17. TypeOK'
  BY <1>1, <1>9, <1>10 DEF TypeOK
<1> QED BY <1>12, <1>15, <1>16, <1>17 DEF IInv

(* The session ends and another begins: what is saved comes back with the    *)
(* paths that lead to it.                                                     *)
LEMMA Restarts ==
  ASSUME IInv, Restart
  PROVE  IInv'
<1> DEFINE saved == [n \in Node |-> urldb_save_cookies(cookies[n])]
           stay == {c \in Cookie : c.expires # -1 /\ ~Expired(c)}
           homes == {n \in Node : n[2] # <<>> /\ cookies[n] # <<>> /\ saved[n] # <<>>}
           back(kept) == UNION {{m[1]} \X Prefixes(m[2]) : m \in kept \cup homes}
           some(kept, n) == {s \in ToSet(children[n]) : <<n[1], Append(n[2], s)>> \in back(kept)}
<1>1. TypeOK /\ Ordered(children) /\ Housed(children, cookies) /\ Listed(cookies)
  BY DEF IInv
<1>2. PICK kept \in urldb_save : children' = [n \in Node |-> Sublist(children[n], some(kept, n))]
  BY DEF Restart
<1>3. cookies' = saved /\ UNCHANGED <<now, set, fetched>>
      /\ jar' = {c \in jar : c.expires # -1 /\ ~Expired(c)}
  BY DEF Restart
<1>4. ASSUME NEW n \in Node
      PROVE  Belong(cookies'[n], n) /\ ToSet(cookies'[n]) = ToSet(cookies[n]) \cap stay
  <2> DEFINE S == {c \in ToSet(cookies[n]) : c.expires # -1 /\ ~Expired(c)}
  <2>1. cookies'[n] = Sublist(cookies[n], S)
    BY <1>3 DEF urldb_save_cookies
  <2>2. Belong(cookies[n], n)
    BY <1>1 DEF Housed
  <2>3. Belong(Sublist(cookies[n], S), n) /\ ToSet(Sublist(cookies[n], S)) = ToSet(cookies[n]) \cap S
    BY <2>2, SomeBelong
  <2>4. ToSet(cookies[n]) \subseteq Cookie
    BY <2>2 DEF Belong, ToSet
  <2> QED BY <2>1, <2>3, <2>4
<1>5. ASSUME NEW n \in Node
      PROVE  /\ children'[n] \in Seq(Segment) /\ Sorted(children'[n])
             /\ ToSet(children'[n]) = some(kept, n)
  <2> DEFINE S == some(kept, n)
  <2>1. children'[n] = Sublist(children[n], S)
    BY <1>2
  <2>2. children[n] \in Seq(Segment) /\ Sorted(children[n])
    BY <1>1 DEF Ordered
  <2>3. S \subseteq ToSet(children[n])
    OBVIOUS
  <2> HIDE DEF S
  <2>4. Sublist(children[n], S) \in Seq(Segment) /\ ToSet(Sublist(children[n], S)) = ToSet(children[n]) \cap S
    BY <2>2, SublistProperties
  <2>5. Sorted(Sublist(children[n], S))
    BY <2>2, SublistSorted
  <2>6. ToSet(children'[n]) = S
    BY <2>1, <2>3, <2>4
  <2> QED BY <2>1, <2>4, <2>5, <2>6 DEF S
<1>6. Ordered(children')
  <2>1. ASSUME NEW n \in Node, NEW s \in ToSet(children'[n]) PROVE Append(n[2], s) \in Path
    <3>1. s \in ToSet(children[n])
      BY <1>5
    <3> QED BY <1>1, <3>1 DEF Ordered
  <2> QED BY <1>5, <2>1 DEF Ordered
<1>7. ASSUME NEW n \in Node, cookies'[n] # <<>> PROVE Rooted(children', n[1], n[2])
  <2> DEFINE h == n[1]
             p == n[2]
  <2>1. n = <<h, p>> /\ h \in Site /\ p \in Path /\ p \in Seq(Segment) /\ Len(p) \in Nat
    BY Nodes, Paths, LenProperties
  <2>2. CASE p = <<>>
    BY <2>2 DEF Rooted
  <2>3. CASE p # <<>>
    <3>1. cookies[n] # <<>>
      <4>1. SUFFICES ASSUME cookies[n] = <<>> PROVE FALSE
        OBVIOUS
      <4>2. ToSet(cookies'[n]) = {}
        BY <1>4, <4>1 DEF ToSet
      <4>3. cookies'[n] \in Seq(Cookie)
        BY <1>4 DEF Belong
      <4> QED BY <1>7, <4>2, <4>3, SomeMember
    <3>2. n \in homes
      BY <1>3, <1>7, <2>3, <3>1
    <3>3. Rooted(children, h, p)
      BY <1>1, <3>1 DEF Housed
    <3>4. ASSUME NEW k \in 1..Len(p) PROVE p[k] \in ToSet(children'[<<h, SubSeq(p, 1, k - 1)>>])
      <4> DEFINE m == <<h, SubSeq(p, 1, k - 1)>>
                 begin(l) == SubSeq(p, 1, l)
      <4>1. k - 1 \in 0..Len(p) /\ k \in 0..Len(p)
        BY <2>1
      <4>2. m \in Node /\ m[1] = h /\ m[2] = SubSeq(p, 1, k - 1)
        BY <2>1, <4>1, Nodes
      <4>3. p[k] \in ToSet(children[m])
        BY <3>3 DEF Rooted
      <4>4. Append(m[2], p[k]) = begin(k)
        BY <2>1, <4>2, NextPrefix
      <4>5. begin(k) \in Prefixes(p)
        <5>1. Prefixes(p) = {begin(l) : l \in 0..Len(p)}
          BY DEF Prefixes
        <5> HIDE DEF begin
        <5> QED BY <4>1, <5>1
      <4> HIDE DEF m, begin, homes
      <4>6. <<h, begin(k)>> \in {n[1]} \X Prefixes(n[2])
        BY <4>5
      <4>7. <<m[1], Append(m[2], p[k])>> \in back(kept)
        BY <3>2, <4>2, <4>4, <4>6
      <4>8. p[k] \in some(kept, m)
        BY <4>3, <4>7
      <4> HIDE DEF some
      <4>9. p[k] \in ToSet(children'[m])
        BY <1>5, <4>2, <4>8
      <4> QED BY <4>9 DEF m
    <3> QED BY <3>4 DEF Rooted
  <2> QED BY <2>2, <2>3
<1>8. Housed(children', cookies')
  BY <1>4, <1>7 DEF Housed
<1>9. ASSUME NEW d \in Cookie, ~Expired(d) PROVE d \in jar' <=> d \in ToSet(cookies'[Home(d)])
  <2>1. d \in jar <=> d \in ToSet(cookies[Home(d)])
    BY <1>1, <1>9 DEF Listed
  <2>2. ToSet(cookies'[Home(d)]) = ToSet(cookies[Home(d)]) \cap stay
    BY <1>4, Homes
  <2> QED BY <1>3, <2>1, <2>2
<1>10. Listed(cookies)'
  BY <1>3, <1>9 DEF Listed, Expired
<1>11. TypeOK'
  <2>1. children' \in [Node -> Seq(Segment)]
    BY <1>2, <1>5
  <2>2. cookies' \in [Node -> Seq(Cookie)]
    BY <1>3, <1>4 DEF Belong
  <2>3. jar' \subseteq Cookie
    BY <1>1, <1>3 DEF TypeOK
  <2> QED BY <1>1, <1>3, <2>1, <2>2, <2>3 DEF TypeOK
<1>12. Ordered(children)' /\ Housed(children, cookies)'
  BY <1>6, <1>8 DEF Ordered, Housed, Rooted, Belong
<1> QED BY <1>10, <1>11, <1>12 DEF IInv

(* Time passes: what had expired has expired still. *)
LEMMA Ticks ==
  ASSUME IInv, Tick
  PROVE  IInv'
<1>1. TypeOK /\ Ordered(children) /\ Housed(children, cookies) /\ Listed(cookies)
  BY DEF IInv
<1>2. now' = now + 1 /\ now < MaxTime /\ UNCHANGED <<children, cookies, jar, set, fetched>>
  BY DEF Tick
<1>3. now \in Nat /\ now' \in 1..MaxTime
  BY <1>1, <1>2, UrlDbAssumption DEF TypeOK
<1>4. TypeOK'
  BY <1>1, <1>2, <1>3 DEF TypeOK
<1>5. \A c \in Cookie : Expired(c) => Expired(c)'
  <2> SUFFICES ASSUME NEW c \in Cookie, Expired(c) PROVE Expired(c)'
    OBVIOUS
  <2>1. c.expires \in Int
    BY UrlDbAssumption DEF Cookie
  <2> QED BY <1>2, <1>3, <2>1 DEF Expired
<1>6. Listed(cookies)'
  BY <1>1, <1>2, <1>5 DEF Listed
<1>7. Ordered(children)' /\ Housed(children, cookies)'
  BY <1>1, <1>2 DEF Ordered, Housed, Rooted, Belong
<1> QED BY <1>4, <1>6, <1>7 DEF IInv

LEMMA Keeps == IInv /\ [Next]_vars => IInv'
<1> SUFFICES ASSUME IInv, [Next]_vars PROVE IInv'
  OBVIOUS
<1>1. CASE Next
  <2>1. CASE \E h \in Site, path \in UrlPath : urldb_add_url(h, path)
    BY <2>1, AddUrl
  <2>2. CASE \E c \in Received : urldb_set_cookie(c)
    BY <2>2, SetCookie
  <2>3. CASE \E c \in UNION {ToSet(cookies[n]) : n \in Node} : urldb_delete_cookie(c)
    BY <2>3, DeleteCookie
  <2>4. CASE Restart
    BY <2>4, Restarts
  <2>5. CASE Tick
    BY <2>5, Ticks
  <2> QED BY <1>1, <2>1, <2>2, <2>3, <2>4, <2>5 DEF Next
<1>2. CASE UNCHANGED vars
  BY <1>2 DEF vars, IInv, TypeOK, Ordered, Housed, Rooted, Belong, Listed, Expired
<1> QED BY <1>1, <1>2

-----------------------------------------------------------------------------
(* What a fetch sends.                                                        *)

(* The cookies of a node that have not expired. *)
Live(n) == {c \in jar : ~Expired(c) /\ Home(c) = n}

LEMMA LiveOnes ==
  ASSUME IInv, NEW n \in Node, NEW path
  PROVE  /\ Unexpired(cookies[n]) \in Seq(Cookie) /\ Injective(Unexpired(cookies[n]))
         /\ ToSet(Unexpired(cookies[n])) = Live(n)
         /\ Matching(cookies[n], path) \in Seq(Cookie) /\ Injective(Matching(cookies[n], path))
         /\ ToSet(Matching(cookies[n], path)) = {c \in Live(n) : Begins(path, c.path)}
<1>1. Belong(cookies[n], n) /\ jar \subseteq Cookie
  BY DEF IInv, Housed, TypeOK
<1>2. Live(n) = {c \in ToSet(cookies[n]) : ~Expired(c)}
  <2>1. \A c \in Cookie : ~Expired(c) => (c \in jar <=> c \in ToSet(cookies[Home(c)]))
    BY DEF IInv, Listed
  <2>2. \A c \in ToSet(cookies[n]) : c \in Cookie /\ Home(c) = n
    BY <1>1 DEF Belong, ToSet
  <2> QED BY <1>1, <2>1, <2>2 DEF Live
<1> DEFINE S == {c \in ToSet(cookies[n]) : ~Expired(c)}
           T == {c \in ToSet(cookies[n]) : ~Expired(c) /\ Begins(path, c.path)}
<1>3. Unexpired(cookies[n]) = Sublist(cookies[n], S) /\ Matching(cookies[n], path) = Sublist(cookies[n], T)
  BY DEF Unexpired, Matching
<1>4. /\ ToSet(cookies[n]) \cap S = Live(n)
      /\ ToSet(cookies[n]) \cap T = {c \in Live(n) : Begins(path, c.path)}
  BY <1>2
<1> HIDE DEF S, T
<1>5. /\ Belong(Sublist(cookies[n], S), n) /\ ToSet(Sublist(cookies[n], S)) = ToSet(cookies[n]) \cap S
      /\ Belong(Sublist(cookies[n], T), n) /\ ToSet(Sublist(cookies[n], T)) = ToSet(cookies[n]) \cap T
  BY <1>1, SomeBelong
<1> QED BY <1>3, <1>4, <1>5 DEF Belong

(* The parts of what is sent: for the path itself, for a directory above it,  *)
(* for a domain.                                                              *)
Exactly(h, path) == IF Last(path) # Empty THEN Unexpired(cookies[<<h, path>>]) ELSE <<>>
Above(h, path, i) ==
  Passed(urldb_add_path(children, h, path), h, SubSeq(path, 1, Len(path) - i), path)
ForDomain(h, path, i) == Matching(cookies[<<SubSeq(h, 1, Len(h) - i + 1), <<>> >>], path)

(* A domain that a host is in. *)
LEMMA Domains ==
  ASSUME NEW h \in Site, NEW i \in 1..(Len(h) - 1)
  PROVE  /\ SubSeq(h, 1, Len(h) - i + 1) \in Site
         /\ Len(SubSeq(h, 1, Len(h) - i + 1)) = Len(h) - i + 1
         /\ IsPrefix(SubSeq(h, 1, Len(h) - i + 1), h)
<1>1. h \in Seq(STRING) /\ Len(h) \in Nat
  BY UrlDbAssumption, LenProperties
<1> DEFINE k == Len(h) - i + 1
           g == SubSeq(h, 1, k)
           begin(l) == SubSeq(h, 1, l)
<1>2. k \in 0..Len(h) /\ k >= 2
  BY <1>1
<1> HIDE DEF k
<1>3. g \in Seq(STRING) /\ Len(g) = k
  BY <1>1, <1>2, PrefixOf
<1>4. Prefixes(h) = {begin(l) : l \in 0..Len(h)} /\ g = begin(k)
  BY DEF Prefixes
<1> HIDE DEF begin
<1>5. g \in Prefixes(h)
  BY <1>2, <1>4
<1>6. g \in Site
  BY <1>2, <1>3, <1>5, UrlDbAssumption
<1>7. Len(g) <= Len(h) /\ g = SubSeq(h, 1, Len(g))
  BY <1>1, <1>2, <1>3
<1> HIDE DEF g
<1>8. IsPrefix(g, h)
  BY <1>1, <1>3, <1>7, PrefixMeans
<1> QED BY <1>3, <1>6, <1>8 DEF g, k

(* Paths that are the same with a segment added are the same. *)
LEMMA SameFront ==
  ASSUME NEW S, NEW s \in Seq(S), NEW t \in Seq(S), NEW e \in S, Append(s, e) = Append(t, e)
  PROVE  s = t
<1> DEFINE u == Append(s, e)
           v == Append(t, e)
<1>1. /\ Len(u) = Len(s) + 1 /\ \A i \in 1..Len(s) : u[i] = s[i]
      /\ Len(v) = Len(t) + 1 /\ \A i \in 1..Len(t) : v[i] = t[i]
  BY AppendProperties
<1>2. u = v
  OBVIOUS
<1> HIDE DEF u, v
<1>3. Len(s) = Len(t) /\ \A i \in 1..Len(s) : s[i] = t[i]
  <2>1. Len(s) \in Nat /\ Len(t) \in Nat
    BY LenProperties
  <2> QED BY <1>1, <1>2, <2>1
<1> QED BY <1>3, SeqEqual

(* A directory above a path. *)
LEMMA Directories ==
  ASSUME NEW path \in UrlPath, NEW i \in 1..Len(path), NEW q, q = SubSeq(path, 1, Len(path) - i)
  PROVE  /\ q \in Path /\ q \in Seq(Segment) /\ Len(q) = Len(path) - i /\ IsStrictPrefix(q, path)
         /\ Append(q, Empty) # q
         /\ Append(q, Empty) # <<>> /\ Last(Append(q, Empty)) = Empty /\ Front(Append(q, Empty)) = q
<1>1. path \in Seq(Segment) /\ path \in Path /\ Len(path) \in Nat
  BY Paths, LenProperties
<1>2. Len(path) - i \in 0..Len(path)
  BY <1>1
<1>3. /\ q \in Path /\ q \in Seq(Segment) /\ Len(q) = Len(path) - i
      /\ \A j \in 1..(Len(path) - i) : q[j] = path[j]
  <2>1. \A k \in 0..Len(path) : /\ SubSeq(path, 1, k) \in Seq(Segment) /\ Len(SubSeq(path, 1, k)) = k
                               /\ \A j \in 1..k : SubSeq(path, 1, k)[j] = path[j]
    BY <1>1, PrefixOf
  <2> QED BY <1>1, <1>2, <2>1, Paths
<1>4. IsStrictPrefix(q, path)
  <2>1. path \in Seq(Segment) /\ q \in Seq(Segment)
    BY <1>1, <1>3
  <2>2. Len(q) < Len(path) /\ q = SubSeq(path, 1, Len(q))
    BY <1>1, <1>3
  <2> QED BY <2>1, <2>2, PrefixMeans
<1> DEFINE r == Append(q, Empty)
<1>6. Empty \in Segment
  BY UrlDbAssumption
<1>7. r \in Seq(Segment) /\ r # <<>> /\ Len(r) = Len(q) + 1 /\ r[Len(q) + 1] = Empty
  <2>1. q \in Seq(Segment)
    BY <1>3
  <2> QED BY <1>6, <2>1, AppendProperties, SMTT(30)
<1> HIDE DEF r
<1>5. r # q
  <2>1. Len(q) \in Nat
    BY <1>3, LenProperties
  <2>2. Len(r) # Len(q)
    BY <1>7, <2>1
  <2> QED BY <2>2
<1>8. Last(r) = Empty /\ Last(r) \in Segment /\ Front(r) \in Seq(Segment) /\ Append(Front(r), Last(r)) = r
  BY <1>3, <1>7, FrontLast
<1>9. Front(r) = q
  <2> DEFINE f == Front(r)
  <2>1. f \in Seq(Segment) /\ Append(f, Empty) = Append(q, Empty)
    BY <1>8 DEF r
  <2> HIDE DEF f
  <2>2. q \in Seq(Segment)
    BY <1>3
  <2>3. f = q
    BY <1>6, <2>1, <2>2, SameFront
  <2> QED BY <2>3 DEF f
<1> QED BY <1>3, <1>4, <1>5, <1>7, <1>8, <1>9 DEF r

(* The parts are lists without repetition, of the cookies of their nodes. *)
LEMMA PartExactly ==
  ASSUME IInv, NEW h \in Site, NEW path \in UrlPath
  PROVE  /\ Exactly(h, path) \in Seq(Cookie) /\ Injective(Exactly(h, path))
         /\ \A c : c \in ToSet(Exactly(h, path)) <=> c \in Live(<<h, path>>) /\ Last(path) # Empty
<1>1. <<>> \in Seq(Cookie) /\ Injective(<<>>) /\ ToSet(<<>>) = {}
  BY DEF Injective, ToSet
<1> DEFINE n == <<h, path>>
<1>2. n \in Node
  BY Paths DEF Node
<1>3. /\ Unexpired(cookies[n]) \in Seq(Cookie) /\ Injective(Unexpired(cookies[n]))
      /\ ToSet(Unexpired(cookies[n])) = Live(n)
  BY <1>2, LiveOnes
<1>4. Exactly(h, path) = IF Last(path) # Empty THEN Unexpired(cookies[n]) ELSE <<>>
  BY DEF Exactly
<1> HIDE DEF n
<1>5. /\ Exactly(h, path) \in Seq(Cookie) /\ Injective(Exactly(h, path))
      /\ \A c : c \in ToSet(Exactly(h, path)) <=> c \in Live(n) /\ Last(path) # Empty
  BY <1>1, <1>3, <1>4
<1> QED BY <1>5 DEF n

LEMMA PartDomain ==
  ASSUME IInv, NEW h \in Site, NEW path, NEW i \in 1..(Len(h) - 1),
         NEW g, g = SubSeq(h, 1, Len(h) - i + 1)
  PROVE  /\ ForDomain(h, path, i) \in Seq(Cookie) /\ Injective(ForDomain(h, path, i))
         /\ \A c : c \in ToSet(ForDomain(h, path, i)) <=> c \in Live(<<g, <<>> >>) /\ Begins(path, c.path)
<1> DEFINE n == <<g, <<>> >>
<1>1. n \in Node
  BY Domains, Paths DEF Node
<1>2. ForDomain(h, path, i) = Matching(cookies[n], path)
  BY DEF ForDomain
<1> HIDE DEF n
<1>3. /\ Matching(cookies[n], path) \in Seq(Cookie) /\ Injective(Matching(cookies[n], path))
      /\ ToSet(Matching(cookies[n], path)) = {c \in Live(n) : Begins(path, c.path)}
  BY <1>1, LiveOnes
<1> QED BY <1>2, <1>3 DEF n

LEMMA PartsAbove ==
  ASSUME IInv, NEW h \in Site, NEW path \in UrlPath, NEW i \in 1..Len(path),
         NEW q, q = SubSeq(path, 1, Len(path) - i)
  PROVE  /\ Above(h, path, i) \in Seq(Cookie) /\ Injective(Above(h, path, i))
         /\ \A c : c \in ToSet(Above(h, path, i)) <=>
              \/ /\ c \in Live(<<h, Append(q, Empty)>>)
                 /\ Empty \in ToSet(urldb_add_path(children, h, path)[<<h, q>>])
              \/ c \in Live(<<h, q>>) /\ q # <<>> /\ Begins(path, c.path)
<1> DEFINE tree == urldb_add_path(children, h, path)
           n == <<h, q>>
           m == <<h, Append(q, Empty)>>
           a == IF Empty \in ToSet(tree[n]) THEN Unexpired(cookies[m]) ELSE <<>>
           b == IF q = <<>> THEN <<>> ELSE Matching(cookies[n], path)
<1>1. <<>> \in Seq(Cookie) /\ Injective(<<>>) /\ ToSet(<<>>) = {}
  BY DEF Injective, ToSet
<1>2. /\ q \in Path /\ q \in Seq(Segment) /\ Append(q, Empty) # q
      /\ Last(Append(q, Empty)) = Empty /\ Append(q, Empty) # <<>>
  BY Directories
<1>3. n \in Node /\ n[2] = q /\ n # m
  BY <1>2 DEF Node
<1>4. Ordered(tree)
  BY AddPath DEF IInv
<1>5. Empty \in ToSet(tree[n]) => m \in Node
  <2>1. Empty \in ToSet(tree[n]) => Append(n[2], Empty) \in Path
    BY <1>3, <1>4 DEF Ordered
  <2> QED BY <1>3, <2>1 DEF Node
<1>6. Above(h, path, i) = a \o b
  BY DEF Above, Passed
<1>7. Live(n) \cap Live(m) = {}
  BY <1>3 DEF Live
<1> HIDE DEF tree, m, n
<1>8. a \in Seq(Cookie) /\ Injective(a) /\ ToSet(a) = {c \in Live(m) : Empty \in ToSet(tree[n])}
  <2>1. CASE Empty \in ToSet(tree[n])
    <3>1. /\ Unexpired(cookies[m]) \in Seq(Cookie) /\ Injective(Unexpired(cookies[m]))
          /\ ToSet(Unexpired(cookies[m])) = Live(m)
      BY <1>5, <2>1, LiveOnes
    <3> QED BY <2>1, <3>1
  <2>2. CASE Empty \notin ToSet(tree[n])
    BY <1>1, <2>2
  <2> QED BY <2>1, <2>2
<1>9. b \in Seq(Cookie) /\ Injective(b) /\ ToSet(b) = {c \in Live(n) : q # <<>> /\ Begins(path, c.path)}
  <2>1. CASE q # <<>>
    <3>1. /\ Matching(cookies[n], path) \in Seq(Cookie) /\ Injective(Matching(cookies[n], path))
          /\ ToSet(Matching(cookies[n], path)) = {c \in Live(n) : Begins(path, c.path)}
      BY <1>3, LiveOnes
    <3> QED BY <2>1, <3>1
  <2>2. CASE q = <<>>
    BY <1>1, <2>2
  <2> QED BY <2>1, <2>2
<1> HIDE DEF a, b
<1>10. ToSet(a) \cap ToSet(b) = {}
  BY <1>7, <1>8, <1>9
<1>11. a \o b \in Seq(Cookie) /\ Injective(a \o b) /\ ToSet(a \o b) = ToSet(a) \cup ToSet(b)
  BY <1>8, <1>9, <1>10, ConcatSets
<1> QED BY <1>6, <1>8, <1>9, <1>11 DEF tree, m, n

(* The lists, one after the other. *)
LEMMA SentParts ==
  ASSUME IInv, NEW h \in Site, NEW path \in UrlPath
  PROVE  /\ DOMAIN urldb_get_cookie(h, path) = 1..(Len(path) + Len(h))
         /\ urldb_get_cookie(h, path)[1] = Exactly(h, path)
         /\ \A i \in 1..Len(path) : urldb_get_cookie(h, path)[i + 1] = Above(h, path, i)
         /\ \A i \in 1..(Len(h) - 1) :
              urldb_get_cookie(h, path)[Len(path) + 1 + i] = ForDomain(h, path, i)
<1> DEFINE L == Seq(Cookie)
           tree == urldb_add_path(children, h, path)
           exact == <<Exactly(h, path)>>
           above == [i \in 1..Len(path) |-> Above(h, path, i)]
           domains == [i \in 1..(Len(h) - 1) |-> ForDomain(h, path, i)]
           sent == (exact \o above) \o domains
<1>1. path \in Path /\ Len(path) \in Nat /\ h \in Seq(STRING) /\ Len(h) \in Nat \ {0}
  <2>1. path \in Path /\ path \in Seq(Segment) /\ h \in Seq(STRING)
    BY Paths, UrlDbAssumption
  <2>2. Len(path) \in Nat /\ Len(h) \in Nat
    BY <2>1, LenProperties
  <2>3. Len(h) >= 2
    <3> DEFINE begin(l) == SubSeq(h, 1, l)
    <3>1. Prefixes(h) = {begin(l) : l \in 0..Len(h)} /\ begin(Len(h)) = h
      BY <2>1, SubSeqFull DEF Prefixes
    <3> HIDE DEF begin
    <3>2. h \in Prefixes(h)
      BY <2>2, <3>1
    <3> QED BY <3>2, UrlDbAssumption
  <2> QED BY <2>1, <2>2, <2>3
<1>2. urldb_match_path(tree, h, path) = path
  <2>1. Ordered(tree) /\ Rooted(tree, h, path)
    BY AddPath DEF IInv
  <2> HIDE DEF tree
  <2> QED BY <1>1, <2>1, MatchPath
<1>3. urldb_get_cookie(h, path) = sent
  BY <1>2 DEF urldb_get_cookie, Exactly, Above, ForDomain
<1>4. exact \in Seq(L) /\ Len(exact) = 1 /\ exact[1] = Exactly(h, path)
  <2>1. Exactly(h, path) \in L
    BY PartExactly
  <2> HIDE DEF L
  <2> QED BY <2>1
<1>5. above \in Seq(L) /\ Len(above) = Len(path) /\ \A i \in 1..Len(path) : above[i] = Above(h, path, i)
  <2>1. \A i \in 1..Len(path) : Above(h, path, i) \in L
    BY PartsAbove
  <2> HIDE DEF L
  <2> QED BY <1>1, <2>1
<1>6. domains \in Seq(L) /\ Len(domains) = Len(h) - 1
      /\ \A i \in 1..(Len(h) - 1) : domains[i] = ForDomain(h, path, i)
  <2>1. \A i \in 1..(Len(h) - 1) : ForDomain(h, path, i) \in L
    BY PartDomain
  <2> HIDE DEF L
  <2>2. Len(h) - 1 \in Nat
    BY <1>1
  <2> QED BY <2>1, <2>2
<1> HIDE DEF L, exact, above, domains
<1> DEFINE both == exact \o above
<1>7. /\ both \in Seq(L) /\ Len(both) = 1 + Len(path) /\ both[1] = Exactly(h, path)
      /\ \A i \in 1..Len(path) : both[i + 1] = Above(h, path, i)
  <2>1. /\ both \in Seq(L) /\ Len(both) = Len(exact) + Len(above)
        /\ \A k \in 1..(Len(exact) + Len(above)) :
             both[k] = IF k <= Len(exact) THEN exact[k] ELSE above[k - Len(exact)]
    <3>1. exact \in Seq(L) /\ above \in Seq(L)
      BY <1>4, <1>5
    <3> QED BY <3>1, ConcatProperties
  <2> HIDE DEF both
  <2>2. both[1] = Exactly(h, path)
    BY <1>1, <1>4, <1>5, <2>1
  <2>3. ASSUME NEW i \in 1..Len(path) PROVE both[i + 1] = Above(h, path, i)
    <3>1. i + 1 \in 1..(1 + Len(path)) /\ ~(i + 1 <= 1) /\ i + 1 - 1 = i
      BY <1>1
    <3>2. both[i + 1] = above[i + 1 - 1]
      BY <1>4, <1>5, <2>1, <3>1
    <3> QED BY <1>5, <3>1, <3>2
  <2> QED BY <1>4, <1>5, <2>1, <2>2, <2>3
<1>8. /\ sent \in Seq(L) /\ Len(sent) = Len(both) + Len(domains)
      /\ \A k \in 1..(Len(both) + Len(domains)) :
           sent[k] = IF k <= Len(both) THEN both[k] ELSE domains[k - Len(both)]
  <2>1. both \in Seq(L) /\ domains \in Seq(L)
    BY <1>6, <1>7
  <2>2. sent = both \o domains
    OBVIOUS
  <2> HIDE DEF both, sent
  <2> QED BY <2>1, <2>2, ConcatProperties
<1> HIDE DEF both, sent
<1>9. Len(both) + Len(domains) = Len(path) + Len(h)
  BY <1>1, <1>6, <1>7
<1>10. DOMAIN sent = 1..(Len(path) + Len(h))
  BY <1>8, <1>9, LenProperties
<1>11. sent[1] = Exactly(h, path)
  BY <1>1, <1>7, <1>8, <1>9
<1>12. ASSUME NEW i \in 1..Len(path) PROVE sent[i + 1] = Above(h, path, i)
  <2>1. i + 1 \in 1..(Len(path) + Len(h)) /\ i + 1 <= 1 + Len(path)
    BY <1>1
  <2>2. sent[i + 1] = both[i + 1]
    BY <1>7, <1>8, <1>9, <2>1
  <2> QED BY <1>7, <2>2
<1>13. ASSUME NEW i \in 1..(Len(h) - 1) PROVE sent[Len(path) + 1 + i] = ForDomain(h, path, i)
  <2> DEFINE k == Len(path) + 1 + i
  <2>1. k \in 1..(Len(path) + Len(h)) /\ ~(k <= 1 + Len(path)) /\ k - (1 + Len(path)) = i
    BY <1>1
  <2> HIDE DEF k
  <2>2. sent[k] = domains[k - (1 + Len(path))]
    BY <1>7, <1>8, <1>9, <2>1
  <2>3. sent[k] = ForDomain(h, path, i)
    BY <1>6, <2>1, <2>2
  <2> QED BY <2>3 DEF k
<1> QED BY <1>3, <1>10, <1>11, <1>12, <1>13

(* The list a cookie is in, if it applies, or the second of two. *)
Dir(c) == IF Last(c.path) = Empty THEN Front(c.path) ELSE c.path
Which(c, h, path) ==
  IF c.domain THEN Len(path) + 1 + (Len(h) - Len(c.host) + 1)
  ELSE IF c.path = path /\ Last(path) # Empty THEN 1
  ELSE Len(path) - Len(Dir(c)) + 1

(* What is sent applies, and there is one list that it can be in, or that and *)
(* the one before if it is sent twice.                                        *)
LEMMA SentApplies ==
  ASSUME IInv, NEW h \in Site, NEW path \in UrlPath,
         NEW i \in 1..(Len(path) + Len(h)), NEW c \in ToSet(urldb_get_cookie(h, path)[i])
  PROVE  /\ c \in jar /\ ~Expired(c) /\ Applies(c, h, path)
         /\ i = Which(c, h, path) \/ (Twice(c, path) /\ i + 1 = Which(c, h, path))
<1> DEFINE sent == urldb_get_cookie(h, path)
           P == Len(path)
           H == Len(h)
<1>1. P \in Nat /\ H \in Nat /\ path \in Seq(Segment) /\ path # <<>>
  BY Paths, UrlDbAssumption, LenProperties
<1>2. jar \subseteq Cookie /\ \A d \in Cookie : d.path # <<>> /\ d.domain \in BOOLEAN
  BY Paths DEF IInv, TypeOK, Cookie
<1>3. ASSUME NEW g, NEW q, q # <<>>, c \in Live(<<g, q>>)
      PROVE  ~c.domain /\ c.host = g /\ c.path = q /\ c \in jar /\ ~Expired(c)
  BY <1>2, <1>3 DEF Live, Home
<1>4. ASSUME NEW g, c \in Live(<<g, <<>> >>)
      PROVE  c.domain /\ c.host = g /\ c \in jar /\ ~Expired(c)
  BY <1>2, <1>4 DEF Live, Home
<1>5. CASE i = 1
  <2>1. c \in Live(<<h, path>>) /\ Last(path) # Empty
    BY <1>5, SentParts, PartExactly
  <2>2. ~c.domain /\ c.host = h /\ c.path = path /\ c \in jar /\ ~Expired(c)
    BY <1>1, <1>3, <2>1
  <2> QED BY <1>5, <2>1, <2>2 DEF Applies, Which
<1>6. CASE i \in 2..(P + 1)
  <2> DEFINE j == i - 1
             q == SubSeq(path, 1, P - j)
  <2>2. j \in 1..P /\ i = j + 1
    BY <1>1, <1>6
  <2> HIDE DEF j
  <2>3. /\ q \in Path /\ q \in Seq(Segment) /\ Len(q) = P - j /\ IsStrictPrefix(q, path)
        /\ Append(q, Empty) # <<>> /\ Last(Append(q, Empty)) = Empty /\ Front(Append(q, Empty)) = q
    BY <2>2, Directories
  <2>4. c \in ToSet(Above(h, path, j))
    BY <2>2, SentParts
  <2>5. \/ c \in Live(<<h, Append(q, Empty)>>)
        \/ c \in Live(<<h, q>>) /\ q # <<>>
    BY <2>2, <2>4, PartsAbove
  <2> HIDE DEF q
  <2>6. CASE c \in Live(<<h, Append(q, Empty)>>)
    <3>1. ~c.domain /\ c.host = h /\ c.path = Append(q, Empty) /\ c \in jar /\ ~Expired(c)
      BY <1>3, <2>3, <2>6
    <3>2. Dir(c) = q
      BY <2>3, <3>1 DEF Dir
    <3>3. ~(c.path = path /\ Last(path) # Empty)
      BY <2>3, <3>1
    <3>4. P - Len(Dir(c)) + 1 = i
      <4>1. Len(q) = P - j
        BY <2>3
      <4> QED BY <1>1, <2>2, <3>2, <4>1
    <3>5. Which(c, h, path) = i
      BY <3>1, <3>3, <3>4 DEF Which
    <3> QED BY <2>3, <3>1, <3>2, <3>5 DEF Applies, Dir
  <2>7. ASSUME c \in Live(<<h, q>>), q # <<>>
        PROVE  /\ ~c.domain /\ c.host = h /\ c.path = q /\ c \in jar /\ ~Expired(c)
               /\ c.path # path /\ P - Len(q) + 1 = i
    <3>1. ~c.domain /\ c.host = h /\ c.path = q /\ c \in jar /\ ~Expired(c)
      BY <1>3, <2>7
    <3>2. c.path # path
      BY <2>3, <3>1 DEF IsStrictPrefix
    <3>3. P - Len(q) + 1 = i
      <4>1. Len(q) = P - j
        BY <2>3
      <4> QED BY <1>1, <2>2, <4>1
    <3> QED BY <3>1, <3>2, <3>3
  <2>8. CASE c \in Live(<<h, q>>) /\ q # <<>> /\ Last(q) # Empty
    <3>1. Dir(c) = q
      BY <2>7, <2>8 DEF Dir
    <3>2. Which(c, h, path) = i
      BY <2>7, <2>8, <3>1 DEF Which
    <3> QED BY <2>3, <2>7, <2>8, <3>1, <3>2 DEF Applies, Dir
  <2>9. CASE c \in Live(<<h, q>>) /\ q # <<>> /\ Last(q) = Empty
    <3> DEFINE f == Front(q)
    <3>1. Dir(c) = f
      BY <2>7, <2>9 DEF Dir
    <3>2. Twice(c, path)
      BY <2>3, <2>7, <2>9 DEF Twice
    <3>3. /\ Len(q) \in Nat \ {0} /\ f = SubSeq(q, 1, Len(q) - 1) /\ f \in Seq(Segment)
          /\ Len(f) = Len(q) - 1
      <4>1. Len(q) \in Nat \ {0} /\ f = SubSeq(q, 1, Len(q) - 1) /\ f \in Seq(Segment)
        BY <2>3, <2>9, FrontLast
      <4>2. \A k \in 0..Len(q) : Len(SubSeq(q, 1, k)) = k
        BY <2>3, PrefixOf
      <4>3. Len(q) - 1 \in 0..Len(q)
        BY <4>1
      <4>4. Len(SubSeq(q, 1, Len(q) - 1)) = Len(q) - 1
        BY <4>2, <4>3
      <4> QED BY <4>1, <4>4
    <3>4. IsStrictPrefix(f, path)
      <4>1. Len(q) < P /\ q = SubSeq(path, 1, Len(q))
        BY <1>1, <2>3, PrefixMeans
      <4>2. \A l \in 0..P : \A o \in 0..l : SubSeq(SubSeq(path, 1, l), 1, o) = SubSeq(path, 1, o)
        BY <1>1, PrefixOfPrefix
      <4> HIDE DEF f
      <4>3. Len(q) \in 0..P /\ Len(q) - 1 \in 0..Len(q) /\ Len(f) < P
        BY <1>1, <3>3, <4>1
      <4>4. f = SubSeq(path, 1, Len(f))
        BY <3>3, <4>1, <4>2, <4>3
      <4> QED BY <1>1, <3>3, <4>3, <4>4, PrefixMeans
    <3> HIDE DEF f
    <3>5. Which(c, h, path) = P - Len(f) + 1
      BY <2>7, <2>9, <3>1 DEF Which
    <3>6. i + 1 = Which(c, h, path)
      <4> DEFINE k == Len(q)
                 l == Len(f)
      <4>1. k \in Nat /\ l = k - 1 /\ P - k + 1 = i /\ Which(c, h, path) = P - l + 1
        BY <2>7, <2>9, <3>3, <3>5
      <4> HIDE DEF k, l
      <4> QED BY <1>1, <4>1
    <3>7. Applies(c, h, path)
      BY <2>7, <2>9, <3>1, <3>4 DEF Applies, Dir
    <3> QED BY <2>7, <2>9, <3>2, <3>6, <3>7
  <2> QED BY <2>5, <2>6, <2>8, <2>9
<1>7. CASE i \in (P + 2)..(P + H)
  <2> DEFINE j == i - (P + 1)
             g == SubSeq(h, 1, H - j + 1)
  <2>1. j \in 1..(H - 1) /\ i = P + 1 + j
    BY <1>1, <1>7
  <2> HIDE DEF j
  <2>2. g \in Site /\ Len(g) = H - j + 1 /\ IsPrefix(g, h)
    BY <2>1, Domains
  <2>3. c \in ToSet(ForDomain(h, path, j))
    BY <2>1, SentParts
  <2>4. c \in Live(<<g, <<>> >>) /\ Begins(path, c.path)
    BY <2>1, <2>3, PartDomain
  <2> HIDE DEF g
  <2>5. c.domain /\ c.host = g /\ c \in jar /\ ~Expired(c)
    BY <1>4, <2>4
  <2>6. H - (H - j + 1) + 1 = j
    BY <1>1, <2>1
  <2> QED BY <2>1, <2>2, <2>4, <2>5, <2>6 DEF Applies, Which
<1> QED BY <1>1, <1>5, <1>6, <1>7

(* What applies is sent. *)
LEMMA AppliesSent ==
  ASSUME IInv, NEW h \in Site, NEW path \in UrlPath,
         NEW c \in jar, ~Expired(c), Applies(c, h, path)
  PROVE  \E i \in 1..(Len(path) + Len(h)) : c \in ToSet(urldb_get_cookie(h, path)[i])
<1> DEFINE sent == urldb_get_cookie(h, path)
           P == Len(path)
           H == Len(h)
<1>1. /\ P \in Nat \ {0} /\ H \in Nat /\ path \in Seq(Segment) /\ path # <<>> /\ path \in Path
      /\ h \in Seq(STRING)
  BY Paths, UrlDbAssumption, LenProperties, EmptySeq
<1>2. /\ c \in Cookie /\ c.path \in UrlPath /\ c.path \in Seq(Segment) /\ c.path # <<>>
      /\ c.host \in Site /\ c.host \in Seq(STRING)
  BY Paths, UrlDbAssumption DEF IInv, TypeOK, Cookie
<1>3. \A n : Home(c) = n => c \in Live(n)
  BY DEF Live
<1>4. CASE c.domain
  <2> DEFINE g == c.host
             j == H - Len(g) + 1
  <2>1. IsPrefix(g, h) /\ Begins(path, c.path)
    BY <1>4 DEF Applies
  <2>2. Len(g) <= H /\ g = SubSeq(h, 1, Len(g)) /\ Len(g) \in Nat
    BY <1>1, <1>2, <2>1, PrefixMeans, LenProperties
  <2>3. Len(g) >= 2
    <3> DEFINE begin(l) == SubSeq(g, 1, l)
    <3>1. Prefixes(g) = {begin(l) : l \in 0..Len(g)} /\ begin(Len(g)) = g
      BY <1>2, SubSeqFull DEF Prefixes
    <3> HIDE DEF begin
    <3>2. g \in Prefixes(g)
      BY <2>2, <3>1
    <3> QED BY <1>2, <3>2, UrlDbAssumption
  <2>4. j \in 1..(H - 1) /\ H - j + 1 = Len(g) /\ P + 1 + j \in 1..(P + H)
    <3>1. j \in 1..(H - 1)
      BY <1>1, <2>2, <2>3
    <3>2. H - j + 1 = Len(g)
      BY <1>1, <2>2
    <3>3. P + 1 + j \in 1..(P + H)
      <4> HIDE DEF j
      <4> QED BY <1>1, <3>1
    <3> QED BY <3>1, <3>2, <3>3
  <2>5. c \in Live(<<SubSeq(h, 1, H - j + 1), <<>> >>)
    <3>1. Home(c) = <<SubSeq(h, 1, H - j + 1), <<>> >>
      BY <1>4, <2>2, <2>4 DEF Home
    <3> QED BY <1>3, <3>1
  <2> HIDE DEF j
  <2>6. c \in ToSet(ForDomain(h, path, j))
    BY <2>1, <2>4, <2>5, PartDomain
  <2>7. c \in ToSet(sent[P + 1 + j])
    BY <2>4, <2>6, SentParts
  <2> QED BY <2>4, <2>7
<1>5. CASE ~c.domain /\ c.path = path /\ Last(path) # Empty
  <2>1. Home(c) = <<h, path>>
    BY <1>5 DEF Home, Applies
  <2>2. c \in ToSet(sent[1])
    BY <1>3, <1>5, <2>1, SentParts, PartExactly
  <2> QED BY <1>1, <2>2
<1>6. CASE ~c.domain /\ ~(c.path = path /\ Last(path) # Empty)
  <2> DEFINE q == Dir(c)
             j == P - Len(q)
             n == <<h, c.path>>
  <2>1. c.host = h /\ (c.path = path \/ IsStrictPrefix(q, path))
    BY <1>6 DEF Applies, Dir
  <2>2. Home(c) = n
    BY <1>6, <2>1 DEF Home
  <2>3. /\ Len(c.path) \in Nat \ {0} /\ Front(c.path) = SubSeq(c.path, 1, Len(c.path) - 1)
        /\ Last(c.path) = c.path[Len(c.path)]
        /\ Front(c.path) \in Seq(Segment) /\ Append(Front(c.path), Last(c.path)) = c.path
    BY <1>2, FrontLast
  <2>4. Len(Front(c.path)) = Len(c.path) - 1
    <3>1. \A k \in 0..Len(c.path) : Len(SubSeq(c.path, 1, k)) = k
      BY <1>2, PrefixOf
    <3> QED BY <2>3, <3>1
  <2>5. q \in Seq(Segment) /\ Len(q) \in Nat
    BY <1>2, <2>3, LenProperties DEF Dir
  <2>6. Len(q) < P /\ q = SubSeq(path, 1, Len(q))
    <3>1. CASE c.path = path
      BY <1>6, <2>3, <2>4, <3>1 DEF Dir
    <3>2. CASE IsStrictPrefix(q, path)
      <4> HIDE DEF q
      <4> QED BY <1>1, <2>5, <3>2, PrefixMeans
    <3> QED BY <2>1, <3>1, <3>2
  <2>7. j \in 1..P /\ P - j = Len(q) /\ j + 1 \in 1..(P + H)
    <3>1. H # 0
      <4>1. Len(<<>>) = 0 /\ SubSeq(h, 1, 0) = <<>>
        BY SubSeqEmpty
      <4> DEFINE begin(l) == SubSeq(h, 1, l)
      <4>2. Prefixes(h) = {begin(l) : l \in 0..H} /\ begin(H) = h
        BY <1>1, SubSeqFull DEF Prefixes
      <4> HIDE DEF begin
      <4>3. h \in Prefixes(h)
        BY <1>1, <4>2
      <4> QED BY <4>3, UrlDbAssumption
    <3> QED BY <1>1, <2>5, <2>6, <3>1
  <2>8. q = SubSeq(path, 1, P - j)
    BY <2>6, <2>7
  <2>9. CASE Last(c.path) = Empty
    <3>1. q = Front(c.path) /\ c.path = Append(q, Empty)
      BY <2>3, <2>9 DEF Dir
    <3>2. n \in Node /\ n[1] = h /\ n[2] = c.path
      BY <1>2, Paths DEF Node
    <3>3. cookies[n] # <<>>
      <4>1. c \in ToSet(cookies[Home(c)])
        BY <1>2 DEF IInv, Listed
      <4> QED BY <2>2, <4>1 DEF ToSet
    <3>4. Rooted(children, h, c.path)
      BY <3>2, <3>3 DEF IInv, Housed
    <3>5. c.path[Len(c.path)] \in ToSet(children[<<h, SubSeq(c.path, 1, Len(c.path) - 1)>>])
      <4> DEFINE k == Len(c.path)
      <4>1. k \in 1..Len(c.path)
        BY <2>3
      <4> HIDE DEF k
      <4>2. c.path[k] \in ToSet(children[<<h, SubSeq(c.path, 1, k - 1)>>])
        BY <3>4, <4>1 DEF Rooted
      <4> QED BY <4>2 DEF k
    <3>6. Empty \in ToSet(children[<<h, q>>])
      BY <2>3, <2>9, <3>1, <3>5
    <3> HIDE DEF q, j
    <3>7. <<h, q>> \in Node
      BY <2>7, <2>8, Directories DEF Node
    <3>8. Empty \in ToSet(urldb_add_path(children, h, path)[<<h, q>>])
      BY <3>6, <3>7, AddPath DEF IInv
    <3>9. c \in Live(<<h, Append(q, Empty)>>)
      BY <1>3, <2>2, <3>1
    <3>10. c \in ToSet(Above(h, path, j))
      BY <2>7, <2>8, <3>8, <3>9, PartsAbove
    <3>11. c \in ToSet(sent[j + 1])
      BY <2>7, <3>10, SentParts
    <3> QED BY <2>7, <3>11
  <2>10. CASE Last(c.path) # Empty
    <3>1. q = c.path
      BY <2>10 DEF Dir
    <3> HIDE DEF q, j
    <3>2. c \in Live(<<h, q>>) /\ q # <<>>
      BY <1>2, <1>3, <2>2, <3>1
    <3>3. Begins(path, q)
      <4> DEFINE k == Len(q)
      <4>1. k \in Nat \ {0} /\ k \in 1..P /\ k - 1 \in 0..k /\ k \in 0..P
        BY <1>1, <2>3, <2>6, <3>1
      <4>2. Front(q) = SubSeq(q, 1, k - 1) /\ Front(q) \in Seq(Segment) /\ Len(Front(q)) = k - 1
        BY <2>3, <2>4, <3>1
      <4>3. \A l \in 0..P : \A o \in 0..l : SubSeq(SubSeq(path, 1, l), 1, o) = SubSeq(path, 1, o)
        BY <1>1, PrefixOfPrefix
      <4>4. Front(q) = SubSeq(path, 1, Len(Front(q)))
        BY <2>6, <4>1, <4>2, <4>3
      <4>5. IsPrefix(Front(q), path)
        <5>1. Len(Front(q)) <= Len(path)
          BY <1>1, <4>1, <4>2
        <5> QED BY <1>1, <4>2, <4>4, <5>1, PrefixMeans
      <4>6. q[k] = path[k] /\ path[k] \in Segment
        <5>1. \A l \in 0..P : \A o \in 1..l : SubSeq(path, 1, l)[o] = path[o]
          BY <1>1, PrefixOf
        <5>2. path[k] \in Segment
          BY <1>1, <4>1, ElementOfSeq
        <5> QED BY <2>6, <4>1, <5>1, <5>2
      <4>7. <<path[k], q[k]>> \in Longer
        BY <4>6, UrlDbAssumption
      <4> QED BY <1>1, <4>1, <4>5, <4>7 DEF Begins
    <3>4. c \in ToSet(Above(h, path, j))
      BY <2>7, <2>8, <3>1, <3>2, <3>3, PartsAbove
    <3>5. c \in ToSet(sent[j + 1])
      BY <2>7, <3>4, SentParts
    <3> QED BY <2>7, <3>5
  <2> QED BY <2>9, <2>10
<1>7. c.domain \in BOOLEAN
  BY <1>2 DEF Cookie
<1> QED BY <1>4, <1>5, <1>6, <1>7

(* What the invariant says of the cookies sent. *)
LEMMA SendsThem == IInv => SentIsRight
<1> SUFFICES ASSUME IInv, NEW h \in Site, NEW path \in UrlPath
             PROVE  LET sent == urldb_get_cookie(h, path)
                    IN  /\ \A i \in DOMAIN sent : IsInjective(sent[i])
                        /\ \A i, j \in DOMAIN sent : i < j =>
                             \A c \in ToSet(sent[i]) \cap ToSet(sent[j]) : Twice(c, path) /\ j = i + 1
                        /\ UNION {ToSet(sent[i]) : i \in DOMAIN sent}
                             = {c \in jar : Applies(c, h, path) /\ ~Expired(c)}
  BY DEF SentIsRight
<1> DEFINE sent == urldb_get_cookie(h, path)
           D == 1..(Len(path) + Len(h))
<1>1. DOMAIN sent = D
  BY SentParts
<1>2. ASSUME NEW i \in D, NEW c \in ToSet(sent[i])
      PROVE  /\ c \in jar /\ ~Expired(c) /\ Applies(c, h, path)
             /\ i = Which(c, h, path) \/ (Twice(c, path) /\ i + 1 = Which(c, h, path))
  BY SentApplies
<1>3. ASSUME NEW c \in jar, ~Expired(c), Applies(c, h, path) PROVE \E i \in D : c \in ToSet(sent[i])
  BY <1>3, AppliesSent
<1>4. ASSUME NEW i \in D PROVE IsInjective(sent[i])
  <2>1. Len(path) \in Nat /\ Len(h) \in Nat
    BY Paths, UrlDbAssumption, LenProperties
  <2>2. CASE i = 1
    <3>1. Injective(sent[i])
      BY <2>2, SentParts, PartExactly
    <3> QED BY <3>1 DEF Injective, IsInjective
  <2>3. CASE i \in 2..(Len(path) + 1)
    <3> DEFINE j == i - 1
    <3>1. j \in 1..Len(path) /\ i = j + 1
      BY <2>1, <2>3
    <3> HIDE DEF j
    <3>2. Injective(Above(h, path, j))
      BY <3>1, PartsAbove
    <3>3. Injective(sent[i])
      BY <3>1, <3>2, SentParts
    <3> QED BY <3>3 DEF Injective, IsInjective
  <2>4. CASE i \in (Len(path) + 2)..(Len(path) + Len(h))
    <3> DEFINE j == i - (Len(path) + 1)
    <3>1. j \in 1..(Len(h) - 1) /\ i = Len(path) + 1 + j
      BY <2>1, <2>4
    <3> HIDE DEF j
    <3>2. Injective(sent[i])
      BY <3>1, SentParts, PartDomain
    <3> QED BY <3>2 DEF Injective, IsInjective
  <2> QED BY <2>1, <2>2, <2>3, <2>4
<1> HIDE DEF sent
<1>5. UNION {ToSet(sent[i]) : i \in D} = {c \in jar : Applies(c, h, path) /\ ~Expired(c)}
  <2>1. UNION {ToSet(sent[i]) : i \in D} \subseteq {c \in jar : Applies(c, h, path) /\ ~Expired(c)}
    BY <1>2
  <2>2. {c \in jar : Applies(c, h, path) /\ ~Expired(c)} \subseteq UNION {ToSet(sent[i]) : i \in D}
    BY <1>3
  <2> QED BY <2>1, <2>2
<1>6. ASSUME NEW i \in D, NEW j \in D, i < j, NEW c \in ToSet(sent[i]) \cap ToSet(sent[j])
      PROVE  Twice(c, path) /\ j = i + 1
  <2> DEFINE w == Which(c, h, path)
  <2>1. /\ i = w \/ (Twice(c, path) /\ i + 1 = w)
        /\ j = w \/ (Twice(c, path) /\ j + 1 = w)
    BY <1>2
  <2> HIDE DEF w
  <2>2. i \in Nat /\ j \in Nat
    OBVIOUS
  <2> QED BY <1>6, <2>1, <2>2
<1>7. /\ \A i \in DOMAIN sent : IsInjective(sent[i])
      /\ \A i, j \in DOMAIN sent : i < j =>
           \A c \in ToSet(sent[i]) \cap ToSet(sent[j]) : Twice(c, path) /\ j = i + 1
      /\ UNION {ToSet(sent[i]) : i \in DOMAIN sent} = {c \in jar : Applies(c, h, path) /\ ~Expired(c)}
  BY <1>1, <1>4, <1>5, <1>6
<1> QED BY <1>7 DEF sent

-----------------------------------------------------------------------------
(* The invariant holds: the state has its type, the tree is in order, and     *)
(* every cookie is at home on a node that is in the tree (urldb.c:161-209).   *)
THEOREM Invariant == Spec => []IInv
<1> QED BY Starts, Keeps, PTL DEF Spec

(* Every node is found by the path it was added for, though the search takes  *)
(* the first segment that begins with the one wanted (urldb.c:1939-1955), and *)
(* no cookie is left on a node that is not in the tree.                       *)
THEOREM Finds == Spec => []FindsUrls
<1> QED BY Invariant, FindsThem, PTL

(* A fetch sends exactly the cookies that apply to its URL and have not       *)
(* expired, as they were last set, each once, but twice those of a directory  *)
(* that is passed as a node, as / is for //a (urldb.c:2400-2668).             *)
THEOREM Sends == Spec => []SentIsRight
<1> QED BY Invariant, SendsThem, PTL
=============================================================================
