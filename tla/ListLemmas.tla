----------------------------- MODULE ListLemmas -----------------------------
(* Facts about lists and rings (utils/ring.h), most of them about lists     *)
(* without repetition, and about the operators of Lists.tla.                *)
EXTENDS Lists, FiniteSetTheorems, SequenceTheorems, WellFoundedInduction, TLAPS

Injective(s) == \A i, j \in DOMAIN s : s[i] = s[j] => i = j

(* What is left of a sequence without an element is a sequence. *)
LEMMA RemoveAtType ==
  ASSUME NEW S, NEW s \in Seq(S), NEW i \in DOMAIN s
  PROVE  RemoveAt(s, i) \in Seq(S)
<1>1. i \in 1..Len(s) /\ Len(s) \in Nat
  OBVIOUS
<1>2. SubSeq(s, 1, i-1) \in Seq(S) /\ SubSeq(s, i+1, Len(s)) \in Seq(S)
  BY <1>1, SubSeqProperties
<1> QED BY <1>2, ConcatProperties DEF RemoveAt

(* RING_REMOVE: the sequence loses the element and nothing else. *)
LEMMA RemoveAtProperties ==
  ASSUME NEW S, NEW s \in Seq(S), NEW i \in DOMAIN s, Injective(s)
  PROVE  /\ RemoveAt(s, i) \in Seq(S)
         /\ Injective(RemoveAt(s, i))
         /\ ToSet(RemoveAt(s, i)) = ToSet(s) \ {s[i]}
<1> DEFINE a == SubSeq(s, 1, i-1)
           b == SubSeq(s, i+1, Len(s))
           t == RemoveAt(s, i)
<1>1. i \in 1..Len(s) /\ Len(s) \in Nat /\ DOMAIN s = 1..Len(s)
  OBVIOUS
<1>2. a \in Seq(S) /\ Len(a) = i-1 /\ \A k \in 1..(i-1) : a[k] = s[k]
  BY <1>1, SubSeqProperties
<1>3. b \in Seq(S) /\ Len(b) = Len(s) - i
                   /\ \A k \in 1..(Len(s) - i) : b[k] = s[i+k]
  BY <1>1, SubSeqProperties, SMTT(40)
<1>4. t = a \o b
  BY DEF RemoveAt
<1> HIDE DEF a, b, t
<1>5. t \in Seq(S) /\ Len(t) = Len(s) - 1
  <2>1. a \o b \in Seq(S) /\ Len(a \o b) = Len(a) + Len(b)
    BY <1>2, <1>3, ConcatProperties
  <2> QED BY <1>1, <1>2, <1>3, <1>4, <2>1
<1>6. \A k \in 1..(Len(s) - 1) : t[k] = IF k < i THEN s[k] ELSE s[k+1]
  <2> TAKE k \in 1..(Len(s) - 1)
  <2>1. t[k] = IF k <= Len(a) THEN a[k] ELSE b[k - Len(a)]
    BY <1>1, <1>2, <1>3, <1>4, ConcatProperties, SMTT(40)
  <2>2. CASE k < i
    BY <1>1, <1>2, <2>1, <2>2
  <2>3. CASE k >= i
    <3>1. k - (i-1) \in 1..(Len(s) - i) /\ ~(k <= i - 1)
      BY <1>1, <2>3
    <3>2. b[k - (i-1)] = s[i + (k - (i-1))]
      BY <1>3, <3>1
    <3>3. i + (k - (i-1)) = k+1
      BY <1>1
    <3> QED BY <1>1, <1>2, <2>1, <2>3, <3>1, <3>2, <3>3
  <2> QED BY <1>1, <2>2, <2>3
<1>7. DOMAIN t = 1..(Len(s) - 1)
  BY <1>5
<1>8. Injective(t)
  <2> SUFFICES ASSUME NEW k \in DOMAIN t, NEW l \in DOMAIN t, t[k] = t[l]
               PROVE  k = l
    BY DEF Injective
  <2> DEFINE pos(m) == IF m < i THEN m ELSE m + 1
  <2>1. pos(k) \in DOMAIN s /\ pos(l) \in DOMAIN s /\ k \in Int /\ l \in Int
    BY <1>1, <1>7
  <2>2. s[pos(k)] = s[pos(l)]
    BY <1>6, <1>7
  <2>3. pos(k) = pos(l)
    BY <2>1, <2>2 DEF Injective
  <2> QED BY <1>1, <2>1, <2>3
<1>9. ToSet(t) \subseteq ToSet(s) \ {s[i]}
  BY <1>1, <1>6, <1>7 DEF Injective, ToSet
<1>10. ASSUME NEW k \in DOMAIN s, k # i
       PROVE  s[k] \in ToSet(t)
  <2>1. CASE k < i
    BY <1>1, <1>6, <1>7, <2>1 DEF ToSet
  <2>2. CASE k > i
    <3>1. k - 1 \in 1..(Len(s) - 1) /\ t[k-1] = s[k]
      BY <1>1, <1>6, <2>2
    <3> QED BY <1>7, <3>1 DEF ToSet
  <2> QED BY <1>1, <1>10, <2>1, <2>2
<1>11. ToSet(s) \ {s[i]} \subseteq ToSet(t)
  BY <1>10 DEF ToSet
<1> QED BY <1>5, <1>8, <1>9, <1>11 DEF t

(* RING_INSERT of a new element. *)
LEMMA AppendNew ==
  ASSUME NEW S, NEW s \in Seq(S), NEW e \in S
  PROVE  /\ Append(s, e) \in Seq(S)
         /\ ToSet(Append(s, e)) = ToSet(s) \cup {e}
         /\ Injective(s) /\ e \notin ToSet(s) => Injective(Append(s, e))
<1> DEFINE t == Append(s, e)
<1>1. t \in Seq(S) /\ Len(t) = Len(s) + 1 /\ Len(s) \in Nat
  OBVIOUS
<1>2. \A k \in 1..Len(s) : t[k] = s[k]
  OBVIOUS
<1>3. t[Len(s) + 1] = e
  OBVIOUS
<1> HIDE DEF t
<1>4. DOMAIN t = 1..(Len(s) + 1) /\ DOMAIN s = 1..Len(s)
  BY <1>1
<1>5. ToSet(t) = ToSet(s) \cup {e}
  BY <1>1, <1>2, <1>3, <1>4 DEF ToSet
<1>6. Injective(s) /\ e \notin ToSet(s) => Injective(t)
  BY <1>1, <1>2, <1>3, <1>4 DEF ToSet, Injective
<1> QED BY <1>1, <1>5, <1>6 DEF t

(* It is put at the tail: the head of a ring that is not empty stays. *)
LEMMA AppendKeepsHead ==
  ASSUME NEW S, NEW s \in Seq(S), NEW e \in S
  PROVE  /\ Append(s, e) \in Seq(S)
         /\ s # <<>> => Append(s, e) # <<>> /\ Head(Append(s, e)) = Head(s)
<1>1. Append(s, e) \in Seq(S)
  OBVIOUS
<1>2. ASSUME s # <<>>
      PROVE  Append(s, e) # <<>> /\ Head(Append(s, e)) = Head(s)
  BY <1>2
<1> QED BY <1>1, <1>2

(* Taking the head off. *)
LEMMA TailProperties ==
  ASSUME NEW S, NEW s \in Seq(S), s # <<>>, Injective(s)
  PROVE  /\ Tail(s) \in Seq(S) /\ Injective(Tail(s))
         /\ Head(s) \in ToSet(s)
         /\ ToSet(Tail(s)) = ToSet(s) \ {Head(s)}
<1> DEFINE t == Tail(s)
<1>1. /\ t \in Seq(S) /\ Len(s) \in Nat /\ Len(s) > 0 /\ Len(t) = Len(s) - 1
      /\ Head(s) = s[1] /\ \A k \in 1..Len(t) : t[k] = s[k+1]
      /\ DOMAIN s = 1..Len(s)
  BY HeadTailProperties, SMTT(40)
<1> HIDE DEF t
<1>2. DOMAIN t = 1..(Len(s) - 1)
  BY <1>1
<1>3. Injective(t)
  BY <1>1, <1>2, SMTT(30) DEF Injective
<1>4. Head(s) \in ToSet(s) /\ ToSet(t) \subseteq ToSet(s) \ {Head(s)}
  BY <1>1, <1>2 DEF ToSet, Injective
<1>5. ASSUME NEW k \in DOMAIN s, k # 1
      PROVE  s[k] \in ToSet(t)
  <2>1. k - 1 \in 1..Len(t) /\ t[k-1] = s[k]
    BY <1>1, <1>5
  <2> QED BY <1>1, <1>2, <2>1 DEF ToSet
<1>6. ToSet(s) \ {Head(s)} \subseteq ToSet(t)
  BY <1>1, <1>5 DEF ToSet
<1> QED BY <1>1, <1>3, <1>4, <1>6 DEF t

(* A new head. *)
LEMMA ConsProperties ==
  ASSUME NEW S, NEW s \in Seq(S), NEW e \in S
  PROVE  /\ Cons(e, s) \in Seq(S)
         /\ ToSet(Cons(e, s)) = ToSet(s) \cup {e}
         /\ Injective(s) /\ e \notin ToSet(s) => Injective(Cons(e, s))
<1> DEFINE t == Cons(e, s)
<1>1. /\ t \in Seq(S) /\ Len(t) = Len(s) + 1 /\ Len(s) \in Nat
      /\ t[1] = e /\ \A k \in 1..Len(s) : t[k + 1] = s[k]
  BY DEF Cons
<1> HIDE DEF t
<1>2. DOMAIN t = 1..(Len(s) + 1) /\ DOMAIN s = 1..Len(s)
  BY <1>1
<1>3. \A k \in DOMAIN t : k = 1 \/ (k - 1 \in DOMAIN s /\ t[k] = s[k - 1])
  <2> TAKE k \in DOMAIN t
  <2>1. CASE k # 1
    <3>1. k - 1 \in 1..Len(s) /\ (k - 1) + 1 = k
      BY <1>1, <1>2, <2>1
    <3>2. t[(k - 1) + 1] = s[k - 1]
      BY <1>1, <3>1
    <3> QED BY <1>2, <3>1, <3>2
  <2> QED BY <2>1
<1>4. \A k \in DOMAIN s : k + 1 \in DOMAIN t /\ t[k + 1] = s[k]
  BY <1>1, <1>2
<1>5. 1 \in DOMAIN t /\ DOMAIN t \subseteq Int /\ DOMAIN s \subseteq Int
  BY <1>1, <1>2
<1>6. ToSet(t) = ToSet(s) \cup {e}
  <2>1. ToSet(t) \subseteq ToSet(s) \cup {e}
    BY <1>1, <1>3 DEF ToSet
  <2>2. ToSet(s) \subseteq ToSet(t)
    BY <1>4 DEF ToSet
  <2>3. e \in ToSet(t)
    BY <1>1, <1>5 DEF ToSet
  <2> QED BY <2>1, <2>2, <2>3
<1>7. ASSUME Injective(s), e \notin ToSet(s) PROVE Injective(t)
  <2> SUFFICES ASSUME NEW k \in DOMAIN t, NEW l \in DOMAIN t, t[k] = t[l] PROVE k = l
    BY DEF Injective
  <2>1. CASE k = 1 \/ l = 1
    BY <1>1, <1>3, <1>7, <2>1 DEF ToSet
  <2>2. CASE k # 1 /\ l # 1
    <3>1. k - 1 = l - 1
      BY <1>3, <1>7, <2>2 DEF Injective
    <3> QED BY <1>5, <3>1
  <2> QED BY <2>1, <2>2
<1> QED BY <1>1, <1>6, <1>7 DEF t

(* A list turned round has the same members. *)
LEMMA ReverseProperties ==
  ASSUME NEW S, NEW s \in Seq(S)
  PROVE  /\ Reverse(s) \in Seq(S) /\ ToSet(Reverse(s)) = ToSet(s)
         /\ Injective(s) => Injective(Reverse(s))
<1> DEFINE t == Reverse(s)
<1>1. /\ t \in Seq(S) /\ Len(s) \in Nat /\ DOMAIN t = 1..Len(s) /\ DOMAIN s = 1..Len(s)
      /\ \A k \in 1..Len(s) : t[k] = s[(Len(s) - k) + 1]
  BY DEF Reverse
<1> HIDE DEF t
<1>2. \A k \in 1..Len(s) : (Len(s) - k) + 1 \in 1..Len(s)
                           /\ (Len(s) - ((Len(s) - k) + 1)) + 1 = k
  BY <1>1
<1>3. \A k \in 1..Len(s) : s[k] = t[(Len(s) - k) + 1]
  BY <1>1, <1>2
<1>4. ToSet(t) = ToSet(s)
  BY <1>1, <1>2, <1>3, SMTT(30) DEF ToSet
<1>5. ASSUME Injective(s) PROVE Injective(t)
  <2> SUFFICES ASSUME NEW k \in 1..Len(s), NEW l \in 1..Len(s), t[k] = t[l] PROVE k = l
    BY <1>1 DEF Injective
  <2>1. (Len(s) - k) + 1 = (Len(s) - l) + 1
    BY <1>1, <1>2, <1>5, SMTT(30) DEF Injective
  <2> QED BY <1>1, <2>1
<1> QED BY <1>1, <1>4, <1>5 DEF t

(* Two lists one after the other. *)
LEMMA ConcatSets ==
  ASSUME NEW S, NEW s \in Seq(S), NEW r \in Seq(S)
  PROVE  /\ s \o r \in Seq(S) /\ ToSet(s \o r) = ToSet(s) \cup ToSet(r)
         /\ Injective(s) /\ Injective(r) /\ ToSet(s) \cap ToSet(r) = {} => Injective(s \o r)
<1> DEFINE t == s \o r
           m == Len(s)
           n == Len(r)
<1>1. /\ t \in Seq(S) /\ m \in Nat /\ n \in Nat /\ Len(t) = m + n
      /\ \A k \in 1..m : t[k] = s[k]
  BY ConcatProperties
<1>2. \A k \in (m + 1)..(m + n) : t[k] = r[k - m]
  BY <1>1, ConcatProperties
<1>3. DOMAIN t = 1..(m + n) /\ DOMAIN s = 1..m /\ DOMAIN r = 1..n
  BY <1>1
<1> HIDE DEF t
<1>4. \A k \in 1..n : t[k + m] = r[k] /\ k + m \in 1..(m + n)
  <2> TAKE k \in 1..n
  <2> HIDE DEF m, n
  <2>1. k + m \in (m + 1)..(m + n) /\ (k + m) - m = k /\ k + m \in 1..(m + n)
    BY <1>1
  <2>2. t[k + m] = r[(k + m) - m]
    BY <1>2, <2>1
  <2> QED BY <2>1, <2>2
<1>5. \A k \in 1..(m + n) : k \in 1..m \/ (k - m \in 1..n /\ k \in (m + 1)..(m + n))
  BY <1>1
<1>6. ToSet(t) = ToSet(s) \cup ToSet(r)
  <2>1. ToSet(s) \subseteq ToSet(t)
    BY <1>1, <1>3 DEF ToSet
  <2>2. ToSet(r) \subseteq ToSet(t)
    BY <1>3, <1>4 DEF ToSet
  <2>3. ToSet(t) \subseteq ToSet(s) \cup ToSet(r)
    BY <1>1, <1>2, <1>3, <1>5 DEF ToSet
  <2> QED BY <2>1, <2>2, <2>3
<1>7. ASSUME Injective(s), Injective(r), ToSet(s) \cap ToSet(r) = {} PROVE Injective(t)
  <2> SUFFICES ASSUME NEW k \in 1..(m + n), NEW l \in 1..(m + n), t[k] = t[l] PROVE k = l
    BY <1>3 DEF Injective
  <2>1. CASE k \in 1..m /\ l \in 1..m
    BY <1>1, <1>3, <1>7, <2>1 DEF Injective
  <2>2. CASE k - m \in 1..n /\ l - m \in 1..n /\ k \in (m + 1)..(m + n) /\ l \in (m + 1)..(m + n)
    <3>1. k - m = l - m
      BY <1>2, <1>3, <1>7, <2>2 DEF Injective
    <3> QED BY <1>1, <3>1
  <2>3. CASE k \in 1..m /\ l - m \in 1..n /\ l \in (m + 1)..(m + n)
    BY <1>1, <1>2, <1>3, <1>7, <2>3 DEF ToSet
  <2>4. CASE l \in 1..m /\ k - m \in 1..n /\ k \in (m + 1)..(m + n)
    BY <1>1, <1>2, <1>3, <1>7, <2>4 DEF ToSet
  <2> QED BY <1>5, <2>1, <2>2, <2>3, <2>4
<1> QED BY <1>1, <1>6, <1>7 DEF t

(* llcache_object_remove_user: one member goes (llcache.c:247). *)
LEMMA RemoveFirstProperties ==
  ASSUME NEW S, NEW s \in Seq(S), NEW x \in ToSet(s), Injective(s)
  PROVE  /\ RemoveFirst(s, x) \in Seq(S) /\ Injective(RemoveFirst(s, x))
         /\ ToSet(RemoveFirst(s, x)) = ToSet(s) \ {x}
<1>1. DOMAIN s = 1..Len(s)
  OBVIOUS
<1>2. PICK i \in 1..Len(s) : s[i] = x
  BY <1>1 DEF ToSet
<1>3. {j \in 1..Len(s) : s[j] = x} = {i}
  BY <1>1, <1>2 DEF Injective
<1>4. Min({i}) = i
  BY DEF Min
<1>5. RemoveFirst(s, x) = RemoveAt(s, i)
  BY <1>2, <1>3, <1>4 DEF RemoveFirst, SelectInSeq
<1> QED BY <1>1, <1>2, <1>5, RemoveAtProperties

(* The next of a list is a member, or there is none. *)
LEMMA FollowingMember ==
  ASSUME NEW S, NEW s \in Seq(S), NEW x
  PROVE  Following(s, x) = NULL \/ Following(s, x) \in ToSet(s)
<1> DEFINE after == {i \in DOMAIN s : i > 1 /\ s[i - 1] = x}
           j == CHOOSE i \in after : TRUE
<1>1. Following(s, x) = IF after = {} THEN NULL ELSE s[j]
  BY DEF Following
<1>2. after # {} => j \in after
  OBVIOUS
<1>3. after \subseteq DOMAIN s
  OBVIOUS
<1> HIDE DEF after, j
<1> QED BY <1>1, <1>2, <1>3 DEF ToSet

(* It is another one in a list without repetition. *)
LEMMA FollowingProperties ==
  ASSUME NEW S, NEW s \in Seq(S), NEW x \in ToSet(s), Injective(s)
  PROVE  Following(s, x) = NULL \/ Following(s, x) \in ToSet(s) \ {x}
<1> DEFINE after == {i \in DOMAIN s : i > 1 /\ s[i - 1] = x}
           j == CHOOSE i \in after : TRUE
<1>1. Following(s, x) = IF after = {} THEN NULL ELSE s[j]
  BY DEF Following
<1>2. after # {} => j \in after
  OBVIOUS
<1>3. DOMAIN s = 1..Len(s) /\ Len(s) \in Nat
  OBVIOUS
<1>4. \A i \in after : i \in 1..Len(s) /\ i - 1 \in 1..Len(s) /\ i - 1 # i /\ s[i - 1] = x
  BY <1>3
<1> HIDE DEF after, j
<1>5. \A i \in after : s[i] \in ToSet(s) /\ s[i] # x
  BY <1>3, <1>4 DEF Injective, ToSet
<1> QED BY <1>1, <1>2, <1>5

(* A member is replaced where it stands. *)
LEMMA ReplaceAllProperties ==
  ASSUME NEW S, NEW s \in Seq(S), NEW x \in ToSet(s), NEW y \in S \ ToSet(s), Injective(s)
  PROVE  /\ ReplaceAll(s, x, y) \in Seq(S) /\ Injective(ReplaceAll(s, x, y))
         /\ ToSet(ReplaceAll(s, x, y)) = (ToSet(s) \ {x}) \cup {y}
<1> DEFINE t == ReplaceAll(s, x, y)
<1>1. /\ DOMAIN s = 1..Len(s) /\ Len(s) \in Nat /\ \A k \in 1..Len(s) : s[k] \in S
      /\ t = [k \in 1..Len(s) |-> IF s[k] = x THEN y ELSE s[k]]
  BY DEF ReplaceAll
<1>2. t \in Seq(S) /\ DOMAIN t = 1..Len(s)
      /\ \A k \in 1..Len(s) : t[k] = IF s[k] = x THEN y ELSE s[k]
  BY <1>1
<1> HIDE DEF t
<1>3. Injective(t)
  BY <1>1, <1>2 DEF Injective, ToSet
<1>4. PICK i \in 1..Len(s) : s[i] = x
  BY <1>1 DEF ToSet
<1>5. ToSet(t) = (ToSet(s) \ {x}) \cup {y}
  <2>1. ToSet(t) \subseteq (ToSet(s) \ {x}) \cup {y}
    BY <1>1, <1>2 DEF ToSet
  <2>2. y \in ToSet(t)
    BY <1>2, <1>4 DEF ToSet
  <2>3. ToSet(s) \ {x} \subseteq ToSet(t)
    BY <1>1, <1>2 DEF ToSet
  <2> QED BY <2>1, <2>2, <2>3
<1> QED BY <1>2, <1>3, <1>5 DEF t

(* Each index in a finite set has a rank of its own, without gaps. *)
LEMMA Ranks ==
  ASSUME NEW at \in SUBSET Nat, IsFiniteSet(at)
  PROVE  LET rank(i) == Cardinality({j \in at : j <= i})
         IN  /\ \A i \in at : rank(i) \in 1..Cardinality(at)
             /\ \A i, j \in at : rank(i) = rank(j) => i = j
             /\ \A k \in 1..Cardinality(at) : \E i \in at : rank(i) = k
<1> DEFINE upto(i) == {j \in at : j <= i}
           n == Cardinality(at)
           f == [i \in at |-> Cardinality(upto(i))]
<1>1. n \in Nat /\ IsFiniteSet(1..n) /\ Cardinality(1..n) = n
  BY FS_CardinalityType, FS_Interval
<1>2. \A i \in at : IsFiniteSet(upto(i)) /\ f[i] \in 1..n
  <2> TAKE i \in at
  <2>1. upto(i) \in SUBSET at /\ upto(i) # {}
    OBVIOUS
  <2>2. IsFiniteSet(upto(i)) /\ Cardinality(upto(i)) <= n
    BY <2>1, FS_Subset
  <2>3. Cardinality(upto(i)) \in Nat /\ Cardinality(upto(i)) # 0
    BY <2>1, <2>2, FS_CardinalityType, FS_EmptySet
  <2> HIDE DEF upto, n
  <2> QED BY <1>1, <2>2, <2>3
<1>3. ASSUME NEW i \in at, NEW j \in at, i < j PROVE f[i] # f[j]
  <2>1. upto(i) \in SUBSET upto(j) /\ j \in upto(j) /\ j \notin upto(i)
    <3>1. i \in Nat /\ j \in Nat /\ i < j /\ \A m \in at : m \in Nat
      BY <1>3
    <3>2. \A m \in at : m <= i => m <= j
      BY <3>1
    <3>3. ~(j <= i) /\ j <= j
      BY <3>1
    <3> QED BY <3>2, <3>3
  <2>2. Cardinality(upto(i)) # Cardinality(upto(j))
    <3> HIDE DEF upto
    <3> QED BY <1>2, <2>1, FS_Subset
  <2> QED BY <2>2
<1>4. \A i, j \in at : f[i] = f[j] => i = j
  <2> HIDE DEF f
  <2> TAKE i, j \in at
  <2>1. i \in Nat /\ j \in Nat
    OBVIOUS
  <2> QED BY <1>3, <2>1
<1>5. f \in Surjection(at, 1..n)
  <2> HIDE DEF n
  <2>1. f \in [at -> 1..n]
    BY <1>2
  <2> HIDE DEF f
  <2>2. f \in Injection(at, 1..n)
    BY <1>4, <2>1 DEF Injection, IsInjective
  <2> QED BY <1>1, <2>2, FS_Injection DEF n
<1>6. \A k \in 1..n : \E i \in at : f[i] = k
  <2> HIDE DEF f
  <2> QED BY <1>5 DEF Surjection
<1> QED BY <1>2, <1>4, <1>6

(* A set of numbers has a least one. *)
LEMMA Least ==
  ASSUME NEW T \in SUBSET Nat, T # {}
  PROVE  \E x \in T : \A y \in T : x <= y
<1>1. PICK x \in T : \A y \in T : <<y, x>> \notin OpToRel(<, Nat)
  BY NatLessThanWellFounded, WFMin
<1>2. \A y \in T : ~(y < x)
  BY <1>1 DEF OpToRel
<1>3. x \in Nat /\ \A y \in T : y \in Nat
  OBVIOUS
<1> QED BY <1>2, <1>3

(* What llcache_clean leaves of a list (llcache.c:2183). *)
LEMMA SublistProperties ==
  ASSUME NEW T, NEW s \in Seq(T), NEW S
  PROVE  /\ Sublist(s, S) \in Seq(T)
         /\ ToSet(Sublist(s, S)) = ToSet(s) \cap S
         /\ Injective(s) => Injective(Sublist(s, S))
<1> DEFINE at == {i \in DOMAIN s : s[i] \in S}
           n == Cardinality(at)
           rank(i) == Cardinality({j \in at : j <= i})
           pos(k) == CHOOSE i \in at : rank(i) = k
           t == Sublist(s, S)
<1>1. DOMAIN s = 1..Len(s) /\ Len(s) \in Nat /\ at \in SUBSET Nat
  OBVIOUS
<1>2. IsFiniteSet(at) /\ n \in Nat
  <2>1. IsFiniteSet(1..Len(s)) /\ at \in SUBSET (1..Len(s))
    BY <1>1, FS_Interval
  <2> HIDE DEF at
  <2> QED BY <2>1, FS_Subset, FS_CardinalityType
<1>3. /\ \A k \in 1..n : \E i \in at : rank(i) = k
      /\ \A i \in at : rank(i) \in 1..n
      /\ \A i, j \in at : rank(i) = rank(j) => i = j
  <2> HIDE DEF at
  <2> QED BY <1>1, <1>2, Ranks
<1>4. \A k \in 1..n : pos(k) \in at /\ rank(pos(k)) = k
  <2> HIDE DEF at, n, rank
  <2> QED BY <1>3
<1>5. t = [k \in 1..n |-> s[pos(k)]]
  BY DEF Sublist
<1>6. \A k \in 1..n : s[pos(k)] \in T /\ s[pos(k)] \in S /\ pos(k) \in DOMAIN s
  <2>1. \A i \in at : s[i] \in T /\ s[i] \in S /\ i \in DOMAIN s
    BY <1>1
  <2> HIDE DEF at, n, rank, pos
  <2> QED BY <1>4, <2>1
<1>7. t \in Seq(T) /\ DOMAIN t = 1..n
  <2> HIDE DEF n, pos, t
  <2> QED BY <1>2, <1>5, <1>6
<1>8. ToSet(t) = ToSet(s) \cap S
  <2>1. ToSet(t) \subseteq ToSet(s) \cap S
    <3> HIDE DEF at, n, rank, pos, t
    <3> QED BY <1>5, <1>6, <1>7 DEF ToSet
  <2>2. \A i \in at : rank(i) \in 1..n /\ pos(rank(i)) = i
    <3> HIDE DEF at, n, rank, pos, t
    <3> QED BY <1>3, <1>4
  <2>3. \A x \in ToSet(s) \cap S : \E i \in at : s[i] = x
    BY DEF ToSet
  <2>4. ToSet(s) \cap S \subseteq ToSet(t)
    <3> HIDE DEF at, n, rank, pos, t
    <3> QED BY <1>5, <1>7, <2>2, <2>3 DEF ToSet
  <2> QED BY <2>1, <2>4
<1>9. ASSUME Injective(s) PROVE Injective(t)
  <2> SUFFICES ASSUME NEW k \in 1..n, NEW l \in 1..n, t[k] = t[l] PROVE k = l
    BY <1>7 DEF Injective
  <2> HIDE DEF at, n, rank, pos, t
  <2>1. s[pos(k)] = s[pos(l)]
    BY <1>5
  <2>2. pos(k) = pos(l)
    BY <1>6, <1>9, <2>1 DEF Injective
  <2> QED BY <1>4, <2>2
<1> QED BY <1>7, <1>8, <1>9 DEF t
=============================================================================
