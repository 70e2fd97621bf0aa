------------------------- MODULE BackgroundProofs --------------------------
(* Safety of the background jobs and of the image cache, for any contents,  *)
(* sizes, limits and intervals.                                             *)
EXTENDS Background, ListLemmas

-----------------------------------------------------------------------------
(* How often something stands in a list. *)

At(list, M) == {i \in DOMAIN list : list[i] \in M}
Count(list, M) == Cardinality(At(list, M))

LEMMA CountType ==
  ASSUME NEW T, NEW s \in Seq(T), NEW M
  PROVE  IsFiniteSet(At(s, M)) /\ Count(s, M) \in Nat
<1>1. DOMAIN s = 1..Len(s) /\ Len(s) \in Nat
  OBVIOUS
<1>2. IsFiniteSet(1..Len(s))
  BY <1>1, FS_Interval
<1>3. At(s, M) \in SUBSET (1..Len(s))
  BY <1>1 DEF At
<1> QED BY <1>2, <1>3, FS_Subset, FS_CardinalityType DEF Count

(* The members of t are those of s at the places D, one at each. *)
Places(t, s, D, f) ==
  /\ D \subseteq DOMAIN s /\ f \in Bijection(DOMAIN t, D)
  /\ \A k \in DOMAIN t : t[k] = s[f[k]]

(* A list counts as often as the places of another that it was made from. *)
LEMMA Reindexed ==
  ASSUME NEW T, NEW s \in Seq(T), NEW t \in Seq(T), NEW M,
         NEW D, NEW f, Places(t, s, D, f)
  PROVE  Count(t, M) = Cardinality(At(s, M) \cap D)
<1> DEFINE A == At(t, M)
           B == At(s, M) \cap D
           g == [k \in A |-> f[k]]
<1>1. /\ f \in [DOMAIN t -> D] /\ \A k, l \in DOMAIN t : f[k] = f[l] => k = l
      /\ \A d \in D : \E k \in DOMAIN t : f[k] = d
  BY DEF Places, Bijection, Injection, Surjection, IsInjective
<1>2. A \subseteq DOMAIN t /\ \A k \in DOMAIN t : k \in A <=> f[k] \in B
  BY <1>1 DEF At, Places
<1>3. B \subseteq D
  OBVIOUS
<1>4. IsFiniteSet(A)
  BY CountType
<1> HIDE DEF A, B
<1>5. g \in [A -> B] /\ (\A k, l \in A : g[k] = g[l] => k = l) /\ \A b \in B : \E k \in A : g[k] = b
  BY <1>1, <1>2, <1>3
<1> HIDE DEF g
<1>6. g \in Bijection(A, B)
  BY <1>5 DEF Bijection, Injection, Surjection, IsInjective
<1>7. Cardinality(B) = Cardinality(A)
  BY <1>4, <1>6, FS_Bijection DEF ExistsBijection
<1> QED BY <1>7 DEF A, B, Count

LEMMA CountCons ==
  ASSUME NEW T, NEW s \in Seq(T), NEW e \in T, NEW M
  PROVE  /\ <<e>> \o s \in Seq(T)
         /\ Count(<<e>> \o s, M) = Count(s, M) + (IF e \in M THEN 1 ELSE 0)
<1> DEFINE t == <<e>> \o s
           f == [k \in 1..Len(s) |-> k + 1]
<1>1. /\ t \in Seq(T) /\ Len(s) \in Nat /\ DOMAIN t = 1..(Len(s) + 1) /\ DOMAIN s = 1..Len(s)
      /\ t[1] = e /\ \A k \in 1..Len(s) : t[k + 1] = s[k]
  OBVIOUS
<1> HIDE DEF t
<1>2. f \in Bijection(DOMAIN s, 2..(Len(s) + 1))
  <2>1. f \in [1..Len(s) -> 2..(Len(s) + 1)] /\ \A k, l \in 1..Len(s) : f[k] = f[l] => k = l
    BY <1>1
  <2>2. \A d \in 2..(Len(s) + 1) : d - 1 \in 1..Len(s) /\ f[d - 1] = d
    BY <1>1
  <2> HIDE DEF f
  <2> QED BY <1>1, <2>1, <2>2 DEF Bijection, Injection, Surjection, IsInjective
<1>3. \A k \in DOMAIN s : s[k] = t[f[k]]
  BY <1>1
<1> HIDE DEF f
<1>4. 2..(Len(s) + 1) \in SUBSET DOMAIN t /\ 1 \in DOMAIN t
      /\ DOMAIN t = {1} \cup 2..(Len(s) + 1) /\ 1 \notin 2..(Len(s) + 1)
  BY <1>1
<1>5. Count(s, M) = Cardinality(At(t, M) \cap 2..(Len(s) + 1))
  <2>1. Places(s, t, 2..(Len(s) + 1), f)
    BY <1>2, <1>3, <1>4 DEF Places
  <2> QED BY <1>1, <2>1, Reindexed
<1> DEFINE R == At(t, M) \cap 2..(Len(s) + 1)
<1>6. At(t, M) = IF e \in M THEN R \cup {1} ELSE R
  BY <1>1, <1>4 DEF At
<1>7. IsFiniteSet(At(t, M)) /\ R \in SUBSET At(t, M) /\ 1 \notin R
  BY <1>1, <1>4, CountType
<1> HIDE DEF R
<1>8. IsFiniteSet(R) /\ Cardinality(R) \in Nat /\ Cardinality(R \cup {1}) = Cardinality(R) + 1
  BY <1>7, FS_Subset, FS_CardinalityType, FS_AddElement
<1>9. Cardinality(At(t, M)) = Cardinality(R) + (IF e \in M THEN 1 ELSE 0)
  BY <1>6, <1>8
<1> QED BY <1>1, <1>5, <1>9 DEF t, R, Count

LEMMA CountRemoveAt ==
  ASSUME NEW T, NEW s \in Seq(T), NEW i \in DOMAIN s, NEW M
  PROVE  /\ RemoveAt(s, i) \in Seq(T)
         /\ Count(RemoveAt(s, i), M) = Count(s, M) - (IF s[i] \in M THEN 1 ELSE 0)
<1> DEFINE a == SubSeq(s, 1, i - 1)
           b == SubSeq(s, i + 1, Len(s))
           t == RemoveAt(s, i)
           f == [k \in 1..(Len(s) - 1) |-> IF k < i THEN k ELSE k + 1]
           D == (1..Len(s)) \ {i}
<1>1. i \in 1..Len(s) /\ Len(s) \in Nat /\ DOMAIN s = 1..Len(s)
  OBVIOUS
<1>2. t \in Seq(T)
  BY RemoveAtType
<1>3. Len(t) = Len(s) - 1 /\ \A k \in 1..(Len(s) - 1) : t[k] = s[f[k]]
  <2>1. a \in Seq(T) /\ Len(a) = i - 1 /\ \A k \in 1..(i - 1) : a[k] = s[k]
    BY <1>1, SubSeqProperties
  <2>2. b \in Seq(T) /\ Len(b) = Len(s) - i /\ \A k \in 1..(Len(s) - i) : b[k] = s[i + k]
    BY <1>1, SubSeqProperties, SMTT(40)
  <2>3. t = a \o b
    BY DEF RemoveAt
  <2> HIDE DEF a, b, t
  <2>4. Len(a \o b) = Len(a) + Len(b)
        /\ \A k \in 1..(Len(a) + Len(b)) : (a \o b)[k] = IF k <= Len(a) THEN a[k] ELSE b[k - Len(a)]
    BY <2>1, <2>2, ConcatProperties
  <2>5. Len(t) = Len(s) - 1
    BY <1>1, <2>1, <2>2, <2>3, <2>4
  <2>6. ASSUME NEW k \in 1..(Len(s) - 1) PROVE t[k] = s[f[k]]
    <3>1. t[k] = IF k <= i - 1 THEN a[k] ELSE b[k - (i - 1)]
      <4>1. Len(a) = i - 1 /\ k \in 1..(Len(a) + Len(b))
        BY <1>1, <2>1, <2>2
      <4>2. (a \o b)[k] = IF k <= Len(a) THEN a[k] ELSE b[k - Len(a)]
        BY <2>4, <4>1
      <4> QED BY <2>3, <4>1, <4>2
    <3>2. CASE k < i
      <4>1. k \in 1..(i - 1)
        BY <1>1, <3>2
      <4> QED BY <1>1, <2>1, <3>1, <3>2, <4>1
    <3>3. CASE ~(k < i)
      <4>1. k - (i - 1) \in 1..(Len(s) - i) /\ i + (k - (i - 1)) = k + 1
        BY <1>1, <3>3
      <4>2. b[k - (i - 1)] = s[k + 1]
        BY <2>2, <4>1
      <4> QED BY <1>1, <3>1, <3>3, <4>2
    <3> QED BY <3>2, <3>3
  <2> QED BY <2>5, <2>6
<1> HIDE DEF a, b, t
<1>4. DOMAIN t = 1..(Len(s) - 1)
  BY <1>1, <1>2, <1>3
<1>5. f \in Bijection(DOMAIN t, D)
  <2>1. f \in [1..(Len(s) - 1) -> D] /\ \A k, l \in 1..(Len(s) - 1) : f[k] = f[l] => k = l
    BY <1>1
  <2>2. \A d \in D : IF d < i THEN d \in 1..(Len(s) - 1) /\ f[d] = d
                     ELSE d - 1 \in 1..(Len(s) - 1) /\ f[d - 1] = d
    BY <1>1
  <2> HIDE DEF f, D
  <2>3. \A d \in D : \E k \in 1..(Len(s) - 1) : f[k] = d
    BY <2>2
  <2> QED BY <1>4, <2>1, <2>3 DEF Bijection, Injection, Surjection, IsInjective
<1>6. D \in SUBSET DOMAIN s
  BY <1>1
<1> HIDE DEF f
<1>7. Count(t, M) = Cardinality(At(s, M) \cap D)
  <2> HIDE DEF D
  <2>1. Places(t, s, D, f)
    BY <1>3, <1>4, <1>5, <1>6 DEF Places
  <2> QED BY <1>2, <2>1, Reindexed, SMTT(30)
<1>8. At(s, M) \cap D = At(s, M) \ {i} /\ (i \in At(s, M) <=> s[i] \in M)
  BY <1>1 DEF At
<1>9. Cardinality(At(s, M) \ {i}) = IF i \in At(s, M) THEN Count(s, M) - 1 ELSE Count(s, M)
  BY CountType, FS_RemoveElement DEF Count
<1>10. Count(s, M) \in Nat
  BY CountType
<1> HIDE DEF D
<1>11. Count(t, M) = Cardinality(At(s, M) \ {i})
  BY <1>7, <1>8, Zenon
<1>12. Count(t, M) = Count(s, M) - (IF s[i] \in M THEN 1 ELSE 0)
  BY <1>8, <1>9, <1>10, <1>11
<1> QED BY <1>2, <1>12 DEF t

LEMMA CountSublist ==
  ASSUME NEW T, NEW s \in Seq(T), NEW S, NEW M
  PROVE  /\ Sublist(s, S) \in Seq(T)
         /\ Count(Sublist(s, S), M) = Count(s, M \cap S)
<1> DEFINE at == {i \in DOMAIN s : s[i] \in S}
           n == Cardinality(at)
           rank(i) == Cardinality({j \in at : j <= i})
           pos(k) == CHOOSE i \in at : rank(i) = k
           f == [k \in 1..n |-> pos(k)]
           t == Sublist(s, S)
<1>1. DOMAIN s = 1..Len(s) /\ Len(s) \in Nat /\ at \in SUBSET Nat /\ at \in SUBSET DOMAIN s
  OBVIOUS
<1>2. IsFiniteSet(at) /\ n \in Nat
  <2>1. IsFiniteSet(1..Len(s)) /\ at \in SUBSET (1..Len(s))
    BY <1>1, FS_Interval
  <2> HIDE DEF at
  <2> QED BY <2>1, FS_Subset, FS_CardinalityType
<1>3. /\ \A k \in 1..n : \E i \in at : rank(i) = k
      /\ \A i \in at : rank(i) \in 1..n
      /\ \A i, j \in at : rank(i) = rank(j) => i = j
  <2> HIDE DEF at
  <2> QED BY <1>1, <1>2, Ranks
<1>4. \A k \in 1..n : pos(k) \in at /\ rank(pos(k)) = k
  <2> HIDE DEF at, n, rank
  <2> QED BY <1>3
<1>5. \A i \in at : rank(i) \in 1..n /\ pos(rank(i)) = i
  <2> HIDE DEF at, n, rank, pos
  <2> QED BY <1>3, <1>4
<1>6. t = [k \in 1..n |-> s[pos(k)]]
  BY DEF Sublist
<1>7. t \in Seq(T)
  BY SublistProperties
<1> HIDE DEF t
<1>8. DOMAIN t = 1..n /\ \A k \in 1..n : t[k] = s[f[k]]
  <2> HIDE DEF at, n, rank, pos
  <2> QED BY <1>6
<1>9. f \in Bijection(DOMAIN t, at)
  <2> HIDE DEF at, n, rank, pos
  <2>1. f \in [1..n -> at] /\ \A k, l \in 1..n : f[k] = f[l] => k = l
    BY <1>4
  <2>2. \A i \in at : rank(i) \in 1..n /\ f[rank(i)] = i
    BY <1>5
  <2> HIDE DEF f
  <2> QED BY <1>8, <2>1, <2>2 DEF Bijection, Injection, Surjection, IsInjective
<1>10. Count(t, M) = Cardinality(At(s, M) \cap at)
  <2> HIDE DEF at, n, rank, pos, f
  <2>1. Places(t, s, at, f)
    BY <1>1, <1>8, <1>9 DEF Places
  <2> QED BY <1>7, <2>1, Reindexed
<1>11. At(s, M) \cap at = At(s, M \cap S)
  BY DEF At
<1> QED BY <1>7, <1>10, <1>11 DEF t, Count

-----------------------------------------------------------------------------
(* The schedule list. *)

Calls(call, of) == {e \in Job : e.call = call /\ e.of = of}

LEMMA TimesIsCount ==
  ASSUME NEW s \in Seq(Job), NEW call, NEW of
  PROVE  Times(s, call, of) = Count(s, Calls(call, of)) /\ Times(s, call, of) \in Nat
<1>1. \A i \in DOMAIN s : s[i] \in Job
  OBVIOUS
<1>2. {i \in DOMAIN s : s[i].call = call /\ s[i].of = of} = At(s, Calls(call, of))
  BY <1>1 DEF At, Calls
<1>3. Times(s, call, of) = Count(s, Calls(call, of))
  BY <1>2, Zenon DEF Times, Count
<1> QED BY <1>3, CountType

(* The calls of a job and their parameters. *)
Callable(call, of) ==
  \/ call \in {"update", "clean"} /\ of = NULL
  \/ call = "animate" /\ of \in Gif
  \/ call = "boxes" /\ of \in Page

(* schedule (framebuffer/schedule.c:54). *)
LEMMA TimesSchedule ==
  ASSUME NEW s \in Seq(Job), NEW ival \in Nat, NEW call, NEW of, Callable(call, of)
  PROVE  /\ schedule(s, ival, call, of) \in Seq(Job)
         /\ \A c, o : Times(schedule(s, ival, call, of), c, o)
                        = Times(s, c, o) + (IF c = call /\ o = of THEN 1 ELSE 0)
<1> DEFINE e == [call |-> call, of |-> of, left |-> ival + 1]
           t == <<e>> \o s
<1>1. e \in Job /\ e.call = call /\ e.of = of
  BY DEF Job, Callable
<1>2. schedule(s, ival, call, of) = t
  BY DEF schedule
<1> HIDE DEF e
<1>3. t \in Seq(Job)
  BY <1>1, CountCons
<1>4. ASSUME NEW c, NEW o
      PROVE  Times(t, c, o) = Times(s, c, o) + (IF c = call /\ o = of THEN 1 ELSE 0)
  <2>1. Count(t, Calls(c, o)) = Count(s, Calls(c, o)) + (IF e \in Calls(c, o) THEN 1 ELSE 0)
    BY <1>1, CountCons
  <2>2. e \in Calls(c, o) <=> c = call /\ o = of
    BY <1>1 DEF Calls
  <2> HIDE DEF t
  <2>3. Times(t, c, o) = Count(t, Calls(c, o)) /\ Times(s, c, o) = Count(s, Calls(c, o))
    BY <1>3, TimesIsCount
  <2> QED BY <2>1, <2>2, <2>3
<1> HIDE DEF t
<1> QED BY <1>2, <1>3, <1>4

(* schedule_remove (framebuffer/schedule.c:84), for some parameters. *)
LEMMA TimesUnscheduled ==
  ASSUME NEW s \in Seq(Job), NEW call, NEW params
  PROVE  /\ Unscheduled(s, call, params) \in Seq(Job)
         /\ \A c, o : Times(Unscheduled(s, call, params), c, o)
                        = IF c = call /\ o \in params THEN 0 ELSE Times(s, c, o)
<1> DEFINE S == {e \in ToSet(s) : ~(e.call = call /\ e.of \in params)}
           t == Sublist(s, S)
<1>1. Unscheduled(s, call, params) = t
  BY DEF Unscheduled
<1>2. t \in Seq(Job)
  BY CountSublist
<1>3. ASSUME NEW c, NEW o
      PROVE  Times(t, c, o) = IF c = call /\ o \in params THEN 0 ELSE Times(s, c, o)
  <2>1. Count(t, Calls(c, o)) = Count(s, Calls(c, o) \cap S)
    BY CountSublist
  <2>2. At(s, Calls(c, o) \cap S) = IF c = call /\ o \in params THEN {} ELSE At(s, Calls(c, o))
    BY DEF At, Calls, ToSet
  <2>3. Count(s, Calls(c, o) \cap S)
          = IF c = call /\ o \in params THEN 0 ELSE Count(s, Calls(c, o))
    <3> HIDE DEF S
    <3> QED BY <2>2, FS_EmptySet DEF Count
  <2> HIDE DEF t, S
  <2>4. Times(t, c, o) = Count(t, Calls(c, o)) /\ Times(s, c, o) = Count(s, Calls(c, o))
    BY <1>2, TimesIsCount
  <2> QED BY <2>1, <2>3, <2>4
<1> HIDE DEF t
<1> QED BY <1>1, <1>2, <1>3

LEMMA TimesRemove ==
  ASSUME NEW s \in Seq(Job), NEW call, NEW of
  PROVE  /\ schedule_remove(s, call, of) \in Seq(Job)
         /\ \A c, o : Times(schedule_remove(s, call, of), c, o)
                        = IF c = call /\ o = of THEN 0 ELSE Times(s, c, o)
BY TimesUnscheduled DEF schedule_remove

(* schedule_run takes an entry out (framebuffer/schedule.c:154). *)
LEMMA TimesRemoveAt ==
  ASSUME NEW s \in Seq(Job), NEW i \in DOMAIN s
  PROVE  /\ s[i] \in Job /\ RemoveAt(s, i) \in Seq(Job)
         /\ \A c, o : Times(RemoveAt(s, i), c, o)
                        = Times(s, c, o) - (IF c = s[i].call /\ o = s[i].of THEN 1 ELSE 0)
<1> DEFINE t == RemoveAt(s, i)
<1>1. s[i] \in Job
  OBVIOUS
<1>2. t \in Seq(Job)
  BY CountRemoveAt
<1>3. ASSUME NEW c, NEW o
      PROVE  Times(t, c, o)
               = Times(s, c, o) - (IF c = s[i].call /\ o = s[i].of THEN 1 ELSE 0)
  <2>1. Count(t, Calls(c, o)) = Count(s, Calls(c, o)) - (IF s[i] \in Calls(c, o) THEN 1 ELSE 0)
    BY CountRemoveAt
  <2>2. s[i] \in Calls(c, o) <=> c = s[i].call /\ o = s[i].of
    BY <1>1 DEF Calls
  <2> HIDE DEF t
  <2>3. Times(t, c, o) = Count(t, Calls(c, o)) /\ Times(s, c, o) = Count(s, Calls(c, o))
    BY <1>2, TimesIsCount
  <2> QED BY <2>1, <2>2, <2>3
<1> HIDE DEF t
<1> QED BY <1>1, <1>2, <1>3 DEF t

(* What stands somewhere is there at least once. *)
LEMMA TimesOfMember ==
  ASSUME NEW s \in Seq(Job), NEW i \in DOMAIN s
  PROVE  Times(s, s[i].call, s[i].of) >= 1
<1> DEFINE M == Calls(s[i].call, s[i].of)
<1>1. i \in At(s, M)
  BY DEF At, Calls
<1>2. IsFiniteSet(At(s, M)) /\ Count(s, M) \in Nat /\ Times(s, s[i].call, s[i].of) = Count(s, M)
  BY CountType, TimesIsCount
<1> HIDE DEF M
<1>3. Cardinality(At(s, M)) # 0
  BY <1>1, <1>2, FS_EmptySet
<1> QED BY <1>2, <1>3 DEF Count

(* The clock changes no call. *)
LEMMA TimesAged ==
  ASSUME schedule_list \in Seq(Job)
  PROVE  /\ Aged \in Seq(Job) /\ DOMAIN Aged = DOMAIN schedule_list
         /\ \A i \in DOMAIN schedule_list :
              Aged[i].left = IF schedule_list[i].left = 0 THEN 0 ELSE schedule_list[i].left - 1
         /\ \A c, o : Times(Aged, c, o) = Times(schedule_list, c, o)
<1> DEFINE s == schedule_list
           t == Aged
<1>1. DOMAIN s = 1..Len(s) /\ Len(s) \in Nat /\ \A i \in DOMAIN s : s[i] \in Job
  OBVIOUS
<1>2. \A e \in Job : [e EXCEPT !.left = IF e.left = 0 THEN 0 ELSE e.left - 1] \in Job
  BY DEF Job
<1>3. t = [i \in 1..Len(s) |-> [s[i] EXCEPT !.left = IF s[i].left = 0 THEN 0 ELSE s[i].left - 1]]
  BY <1>1 DEF Aged
<1> HIDE DEF t, s
<1>4. t \in Seq(Job) /\ DOMAIN t = DOMAIN s
  BY <1>1, <1>2, <1>3
<1>5. \A i \in DOMAIN s : t[i].call = s[i].call /\ t[i].of = s[i].of
        /\ t[i].left = IF s[i].left = 0 THEN 0 ELSE s[i].left - 1
  BY <1>1, <1>3 DEF Job
<1>6. ASSUME NEW c, NEW o PROVE Times(t, c, o) = Times(s, c, o)
  <2>1. {i \in DOMAIN t : t[i].call = c /\ t[i].of = o} = {i \in DOMAIN s : s[i].call = c /\ s[i].of = o}
    BY <1>4, <1>5
  <2> QED BY <2>1, Zenon DEF Times
<1> QED BY <1>4, <1>5, <1>6 DEF t, s

LEMMA FirstDueProperties ==
  ASSUME schedule_list \in Seq(Job), \E i \in DOMAIN schedule_list : Due(schedule_list[i])
  PROVE  FirstDue \in DOMAIN schedule_list
<1> DEFINE T == {i \in DOMAIN schedule_list : Due(schedule_list[i])}
<1>1. T \in SUBSET Nat /\ T # {}
  OBVIOUS
<1>2. PICK i \in T : \A j \in T : i <= j
  BY <1>1, Least
<1>3. \A j \in 1..(i - 1) : j \in DOMAIN schedule_list /\ ~(i <= j)
  OBVIOUS
<1>4. \A j \in 1..(i - 1) : ~Due(schedule_list[j])
  BY <1>2, <1>3
<1> QED BY <1>2, <1>4 DEF FirstDue

-----------------------------------------------------------------------------
(* The image cache. *)

(* A set with 0 that has the successor of each of its members has all       *)
(* natural numbers.                                                         *)
LEMMA EveryNatural ==
  ASSUME NEW S, 0 \in S, \A n \in Nat : n \in S => n + 1 \in S
  PROVE  Nat \subseteq S
<1> SUFFICES ASSUME Nat \ S # {} PROVE FALSE
  OBVIOUS
<1>1. PICK m \in Nat \ S : \A k \in Nat \ S : m <= k
  BY Least
<1>2. m # 0 /\ m - 1 \in Nat /\ (m - 1) + 1 = m /\ ~(m <= m - 1)
  BY <1>1
<1>3. m - 1 \in S
  BY <1>1, <1>2
<1> QED BY <1>1, <1>2, <1>3

OneOf(B) == CHOOSE c \in B : TRUE

LEMMA OneOfSet ==
  ASSUME NEW B \in SUBSET Image, B # {}
  PROVE  /\ OneOf(B) \in B /\ OneOf(B) \in Image /\ Size[OneOf(B)] \in Nat
         /\ B \ {OneOf(B)} \in SUBSET Image
         /\ IsFiniteSet(B) /\ Cardinality(B) \in Nat
         /\ Cardinality(B \ {OneOf(B)}) = Cardinality(B) - 1
<1>1. OneOf(B) \in B
  BY DEF OneOf
<1>2. OneOf(B) \in Image /\ Size[OneOf(B)] \in Nat
  BY <1>1, BackgroundAssumption
<1>3. IsFiniteSet(B) /\ Cardinality(B) \in Nat
  BY BackgroundAssumption, FS_Subset, FS_CardinalityType
<1> QED BY <1>1, <1>2, <1>3, FS_RemoveElement

(* The recursion of Bytes has a solution. *)
LEMMA BytesDef ==
  /\ Bytes \in [SUBSET Image -> Nat]
  /\ Bytes[{}] = 0
  /\ \A B \in SUBSET Image : B # {} => Bytes[B] = Size[OneOf(B)] + Bytes[B \ {OneOf(B)}]
<1> DEFINE UpTo(n) == {B \in SUBSET Image : Cardinality(B) <= n}
           Sums(f, D) == /\ f \in [D -> Nat]
                         /\ \A B \in D : f[B] = IF B = {} THEN 0
                                                ELSE Size[OneOf(B)] + f[B \ {OneOf(B)}]
           P == {n \in Nat : \E f : Sums(f, UpTo(n))}
<1>1. 0 \in P
  <2>1. UpTo(0) \subseteq {{}}
    <3> SUFFICES ASSUME NEW B \in SUBSET Image, Cardinality(B) <= 0 PROVE B = {}
      OBVIOUS
    <3>1. IsFiniteSet(B) /\ Cardinality(B) \in Nat
      BY BackgroundAssumption, FS_Subset, FS_CardinalityType
    <3> QED BY <3>1, FS_EmptySet
  <2> HIDE DEF UpTo
  <2> DEFINE f == [B \in UpTo(0) |-> 0]
  <2>2. Sums(f, UpTo(0))
    BY <2>1
  <2> QED BY <2>2
<1>2. ASSUME NEW n \in Nat, n \in P PROVE n + 1 \in P
  <2>1. PICK f : Sums(f, UpTo(n))
    BY <1>2
  <2> DEFINE g == [B \in UpTo(n + 1) |-> IF B = {} THEN 0
                                         ELSE Size[OneOf(B)] + f[B \ {OneOf(B)}]]
  <2>2. \A B \in UpTo(n + 1) : B # {} => B \ {OneOf(B)} \in UpTo(n) /\ Size[OneOf(B)] \in Nat
    <3> SUFFICES ASSUME NEW B \in SUBSET Image, Cardinality(B) <= n + 1, B # {}
                 PROVE  /\ B \ {OneOf(B)} \in SUBSET Image /\ Cardinality(B \ {OneOf(B)}) <= n
                        /\ Size[OneOf(B)] \in Nat
      OBVIOUS
    <3> QED BY OneOfSet
  <2>3. \A B \in UpTo(n) : B \in UpTo(n + 1)
    <3> SUFFICES ASSUME NEW B \in SUBSET Image, Cardinality(B) <= n PROVE Cardinality(B) <= n + 1
      OBVIOUS
    <3>1. Cardinality(B) \in Nat
      BY BackgroundAssumption, FS_Subset, FS_CardinalityType
    <3> QED BY <3>1
  <2> HIDE DEF UpTo
  <2>4. g \in [UpTo(n + 1) -> Nat]
    BY <2>1, <2>2
  <2>5. \A B \in UpTo(n) : g[B] = f[B]
    BY <2>1, <2>3
  <2>6. \A B \in UpTo(n + 1) : g[B] = IF B = {} THEN 0 ELSE Size[OneOf(B)] + g[B \ {OneOf(B)}]
    BY <2>2, <2>5
  <2> HIDE DEF g
  <2>7. Sums(g, UpTo(n + 1))
    BY <2>4, <2>6
  <2> QED BY <2>7
<1>3. Nat \subseteq P
  <2> HIDE DEF P
  <2> QED BY <1>1, <1>2, EveryNatural
<1>4. PICK f : Sums(f, SUBSET Image)
  <2>1. Cardinality(Image) \in Nat
    BY BackgroundAssumption, FS_CardinalityType
  <2>2. UpTo(Cardinality(Image)) = SUBSET Image
    BY BackgroundAssumption, FS_Subset
  <2> HIDE DEF UpTo, Sums
  <2>3. Cardinality(Image) \in P
    BY <1>3, <2>1
  <2> QED BY <2>2, <2>3
<1>5. f = [B \in SUBSET Image |->
            IF B = {} THEN 0 ELSE LET c == CHOOSE c \in B : TRUE IN Size[c] + f[B \ {c}]]
  BY <1>4, Zenon DEF OneOf
<1>6. Bytes = [B \in SUBSET Image |->
            IF B = {} THEN 0 ELSE LET c == CHOOSE c \in B : TRUE IN Size[c] + Bytes[B \ {c}]]
  BY <1>5, Zenon DEF Bytes
<1>7. \A B \in SUBSET Image : Bytes[B] = IF B = {} THEN 0 ELSE Size[OneOf(B)] + Bytes[B \ {OneOf(B)}]
  BY <1>6, Zenon DEF OneOf
<1>12. {} \in SUBSET Image /\ Bytes[{}] = 0
  <2>1. {} \in SUBSET Image
    OBVIOUS
  <2> QED BY <1>7, <2>1, Zenon
<1> DEFINE Q == {n \in Nat : \A B \in UpTo(n) : Bytes[B] \in Nat}
<1>8. 0 \in Q
  <2> SUFFICES ASSUME NEW B \in SUBSET Image, Cardinality(B) <= 0 PROVE Bytes[B] \in Nat
    OBVIOUS
  <2>1. IsFiniteSet(B) /\ Cardinality(B) \in Nat
    BY BackgroundAssumption, FS_Subset, FS_CardinalityType
  <2>2. B = {}
    BY <2>1, FS_EmptySet
  <2> QED BY <1>12, <2>2
<1>9. ASSUME NEW n \in Nat, n \in Q PROVE n + 1 \in Q
  <2> SUFFICES ASSUME NEW B \in SUBSET Image, Cardinality(B) <= n + 1 PROVE Bytes[B] \in Nat
    OBVIOUS
  <2>1. CASE B = {}
    BY <1>12, <2>1
  <2>2. CASE B # {}
    <3> DEFINE r == B \ {OneOf(B)}
    <3>1. r \in SUBSET Image /\ Cardinality(r) <= n /\ Size[OneOf(B)] \in Nat
      BY <2>2, OneOfSet
    <3>2. Bytes[r] \in Nat
      <4> HIDE DEF r
      <4> QED BY <1>9, <3>1
    <3> QED BY <1>7, <2>2, <3>1, <3>2
  <2> QED BY <2>1, <2>2
<1>10. Nat \subseteq Q
  <2> HIDE DEF Q
  <2> QED BY <1>8, <1>9, EveryNatural
<1>11. \A B \in SUBSET Image : Bytes[B] \in Nat
  <2> TAKE B \in SUBSET Image
  <2>1. Cardinality(B) \in Nat /\ B \in UpTo(Cardinality(B))
    BY BackgroundAssumption, FS_Subset, FS_CardinalityType
  <2> HIDE DEF UpTo
  <2> QED BY <1>10, <2>1
<1>13. Bytes \in [SUBSET Image -> Nat]
  <2> HIDE DEF UpTo, Sums, P, Q
  <2>1. Bytes = [B \in SUBSET Image |-> Bytes[B]]
    BY <1>6
  <2> QED BY <1>11, <2>1
<1> QED BY <1>7, <1>12, <1>13

(* One bitmap more, whichever the recursion takes first. *)
LEMMA BytesAdd ==
  ASSUME NEW B \in SUBSET Image, NEW c \in Image, c \notin B
  PROVE  Bytes[B \cup {c}] = Bytes[B] + Size[c]
<1> DEFINE Adds(A) == \A d \in Image \ A : Bytes[A \cup {d}] = Bytes[A] + Size[d]
           P == {n \in Nat : \A A \in SUBSET Image : Cardinality(A) <= n => Adds(A)}
<1>1. ASSUME NEW A \in SUBSET Image, NEW d \in Image \ A,
             A # {} => Adds(A \ {OneOf(A)}),
             \A e \in A : Cardinality(A \ {e}) = Cardinality(A) - 1,
             \A e \in A : Adds(A \ {e})
      PROVE  Bytes[A \cup {d}] = Bytes[A] + Size[d]
  <2> DEFINE U == A \cup {d}
             e == OneOf(U)
  <2> SUFFICES Bytes[U] = Bytes[A] + Size[d]
    OBVIOUS
  <2>1. U \in SUBSET Image /\ U # {}
    OBVIOUS
  <2>2. e \in U /\ Bytes[U] = Size[e] + Bytes[U \ {e}]
    <3> HIDE DEF U
    <3> QED BY <2>1, OneOfSet, BytesDef
  <2> HIDE DEF e, U
  <2>3. /\ Bytes[A] \in Nat /\ Size[d] \in Nat /\ Size[e] \in Nat
        /\ \A X \in SUBSET Image : Bytes[X] \in Nat
    BY <2>1, <2>2, BytesDef, BackgroundAssumption
  <2>4. CASE e = d
    <3>1. U \ {e} = A
      BY <2>4 DEF U
    <3>2. Bytes[U \ {e}] = Bytes[A]
      BY <3>1, Zenon
    <3>3. Bytes[U] = Size[d] + Bytes[A]
      BY <2>2, <2>4, <3>2, Zenon
    <3> QED BY <2>3, <3>3
  <2>5. CASE e # d
    <3>1. e \in A /\ U \ {e} = (A \ {e}) \cup {d} /\ A = (A \ {e}) \cup {e}
      BY <2>2, <2>5 DEF U
    <3>2. Bytes[(A \ {e}) \cup {d}] = Bytes[A \ {e}] + Size[d]
      BY <1>1, <3>1
    <3>3. Bytes[(A \ {e}) \cup {e}] = Bytes[A \ {e}] + Size[e]
      BY <1>1, <3>1
    <3>4. A \ {e} \in SUBSET Image
      OBVIOUS
    <3>5. Bytes[U \ {e}] = Bytes[A \ {e}] + Size[d] /\ Bytes[A] = Bytes[A \ {e}] + Size[e]
      BY <3>1, <3>2, <3>3
    <3>6. Bytes[A \ {e}] \in Nat
      BY <2>3, <3>4
    <3>7. Bytes[U] = Size[e] + (Bytes[A \ {e}] + Size[d])
      BY <2>2, <3>5
    <3> QED BY <2>3, <3>5, <3>6, <3>7
  <2> QED BY <2>4, <2>5
<1>2. \A A \in SUBSET Image : IsFiniteSet(A) /\ Cardinality(A) \in Nat
        /\ \A e \in A : Cardinality(A \ {e}) = Cardinality(A) - 1
  BY BackgroundAssumption, FS_Subset, FS_CardinalityType, FS_RemoveElement
<1>3. 0 \in P
  <2> SUFFICES ASSUME NEW A \in SUBSET Image, Cardinality(A) <= 0 PROVE Adds(A)
    OBVIOUS
  <2>1. A = {}
    BY <1>2, FS_EmptySet
  <2> HIDE DEF Adds
  <2>2. \A d \in Image \ A : Bytes[A \cup {d}] = Bytes[A] + Size[d]
    BY <1>1, <1>2, <2>1
  <2> QED BY <2>2 DEF Adds
<1>4. ASSUME NEW n \in Nat, n \in P PROVE n + 1 \in P
  <2> SUFFICES ASSUME NEW A \in SUBSET Image, Cardinality(A) <= n + 1 PROVE Adds(A)
    OBVIOUS
  <2>1. \A e \in A : A \ {e} \in SUBSET Image /\ Cardinality(A \ {e}) <= n
    BY <1>2
  <2>2. \A e \in A : Adds(A \ {e})
    BY <1>4, <2>1
  <2>3. A # {} => OneOf(A) \in A
    BY OneOfSet
  <2> HIDE DEF Adds
  <2>4. \A d \in Image \ A : Bytes[A \cup {d}] = Bytes[A] + Size[d]
    BY <1>1, <1>2, <2>2, <2>3
  <2> QED BY <2>4 DEF Adds
<1>5. Nat \subseteq P
  <2> HIDE DEF P
  <2> QED BY <1>3, <1>4, EveryNatural
<1>6. Adds(B)
  BY <1>2, <1>5
<1> QED BY <1>6

(* Induction up to a bound. *)
LEMMA UpToBound ==
  ASSUME NEW n \in Nat, NEW S, 0 \in S, \A i \in 1..n : i - 1 \in S => i \in S
  PROVE  0..n \subseteq S
<1> DEFINE P == {i \in Nat : i \in S \/ i > n}
<1>1. ASSUME NEW i \in Nat, i \in P PROVE i + 1 \in P
  <2>1. CASE i + 1 \in 1..n
    <3>1. i \in S /\ (i + 1) - 1 = i
      BY <1>1, <2>1
    <3>2. i + 1 \in S
      BY <2>1, <3>1
    <3> QED BY <3>2
  <2>2. CASE i + 1 \notin 1..n
    BY <2>2
  <2> QED BY <2>1, <2>2
<1>2. 0 \in P
  OBVIOUS
<1>3. Nat \subseteq P
  <2> HIDE DEF P
  <2> QED BY <1>1, <1>2, EveryNatural
<1> QED BY <1>3

(* A walk along a list by a step that stays in K has a course. *)
LEMMA WalkExists ==
  ASSUME NEW K, NEW base \in K, NEW n \in Nat, NEW F \in [(1..n) \X K -> K]
  PROVE  \E f \in [0..n -> K] :
            f[0] = base /\ \A i \in 1..n : f[i] = F[<<i, f[i - 1]>>]
<1> DEFINE Course(f, m) == /\ f \in [0..m -> K] /\ f[0] = base
                           /\ \A i \in 1..m : f[i] = F[<<i, f[i - 1]>>]
           P == {m \in 0..n : \E f : Course(f, m)}
<1>1. 0 \in P
  <2> DEFINE f == [i \in 0..0 |-> base]
  <2>1. Course(f, 0)
    OBVIOUS
  <2>2. 0 \in 0..n
    OBVIOUS
  <2> HIDE DEF f, Course
  <2> QED BY <2>1, <2>2
<1>2. ASSUME NEW m \in 1..n, m - 1 \in P PROVE m \in P
  <2>1. PICK f : Course(f, m - 1)
    BY <1>2
  <2>2. m \in Nat /\ m - 1 \in 0..(m - 1) /\ f[m - 1] \in K /\ F[<<m, f[m - 1]>>] \in K
    BY <2>1
  <2> DEFINE g == [i \in 0..m |-> IF i = m THEN F[<<m, f[m - 1]>>] ELSE f[i]]
  <2>3. g \in [0..m -> K]
    BY <2>1, <2>2
  <2>4. \A i \in 0..(m - 1) : g[i] = f[i]
    BY <2>2
  <2>5. g[m] = F[<<m, f[m - 1]>>]
    BY <2>2
  <2> HIDE DEF g
  <2>6. g[0] = base
    BY <2>1, <2>2, <2>4
  <2>7. ASSUME NEW i \in 1..m PROVE g[i] = F[<<i, g[i - 1]>>]
    <3>1. CASE i = m
      BY <2>2, <2>4, <2>5, <3>1
    <3>2. CASE i # m
      <4>1. i \in 1..(m - 1) /\ i \in 0..(m - 1) /\ i - 1 \in 0..(m - 1)
        BY <2>2, <3>2
      <4> QED BY <2>1, <2>4, <4>1
    <3> QED BY <3>1, <3>2
  <2>8. Course(g, m)
    BY <2>3, <2>6, <2>7
  <2> HIDE DEF Course
  <2> QED BY <2>8
<1>3. 0..n \subseteq P
  <2> HIDE DEF P
  <2> QED BY <1>1, <1>2, UpToBound
<1>4. n \in P
  <2> HIDE DEF P
  <2> QED BY <1>3
<1> QED BY <1>4

Caches == [entries : Seq(Image), bitmap : SUBSET Image, total : Int, count : Int]

(* A cache whose totals are those of its bitmaps. *)
Sound(k) ==
  /\ k \in Caches /\ Injective(k.entries) /\ k.bitmap \subseteq ToSet(k.entries)
  /\ k.total = Bytes[k.bitmap] /\ k.count = Cardinality(k.bitmap)

(* Other bitmaps with other totals. *)
Holding(k, B, total, count) ==
  [[[k EXCEPT !.bitmap = B] EXCEPT !.total = total] EXCEPT !.count = count]

LEMMA HoldingFields ==
  ASSUME NEW k \in Caches, NEW B \in SUBSET Image, NEW total \in Int, NEW count \in Int
  PROVE  LET r == Holding(k, B, total, count)
         IN  /\ r \in Caches /\ r.entries = k.entries /\ r.bitmap = B
             /\ r.total = total /\ r.count = count
<1> DEFINE b == [k EXCEPT !.bitmap = B]
           t == [b EXCEPT !.total = total]
           r == [t EXCEPT !.count = count]
<1>1. b \in Caches /\ b.entries = k.entries /\ b.bitmap = B
  BY DEF Caches
<1> HIDE DEF b
<1>2. t \in Caches /\ t.entries = k.entries /\ t.bitmap = B /\ t.total = total
  BY <1>1 DEF Caches
<1> HIDE DEF t
<1>3. r \in Caches /\ r.entries = k.entries /\ r.bitmap = B /\ r.total = total /\ r.count = count
  BY <1>2 DEF Caches
<1> QED BY <1>3 DEF Holding, b, t

LEMMA Counted ==
  ASSUME NEW B \in SUBSET Image, NEW c \in Image
  PROVE  /\ Bytes[B] \in Nat /\ Size[c] \in Nat /\ Cardinality(B) \in Nat
         /\ c \notin B => /\ Bytes[B \cup {c}] = Bytes[B] + Size[c]
                          /\ Cardinality(B \cup {c}) = Cardinality(B) + 1
         /\ c \in B => /\ Bytes[B \ {c}] = Bytes[B] - Size[c]
                       /\ Cardinality(B \ {c}) = Cardinality(B) - 1
<1>1. IsFiniteSet(B) /\ Cardinality(B) \in Nat
  BY BackgroundAssumption, FS_Subset, FS_CardinalityType
<1>2. Bytes[B] \in Nat /\ Size[c] \in Nat
  BY BytesDef, BackgroundAssumption
<1>3. Cardinality(B \cup {c}) = IF c \in B THEN Cardinality(B) ELSE Cardinality(B) + 1
  BY <1>1, FS_AddElement
<1>4. Cardinality(B \ {c}) = IF c \in B THEN Cardinality(B) - 1 ELSE Cardinality(B)
  BY <1>1, FS_RemoveElement
<1>5. c \notin B => Bytes[B \cup {c}] = Bytes[B] + Size[c]
  BY BytesAdd
<1>6. ASSUME c \in B PROVE Bytes[B \ {c}] = Bytes[B] - Size[c]
  <2> DEFINE A == B \ {c}
  <2>1. A \in SUBSET Image /\ c \notin A /\ B = A \cup {c}
    BY <1>6
  <2> HIDE DEF A
  <2>2. Bytes[A \cup {c}] = Bytes[A] + Size[c] /\ Bytes[A] \in Nat
    BY <2>1, BytesAdd, BytesDef
  <2>3. Bytes[B] = Bytes[A] + Size[c]
    BY <2>1, <2>2, Zenon
  <2>4. Bytes[A] = Bytes[B] - Size[c]
    BY <1>2, <2>2, <2>3
  <2> QED BY <2>4 DEF A
<1> QED BY <1>1, <1>2, <1>3, <1>4, <1>5, <1>6

(* image_cache_stats_bitmap_add (image_cache.c:155) for an entry without a *)
(* bitmap.                                                                 *)
LEMMA BitmapAdded ==
  ASSUME NEW k, Sound(k), NEW c \in ToSet(k.entries), c \notin k.bitmap
  PROVE  LET r == image_cache_stats_bitmap_add(k, c)
         IN  /\ Sound(r) /\ r.entries = k.entries /\ r.bitmap = k.bitmap \cup {c}
<1> DEFINE r == image_cache_stats_bitmap_add(k, c)
<1>1. k \in Caches /\ c \in Image /\ k.bitmap \in SUBSET Image
  BY DEF Sound, Caches, ToSet
<1>2. /\ r \in Caches /\ r.entries = k.entries /\ r.bitmap = k.bitmap \cup {c}
      /\ r.total = k.total + Size[c] /\ r.count = k.count + 1
  <2>1. r = Holding(k, k.bitmap \cup {c}, k.total + Size[c], k.count + 1)
    BY DEF image_cache_stats_bitmap_add, Holding
  <2>2. k.bitmap \cup {c} \in SUBSET Image /\ k.total + Size[c] \in Int /\ k.count + 1 \in Int
    BY <1>1, BackgroundAssumption DEF Caches
  <2> HIDE DEF r
  <2> QED BY <1>1, <2>1, <2>2, HoldingFields
<1> HIDE DEF r
<1>3. Bytes[r.bitmap] = r.total /\ Cardinality(r.bitmap) = r.count
  <2>1. Bytes[k.bitmap \cup {c}] = Bytes[k.bitmap] + Size[c]
        /\ Cardinality(k.bitmap \cup {c}) = Cardinality(k.bitmap) + 1
    BY <1>1, Counted
  <2>2. k.total = Bytes[k.bitmap] /\ k.count = Cardinality(k.bitmap)
    BY DEF Sound
  <2> QED BY <1>2, <2>1, <2>2
<1>4. Sound(r)
  BY <1>2, <1>3 DEF Sound
<1> QED BY <1>2, <1>4 DEF r

(* image_cache__free_bitmap (image_cache.c:221): nothing without a bitmap. *)
LEMMA BitmapFreed ==
  ASSUME NEW k, Sound(k), NEW c \in Image
  PROVE  LET r == image_cache__free_bitmap(k, c)
         IN  Sound(r) /\ r.entries = k.entries /\ r.bitmap = k.bitmap \ {c}
<1> DEFINE r == image_cache__free_bitmap(k, c)
<1>1. k \in Caches /\ k.bitmap \in SUBSET Image
  BY DEF Sound, Caches
<1>2. CASE c \in k.bitmap
  <2>1. /\ r \in Caches /\ r.entries = k.entries /\ r.bitmap = k.bitmap \ {c}
        /\ r.total = k.total - Size[c] /\ r.count = k.count - 1
    <3>1. r = Holding(k, k.bitmap \ {c}, k.total - Size[c], k.count - 1)
      BY <1>2 DEF image_cache__free_bitmap, Holding
    <3>2. k.bitmap \ {c} \in SUBSET Image /\ k.total - Size[c] \in Int /\ k.count - 1 \in Int
      BY <1>1, BackgroundAssumption DEF Caches
    <3> HIDE DEF r
    <3> QED BY <1>1, <3>1, <3>2, HoldingFields
  <2> HIDE DEF r
  <2>2. Bytes[k.bitmap \ {c}] = Bytes[k.bitmap] - Size[c]
        /\ Cardinality(k.bitmap \ {c}) = Cardinality(k.bitmap) - 1
    BY <1>1, <1>2, Counted
  <2>3. Bytes[r.bitmap] = r.total /\ Cardinality(r.bitmap) = r.count
    BY <2>1, <2>2 DEF Sound
  <2>4. Sound(r)
    BY <2>1, <2>3 DEF Sound
  <2> QED BY <2>1, <2>4 DEF r
<1>3. CASE c \notin k.bitmap
  <2>1. r = k /\ k.bitmap = k.bitmap \ {c}
    BY <1>3 DEF image_cache__free_bitmap
  <2> QED BY <2>1
<1> QED BY <1>2, <1>3

(* image_cache__free_entry (image_cache.c:243). *)
LEMMA EntryFreed ==
  ASSUME NEW k, Sound(k), NEW c \in Image
  PROVE  LET r == image_cache__free_entry(k, c)
         IN  Sound(r) /\ ToSet(r.entries) = ToSet(k.entries) \ {c}
<1> DEFINE m == image_cache__free_bitmap(k, c)
           r == image_cache__free_entry(k, c)
<1>1. Sound(m) /\ m.entries = k.entries /\ m.bitmap = k.bitmap \ {c}
  BY BitmapFreed
<1>2. m \in Caches /\ k.entries \in Seq(Image) /\ Injective(k.entries)
      /\ k.bitmap \subseteq ToSet(k.entries)
  BY <1>1 DEF Sound, Caches
<1>3. r = [m EXCEPT !.entries = Sublist(m.entries, Image \ {c})]
  BY DEF image_cache__free_entry
<1> HIDE DEF m, r
<1> DEFINE s == Sublist(k.entries, Image \ {c})
<1>4. s \in Seq(Image) /\ ToSet(s) = ToSet(k.entries) \cap (Image \ {c}) /\ Injective(s)
  BY <1>2, SublistProperties
<1>5. ToSet(k.entries) \subseteq Image
  BY <1>2 DEF ToSet
<1>6. /\ r \in Caches /\ r.entries = s /\ r.bitmap = m.bitmap /\ r.total = m.total
      /\ r.count = m.count
  <2> HIDE DEF s
  <2> QED BY <1>1, <1>2, <1>3, <1>4 DEF Caches, s
<1> HIDE DEF s
<1>7. Sound(r) /\ ToSet(r.entries) = ToSet(k.entries) \ {c}
  BY <1>1, <1>2, <1>4, <1>5, <1>6 DEF Sound
<1> QED BY <1>7 DEF r

(* image_cache__clean (image_cache.c:261): the entries stay, and the totals *)
(* are right whatever is freed.                                            *)
LEMMA Cleaned ==
  ASSUME NEW k, Sound(k), NEW old, NEW chosen
  PROVE  /\ Sound(image_cache__clean(k, old, chosen))
         /\ image_cache__clean(k, old, chosen).entries = k.entries
<1> DEFINE K == {r \in Caches : Sound(r) /\ r.entries = k.entries}
           n == Len(k.entries)
           Step(r, i) == IF k.entries[i] \in old \cap chosen /\ r.total > Limit - Hysteresis
                         THEN image_cache__free_bitmap(r, k.entries[i]) ELSE r
           F == [p \in (1..n) \X K |-> Step(p[2], p[1])]
<1>1. k \in K /\ n \in Nat /\ \A i \in 1..n : k.entries[i] \in Image
  BY DEF Sound, Caches
<1>2. ASSUME NEW i \in 1..n, NEW r \in K PROVE Step(r, i) \in K
  <2>1. CASE k.entries[i] \in old \cap chosen /\ r.total > Limit - Hysteresis
    <3> DEFINE m == image_cache__free_bitmap(r, k.entries[i])
    <3>1. Sound(m) /\ m.entries = r.entries
      BY <1>1, BitmapFreed
    <3>2. m \in K
      <4> HIDE DEF m
      <4> QED BY <3>1 DEF Sound
    <3> QED BY <2>1, <3>2
  <2>2. CASE ~(k.entries[i] \in old \cap chosen /\ r.total > Limit - Hysteresis)
    BY <2>2
  <2> QED BY <2>1, <2>2
<1>3. F \in [(1..n) \X K -> K]
  <2> HIDE DEF K, Step, n
  <2> QED BY <1>2
<1> HIDE DEF K
<1>4. PICK f \in [0..n -> K] : f[0] = k /\ \A i \in 1..n : f[i] = F[<<i, f[i - 1]>>]
  <2> HIDE DEF F, n
  <2> QED BY <1>1, <1>3, WalkExists
<1>5. \A i \in 1..n : i - 1 \in 0..n /\ f[i - 1] \in K /\ f[i] = Step(f[i - 1], i)
  <2> HIDE DEF Step, n, F
  <2> TAKE i \in 1..n
  <2> DEFINE p == <<i, f[i - 1]>>
  <2>1. i - 1 \in 0..n /\ f[i - 1] \in K
    BY <1>1, <1>4
  <2>2. p \in (1..n) \X K /\ p[1] = i /\ p[2] = f[i - 1] /\ f[i] = F[p]
    BY <1>4, <2>1
  <2> HIDE DEF p
  <2>3. F[p] = Step(p[2], p[1])
    BY <2>2 DEF F
  <2> QED BY <2>1, <2>2, <2>3
<1> DEFINE Walk(g) == [i \in 0..n |->
                        IF i = 0 THEN k
                        ELSE IF k.entries[i] \in old \cap chosen
                                /\ g[i - 1].total > Limit - Hysteresis
                             THEN image_cache__free_bitmap(g[i - 1], k.entries[i])
                             ELSE g[i - 1]]
           after == CHOOSE g : g = Walk(g)
<1>6. f = Walk(f)
  <2> HIDE DEF n
  <2>1. \A i \in 0..n : i = 0 \/ i \in 1..n
    BY <1>1
  <2>2. \A i \in 0..n : f[i] = Walk(f)[i]
    BY <1>4, <1>5, <2>1
  <2> HIDE DEF Walk
  <2>3. f = [i \in 0..n |-> f[i]]
    BY <1>4
  <2>4. Walk(f) = [i \in 0..n |-> Walk(f)[i]]
    BY DEF Walk
  <2> QED BY <2>2, <2>3, <2>4
<1>7. after = Walk(after)
  <2> HIDE DEF Walk
  <2> QED BY <1>6, Zenon
<1>8. image_cache__clean(k, old, chosen) = after[n]
  BY Zenon DEF image_cache__clean
<1> HIDE DEF after
<1>9. after[0] = k /\ \A i \in 1..n : after[i] = Step(after[i - 1], i)
  <2> HIDE DEF n
  <2>1. \A i \in 0..n : after[i] = IF i = 0 THEN k ELSE Step(after[i - 1], i)
    BY <1>7, Zenon
  <2>2. 0 \in 0..n /\ \A i \in 1..n : i \in 0..n /\ i # 0
    BY <1>1
  <2> HIDE DEF Step
  <2> QED BY <2>1, <2>2
<1>10. 0..n \subseteq {i \in 0..n : after[i] \in K}
  <2> DEFINE S == {i \in 0..n : after[i] \in K}
  <2> HIDE DEF Step, n
  <2>1. 0 \in S /\ \A i \in 1..n : i - 1 \in S => i \in S
    BY <1>1, <1>2, <1>9
  <2> HIDE DEF S
  <2> QED BY <1>1, <2>1, UpToBound DEF S
<1>11. after[n] \in K
  <2> HIDE DEF n
  <2> QED BY <1>1, <1>10
<1> QED BY <1>8, <1>11 DEF K

(* The entries of a set of contents go, and nothing else. *)
LEMMA EntriesFreed ==
  ASSUME NEW k, Sound(k), NEW gone
  PROVE  /\ Sound(FreeEntries(k, gone))
         /\ ToSet(FreeEntries(k, gone).entries) = ToSet(k.entries) \ gone
<1> DEFINE K == {r \in Caches : Sound(r)}
           n == Len(k.entries)
           Step(r, i) == IF k.entries[i] \in gone
                         THEN image_cache__free_entry(r, k.entries[i]) ELSE r
           F == [p \in (1..n) \X K |-> Step(p[2], p[1])]
           To(i) == {k.entries[j] : j \in 1..i}
<1>0. DOMAIN k.entries = 1..n
  BY DEF Sound, Caches
<1>1. k \in K /\ n \in Nat /\ \A i \in 1..n : k.entries[i] \in Image
  BY DEF Sound, Caches
<1>2. ASSUME NEW i \in 1..n, NEW r \in K
      PROVE  Step(r, i) \in K /\ ToSet(Step(r, i).entries) = ToSet(r.entries) \ ({k.entries[i]} \cap gone)
  <2>1. CASE k.entries[i] \in gone
    <3> DEFINE m == image_cache__free_entry(r, k.entries[i])
    <3>1. Sound(m) /\ ToSet(m.entries) = ToSet(r.entries) \ {k.entries[i]}
      BY <1>1, EntryFreed
    <3>2. m \in K
      <4> HIDE DEF m
      <4> QED BY <3>1 DEF Sound
    <3>3. Step(r, i) = m /\ {k.entries[i]} \cap gone = {k.entries[i]}
      BY <2>1
    <3> HIDE DEF m, K, Step
    <3> QED BY <3>1, <3>2, <3>3
  <2>2. CASE k.entries[i] \notin gone
    BY <2>2
  <2> QED BY <2>1, <2>2
<1>3. F \in [(1..n) \X K -> K]
  <2> HIDE DEF K, Step, n
  <2> QED BY <1>2
<1> HIDE DEF K
<1>4. PICK f \in [0..n -> K] : f[0] = k /\ \A i \in 1..n : f[i] = F[<<i, f[i - 1]>>]
  <2> HIDE DEF F, n
  <2> QED BY <1>1, <1>3, WalkExists
<1>5. \A i \in 1..n : i - 1 \in 0..n /\ f[i - 1] \in K /\ f[i] = Step(f[i - 1], i)
  <2> HIDE DEF Step, n, F
  <2> TAKE i \in 1..n
  <2> DEFINE p == <<i, f[i - 1]>>
  <2>1. i - 1 \in 0..n /\ f[i - 1] \in K
    BY <1>1, <1>4
  <2>2. p \in (1..n) \X K /\ p[1] = i /\ p[2] = f[i - 1] /\ f[i] = F[p]
    BY <1>4, <2>1
  <2> HIDE DEF p
  <2>3. F[p] = Step(p[2], p[1])
    BY <2>2 DEF F
  <2> QED BY <2>1, <2>2, <2>3
<1> DEFINE Walk(g) == [i \in 0..n |->
                        IF i = 0 THEN k
                        ELSE IF k.entries[i] \in gone
                             THEN image_cache__free_entry(g[i - 1], k.entries[i])
                             ELSE g[i - 1]]
           after == CHOOSE g : g = Walk(g)
<1>6. f = Walk(f)
  <2> HIDE DEF n
  <2>1. \A i \in 0..n : i = 0 \/ i \in 1..n
    BY <1>1
  <2>2. \A i \in 0..n : f[i] = Walk(f)[i]
    BY <1>4, <1>5, <2>1
  <2> HIDE DEF Walk
  <2>3. f = [i \in 0..n |-> f[i]]
    BY <1>4
  <2>4. Walk(f) = [i \in 0..n |-> Walk(f)[i]]
    BY DEF Walk
  <2> QED BY <2>2, <2>3, <2>4
<1>7. after = Walk(after)
  <2> HIDE DEF Walk
  <2> QED BY <1>6, Zenon
<1>8. FreeEntries(k, gone) = after[n]
  BY Zenon DEF FreeEntries
<1> HIDE DEF after
<1>9. after[0] = k /\ \A i \in 1..n : after[i] = Step(after[i - 1], i)
  <2> HIDE DEF n
  <2>1. \A i \in 0..n : after[i] = IF i = 0 THEN k ELSE Step(after[i - 1], i)
    BY <1>7, Zenon
  <2>2. 0 \in 0..n /\ \A i \in 1..n : i \in 0..n /\ i # 0
    BY <1>1
  <2> HIDE DEF Step
  <2> QED BY <2>1, <2>2
<1> DEFINE S == {i \in 0..n : after[i] \in K
                                /\ ToSet(after[i].entries) = ToSet(k.entries) \ (To(i) \cap gone)}
<1>10. 0..n \subseteq S
  <2>1. 0 \in S
    <3>1. To(0) = {}
      OBVIOUS
    <3> HIDE DEF n, To
    <3> QED BY <1>1, <1>9, <3>1
  <2>2. ASSUME NEW i \in 1..n, i - 1 \in S PROVE i \in S
    <3>1. To(i) = To(i - 1) \cup {k.entries[i]}
      <4> HIDE DEF n
      <4>1. \A j \in 1..i : j = i \/ j \in 1..(i - 1)
        BY <1>1
      <4>2. i \in 1..i /\ \A j \in 1..(i - 1) : j \in 1..i
        BY <1>1
      <4> QED BY <4>1, <4>2
    <3>2. after[i - 1] \in K /\ ToSet(after[i - 1].entries) = ToSet(k.entries) \ (To(i - 1) \cap gone)
      BY <2>2
    <3> HIDE DEF n, To, Step
    <3>3. after[i] = Step(after[i - 1], i) /\ i \in 0..n
      BY <1>1, <1>9
    <3>4. after[i] \in K
          /\ ToSet(after[i].entries) = ToSet(after[i - 1].entries) \ ({k.entries[i]} \cap gone)
      BY <1>2, <3>2, <3>3
    <3> QED BY <3>1, <3>2, <3>3, <3>4
  <2> HIDE DEF S, n
  <2> QED BY <1>1, <2>1, <2>2, UpToBound
<1>11. after[n] \in K /\ ToSet(after[n].entries) = ToSet(k.entries) \ (To(n) \cap gone)
  <2> HIDE DEF n, To
  <2> QED BY <1>1, <1>10
<1>12. To(n) = ToSet(k.entries)
  BY <1>0 DEF ToSet
<1>13. Sound(after[n]) /\ ToSet(after[n].entries) = ToSet(k.entries) \ gone
  <2> HIDE DEF n, To
  <2> QED BY <1>11, <1>12 DEF K
<1> QED BY <1>8, <1>13

-----------------------------------------------------------------------------
(* The inductive invariant: the image cache with what is known of the       *)
(* contents, and the schedule list with the timers of the contents.         *)

Live == {c \in Image : content[c] \in {"held", "unused"}}

CacheInv ==
  /\ Sound(cache)
  /\ pc # "ended" => ToSet(cache.entries) = Live
  /\ early \subseteq Png
  /\ idle \in [Image -> 0..(CleanTime + 1)] /\ age \in 0..(CleanTime + 1)

ListInv ==
  /\ schedule_list \in Seq(Job)
  /\ timeout \in Nat \cup {-1}
  /\ content \in [Content -> {"none", "header", "held", "unused", "failed"}]
  /\ pc \in {"run", "wait", "work", "stop", "finalise", "fini", "ended"}
  /\ TimersLive /\ PeriodicOnce /\ WakesInTime

BInv == CacheInv /\ ListInv

LEMMA Params ==
  /\ \A c \in Image : c \in Content /\ c \notin Gif /\ c # NULL
  /\ \A c \in Gif : c \in Content /\ c # NULL
  /\ \A c \in Page : c # NULL
  /\ Png \subseteq Image
  /\ CleanTime \in Nat /\ UpdateInterval \in Nat /\ CleanInterval \in Nat /\ FrameInterval \in Nat
BY BackgroundAssumption DEF Content

LEMMA CapType ==
  \A n \in Nat : Cap(n) \in 0..(CleanTime + 1)
BY Params DEF Cap

-----------------------------------------------------------------------------
(* The steps and the image cache. *)

LEMMA CacheKept ==
  ASSUME CacheInv, pc # "ended", UNCHANGED images, Live' = Live
  PROVE  CacheInv'
BY DEF CacheInv, images

LEMMA CacheStutter ==
  ASSUME CacheInv, pc # "ended", UNCHANGED <<content, images>>
  PROVE  CacheInv'
<1>1. Live' = Live
  BY DEF Live
<1> QED BY <1>1, CacheKept

LEMMA UpdateCache ==
  ASSUME CacheInv, pc # "ended", pc' = pc, NEW list, image_cache__background_update(list)
  PROVE  CacheInv'
<1> DEFINE older == [c \in Image |-> Cap(idle[c] + CleanTime)]
<1>1. /\ age' = Cap(age + CleanTime) /\ idle' = older /\ content' = content /\ early' = early
      /\ \E chosen \in SUBSET Image :
            cache' = image_cache__clean(cache, {c \in Image : older[c] > CleanTime}, chosen)
  BY DEF image_cache__background_update
<1>2. age' \in 0..(CleanTime + 1) /\ idle' \in [Image -> 0..(CleanTime + 1)]
  <2>1. age + CleanTime \in Nat /\ \A c \in Image : idle[c] + CleanTime \in Nat
    BY Params DEF CacheInv
  <2>2. age' \in 0..(CleanTime + 1)
    BY <1>1, <2>1, CapType
  <2>3. \A c \in Image : Cap(idle[c] + CleanTime) \in 0..(CleanTime + 1)
    BY <2>1, CapType
  <2> QED BY <1>1, <2>2, <2>3
<1> HIDE DEF older
<1>3. Sound(cache') /\ cache'.entries = cache.entries
  <2>1. PICK chosen : cache' = image_cache__clean(cache, {c \in Image : older[c] > CleanTime}, chosen)
    BY <1>1
  <2>2. Sound(cache)
    BY DEF CacheInv
  <2> QED BY <2>1, <2>2, Cleaned
<1>4. Live' = Live
  BY <1>1 DEF Live
<1>5. Sound(cache)'
  BY <1>3 DEF Sound
<1> QED BY <1>1, <1>2, <1>3, <1>4, <1>5 DEF CacheInv

LEMMA CleanCache ==
  ASSUME CacheInv, pc # "ended", NEW list, hlcache_clean(list)
  PROVE  CacheInv'
<1>1. /\ content' = [c \in Content |-> IF c \in Destroyed THEN "none" ELSE content[c]]
      /\ cache' = FreeEntries(cache, Destroyed)
      /\ early' = early \ Destroyed /\ idle' = idle /\ age' = age
  BY DEF hlcache_clean, image_cache_destroy
<1>2. Sound(cache) /\ ToSet(cache.entries) = Live
  BY DEF CacheInv
<1>3. Sound(cache') /\ ToSet(cache'.entries) = Live \ Destroyed
  BY <1>1, <1>2, EntriesFreed
<1>4. Live' = Live \ Destroyed
  BY <1>1, Params DEF Live, Destroyed
<1>5. Sound(cache)' /\ ToSet(cache.entries)' = Live'
  BY <1>3, <1>4 DEF Sound
<1> QED BY <1>1, <1>5 DEF CacheInv

LEMMA AddCache ==
  ASSUME CacheInv, ListInv, NEW c \in Image, ImageConverts(c)
  PROVE  CacheInv'
<1> DEFINE new == [cache EXCEPT !.entries = <<c>> \o cache.entries]
           converted == image_cache_stats_bitmap_add(new, c)
<1>1. /\ pc = "work" /\ content[c] \in {"header", "none"}
      /\ content' = [content EXCEPT ![c] = "held"] /\ pc' = pc
      /\ age' = Cap(age + 1)
      /\ idle' = [d \in Image |-> IF d = c THEN Cap(age + 1) ELSE Cap(idle[d] + 1)]
      /\ cache' = converted \/ cache' = new
      /\ early' = early \ {c}
  BY Zenon DEF ImageConverts, image_cache_add, Works
<1>2. /\ Sound(cache) /\ ToSet(cache.entries) = Live /\ c \notin Live
      /\ cache \in Caches /\ cache.entries \in Seq(Image) /\ Injective(cache.entries)
      /\ cache.bitmap \subseteq ToSet(cache.entries)
  BY <1>1 DEF CacheInv, Sound, Caches, Live
<1> DEFINE s == <<c>> \o cache.entries
<1>3. s \in Seq(Image) /\ ToSet(s) = Live \cup {c} /\ Injective(s)
  <2>1. s = Cons(c, cache.entries)
    BY DEF Cons
  <2>2. Cons(c, cache.entries) \in Seq(Image) /\ ToSet(Cons(c, cache.entries)) = Live \cup {c}
        /\ Injective(Cons(c, cache.entries))
    BY <1>2, ConsProperties
  <2> QED BY <2>1, <2>2, Zenon
<1>4. /\ new \in Caches /\ new.entries = s /\ new.bitmap = cache.bitmap
      /\ new.total = cache.total /\ new.count = cache.count
  <2> HIDE DEF s
  <2>1. new = [cache EXCEPT !.entries = s]
    BY DEF s
  <2> QED BY <1>2, <1>3, <2>1 DEF Caches
<1> HIDE DEF new, s
<1>5. Sound(new)
  BY <1>2, <1>3, <1>4 DEF Sound
<1>6. c \in ToSet(new.entries) /\ c \notin new.bitmap
  BY <1>2, <1>3, <1>4
<1>7. Sound(converted) /\ converted.entries = new.entries
  BY <1>5, <1>6, BitmapAdded
<1> HIDE DEF converted
<1>8. Sound(cache') /\ ToSet(cache'.entries) = Live \cup {c}
  BY <1>1, <1>3, <1>4, <1>5, <1>7
<1>9. Live' = Live \cup {c}
  BY <1>1, Params DEF Live, ListInv
<1>10. age' \in 0..(CleanTime + 1) /\ idle' \in [Image -> 0..(CleanTime + 1)]
  <2>1. age + 1 \in Nat /\ \A d \in Image : idle[d] + 1 \in Nat
    BY Params DEF CacheInv
  <2>2. age' \in 0..(CleanTime + 1)
    BY <1>1, <2>1, CapType
  <2>3. \A d \in Image : (IF d = c THEN Cap(age + 1) ELSE Cap(idle[d] + 1)) \in 0..(CleanTime + 1)
    BY <2>1, CapType
  <2> QED BY <1>1, <2>2, <2>3
<1>11. early' \subseteq Png
  BY <1>1 DEF CacheInv
<1>12. Sound(cache)' /\ ToSet(cache.entries)' = Live'
  BY <1>8, <1>9 DEF Sound
<1> QED BY <1>10, <1>11, <1>12 DEF CacheInv

(* A bitmap for an entry that is there. *)
LEMMA ConvertedCache ==
  ASSUME CacheInv, pc # "ended", NEW c \in Image, content[c] = "held"
  PROVE  \A k \in Converted(c) : Sound(k) /\ k.entries = cache.entries
<1>1. Sound(cache) /\ c \in ToSet(cache.entries)
  BY DEF CacheInv, Live
<1>2. c \notin cache.bitmap => /\ Sound(image_cache_stats_bitmap_add(cache, c))
                               /\ image_cache_stats_bitmap_add(cache, c).entries = cache.entries
  BY <1>1, BitmapAdded
<1> QED BY <1>1, <1>2 DEF Converted

LEMMA DrawCache ==
  ASSUME CacheInv, ListInv, NEW c \in Image, image_cache_redraw(c) \/ image_cache_get_bitmap(c)
  PROVE  CacheInv'
<1>1. /\ pc = "work" /\ content[c] = "held" /\ content' = [content EXCEPT ![c] = "held"]
      /\ cache' \in Converted(c) /\ early' = early /\ age' = age
      /\ idle' = idle \/ idle' = [idle EXCEPT ![c] = 0]
  BY Zenon DEF image_cache_redraw, image_cache_get_bitmap, Works
<1>2. Sound(cache') /\ cache'.entries = cache.entries
  BY <1>1, ConvertedCache
<1>3. content' = content
  BY <1>1 DEF ListInv
<1>4. Live' = Live
  BY <1>3 DEF Live
<1>5. idle' \in [Image -> 0..(CleanTime + 1)]
  BY <1>1, Params DEF CacheInv
<1>6. Sound(cache)' /\ ToSet(cache.entries)' = ToSet(cache.entries)
  BY <1>2 DEF Sound
<1> QED BY <1>1, <1>4, <1>5, <1>6 DEF CacheInv

LEMMA FiniCache ==
  ASSUME CacheInv, image_cache_fini
  PROVE  CacheInv'
<1>1. /\ pc' = "ended" /\ cache' = FreeEntries(cache, Image)
      /\ content' = content /\ early' = early /\ idle' = idle /\ age' = age
  BY DEF image_cache_fini
<1>2. Sound(cache')
  BY <1>1, EntriesFreed DEF CacheInv
<1>3. Sound(cache)'
  BY <1>2 DEF Sound
<1> QED BY <1>1, <1>3 DEF CacheInv

-----------------------------------------------------------------------------
(* The steps and the schedule list. *)

(* What the timers of the contents and the periodic jobs allow. *)
Scheduled(list, cont, where) ==
  /\ list \in Seq(Job)
  /\ \A c \in Gif : Times(list, "animate", c)
                      <= (IF cont[c] \in {"held", "unused"} THEN 1 ELSE 0)
  /\ Times(list, "update", NULL) = (IF where = "ended" THEN 0 ELSE 1)
  /\ where \notin {"fini", "ended"} =>
       Times(list, "clean", NULL) = (IF where = "finalise" THEN 0 ELSE 1)

ContentTypes == [Content -> {"none", "header", "held", "unused", "failed"}]
Places5 == {"run", "wait", "work", "stop", "finalise", "fini", "ended"}

LEMMA ListInvIs ==
  ListInv <=> /\ Scheduled(schedule_list, content, pc)
              /\ timeout \in Nat \cup {-1} /\ content \in ContentTypes /\ pc \in Places5
              /\ WakesInTime
BY DEF ListInv, Scheduled, ContentTypes, Places5, TimersLive, PeriodicOnce, Pending

LEMMA ListInvNext ==
  ASSUME Scheduled(schedule_list', content', pc'), timeout' \in Nat \cup {-1},
         content' \in ContentTypes, pc' \in Places5, pc' # "wait"
  PROVE  ListInv'
BY DEF ListInv, Scheduled, ContentTypes, Places5, TimersLive, PeriodicOnce, Pending, WakesInTime

(* A job that is not periodic and is no timer may come and go. *)
LEMMA SameTimes ==
  ASSUME NEW s, NEW t \in Seq(Job), NEW cont, NEW where, Scheduled(s, cont, where),
         \A c, o : c # "boxes" => Times(t, c, o) = Times(s, c, o)
  PROVE  Scheduled(t, cont, where)
BY DEF Scheduled

(* What the first due entry is, and what is left without it. *)
LEMMA TakenOut ==
  ASSUME ListInv, pc = "run", \E i \in DOMAIN schedule_list : Due(schedule_list[i])
  PROVE  LET e == schedule_list[FirstDue]
         IN  /\ e \in Job /\ Others \in Seq(Job)
             /\ \A c, o : Times(Others, c, o) = Times(schedule_list, c, o)
                                                  - (IF c = e.call /\ o = e.of THEN 1 ELSE 0)
             /\ Times(schedule_list, e.call, e.of) >= 1
<1>1. schedule_list \in Seq(Job)
  BY DEF ListInv
<1>2. FirstDue \in DOMAIN schedule_list
  BY <1>1, FirstDueProperties
<1> QED BY <1>1, <1>2, TimesRemoveAt, TimesOfMember DEF Others

LEMMA AnyTimes ==
  ASSUME NEW s \in Seq(Job)
  PROVE  \A c, o : Times(s, c, o) \in Nat
BY TimesIsCount

LEMMA UpdateList ==
  ASSUME ListInv, pc = "run", \E i \in DOMAIN schedule_list : Due(schedule_list[i]),
         schedule_list[FirstDue].call = "update", image_cache__background_update(Others),
         timeout' = timeout, pc' = pc
  PROVE  ListInv'
<1> DEFINE e == schedule_list[FirstDue]
           t == schedule(Others, UpdateInterval, "update", NULL)
<1>1. /\ e \in Job /\ Others \in Seq(Job)
      /\ \A c, o : Times(Others, c, o) = Times(schedule_list, c, o)
                                           - (IF c = e.call /\ o = e.of THEN 1 ELSE 0)
  BY TakenOut
<1>2. e.call = "update" /\ e.of = NULL
  BY <1>1 DEF Job
<1>3. schedule_list' = t /\ content' = content
  BY DEF image_cache__background_update
<1>4. t \in Seq(Job) /\ \A c, o : Times(t, c, o) = Times(Others, c, o)
                                    + (IF c = "update" /\ o = NULL THEN 1 ELSE 0)
  BY <1>1, Params, TimesSchedule DEF Callable
<1> HIDE DEF e, t
<1>5. Scheduled(schedule_list, content, pc) /\ timeout \in Nat \cup {-1}
      /\ content \in ContentTypes /\ pc \in Places5
  BY ListInvIs
<1>6. \A c, o : Times(schedule_list, c, o) \in Nat
  BY <1>5, AnyTimes DEF Scheduled
<1>7. \A c, o : Times(t, c, o) = Times(schedule_list, c, o)
  BY <1>1, <1>2, <1>4, <1>6
<1>8. Scheduled(t, content, pc)
  BY <1>4, <1>5, <1>7, SameTimes
<1> QED BY <1>3, <1>5, <1>8, ListInvNext

LEMMA CleanList ==
  ASSUME NEW list \in Seq(Job), hlcache_clean(list), content \in ContentTypes
  PROVE  /\ schedule_list' \in Seq(Job) /\ content' \in ContentTypes
         /\ \A c, o : c \notin {"animate", "clean"} =>
                        Times(schedule_list', c, o) = Times(list, c, o)
         /\ Times(schedule_list', "clean", NULL) = Times(list, "clean", NULL) + 1
         /\ \A g \in Gif : Times(schedule_list', "animate", g)
                             = IF g \in Destroyed THEN 0 ELSE Times(list, "animate", g)
         /\ \A g \in Gif : content'[g] = IF g \in Destroyed THEN "none" ELSE content[g]
<1> DEFINE u == Unscheduled(list, "animate", Destroyed \cap Gif)
           t == schedule(u, CleanInterval, "clean", NULL)
<1>1. schedule_list' = t
      /\ content' = [c \in Content |-> IF c \in Destroyed THEN "none" ELSE content[c]]
  BY DEF hlcache_clean, nsgif_destroy
<1>2. u \in Seq(Job) /\ \A c, o : Times(u, c, o) = IF c = "animate" /\ o \in Destroyed \cap Gif
                                                   THEN 0 ELSE Times(list, c, o)
  BY TimesUnscheduled
<1> HIDE DEF u
<1>3. t \in Seq(Job) /\ \A c, o : Times(t, c, o) = Times(u, c, o)
                                    + (IF c = "clean" /\ o = NULL THEN 1 ELSE 0)
  BY <1>2, Params, TimesSchedule DEF Callable
<1>4. \A c, o : Times(u, c, o) \in Nat /\ Times(list, c, o) \in Nat
  BY <1>2, AnyTimes
<1> HIDE DEF t
<1>5. \A c, o : Times(t, c, o) = (IF c = "animate" /\ o \in Destroyed \cap Gif
                                  THEN 0 ELSE Times(list, c, o))
                                 + (IF c = "clean" /\ o = NULL THEN 1 ELSE 0)
  BY <1>2, <1>3
<1>6. \A c, o : c \notin {"animate", "clean"} => Times(t, c, o) = Times(list, c, o)
  BY <1>4, <1>5
<1>7. Times(t, "clean", NULL) = Times(list, "clean", NULL) + 1
  BY <1>5
<1>8. \A g \in Gif : Times(t, "animate", g) = IF g \in Destroyed THEN 0 ELSE Times(list, "animate", g)
  BY <1>4, <1>5
<1>9. content' \in ContentTypes
      /\ \A g \in Gif : content'[g] = IF g \in Destroyed THEN "none" ELSE content[g]
  BY <1>1, Params DEF ContentTypes
<1> QED BY <1>1, <1>3, <1>6, <1>7, <1>8, <1>9

(* The sweep from schedule_run, which schedules itself again. *)
LEMMA SweepList ==
  ASSUME ListInv, pc = "run", \E i \in DOMAIN schedule_list : Due(schedule_list[i]),
         schedule_list[FirstDue].call = "clean", hlcache_clean(Others),
         timeout' = timeout, pc' = pc
  PROVE  ListInv'
<1> DEFINE e == schedule_list[FirstDue]
<1>1. /\ e \in Job /\ Others \in Seq(Job)
      /\ \A c, o : Times(Others, c, o) = Times(schedule_list, c, o)
                                           - (IF c = e.call /\ o = e.of THEN 1 ELSE 0)
  BY TakenOut
<1>2. e.call = "clean" /\ e.of = NULL
  BY <1>1 DEF Job
<1> HIDE DEF e
<1>3. /\ schedule_list \in Seq(Job) /\ timeout \in Nat \cup {-1}
      /\ content \in ContentTypes /\ pc \in Places5
      /\ Times(schedule_list, "update", NULL) = 1 /\ Times(schedule_list, "clean", NULL) = 1
      /\ \A g \in Gif : Times(schedule_list, "animate", g)
                          <= (IF content[g] \in {"held", "unused"} THEN 1 ELSE 0)
  BY ListInvIs DEF Scheduled
<1>4. \A c, o : Times(schedule_list, c, o) \in Nat
  BY <1>3, AnyTimes
<1>5. /\ schedule_list' \in Seq(Job) /\ content' \in ContentTypes
      /\ Times(schedule_list', "update", NULL) = Times(Others, "update", NULL)
      /\ Times(schedule_list', "clean", NULL) = Times(Others, "clean", NULL) + 1
      /\ \A g \in Gif : Times(schedule_list', "animate", g)
                          = IF g \in Destroyed THEN 0 ELSE Times(Others, "animate", g)
      /\ \A g \in Gif : content'[g] = IF g \in Destroyed THEN "none" ELSE content[g]
  BY <1>1, <1>3, CleanList
<1>6. /\ Times(Others, "update", NULL) = 1 /\ Times(Others, "clean", NULL) = 0
      /\ \A g \in Gif : Times(Others, "animate", g) = Times(schedule_list, "animate", g)
  BY <1>1, <1>2, <1>3, <1>4
<1>7. \A g \in Gif : Times(schedule_list', "animate", g)
                       <= (IF content'[g] \in {"held", "unused"} THEN 1 ELSE 0)
  <2> TAKE g \in Gif
  <2>1. CASE g \in Destroyed
    BY <1>5, <2>1
  <2>2. CASE g \notin Destroyed
    BY <1>3, <1>5, <1>6, <2>2
  <2> QED BY <2>1, <2>2
<1>8. Scheduled(schedule_list', content', pc')
  BY <1>5, <1>6, <1>7 DEF Scheduled
<1> QED BY <1>3, <1>5, <1>8, ListInvNext

(* A GIF whose timer ran is one that exists, and had no other timer. *)
LEMMA AnimateList ==
  ASSUME ListInv, pc = "run", \E i \in DOMAIN schedule_list : Due(schedule_list[i]),
         schedule_list[FirstDue].call = "animate",
         nsgif_animate(Others, schedule_list[FirstDue].of),
         timeout' = timeout, pc' = pc
  PROVE  ListInv'
<1> DEFINE e == schedule_list[FirstDue]
           t == schedule(Others, FrameInterval, "animate", e.of)
<1>1. /\ e \in Job /\ Others \in Seq(Job)
      /\ \A c, o : Times(Others, c, o) = Times(schedule_list, c, o)
                                           - (IF c = e.call /\ o = e.of THEN 1 ELSE 0)
      /\ Times(schedule_list, e.call, e.of) >= 1
  BY TakenOut
<1>2. e.call = "animate" /\ e.of \in Gif
  BY <1>1 DEF Job
<1>3. (schedule_list' = t \/ schedule_list' = Others) /\ content' = content
  BY DEF nsgif_animate
<1> HIDE DEF e
<1>4. t \in Seq(Job) /\ \A c, o : Times(t, c, o) = Times(Others, c, o)
                                    + (IF c = "animate" /\ o = e.of THEN 1 ELSE 0)
  BY <1>1, <1>2, Params, TimesSchedule DEF Callable
<1> HIDE DEF t
<1>5. Scheduled(schedule_list, content, pc) /\ timeout \in Nat \cup {-1}
      /\ content \in ContentTypes /\ pc \in Places5
  BY ListInvIs
<1>6. \A c, o : Times(schedule_list, c, o) \in Nat
  BY <1>5, AnyTimes DEF Scheduled
<1>7. \A c, o : Times(t, c, o) = Times(schedule_list, c, o)
  BY <1>1, <1>2, <1>4, <1>6
<1>8. Scheduled(t, content, pc)
  BY <1>4, <1>5, <1>7, SameTimes
<1>9. Scheduled(Others, content, pc)
  <2>1. \A g \in Gif : Times(Others, "animate", g)
                         <= (IF content[g] \in {"held", "unused"} THEN 1 ELSE 0)
    <3> TAKE g \in Gif
    <3>1. Times(schedule_list, "animate", g) <= (IF content[g] \in {"held", "unused"} THEN 1 ELSE 0)
      BY <1>5 DEF Scheduled
    <3>2. Times(Others, "animate", g) <= Times(schedule_list, "animate", g)
      BY <1>1, <1>6
    <3>3. Times(Others, "animate", g) \in Nat /\ Times(schedule_list, "animate", g) \in Nat
      BY <1>1, <1>6, AnyTimes
    <3> QED BY <3>1, <3>2, <3>3
  <2>2. \A o : Times(Others, "update", o) = Times(schedule_list, "update", o)
               /\ Times(Others, "clean", o) = Times(schedule_list, "clean", o)
    BY <1>1, <1>2, <1>6
  <2> QED BY <1>1, <1>5, <2>1, <2>2 DEF Scheduled
<1>10. Scheduled(schedule_list', content', pc')
  BY <1>3, <1>8, <1>9
<1> QED BY <1>3, <1>5, <1>10, ListInvNext

LEMMA BoxesList ==
  ASSUME ListInv, pc = "run", \E i \in DOMAIN schedule_list : Due(schedule_list[i]),
         schedule_list[FirstDue].call = "boxes",
         convert_xml_to_box(Others, schedule_list[FirstDue].of),
         timeout' = timeout, pc' = pc
  PROVE  ListInv'
<1> DEFINE e == schedule_list[FirstDue]
           p == e.of
           t == schedule(Others, 0, "boxes", p)
<1>1. /\ e \in Job /\ Others \in Seq(Job)
      /\ \A c, o : Times(Others, c, o) = Times(schedule_list, c, o)
                                           - (IF c = e.call /\ o = e.of THEN 1 ELSE 0)
  BY TakenOut
<1>2. e.call = "boxes" /\ e.of = p /\ p \in Page
  BY <1>1 DEF Job
<1>3. (schedule_list' = t \/ schedule_list' = Others) /\ content' = content
  BY DEF convert_xml_to_box
<1> HIDE DEF e, p
<1>4. t \in Seq(Job) /\ \A c, o : Times(t, c, o) = Times(Others, c, o)
                                    + (IF c = "boxes" /\ o = p THEN 1 ELSE 0)
  <2>1. Callable("boxes", p) /\ 0 \in Nat
    BY <1>2 DEF Callable
  <2> QED BY <1>1, <2>1, TimesSchedule
<1> HIDE DEF t
<1>5. Scheduled(schedule_list, content, pc) /\ timeout \in Nat \cup {-1}
      /\ content \in ContentTypes /\ pc \in Places5
  BY ListInvIs
<1>6. \A c, o : Times(schedule_list, c, o) \in Nat
  BY <1>5, AnyTimes DEF Scheduled
<1>7. \A c, o : c # "boxes" => Times(Others, c, o) = Times(schedule_list, c, o)
  BY <1>1, <1>2, <1>6
<1>8. \A c, o : c # "boxes" => Times(t, c, o) = Times(schedule_list, c, o)
  BY <1>4, <1>6, <1>7
<1>9. Scheduled(Others, content, pc) /\ Scheduled(t, content, pc)
  BY <1>1, <1>4, <1>5, <1>7, <1>8, SameTimes
<1>10. Scheduled(schedule_list', content', pc')
  BY <1>3, <1>9
<1> QED BY <1>3, <1>5, <1>10, ListInvNext

(* dom_to_box: boxes are built for a page (box_construct.c:163). *)
LEMMA DomToBoxList ==
  ASSUME ListInv, NEW p \in Page, dom_to_box(p)
  PROVE  ListInv'
<1> DEFINE t == schedule(schedule_list, 0, "boxes", p)
<1>1. pc = "work" /\ pc' = pc /\ schedule_list' = t /\ timeout' = timeout /\ content' = content
  BY DEF dom_to_box
<1>2. Scheduled(schedule_list, content, pc) /\ timeout \in Nat \cup {-1}
      /\ content \in ContentTypes /\ pc \in Places5 /\ schedule_list \in Seq(Job)
  BY ListInvIs DEF Scheduled
<1>3. t \in Seq(Job) /\ \A c, o : Times(t, c, o) = Times(schedule_list, c, o)
                                    + (IF c = "boxes" /\ o = p THEN 1 ELSE 0)
  BY <1>2, TimesSchedule DEF Callable
<1>4. \A c, o : Times(schedule_list, c, o) \in Nat
  BY <1>2, AnyTimes
<1> HIDE DEF t
<1>5. \A c, o : c # "boxes" => Times(t, c, o) = Times(schedule_list, c, o)
  BY <1>3, <1>4
<1>6. Scheduled(t, content, pc)
  BY <1>2, <1>3, <1>5, SameTimes
<1> QED BY <1>1, <1>2, <1>6, ListInvNext

(* nsgif_convert: a GIF that starts to exist may get its timer (gif.c:238). *)
LEMMA GifList ==
  ASSUME ListInv, NEW g \in Gif, nsgif_convert(g)
  PROVE  ListInv'
<1> DEFINE t == schedule(schedule_list, FrameInterval, "animate", g)
<1>1. /\ pc = "work" /\ pc' = pc /\ timeout' = timeout
      /\ content[g] = "none" /\ content' = [content EXCEPT ![g] = "held"]
      /\ schedule_list' = t \/ schedule_list' = schedule_list
  BY DEF nsgif_convert, Works
<1>2. Scheduled(schedule_list, content, pc) /\ timeout \in Nat \cup {-1}
      /\ content \in ContentTypes /\ pc \in Places5 /\ schedule_list \in Seq(Job)
  BY ListInvIs DEF Scheduled
<1>3. t \in Seq(Job) /\ \A c, o : Times(t, c, o) = Times(schedule_list, c, o)
                                    + (IF c = "animate" /\ o = g THEN 1 ELSE 0)
  BY <1>2, Params, TimesSchedule DEF Callable
<1>4. \A c, o : Times(schedule_list, c, o) \in Nat
  BY <1>2, AnyTimes
<1> HIDE DEF t
<1>5. content' \in ContentTypes /\ content'[g] = "held"
      /\ \A d \in Gif : d # g => content'[d] = content[d]
  BY <1>1, <1>2, Params DEF ContentTypes
<1>6. Times(schedule_list, "animate", g) = 0
  BY <1>1, <1>2, <1>4 DEF Scheduled
<1>7. \A d \in Gif : /\ Times(t, "animate", d) <= (IF content'[d] \in {"held", "unused"} THEN 1 ELSE 0)
                     /\ Times(schedule_list, "animate", d)
                          <= (IF content'[d] \in {"held", "unused"} THEN 1 ELSE 0)
  <2> TAKE d \in Gif
  <2>1. CASE d = g
    BY <1>3, <1>5, <1>6, <2>1
  <2>2. CASE d # g
    BY <1>2, <1>3, <1>4, <1>5, <2>2 DEF Scheduled
  <2> QED BY <2>1, <2>2
<1>8. \A o : /\ Times(t, "update", o) = Times(schedule_list, "update", o)
             /\ Times(t, "clean", o) = Times(schedule_list, "clean", o)
  BY <1>3, <1>4
<1>9. Scheduled(t, content', pc) /\ Scheduled(schedule_list, content', pc)
  BY <1>2, <1>3, <1>7, <1>8 DEF Scheduled
<1>10. Scheduled(schedule_list', content', pc')
  BY <1>1, <1>9
<1> QED BY <1>1, <1>2, <1>5, <1>10, ListInvNext

(* Another content, or one that becomes what needs no new timer. *)
LEMMA WorksList ==
  ASSUME ListInv, NEW c \in Content, NEW before, NEW after, Works(c, before, after),
         schedule_list' = schedule_list, after \in {"header", "held", "unused", "failed"},
         c \in Gif /\ content[c] \in {"held", "unused"} => after \in {"held", "unused"}
  PROVE  ListInv'
<1>1. pc = "work" /\ pc' = pc /\ timeout' = timeout /\ content' = [content EXCEPT ![c] = after]
  BY DEF Works
<1>2. Scheduled(schedule_list, content, pc) /\ timeout \in Nat \cup {-1}
      /\ content \in ContentTypes /\ pc \in Places5 /\ schedule_list \in Seq(Job)
  BY ListInvIs DEF Scheduled
<1>3. content' \in ContentTypes /\ content'[c] = after
      /\ \A d \in Gif : d # c => content'[d] = content[d]
  BY <1>1, <1>2, Params DEF ContentTypes
<1>4. \A d, o : Times(schedule_list, d, o) \in Nat
  BY <1>2, AnyTimes
<1>5. \A d \in Gif : Times(schedule_list, "animate", d)
                       <= (IF content'[d] \in {"held", "unused"} THEN 1 ELSE 0)
  <2> TAKE d \in Gif
  <2>1. Times(schedule_list, "animate", d) <= (IF content[d] \in {"held", "unused"} THEN 1 ELSE 0)
    BY <1>2 DEF Scheduled
  <2>2. CASE d = c
    BY <1>3, <1>4, <2>1, <2>2
  <2>3. CASE d # c
    BY <1>3, <2>1, <2>3
  <2> QED BY <2>2, <2>3
<1>6. Scheduled(schedule_list', content', pc')
  BY <1>1, <1>2, <1>5 DEF Scheduled
<1> QED BY <1>1, <1>2, <1>3, <1>6, ListInvNext

-----------------------------------------------------------------------------
(* The wait and the exit. *)

(* NextTime is no later than any entry (framebuffer/schedule.c:174). *)
LEMMA Soonest ==
  ASSUME schedule_list \in Seq(Job), \A i \in DOMAIN schedule_list : ~Due(schedule_list[i])
  PROVE  /\ NextTime \in Nat \cup {-1}
         /\ \A i \in DOMAIN schedule_list : NextTime # -1 /\ NextTime < schedule_list[i].left
<1> DEFINE T == {schedule_list[i].left - 1 : i \in DOMAIN schedule_list}
<1>1. \A i \in DOMAIN schedule_list : schedule_list[i].left \in Nat /\ schedule_list[i].left # 0
  <2> TAKE i \in DOMAIN schedule_list
  <2>1. schedule_list[i] \in Job
    OBVIOUS
  <2> QED BY <2>1 DEF Job, Due
<1>2. T \in SUBSET Nat /\ \A i \in DOMAIN schedule_list : schedule_list[i].left - 1 \in T
  BY <1>1
<1>3. CASE schedule_list = <<>>
  BY <1>3 DEF NextTime
<1>4. CASE schedule_list # <<>>
  <2>1. NextTime = Min(T)
    BY <1>4 DEF NextTime
  <2>2. T # {}
    <3>1. 1 \in DOMAIN schedule_list
      BY <1>4
    <3> HIDE DEF T
    <3> QED BY <1>2, <3>1
  <2> HIDE DEF T
  <2>3. Min(T) \in T /\ \A y \in T : Min(T) <= y
    BY <1>2, <2>2, Least DEF Min
  <2>4. \A i \in DOMAIN schedule_list : Min(T) <= schedule_list[i].left - 1 /\ Min(T) \in Nat
    BY <1>2, <2>3
  <2> DEFINE m == Min(T)
  <2>5. m \in Nat
    BY <1>2, <2>3
  <2>6. \A i \in DOMAIN schedule_list : m <= schedule_list[i].left - 1
    BY <2>4
  <2> HIDE DEF m
  <2>7. \A i \in DOMAIN schedule_list : m # -1 /\ m < schedule_list[i].left
    BY <1>1, <2>5, <2>6
  <2> QED BY <2>1, <2>5, <2>7 DEF m
<1> QED BY <1>3, <1>4

LEMMA WaitList ==
  ASSUME ListInv, StartsToWait
  PROVE  ListInv'
<1>1. /\ schedule_list \in Seq(Job) /\ \A i \in DOMAIN schedule_list : ~Due(schedule_list[i])
      /\ schedule_list' = schedule_list /\ content' = content /\ pc = "run" /\ pc' = "wait"
      /\ timeout' = NextTime \/ timeout' = 0
  BY DEF StartsToWait, ListInv
<1>2. timeout' \in Nat \cup {-1}
      /\ \A i \in DOMAIN schedule_list : timeout' # -1 /\ timeout' < schedule_list[i].left
  <2>1. CASE timeout' = NextTime
    BY <1>1, <2>1, Soonest
  <2>2. CASE timeout' = 0
    <3> SUFFICES ASSUME NEW i \in DOMAIN schedule_list PROVE 0 < schedule_list[i].left
      BY <2>2
    <3>1. schedule_list[i] \in Job
      BY <1>1
    <3> QED BY <1>1, <3>1 DEF Job, Due
  <2> QED BY <1>1, <2>1, <2>2
<1> QED BY <1>1, <1>2 DEF ListInv, TimersLive, PeriodicOnce, Pending, WakesInTime

(* The clock: nothing is waited for longer than before. *)
LEMMA TickList ==
  ASSUME ListInv, Tick
  PROVE  ListInv'
<1>1. /\ schedule_list \in Seq(Job) /\ timeout \in Nat \cup {-1} /\ WakesInTime
      /\ pc = "wait" /\ timeout # 0 /\ schedule_list' = Aged /\ content' = content /\ pc' = pc
      /\ timeout' = IF timeout > 0 THEN timeout - 1 ELSE timeout
  BY DEF Tick, ListInv
<1>2. Aged \in Seq(Job) /\ DOMAIN Aged = DOMAIN schedule_list
      /\ (\A i \in DOMAIN schedule_list :
            Aged[i].left = IF schedule_list[i].left = 0 THEN 0 ELSE schedule_list[i].left - 1)
      /\ \A c, o : Times(Aged, c, o) = Times(schedule_list, c, o)
  BY <1>1, TimesAged
<1>3. timeout' \in Nat \cup {-1}
      /\ \A i \in DOMAIN Aged : timeout' # -1 /\ timeout' < Aged[i].left
  <2>1. ASSUME NEW i \in DOMAIN schedule_list PROVE timeout' # -1 /\ timeout' < Aged[i].left
    <3>1. timeout # -1 /\ timeout < schedule_list[i].left /\ schedule_list[i] \in Job
      BY <1>1 DEF WakesInTime
    <3>2. schedule_list[i].left \in Nat
      BY <3>1 DEF Job
    <3> QED BY <1>1, <1>2, <3>1, <3>2
  <2> QED BY <1>1, <1>2, <2>1
<1>4. Scheduled(Aged, content, pc)
  BY <1>2, ListInvIs, SameTimes
<1>5. Scheduled(schedule_list', content', pc') /\ WakesInTime'
  BY <1>1, <1>3, <1>4 DEF WakesInTime
<1> QED BY <1>1, <1>3, <1>5 DEF ListInv, Scheduled, TimersLive, PeriodicOnce, Pending

LEMMA WakesLaterList ==
  ASSUME ListInv, WakesLater
  PROVE  ListInv'
<1>1. /\ pc = "wait" /\ pc' = "work" /\ schedule_list' = Aged /\ timeout' = timeout
      /\ content' = content
  BY DEF WakesLater
<1>2. /\ Scheduled(schedule_list, content, pc) /\ timeout \in Nat \cup {-1}
      /\ content \in ContentTypes /\ schedule_list \in Seq(Job)
  BY ListInvIs DEF Scheduled
<1>3. Scheduled(Aged, content, pc)
  BY <1>2, TimesAged, SameTimes
<1>4. Scheduled(schedule_list', content', pc') /\ pc' \in Places5
  BY <1>1, <1>3 DEF Scheduled, Places5
<1> QED BY <1>1, <1>2, <1>4, ListInvNext

(* Steps of the program that leave the list as it is. *)
LEMMA LoopList ==
  ASSUME ListInv, Wakes \/ Event \/ gui_poll \/ Quits
  PROVE  ListInv'
<1>1. /\ pc \in {"wait", "work"} /\ pc' \in {"work", "run", "stop"}
      /\ schedule_list' = schedule_list /\ content' = content
      /\ timeout' = timeout \/ timeout' = 0
  BY DEF Wakes, Event, gui_poll, Quits
<1>2. /\ Scheduled(schedule_list, content, pc) /\ timeout \in Nat \cup {-1}
      /\ content \in ContentTypes
  BY ListInvIs
<1>3. Scheduled(schedule_list', content', pc') /\ pc' \in Places5
  BY <1>1, <1>2 DEF Scheduled, Places5
<1> QED BY <1>1, <1>2, <1>3, ListInvNext

LEMMA StopList ==
  ASSUME ListInv, hlcache_stop
  PROVE  ListInv'
<1> DEFINE t == schedule_remove(schedule_list, "clean", NULL)
<1>1. pc = "stop" /\ pc' = "finalise" /\ schedule_list' = t /\ timeout' = timeout
      /\ content' = content
  BY DEF hlcache_stop
<1>2. /\ Scheduled(schedule_list, content, pc) /\ timeout \in Nat \cup {-1}
      /\ content \in ContentTypes /\ schedule_list \in Seq(Job)
  BY ListInvIs DEF Scheduled
<1>3. t \in Seq(Job) /\ \A c, o : Times(t, c, o) = IF c = "clean" /\ o = NULL THEN 0
                                                   ELSE Times(schedule_list, c, o)
  BY <1>2, TimesRemove
<1> HIDE DEF t
<1>4. \A c, o : c # "clean" => Times(t, c, o) = Times(schedule_list, c, o)
  BY <1>3
<1>5. Times(t, "clean", NULL) = 0
  BY <1>3
<1>6. Scheduled(t, content, "finalise")
  BY <1>1, <1>2, <1>3, <1>4, <1>5 DEF Scheduled
<1>7. Scheduled(schedule_list', content', pc') /\ pc' \in Places5 /\ pc' # "wait"
  BY <1>1, <1>6 DEF Places5
<1> QED BY <1>1, <1>2, <1>7, ListInvNext

LEMMA FinaliseList ==
  ASSUME ListInv, hlcache_finalise
  PROVE  ListInv'
<1>1. PICK second \in BOOLEAN :
         hlcache_clean(IF second THEN schedule(schedule_list, CleanInterval, "clean", NULL)
                       ELSE schedule_list)
  BY DEF hlcache_finalise
<1> DEFINE again == schedule(schedule_list, CleanInterval, "clean", NULL)
           list == IF second THEN again ELSE schedule_list
<1>2. pc = "finalise" /\ pc' = "fini" /\ timeout' = timeout
  BY DEF hlcache_finalise
<1>3. /\ schedule_list \in Seq(Job) /\ timeout \in Nat \cup {-1} /\ content \in ContentTypes
      /\ Times(schedule_list, "update", NULL) = 1
      /\ \A g \in Gif : Times(schedule_list, "animate", g)
                          <= (IF content[g] \in {"held", "unused"} THEN 1 ELSE 0)
  BY <1>2, ListInvIs DEF Scheduled
<1>4. again \in Seq(Job) /\ \A c, o : Times(again, c, o) = Times(schedule_list, c, o)
                                        + (IF c = "clean" /\ o = NULL THEN 1 ELSE 0)
  BY <1>3, Params, TimesSchedule DEF Callable
<1> HIDE DEF again
<1>5. \A c, o : Times(schedule_list, c, o) \in Nat
  BY <1>3, AnyTimes
<1>6. list \in Seq(Job) /\ \A c, o : c # "clean" => Times(list, c, o) = Times(schedule_list, c, o)
  BY <1>3, <1>4, <1>5
<1>7. hlcache_clean(list)
  BY <1>1 DEF again
<1> HIDE DEF list
<1>8. /\ schedule_list' \in Seq(Job) /\ content' \in ContentTypes
      /\ Times(schedule_list', "update", NULL) = Times(list, "update", NULL)
      /\ \A g \in Gif : Times(schedule_list', "animate", g)
                          = IF g \in Destroyed THEN 0 ELSE Times(list, "animate", g)
      /\ \A g \in Gif : content'[g] = IF g \in Destroyed THEN "none" ELSE content[g]
  BY <1>3, <1>6, <1>7, CleanList
<1>9. \A g \in Gif : Times(schedule_list', "animate", g)
                       <= (IF content'[g] \in {"held", "unused"} THEN 1 ELSE 0)
  <2> TAKE g \in Gif
  <2>1. CASE g \in Destroyed
    BY <1>8, <2>1
  <2>2. CASE g \notin Destroyed
    BY <1>3, <1>6, <1>8, <2>2
  <2> QED BY <2>1, <2>2
<1>10. Scheduled(schedule_list', content', pc') /\ pc' \in Places5
  BY <1>2, <1>3, <1>6, <1>8, <1>9 DEF Scheduled, Places5
<1> QED BY <1>2, <1>3, <1>8, <1>10, ListInvNext

LEMMA FiniList ==
  ASSUME ListInv, image_cache_fini
  PROVE  ListInv'
<1> DEFINE t == schedule_remove(schedule_list, "update", NULL)
<1>1. pc' = "ended" /\ schedule_list' = t /\ timeout' = timeout /\ content' = content
  BY DEF image_cache_fini
<1>2. /\ Scheduled(schedule_list, content, pc) /\ timeout \in Nat \cup {-1}
      /\ content \in ContentTypes /\ schedule_list \in Seq(Job)
  BY ListInvIs DEF Scheduled
<1>3. t \in Seq(Job) /\ \A c, o : Times(t, c, o) = IF c = "update" /\ o = NULL THEN 0
                                                   ELSE Times(schedule_list, c, o)
  BY <1>2, TimesRemove
<1> HIDE DEF t
<1>4. \A o : Times(t, "animate", o) = Times(schedule_list, "animate", o)
  BY <1>3
<1>5. Times(t, "update", NULL) = 0
  BY <1>3
<1>6. Scheduled(t, content, "ended")
  BY <1>2, <1>3, <1>4, <1>5 DEF Scheduled
<1>7. Scheduled(schedule_list', content', pc') /\ pc' \in Places5 /\ pc' # "wait"
  BY <1>1, <1>6 DEF Places5
<1> QED BY <1>1, <1>2, <1>7, ListInvNext

-----------------------------------------------------------------------------
(* The invariant holds at the start, and every step keeps it. *)

LEMMA InitBInv ==
  ASSUME Init
  PROVE  BInv
<1> DEFINE s == schedule(<<>>, UpdateInterval, "update", NULL)
           t == schedule(s, CleanInterval, "clean", NULL)
           empty == <<>>
<1>1. schedule_list = t /\ timeout = 0 /\ content = [c \in Content |-> "none"] /\ pc = "work"
      /\ early = {} /\ idle = [c \in Image |-> 0] /\ age = 0
      /\ cache = [entries |-> <<>>, bitmap |-> {}, total |-> 0, count |-> 0]
  BY DEF Init
<1>2. empty \in Seq(Job) /\ \A c, o : Times(empty, c, o) = 0
  <2>1. empty \in Seq(Job) /\ DOMAIN empty = {}
    OBVIOUS
  <2> HIDE DEF empty
  <2>2. \A c, o : {i \in DOMAIN empty : empty[i].call = c /\ empty[i].of = o} = {}
    BY <2>1
  <2>3. \A c, o : Times(empty, c, o) = 0
    BY <2>2, FS_EmptySet, Zenon DEF Times
  <2> QED BY <2>1, <2>3
<1>3. s \in Seq(Job) /\ \A c, o : Times(s, c, o) = Times(empty, c, o)
                                    + (IF c = "update" /\ o = NULL THEN 1 ELSE 0)
  <2>1. s = schedule(empty, UpdateInterval, "update", NULL)
    OBVIOUS
  <2> HIDE DEF empty, s
  <2> QED BY <1>2, <2>1, Params, TimesSchedule DEF Callable
<1> HIDE DEF s, empty
<1>4. t \in Seq(Job) /\ \A c, o : Times(t, c, o) = Times(s, c, o)
                                    + (IF c = "clean" /\ o = NULL THEN 1 ELSE 0)
  BY <1>3, Params, TimesSchedule DEF Callable
<1> HIDE DEF t
<1>5. \A c, o : Times(t, c, o) = (IF c = "update" /\ o = NULL THEN 1 ELSE 0)
                                   + (IF c = "clean" /\ o = NULL THEN 1 ELSE 0)
  BY <1>2, <1>3, <1>4
<1>6. Scheduled(t, content, "work")
  <2>1. Times(t, "update", NULL) = 1 /\ Times(t, "clean", NULL) = 1
        /\ \A c \in Gif : Times(t, "animate", c) = 0
    BY <1>5
  <2> QED BY <1>4, <2>1 DEF Scheduled
<1>7. content \in ContentTypes
  BY <1>1 DEF ContentTypes
<1>8. ListInv
  BY <1>1, <1>6, <1>7, ListInvIs DEF Places5, WakesInTime
<1>9. Sound(cache)
  <2>1. cache.entries = <<>> /\ cache.bitmap = {} /\ cache.total = 0 /\ cache.count = 0
        /\ cache \in Caches
    BY <1>1 DEF Caches
  <2>2. Injective(cache.entries)
    BY <2>1 DEF Injective
  <2>3. Bytes[cache.bitmap] = 0 /\ Cardinality(cache.bitmap) = 0
    BY <2>1, BytesDef, FS_EmptySet
  <2> QED BY <2>1, <2>2, <2>3 DEF Sound
<1>10. ToSet(cache.entries) = {} /\ Live = {}
  <2>1. cache.entries = <<>>
    BY <1>1
  <2> QED BY <1>1, <2>1, Params DEF ToSet, Live
<1>11. idle \in [Image -> 0..(CleanTime + 1)] /\ age \in 0..(CleanTime + 1)
  BY <1>1, Params
<1> QED BY <1>1, <1>8, <1>9, <1>10, <1>11 DEF BInv, CacheInv

LEMMA RunStep ==
  ASSUME BInv, schedule_run
  PROVE  BInv'
<1> DEFINE e == schedule_list[FirstDue]
<1>1. /\ pc = "run" /\ pc' = pc /\ timeout' = timeout
      /\ \E i \in DOMAIN schedule_list : Due(schedule_list[i])
      /\ \/ e.call = "update" /\ image_cache__background_update(Others)
         \/ e.call = "clean" /\ hlcache_clean(Others)
         \/ e.call = "animate" /\ nsgif_animate(Others, e.of)
         \/ e.call = "boxes" /\ convert_xml_to_box(Others, e.of)
  BY Zenon DEF schedule_run
<1>2. CacheInv /\ ListInv /\ pc # "ended"
  BY <1>1 DEF BInv
<1>3. CASE e.call = "update" /\ image_cache__background_update(Others)
  BY <1>1, <1>2, <1>3, UpdateCache, UpdateList DEF BInv
<1>4. CASE e.call = "clean" /\ hlcache_clean(Others)
  BY <1>1, <1>2, <1>4, CleanCache, SweepList DEF BInv
<1>5. CASE e.call = "animate" /\ nsgif_animate(Others, e.of)
  <2>1. UNCHANGED <<content, images>>
    BY <1>5 DEF nsgif_animate
  <2> QED BY <1>1, <1>2, <1>5, <2>1, CacheStutter, AnimateList DEF BInv
<1>6. CASE e.call = "boxes" /\ convert_xml_to_box(Others, e.of)
  <2>1. UNCHANGED <<content, images>>
    BY <1>6 DEF convert_xml_to_box
  <2> QED BY <1>1, <1>2, <1>6, <2>1, CacheStutter, BoxesList DEF BInv
<1> QED BY <1>1, <1>3, <1>4, <1>5, <1>6

LEMMA PollStep ==
  ASSUME BInv, Poll \/ Tick \/ Event \/ Quits
  PROVE  BInv'
<1>1. CASE schedule_run
  BY <1>1, RunStep
<1>2. CASE StartsToWait \/ Tick \/ WakesLater \/ Wakes \/ Event \/ gui_poll \/ Quits
  <2>1. UNCHANGED <<content, images>> /\ pc # "ended"
    BY <1>2 DEF StartsToWait, Tick, WakesLater, Wakes, Event, gui_poll, Quits
  <2>2. CacheInv'
    BY <2>1, CacheStutter DEF BInv
  <2>3. ListInv'
    BY <1>2, WaitList, TickList, WakesLaterList, LoopList DEF BInv
  <2> QED BY <2>2, <2>3 DEF BInv
<1> QED BY <1>1, <1>2 DEF Poll

LEMMA ExitStep ==
  ASSUME BInv, Exit
  PROVE  BInv'
<1>1. CacheInv /\ ListInv
  BY DEF BInv
<1>2. CASE hlcache_stop
  <2>1. UNCHANGED <<content, images>> /\ pc # "ended"
    BY <1>2 DEF hlcache_stop
  <2> QED BY <1>1, <1>2, <2>1, CacheStutter, StopList DEF BInv
<1>3. CASE hlcache_finalise
  <2>1. pc # "ended" /\ \E list : hlcache_clean(list)
    BY <1>3 DEF hlcache_finalise
  <2>2. CacheInv'
    BY <1>1, <2>1, CleanCache
  <2> QED BY <1>1, <1>3, <2>2, FinaliseList DEF BInv
<1>4. CASE image_cache_fini
  BY <1>1, <1>4, FiniCache, FiniList DEF BInv
<1> QED BY <1>2, <1>3, <1>4 DEF Exit

LEMMA WorkStep ==
  ASSUME BInv, NEW c \in Content, NEW before, NEW after,
         Works(c, before, after), UNCHANGED <<schedule_list, images>>,
         after \in {"failed", "unused", "held"},
         IF after = "failed" THEN before = {"header"} ELSE before \subseteq {"held", "unused"}
  PROVE  BInv'
<1>1. CacheInv /\ ListInv /\ content \in ContentTypes
  BY ListInvIs DEF BInv
<1>3. pc = "work" /\ content[c] \in before /\ content' = [content EXCEPT ![c] = after]
  BY DEF Works
<1>4. Live' = Live
  BY <1>1, <1>3, Params DEF Live, ContentTypes
<1>5. CacheInv'
  BY <1>1, <1>3, <1>4, CacheKept
<1>6. c \in Gif /\ content[c] \in {"held", "unused"} => after \in {"held", "unused"}
  BY <1>3
<1>7. ListInv'
  BY <1>1, <1>6, WorksList
<1> QED BY <1>5, <1>7 DEF BInv

LEMMA ContentStep ==
  ASSUME BInv, NEW c \in Content, ContentSteps(c)
  PROVE  BInv'
<1>1. CASE Fails(c)
  BY <1>1, WorkStep DEF Fails
<1>2. CASE Leaves(c)
  BY <1>2, WorkStep DEF Leaves
<1>3. CASE Returns(c)
  BY <1>3, WorkStep DEF Returns
<1> QED BY <1>1, <1>2, <1>3 DEF ContentSteps

LEMMA ImageStep ==
  ASSUME BInv, NEW c \in Image, ImageSteps(c)
  PROVE  BInv'
<1>1. CacheInv /\ ListInv /\ content \in ContentTypes /\ c \in Content /\ c \notin Gif
  BY ListInvIs, Params DEF BInv
<1>2. CASE ImageConverts(c)
  <2>1. PICK before : Works(c, before, "held") /\ schedule_list' = schedule_list
    BY <1>2 DEF ImageConverts
  <2>2. ListInv'
    BY <1>1, <2>1, WorksList
  <2> QED BY <1>1, <1>2, <2>2, AddCache DEF BInv
<1>3. CASE image_cache_redraw(c) \/ image_cache_get_bitmap(c)
  <2>1. Works(c, {"held"}, "held") /\ schedule_list' = schedule_list
    BY <1>3 DEF image_cache_redraw, image_cache_get_bitmap
  <2>2. ListInv'
    BY <1>1, <2>1, WorksList
  <2> QED BY <1>1, <1>3, <2>2, DrawCache DEF BInv
<1>4. CASE c \in Png /\ info_callback(c)
  <2>1. /\ Works(c, {"none"}, "header") /\ schedule_list' = schedule_list
        /\ early' \in {early, early \cup {c}} /\ cache' = cache /\ idle' = idle /\ age' = age
    BY <1>4 DEF info_callback
  <2>2. pc = "work" /\ content[c] = "none" /\ content' = [content EXCEPT ![c] = "header"]
    BY <2>1 DEF Works
  <2>3. Live' = Live
    BY <1>1, <2>2, Params DEF Live, ContentTypes
  <2>4. Sound(cache)' /\ ToSet(cache.entries)' = Live'
    BY <1>1, <2>1, <2>2, <2>3 DEF CacheInv, Sound
  <2>5. CacheInv'
    BY <1>1, <1>4, <2>1, <2>4 DEF CacheInv
  <2>6. ListInv'
    BY <1>1, <2>1, WorksList
  <2> QED BY <2>5, <2>6 DEF BInv
<1> QED BY <1>2, <1>3, <1>4 DEF ImageSteps

LEMMA BInvStep ==
  ASSUME BInv, [Next]_vars
  PROVE  BInv'
<1>1. CASE Poll \/ Tick \/ Event \/ Quits
  BY <1>1, PollStep
<1>2. CASE Exit
  BY <1>2, ExitStep
<1>3. CASE \E c \in Content : ContentSteps(c)
  BY <1>3, ContentStep
<1>4. CASE \E c \in Image : ImageSteps(c)
  BY <1>4, ImageStep
<1>5. CASE \E c \in Gif : nsgif_convert(c)
  <2>1. PICK g \in Gif : nsgif_convert(g)
    BY <1>5
  <2>2. /\ pc = "work" /\ pc' = pc /\ UNCHANGED images
        /\ content' = [content EXCEPT ![g] = "held"]
    BY <2>1 DEF nsgif_convert, Works
  <2>3. Live' = Live
    BY <2>2, Params, ListInvIs DEF Live, ContentTypes, BInv
  <2> QED BY <2>1, <2>2, <2>3, CacheKept, GifList DEF BInv
<1>6. CASE \E p \in Page : dom_to_box(p)
  <2>1. PICK p \in Page : dom_to_box(p)
    BY <1>6
  <2>2. pc = "work" /\ UNCHANGED <<content, images>>
    BY <2>1 DEF dom_to_box
  <2> QED BY <2>1, <2>2, CacheStutter, DomToBoxList DEF BInv
<1>7. CASE UNCHANGED vars
  <2>1. CacheInv'
    <3>1. Live' = Live
      BY <1>7 DEF vars, Live
    <3>2. Sound(cache)'
      BY <1>7 DEF vars, Sound, BInv, CacheInv
    <3> QED BY <1>7, <3>1, <3>2 DEF vars, BInv, CacheInv
  <2>2. ListInv'
    BY <1>7 DEF vars, BInv, ListInv, TimersLive, PeriodicOnce, Pending, WakesInTime
  <2> QED BY <2>1, <2>2 DEF BInv
<1> QED BY <1>1, <1>2, <1>3, <1>4, <1>5, <1>6, <1>7 DEF Next

LEMMA BInvHolds == Spec => []BInv
BY InitBInv, BInvStep, PTL DEF Spec

(* The image cache knows the images there are, and its size and count are   *)
(* those of the bitmaps it holds, whichever way these came and went.        *)
THEOREM CacheConsistentHolds == Spec => []CacheConsistent
<1>1. BInv => CacheConsistent
  <2> SUFFICES ASSUME BInv PROVE CacheConsistent
    OBVIOUS
  <2>1. Sound(cache) /\ (pc # "ended" => ToSet(cache.entries) = Live)
    BY DEF BInv, CacheInv
  <2>2. TypeOK
    BY <2>1 DEF BInv, ListInv, CacheInv, TypeOK, Sound, Caches, Injective, IsInjective
  <2>3. SizesAdd /\ EntriesLive
    BY <2>1 DEF Sound, SizesAdd, EntriesLive, Live
  <2> QED BY <2>2, <2>3 DEF CacheConsistent
<1> QED BY <1>1, BInvHolds, PTL

(* A content that exists has at most one timer and one that is gone none,   *)
(* though jobs come and go in the middle of schedule_run; each periodic job *)
(* is pending once until it is stopped.                                     *)
THEOREM PendingOnceHolds == Spec => []PendingOnce
<1>1. BInv => PendingOnce
  BY DEF BInv, ListInv, PendingOnce
<1> QED BY <1>1, BInvHolds, PTL

(* While the front end waits, it wakes up before the time of every entry.   *)
THEOREM WakesInTimeHolds == Spec => []WakesInTime
<1>1. BInv => WakesInTime
  BY DEF BInv, ListInv
<1> QED BY <1>1, BInvHolds, PTL
=============================================================================
