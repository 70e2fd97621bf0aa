---------------------------- MODULE LLCacheProofs ----------------------------
(***************************************************************************)
(* The low-level cache for any number of objects, handles and URLs.  Its    *)
(* lists stay consistent: users and their objects, candidates and their     *)
(* counts, and the walk that clients change from inside (StructureHolds     *)
(* and what follows it).  No object is left that nobody works on            *)
(* (WorkIsPending), no object whose fetch ended badly is handed out as      *)
(* fresh (ServedWhole), and only a redirect of an object that was fetched   *)
(* again can put a streamed one into the cache (StreamedIsUncached).        *)
(***************************************************************************)
EXTENDS LLCache, ListLemmas

(* llcache_object_add_user, for each of some users (llcache.c:1179). *)
LEMMA AddUsersProperties ==
  ASSUME NEW S, NEW us \in Seq(S), NEW s \in Seq(S)
  PROVE  /\ AddUsers(us, s) \in Seq(S) /\ ToSet(AddUsers(us, s)) = ToSet(us) \cup ToSet(s)
         /\ Injective(us) /\ Injective(s) /\ ToSet(us) \cap ToSet(s) = {}
              => Injective(AddUsers(us, s))
<1>1. Reverse(us) \in Seq(S) /\ ToSet(Reverse(us)) = ToSet(us)
      /\ (Injective(us) => Injective(Reverse(us)))
  BY ReverseProperties
<1>2. AddUsers(us, s) = Reverse(us) \o s
  BY DEF AddUsers
<1> HIDE DEF AddUsers
<1> QED BY <1>1, <1>2, ConcatSets

(* The same for an object without users. *)
LEMMA AddUsersToNone ==
  ASSUME NEW S, NEW us \in Seq(S)
  PROVE  /\ AddUsers(us, <<>>) \in Seq(S) /\ ToSet(AddUsers(us, <<>>)) = ToSet(us)
         /\ Injective(us) => Injective(AddUsers(us, <<>>))
<1> DEFINE t == Reverse(us)
<1>1. t \in Seq(S) /\ ToSet(t) = ToSet(us) /\ (Injective(us) => Injective(t))
  BY ReverseProperties
<1>2. AddUsers(us, <<>>) = t
  <2>1. AddUsers(us, <<>>) = t \o <<>>
    BY DEF AddUsers
  <2> HIDE DEF t
  <2> QED BY <1>1, <2>1
<1> QED BY <1>1, <1>2

-----------------------------------------------------------------------------
(* What a list of users may hold. *)
Element == Handle \cup {Moved}

UserType == [object : Object \cup {NULL}, state : State, bytes : 0..MaxLen]

(* The objects that hold c as their candidate. *)
Claims(ob, live, c) == {x \in live : ob[x].candidate = c}

(* Objects and candidates: who is not in a list is free, and a candidate is *)
(* in a list and counted as often as it is held.                            *)
Core(ob, live) ==
  /\ ob \in [Object -> ObjectType]
  /\ live \subseteq Object
  /\ \A o \in Object \ live : ob[o] = Free
  /\ \A o \in live : ob[o].candidate # NULL =>
       /\ ob[o].candidate \in live /\ ob[o].candidate # o
       /\ ob[ob[o].candidate].url = ob[o].url
  /\ \A c \in Object : Cardinality(Claims(ob, live, c)) <= ob[c].count

(* Users and objects: each list holds the handles of its object, once.      *)
(* The object moved, if any, has a record whose handle is elsewhere.        *)
Listed(us, moved, o) ==
  {h \in Handle : us[h].object = o} \cup (IF o = moved THEN {Moved} ELSE {})

Lists(ob, us, moved) ==
  \A o \in Object : Injective(ob[o].users) /\ ToSet(ob[o].users) = Listed(us, moved, o)

MovedAt == IF it.dead /\ it.cur = Moved THEN it.at ELSE NULL

(* The walk: where it may be at each place of the program.  The last part   *)
(* is what DONE relies on after the data were sent.                         *)
WalkType ==
  [at : Object \cup {NULL}, cur : Handle \cup {NULL, Moved},
   event : {"none", "HAD_HEADERS", "HAD_DATA", "DONE", "PROGRESS", "ERROR"},
   stage : {"none", "headers", "data", "done", "end"},
   os : State, orig : 0..MaxLen, loop : 0..2, dead : BOOLEAN]

Walk ==
  /\ it \in WalkType
  /\ pc \in {"gui", "notify", "callback"}
  /\ pc = "gui" => it.at = NULL /\ it.cur = NULL
  /\ pc \in {"notify", "callback"} => it.at \in Live
  /\ pc = "callback" => it.cur # NULL
  /\ it.cur # NULL => it.at # NULL /\ it.cur \in ToSet(obj[it.at].users)
  /\ it.dead => pc = "callback"
  /\ it.cur = Moved => it.dead
  /\ it.event \in {"PROGRESS", "ERROR"} => it.stage = "none"
  /\ it.stage = "done" /\ it.cur # NULL /\ ~it.dead
       => user[it.cur].bytes >= obj[it.at].len

Structure ==
  /\ Core(obj, Live) /\ Lists(obj, user, MovedAt)
  /\ cached \in Seq(Object) /\ uncached \in Seq(Object) /\ Injective(cached)
  /\ user \in [Handle -> UserType]
  /\ now \in 1..MaxTime
  /\ Walk

-----------------------------------------------------------------------------
(* Objects. *)
LEMMA NewObjectType ==
  ASSUME NEW u \in Url \cup {NULL}
  PROVE  llcache_object_new(u) \in ObjectType
BY LLCacheAssumption DEF llcache_object_new, ObjectType, Invalid, State

(* A count of candidates changes. *)
LEMMA CountType ==
  ASSUME NEW x \in ObjectType, NEW k
  PROVE  LET y == [x EXCEPT !.count = k]
         IN  /\ k \in 0..MaxCandidates => y \in ObjectType
             /\ y.url = x.url /\ y.candidate = x.candidate /\ y.count = k
             /\ y.users = x.users /\ y.len = x.len
BY DEF ObjectType

(* A new object gets its users and its candidate. *)
Seeded(x, s, c, r) == [x EXCEPT !.users = s, !.candidate = c, !.redirects = r]

LEMMA SeededType ==
  ASSUME NEW x \in ObjectType, NEW s \in Seq(Element), NEW c \in Object \cup {NULL},
         NEW r \in 0..(REDIRECT_LIMIT + 1)
  PROVE  /\ Seeded(x, s, c, r) \in ObjectType
         /\ Seeded(x, s, c, r).users = s /\ Seeded(x, s, c, r).url = x.url
         /\ Seeded(x, s, c, r).candidate = c /\ Seeded(x, s, c, r).count = x.count
BY DEF ObjectType, Element, Seeded

Flagged(x, f, g) == [x EXCEPT !.force = f, !.stream = g]

LEMMA FlaggedType ==
  ASSUME NEW x \in ObjectType, NEW f, NEW g, f \in BOOLEAN, g \in BOOLEAN
  PROVE  /\ Flagged(x, f, g) \in ObjectType
         /\ Flagged(x, f, g).users = x.users /\ Flagged(x, f, g).url = x.url
         /\ Flagged(x, f, g).candidate = x.candidate /\ Flagged(x, f, g).count = x.count
BY DEF ObjectType, Flagged

(* What llcache_object_retrieve makes. *)
NewFor(u, s, c, f, g, r) ==
  [llcache_object_new(u) EXCEPT
     !.users = s, !.candidate = c, !.force = f, !.stream = g, !.redirects = r]

IsNew(x, u, s, c) ==
  x \in ObjectType /\ x.users = s /\ x.url = u /\ x.candidate = c /\ x.count = 0

LEMMA NewForType ==
  ASSUME NEW u \in Url, NEW s \in Seq(Element), NEW c \in Object \cup {NULL},
         NEW f, NEW g, f \in BOOLEAN, g \in BOOLEAN, NEW r \in 0..(REDIRECT_LIMIT + 1)
  PROVE  IsNew(NewFor(u, s, c, f, g, r), u, s, c)
<1> DEFINE x0 == llcache_object_new(u)
<1>1. x0 \in ObjectType /\ x0.url = u /\ x0.count = 0
  BY NewObjectType DEF llcache_object_new
<1>2. NewFor(u, s, c, f, g, r) =
        [x0 EXCEPT !.users = s, !.candidate = c, !.force = f, !.stream = g, !.redirects = r]
  BY DEF NewFor
<1> HIDE DEF x0
<1> DEFINE y == Seeded(x0, s, c, r)
<1>3. y \in ObjectType /\ y.users = s
  BY <1>1, SeededType
<1>4. y.url = u /\ y.candidate = c
  BY <1>1, SeededType, SMTT(30)
<1>5. y.count = 0
  <2>1. x0 \in ObjectType
    BY <1>1
  <2>2. y.count = x0.count
    BY <2>1, SeededType
  <2> QED BY <1>1, <2>2
<1>6. NewFor(u, s, c, f, g, r) = Flagged(y, f, g)
  BY <1>1, <1>2 DEF Seeded, Flagged, ObjectType
<1> HIDE DEF y
<1>7. IsNew(Flagged(y, f, g), u, s, c)
  BY <1>3, <1>4, <1>5, FlaggedType DEF IsNew
<1> QED BY <1>6, <1>7

(* The objects that hold a candidate can be counted. *)
LEMMA ClaimsFinite ==
  ASSUME NEW ob, NEW live, Core(ob, live), NEW c \in Object
  PROVE  /\ IsFiniteSet(Claims(ob, live, c))
         /\ Cardinality(Claims(ob, live, c)) \in Nat
         /\ ob[c].count \in 0..MaxCandidates
<1>1. IsFiniteSet(Object) /\ Claims(ob, live, c) \in SUBSET Object
  BY LLCacheAssumption DEF Core, Claims
<1>2. ob[c].count \in 0..MaxCandidates
  BY DEF Core, ObjectType
<1> QED BY <1>1, <1>2, FS_Subset, FS_CardinalityType

(* Fields that no other object depends on change. *)
LEMMA CoreChange ==
  ASSUME NEW ob, NEW live, Core(ob, live), NEW o \in live, NEW x \in ObjectType,
         x.url = ob[o].url, x.candidate = ob[o].candidate, x.count = ob[o].count
  PROVE  Core([ob EXCEPT ![o] = x], live)
<1> DEFINE ob2 == [ob EXCEPT ![o] = x]
<1>1. /\ ob2 \in [Object -> ObjectType]
      /\ \A p \in Object : ob2[p].url = ob[p].url /\ ob2[p].candidate = ob[p].candidate
                           /\ ob2[p].count = ob[p].count
      /\ \A p \in Object \ live : ob2[p] = ob[p]
  BY DEF Core
<1> HIDE DEF ob2
<1>2. \A c \in Object : Claims(ob2, live, c) = Claims(ob, live, c)
  BY <1>1 DEF Claims, Core
<1>3. Core(ob2, live)
  BY <1>1, <1>2 DEF Core
<1> QED BY <1>3 DEF ob2

(* A candidate is given up. *)
Freed(ob, o, c) == [ob EXCEPT ![c].count = @ - 1, ![o].candidate = NULL]

LEMMA CoreRelease ==
  ASSUME NEW ob, NEW live, Core(ob, live), NEW o \in live, NEW c, c = ob[o].candidate,
         c # NULL
  PROVE  /\ Core(Freed(ob, o, c), live)
         /\ \A p \in Object : /\ Freed(ob, o, c)[p].users = ob[p].users
                              /\ Freed(ob, o, c)[p].len = ob[p].len
                              /\ Freed(ob, o, c)[p].cache = ob[p].cache
<1> DEFINE ob2 == [ob EXCEPT ![c].count = @ - 1, ![o].candidate = NULL]
<1>1. c \in live /\ c # o /\ c \in Object /\ o \in Object /\ live \subseteq Object
  BY DEF Core
<1>2. o \in Claims(ob, live, c)
  BY DEF Claims
<1>3. Cardinality(Claims(ob, live, c)) # 0 /\ Cardinality(Claims(ob, live, c)) <= ob[c].count
  BY <1>1, <1>2, ClaimsFinite, FS_EmptySet DEF Core
<1>4. ob[c].count - 1 \in 0..MaxCandidates
  BY <1>1, <1>3, ClaimsFinite, LLCacheAssumption
<1>5. /\ \A p \in Object : /\ ob2[p].url = ob[p].url
                           /\ ob2[p].candidate = IF p = o THEN NULL ELSE ob[p].candidate
                           /\ ob2[p].count = IF p = c THEN ob[p].count - 1 ELSE ob[p].count
                           /\ ob2[p].users = ob[p].users /\ ob2[p].len = ob[p].len
                           /\ ob2[p].cache = ob[p].cache
      /\ \A p \in Object \ live : ob2[p] = ob[p]
      /\ ob2 \in [Object -> ObjectType]
  <2>1. /\ ob[c] \in ObjectType /\ ob[o] \in ObjectType
        /\ ob2 = [ob EXCEPT ![c] = [ob[c] EXCEPT !.count = @ - 1],
                            ![o] = [ob[o] EXCEPT !.candidate = NULL]]
    BY <1>1 DEF Core
  <2>2. [ob[c] EXCEPT !.count = @ - 1] \in ObjectType
    BY <1>4, <2>1, CountType
  <2>3. [ob[o] EXCEPT !.candidate = NULL] \in ObjectType
    BY <2>1 DEF ObjectType
  <2>4. /\ [ob[c] EXCEPT !.count = @ - 1].url = ob[c].url
        /\ [ob[c] EXCEPT !.count = @ - 1].candidate = ob[c].candidate
        /\ [ob[c] EXCEPT !.count = @ - 1].count = ob[c].count - 1
        /\ [ob[o] EXCEPT !.candidate = NULL].url = ob[o].url
        /\ [ob[o] EXCEPT !.candidate = NULL].candidate = NULL
        /\ [ob[o] EXCEPT !.candidate = NULL].count = ob[o].count
    BY <2>1 DEF ObjectType
  <2>6. /\ [ob[c] EXCEPT !.count = @ - 1].users = ob[c].users
        /\ [ob[c] EXCEPT !.count = @ - 1].len = ob[c].len
        /\ [ob[c] EXCEPT !.count = @ - 1].cache = ob[c].cache
        /\ [ob[o] EXCEPT !.candidate = NULL].users = ob[o].users
        /\ [ob[o] EXCEPT !.candidate = NULL].len = ob[o].len
        /\ [ob[o] EXCEPT !.candidate = NULL].cache = ob[o].cache
    BY <2>1 DEF ObjectType
  <2> DEFINE xc == [ob[c] EXCEPT !.count = @ - 1]
             xo == [ob[o] EXCEPT !.candidate = NULL]
  <2>5. ob2 = [ob EXCEPT ![c] = xc, ![o] = xo] /\ ob \in [Object -> ObjectType]
    BY <2>1 DEF Core
  <2> HIDE DEF xc, xo, ob2
  <2> QED BY <1>1, <2>2, <2>3, <2>4, <2>5, <2>6 DEF xc, xo
<1> HIDE DEF ob2
<1>6. Claims(ob2, live, c) = Claims(ob, live, c) \ {o}
  BY <1>1, <1>2, <1>5, LLCacheAssumption DEF Claims
<1>7. \A p \in Object \ {c} : Claims(ob2, live, p) = Claims(ob, live, p)
  BY <1>1, <1>5, LLCacheAssumption DEF Claims
<1>8. Cardinality(Claims(ob2, live, c)) <= ob2[c].count
  <2> DEFINE n == Cardinality(Claims(ob, live, c))
  <2>1. IsFiniteSet(Claims(ob, live, c)) /\ n \in Nat /\ ob[c].count \in 0..MaxCandidates
    BY <1>1, ClaimsFinite
  <2>2. Cardinality(Claims(ob2, live, c)) = n - 1
    BY <1>2, <1>6, <2>1, FS_RemoveElement
  <2>3. ob2[c].count = ob[c].count - 1 /\ n <= ob[c].count
    BY <1>1, <1>3, <1>5
  <2> HIDE DEF n
  <2> QED BY <2>1, <2>2, <2>3, LLCacheAssumption
<1>9. Core(ob2, live)
  BY <1>1, <1>5, <1>7, <1>8 DEF Core
<1> QED BY <1>5, <1>9 DEF ob2, Freed

(* An object is made, with or without a candidate. *)
LEMMA CoreNew ==
  ASSUME NEW ob, NEW live, Core(ob, live), NEW n \in Object \ live,
         NEW x \in ObjectType, x.count = 0, NEW c, c = x.candidate,
         c # NULL => c \in live /\ ob[c].url = x.url /\ ob[c].count < MaxCandidates
  PROVE  Core([y \in Object |-> IF y = n THEN x
                                ELSE IF y = c THEN [ob[y] EXCEPT !.count = @ + 1]
                                ELSE ob[y]], live \cup {n})
<1> DEFINE ob2 == [y \in Object |-> IF y = n THEN x
                                   ELSE IF y = c THEN [ob[y] EXCEPT !.count = @ + 1]
                                   ELSE ob[y]]
           live2 == live \cup {n}
<1>1. n \in Object /\ n \notin live /\ live \subseteq Object /\ n # c /\ NULL \notin Object
  BY LLCacheAssumption DEF Core
<1>2. ASSUME NEW p \in Object
      PROVE  LET y == [ob[p] EXCEPT !.count = @ + 1]
             IN  /\ y.url = ob[p].url /\ y.candidate = ob[p].candidate
                 /\ y.count = ob[p].count + 1
                 /\ p = c => y \in ObjectType
  <2>1. ob[p] \in ObjectType
    BY DEF Core
  <2>2. ob[p].count \in 0..MaxCandidates
    BY <2>1 DEF ObjectType
  <2>3. p = c => ob[p].count + 1 \in 0..MaxCandidates
    BY <1>1, <2>2, LLCacheAssumption
  <2> QED BY <2>1, <2>3, CountType
<1>3. /\ ob2 \in [Object -> ObjectType]
      /\ \A p \in Object : /\ ob2[p].url = IF p = n THEN x.url ELSE ob[p].url
                           /\ ob2[p].candidate = IF p = n THEN c ELSE ob[p].candidate
                           /\ ob2[p].count = IF p = n THEN 0
                                ELSE IF p = c THEN ob[p].count + 1 ELSE ob[p].count
      /\ \A p \in Object \ live2 : ob2[p] = ob[p]
  <2> DEFINE y(p) == [ob[p] EXCEPT !.count = @ + 1]
  <2>1. \A p \in Object : /\ y(p).url = ob[p].url /\ y(p).candidate = ob[p].candidate
                          /\ y(p).count = ob[p].count + 1
                          /\ p = c => y(p) \in ObjectType
    BY <1>2
  <2>2. ob2 = [p \in Object |-> IF p = n THEN x ELSE IF p = c THEN y(p) ELSE ob[p]]
    OBVIOUS
  <2>3. \A p \in Object : ob[p] \in ObjectType
    BY DEF Core
  <2>4. c # NULL => c \in live
    OBVIOUS
  <2> HIDE DEF y, ob2
  <2> QED BY <1>1, <2>1, <2>2, <2>3, <2>4
<1> HIDE DEF ob2
<1>4. \A p \in Object : Claims(ob, live2, p) = Claims(ob, live, p)
  <2>1. ob[n].candidate = NULL
    BY <1>1 DEF Core, Free, llcache_object_new
  <2> QED BY <1>1, <2>1 DEF Claims
<1>5. \A p \in Object \ {c} : Claims(ob2, live2, p) = Claims(ob, live, p)
  BY <1>1, <1>3 DEF Claims
<1>6. c # NULL => Claims(ob2, live2, c) = Claims(ob, live, c) \cup {n} /\ n \notin Claims(ob, live, c)
  BY <1>1, <1>3 DEF Claims
<1>7. \A p \in Object : Cardinality(Claims(ob2, live2, p)) <= ob2[p].count
  <2> TAKE p \in Object
  <2> DEFINE m == Cardinality(Claims(ob, live, p))
  <2>1. IsFiniteSet(Claims(ob, live, p)) /\ m \in Nat /\ ob[p].count \in 0..MaxCandidates
    BY ClaimsFinite
  <2>2. m <= ob[p].count
    BY DEF Core
  <2>3. CASE p = c
    <3>1. /\ Claims(ob2, live2, p) = Claims(ob, live, p) \cup {n}
          /\ n \notin Claims(ob, live, p)
      BY <1>1, <1>6, <2>3
    <3>2. Cardinality(Claims(ob2, live2, p)) = m + 1
      BY <2>1, <3>1, FS_AddElement, ZenonT(40)
    <3>3. ob2[p].count = ob[p].count + 1
      BY <1>1, <1>3, <2>3
    <3> HIDE DEF m
    <3> QED BY <2>1, <2>2, <3>2, <3>3, LLCacheAssumption
  <2>4. CASE p = n
    <3>1. Claims(ob, live, n) = {}
      BY <1>1 DEF Claims, Core
    <3>2. Claims(ob2, live2, n) = {} /\ ob2[n].count = 0
      BY <1>1, <1>3, <1>5, <3>1
    <3> QED BY <2>4, <3>2, FS_EmptySet
  <2>5. CASE p # c /\ p # n
    BY <1>3, <1>5, <2>2, <2>5
  <2> QED BY <2>3, <2>4, <2>5
<1>8. \A o \in live2 : ob2[o].candidate # NULL =>
        /\ ob2[o].candidate \in live2 /\ ob2[o].candidate # o
        /\ ob2[ob2[o].candidate].url = ob2[o].url
  BY <1>1, <1>3 DEF Core
<1>9. Core(ob2, live2)
  BY <1>1, <1>3, <1>7, <1>8 DEF Core
<1> QED BY <1>9 DEF ob2

(* Unused objects go. *)
LEMMA CoreClean ==
  ASSUME NEW ob, NEW live, Core(ob, live), NEW gone \in SUBSET live,
         \A o \in gone : ob[o].count = 0
  PROVE  Core([o \in Object |-> IF o \in gone THEN Free ELSE ob[o]], live \ gone)
<1> DEFINE ob2 == [o \in Object |-> IF o \in gone THEN Free ELSE ob[o]]
           live2 == live \ gone
<1>1. live \subseteq Object /\ NULL \notin Object
  BY LLCacheAssumption DEF Core
<1>2. /\ ob2 \in [Object -> ObjectType]
      /\ \A o \in Object \ gone : ob2[o] = ob[o]
      /\ \A o \in Object \ live2 : ob2[o] = Free
  BY <1>1, NewObjectType DEF Core, Free
<1>3. \A o \in gone : Claims(ob, live, o) = {}
  <2> TAKE o \in gone
  <2>1. Cardinality(Claims(ob, live, o)) = 0
    BY <1>1, ClaimsFinite DEF Core
  <2> QED BY <1>1, <2>1, ClaimsFinite, FS_EmptySet
<1> HIDE DEF ob2
<1>4. \A c \in Object : Claims(ob2, live2, c) \subseteq Claims(ob, live, c)
  BY <1>1, <1>2 DEF Claims
<1>5. \A o \in live2 : ob[o].candidate \notin gone
  BY <1>1, <1>3 DEF Claims
<1>6. \A c \in Object : Cardinality(Claims(ob2, live2, c)) <= ob2[c].count
  <2> TAKE c \in Object
  <2> DEFINE m == Cardinality(Claims(ob, live, c))
             m2 == Cardinality(Claims(ob2, live2, c))
  <2>1. IsFiniteSet(Claims(ob, live, c)) /\ m \in Nat /\ ob[c].count \in 0..MaxCandidates
        /\ m <= ob[c].count
    BY ClaimsFinite DEF Core
  <2>2. m2 <= m /\ m2 \in Nat
    BY <1>4, <2>1, FS_Subset, FS_CardinalityType
  <2>3. CASE c \in gone
    <3>1. Claims(ob2, live2, c) = {}
      BY <1>3, <1>4, <2>3
    <3>2. m2 = 0 /\ ob2[c].count = 0
      <4>1. Free.count = 0
        BY DEF Free, llcache_object_new
      <4>2. ob2[c] = Free
        BY <1>1, <1>2, <2>3
      <4> QED BY <3>1, <4>1, <4>2, FS_EmptySet
    <3> QED BY <3>2
  <2>4. CASE c \notin gone
    <3>1. ob2[c].count = ob[c].count
      BY <1>2, <2>4
    <3> HIDE DEF m, m2
    <3>2. m2 <= ob2[c].count
      BY <2>1, <2>2, <3>1
    <3> QED BY <3>2 DEF m2
  <2> QED BY <2>3, <2>4
<1>7. \A o \in live2 : ob2[o].candidate # NULL =>
        /\ ob2[o].candidate \in live2 /\ ob2[o].candidate # o
        /\ ob2[ob2[o].candidate].url = ob2[o].url
  BY <1>1, <1>2, <1>5 DEF Core
<1>8. Core(ob2, live2)
  BY <1>1, <1>2, <1>6, <1>7 DEF Core
<1> QED BY <1>8 DEF ob2

-----------------------------------------------------------------------------
(* Retrieval. *)

(* The search finds an object of the list for the URL, or none. *)
LEMMA NewestProperties ==
  ASSUME NEW ob \in [Object -> ObjectType], cached \in Seq(Object), NEW u,
         Newest(ob, u) # NULL
  PROVE  Newest(ob, u) \in ToSet(cached) /\ ob[Newest(ob, u)].url = u
<1> DEFINE match == {i \in DOMAIN cached : ob[cached[i]].url = u}
           time(i) == ob[cached[i]].cache.req_time
           best(i) == \A j \in match : time(j) < time(i) \/ (time(j) = time(i) /\ i <= j)
<1>1. match \in SUBSET Nat /\ \A i \in match : time(i) \in 0..MaxTime
  <2>1. DOMAIN cached = 1..Len(cached) /\ \A i \in DOMAIN cached : cached[i] \in Object
    OBVIOUS
  <2>2. \A o \in Object : ob[o].cache.req_time \in 0..MaxTime
    BY DEF ObjectType
  <2> QED BY <2>1, <2>2
<1>2. match # {}
  BY DEF Newest
<1>3. \E i \in match : best(i)
  <2> HIDE DEF match, time
  <2> DEFINE ages == {MaxTime - time(i) : i \in match}
  <2>1. ages \in SUBSET Nat /\ ages # {}
    <3>1. \A t \in 0..MaxTime : MaxTime - t \in Nat
      BY LLCacheAssumption
    <3> QED BY <1>1, <1>2, <3>1
  <2>2. PICK i \in match : \A y \in ages : MaxTime - time(i) <= y
    <3>1. PICK x \in ages : \A y \in ages : x <= y
      BY <2>1, Least
    <3>2. PICK i \in match : x = MaxTime - time(i)
      BY <3>1
    <3> QED BY <3>1, <3>2
  <2>3. \A j \in match : time(j) <= time(i)
    <3>1. \A t, r \in 0..MaxTime : MaxTime - t <= MaxTime - r => r <= t
      BY LLCacheAssumption
    <3>2. \A j \in match : MaxTime - time(i) <= MaxTime - time(j)
      BY <2>2
    <3> HIDE DEF ages
    <3> QED BY <1>1, <3>1, <3>2
  <2> DEFINE ties == {j \in match : time(j) = time(i)}
  <2>4. ties \in SUBSET Nat /\ ties # {}
    BY <1>1
  <2> HIDE DEF ties
  <2>5. PICK k \in ties : \A j \in ties : k <= j
    BY <2>4, Least
  <2>6. k \in match /\ time(k) = time(i)
    BY DEF ties
  <2>7. ASSUME NEW j \in match PROVE time(j) < time(k) \/ (time(j) = time(k) /\ k <= j)
    <3>1. CASE time(j) = time(i)
      BY <2>5, <2>6, <3>1 DEF ties
    <3>2. CASE time(j) # time(i)
      BY <1>1, <2>3, <2>6, <3>2
    <3> QED BY <3>1, <3>2
  <2> QED BY <2>6, <2>7
<1>4. (CHOOSE i \in match : best(i)) \in match
  <2> HIDE DEF match, best
  <2> QED BY <1>3
<1>5. Newest(ob, u) = cached[CHOOSE i \in match : best(i)]
  BY <1>2 DEF Newest
<1> QED BY <1>4, <1>5 DEF ToSet

(* A fetch begins anew with the same users and candidate. *)
LEMMA RefetchType ==
  ASSUME NEW x \in ObjectType, now \in 1..MaxTime, NEW c \in {"plain", "conditional"}
  PROVE  /\ llcache_object_refetch(x, c) \in ObjectType
         /\ llcache_object_refetch(x, c).url = x.url
         /\ llcache_object_refetch(x, c).users = x.users
         /\ llcache_object_refetch(x, c).candidate = x.candidate
         /\ llcache_object_refetch(x, c).count = x.count
         /\ llcache_object_refetch(x, c).len = x.len
<1>1. [Invalid EXCEPT !.req_time = now] \in
        [req_time : 0..MaxTime, expiry : 0..(MaxTime + 1),
         no_cache : {"FRESH", "ALWAYS", "ONCE"}, dated : BOOLEAN]
  <2>1. now \in 0..MaxTime /\ 0 \in 0..(MaxTime + 1)
    BY LLCacheAssumption
  <2> QED BY <2>1 DEF Invalid
<1> DEFINE cache == [Invalid EXCEPT !.req_time = now]
<1> HIDE DEF cache
<1> QED BY <1>1 DEF llcache_object_refetch, ObjectType, State, cache

(* The users us get an object for u: before, each object in ob has the users *)
(* the handles say, but for us; afterwards it has all of them.              *)
Gets(ob, us, u, redirects) ==
  \E force \in BOOLEAN, stream \in BOOLEAN :
    llcache_object_retrieve(ob, us, u, force, stream, redirects)

Ready(ob, us, moved) ==
  /\ Core(ob, Live)
  /\ cached \in Seq(Object) /\ uncached \in Seq(Object) /\ Injective(cached)
  /\ user \in [Handle -> UserType] /\ now \in 1..MaxTime
  /\ us \in Seq(Element) /\ Injective(us) /\ ToSet(us) \subseteq Handle
  /\ \A o \in Object : /\ Injective(ob[o].users)
                       /\ ToSet(ob[o].users) = Listed(user, moved, o) \ ToSet(us)

Given(ob, moved) ==
  /\ Core(obj', Live') /\ Lists(obj', user', moved)
  /\ cached' \in Seq(Object) /\ uncached' \in Seq(Object) /\ Injective(cached')
  /\ user' \in [Handle -> UserType]
  /\ Live \subseteq Live'
  /\ \A o \in Live : /\ ToSet(ob[o].users) \subseteq ToSet(obj'[o].users)
                     /\ obj'[o].len = ob[o].len
  /\ \A h \in Handle : user'[h].bytes = user[h].bytes

(* What llcache_object_retrieve promises to both its callers. *)
LEMMA Retrieved ==
  ASSUME NEW ob, NEW us, NEW u \in Url, NEW moved, NEW redirects \in 0..(REDIRECT_LIMIT + 1),
         Ready(ob, us, moved), Gets(ob, us, u, redirects)
  PROVE  Given(ob, moved)
<1> SUFFICES
      ASSUME Core(ob, Live),
             cached \in Seq(Object), uncached \in Seq(Object), Injective(cached),
             user \in [Handle -> UserType], now \in 1..MaxTime,
             us \in Seq(Element), Injective(us), ToSet(us) \subseteq Handle,
             NEW force, NEW stream, force \in BOOLEAN, stream \in BOOLEAN,
             \A o \in Object : Injective(ob[o].users)
                               /\ ToSet(ob[o].users) = Listed(user, moved, o) \ ToSet(us),
             llcache_object_retrieve(ob, us, u, force, stream, redirects)
      PROVE  /\ Core(obj', Live') /\ Lists(obj', user', moved)
             /\ cached' \in Seq(Object) /\ uncached' \in Seq(Object) /\ Injective(cached')
             /\ user' \in [Handle -> UserType]
             /\ Live \subseteq Live'
             /\ \A o \in Live : /\ ToSet(ob[o].users) \subseteq ToSet(obj'[o].users)
                                /\ obj'[o].len = ob[o].len
             /\ \A h \in Handle : user'[h].bytes = user[h].bytes
  BY DEF Ready, Gets, Given
<1> DEFINE c == IF force THEN NULL ELSE Newest(ob, u)
           found == c # NULL /\ llcache_object_is_fresh(ob[c])
           new == [llcache_object_new(u) EXCEPT
                     !.users = AddUsers(us, <<>>), !.candidate = c,
                     !.force = force, !.stream = stream, !.redirects = redirects]
           condition == IF c # NULL /\ ob[c].cache.dated THEN "conditional" ELSE "plain"
           Give(o) == user' = [h \in Handle |->
                        IF h \in ToSet(us) THEN [user[h] EXCEPT !.object = o] ELSE user[h]]
<1>1. /\ ob \in [Object -> ObjectType] /\ Live \subseteq Object
      /\ NULL \notin Object /\ Moved \notin Handle
      /\ \A o \in Object : ob[o] \in ObjectType /\ ob[o].users \in Seq(Element)
  BY LLCacheAssumption DEF Core, ObjectType, Element
<1>2. c # NULL => c \in ToSet(cached) /\ c \in Live /\ c \in Object /\ ob[c].url = u
  BY <1>1, NewestProperties DEF Live
<1>3. ASSUME NEW o \in Object, Give(o)
      PROVE  /\ user' \in [Handle -> UserType]
             /\ \A h \in Handle :
                  /\ user'[h].object = IF h \in ToSet(us) THEN o ELSE user[h].object
                  /\ user'[h].bytes = user[h].bytes
             /\ \A m \in Object : Listed(user', moved, m) =
                  (Listed(user, moved, m) \ ToSet(us)) \cup (IF m = o THEN ToSet(us) ELSE {})
  <2>1. \A h \in Handle : user[h] \in UserType
    OBVIOUS
  <2>2. \A h \in Handle : [user[h] EXCEPT !.object = o] \in UserType
                          /\ [user[h] EXCEPT !.object = o].object = o
                          /\ [user[h] EXCEPT !.object = o].bytes = user[h].bytes
    BY <2>1 DEF UserType
  <2>3. /\ user' \in [Handle -> UserType]
        /\ \A h \in Handle :
                  /\ user'[h].object = IF h \in ToSet(us) THEN o ELSE user[h].object
                  /\ user'[h].bytes = user[h].bytes
    BY <1>3, <2>1, <2>2
  <2> QED BY <1>1, <2>3 DEF Listed
<1>4. CASE found /\ obj' = [ob EXCEPT ![c].users = AddUsers(us, @)] /\ Give(c)
           /\ UNCHANGED lists
  <2> DEFINE x == [ob[c] EXCEPT !.users = AddUsers(us, ob[c].users)]
  <2>1. c \in Live /\ c \in Object /\ ob[c] \in ObjectType /\ ob[c].users \in Seq(Element)
    BY <1>1, <1>2, <1>4
  <2>2. ToSet(us) \cap ToSet(ob[c].users) = {}
    BY <2>1
  <2> DEFINE s == AddUsers(us, ob[c].users)
  <2>3. s \in Seq(Element) /\ ToSet(s) = ToSet(us) \cup ToSet(ob[c].users) /\ Injective(s)
    BY <2>1, <2>2, AddUsersProperties
  <2>4. /\ x \in ObjectType /\ x.users = s /\ x.url = ob[c].url /\ x.len = ob[c].len
        /\ x.candidate = ob[c].candidate /\ x.count = ob[c].count
    <3> HIDE DEF s
    <3>1. x = [ob[c] EXCEPT !.users = s]
      BY DEF s
    <3> QED BY <2>1, <2>3, <3>1, ZenonT(40) DEF ObjectType, Element
  <2>5. obj' = [ob EXCEPT ![c] = x]
    BY <1>4, <2>1
  <2> HIDE DEF x, s
  <2>6. Core(obj', Live)
    BY <2>1, <2>4, <2>5, CoreChange
  <2>7. Live' = Live /\ cached' = cached /\ uncached' = uncached
    BY <1>4 DEF Live, lists
  <2>8. \A o \in Object : obj'[o] = IF o = c THEN x ELSE ob[o]
    BY <1>1, <2>5
  <2>9. Lists(obj', user', moved)
    <3> SUFFICES ASSUME NEW o \in Object
                 PROVE  Injective(obj'[o].users) /\ ToSet(obj'[o].users) = Listed(user', moved, o)
      BY DEF Lists
    <3>1. Listed(user', moved, o) =
            (Listed(user, moved, o) \ ToSet(us)) \cup (IF o = c THEN ToSet(us) ELSE {})
      <4>1. Give(c)
        BY <1>4
      <4> HIDE DEF c, Give
      <4> QED BY <1>3, <2>1, <4>1
    <3>2. CASE o = c
      BY <2>3, <2>4, <2>8, <3>1, <3>2
    <3>3. CASE o # c
      BY <2>8, <3>1, <3>3
    <3> QED BY <3>2, <3>3
  <2>10. \A o \in Live : ToSet(ob[o].users) \subseteq ToSet(obj'[o].users)
                        /\ obj'[o].len = ob[o].len
    BY <1>1, <2>3, <2>4, <2>8
  <2> QED BY <1>3, <1>4, <2>1, <2>6, <2>7, <2>9, <2>10
<1>5. ASSUME NEW n \in Object \ Live, c # NULL => ob[c].count < MaxCandidates,
             obj' = [x \in Object |->
                   IF x = n THEN llcache_object_refetch(new, condition)
                   ELSE IF x = c THEN [ob[x] EXCEPT !.count = @ + 1]
                   ELSE ob[x]],
             Give(n),
             IF force THEN uncached' = Cons(n, uncached) /\ UNCHANGED cached
             ELSE cached' = Cons(n, cached) /\ UNCHANGED uncached
      PROVE  /\ Core(obj', Live') /\ Lists(obj', user', moved)
             /\ cached' \in Seq(Object) /\ uncached' \in Seq(Object) /\ Injective(cached')
             /\ Live \subseteq Live'
             /\ \A o \in Live : /\ ToSet(ob[o].users) \subseteq ToSet(obj'[o].users)
                                /\ obj'[o].len = ob[o].len
  <2> DEFINE x == llcache_object_refetch(new, condition)
             s == AddUsers(us, <<>>)
  <2>1. s \in Seq(Element) /\ ToSet(s) = ToSet(us) /\ Injective(s)
    BY AddUsersToNone
  <2>2. /\ new \in ObjectType /\ new.users = s /\ new.url = u /\ new.candidate = c
        /\ new.count = 0
    <3>1. new = NewFor(u, s, c, force, stream, redirects)
      BY DEF NewFor
    <3>2. c \in Object \cup {NULL}
      BY <1>2
    <3> HIDE DEF s, c, new
    <3> DEFINE x0 == NewFor(u, s, c, force, stream, redirects)
    <3>3. IsNew(x0, u, s, c)
      BY <2>1, <3>2, NewForType
    <3> HIDE DEF x0
    <3>4. new = x0
      BY <3>1 DEF x0
    <3> QED BY <3>3, <3>4 DEF IsNew
  <2>3. /\ x \in ObjectType /\ x.users = s /\ x.url = u /\ x.candidate = c /\ x.count = 0
    <3>1. condition \in {"plain", "conditional"}
      OBVIOUS
    <3> HIDE DEF new, condition
    <3> QED BY <2>2, <3>1, RefetchType
  <2>4. Core(obj', Live \cup {n})
    <3> HIDE DEF x, c
    <3>1. obj' = [y \in Object |-> IF y = n THEN x
                                   ELSE IF y = c THEN [ob[y] EXCEPT !.count = @ + 1]
                                   ELSE ob[y]]
      BY <1>5 DEF x, c
    <3> QED BY <1>2, <1>5, <2>3, <3>1, CoreNew
  <2>5. /\ cached' \in Seq(Object) /\ uncached' \in Seq(Object) /\ Injective(cached')
        /\ Live' = Live \cup {n}
    BY <1>5, ConsProperties DEF Live
  <2>6. \A o \in Object : /\ obj'[o].users = IF o = n THEN s ELSE ob[o].users
                          /\ o # n => obj'[o].len = ob[o].len
    <3>1. \A o \in Object : /\ [ob[o] EXCEPT !.count = @ + 1].users = ob[o].users
                            /\ [ob[o] EXCEPT !.count = @ + 1].len = ob[o].len
      BY <1>1 DEF ObjectType
    <3> HIDE DEF x, s, c
    <3> QED BY <1>5, <2>3, <3>1 DEF x, c
  <2>7. ob[n].users = <<>> /\ ToSet(<<>>) = {}
    BY <1>1 DEF Core, Free, llcache_object_new, ToSet
  <2>8. Lists(obj', user', moved)
    <3> SUFFICES ASSUME NEW o \in Object
                 PROVE  Injective(obj'[o].users) /\ ToSet(obj'[o].users) = Listed(user', moved, o)
      BY DEF Lists
    <3>1. Listed(user', moved, o) =
            (Listed(user, moved, o) \ ToSet(us)) \cup (IF o = n THEN ToSet(us) ELSE {})
      BY <1>3, <1>5
    <3> HIDE DEF s
    <3>2. CASE o = n
      BY <2>1, <2>6, <2>7, <3>1, <3>2
    <3>3. CASE o # n
      BY <2>6, <3>1, <3>3
    <3> QED BY <3>2, <3>3
  <2> HIDE DEF s
  <2>9. \A o \in Live : ToSet(ob[o].users) \subseteq ToSet(obj'[o].users)
                        /\ obj'[o].len = ob[o].len
    BY <1>1, <2>6
  <2> QED BY <2>4, <2>5, <2>8, <2>9
<1>6. \/ found /\ obj' = [ob EXCEPT ![c].users = AddUsers(us, @)] /\ Give(c) /\ UNCHANGED lists
      \/ \E n \in Object \ Live :
           /\ c # NULL => ob[c].count < MaxCandidates
           /\ obj' = [x \in Object |->
                   IF x = n THEN llcache_object_refetch(new, condition)
                   ELSE IF x = c THEN [ob[x] EXCEPT !.count = @ + 1]
                   ELSE ob[x]]
           /\ Give(n)
           /\ IF force THEN uncached' = Cons(n, uncached) /\ UNCHANGED cached
              ELSE cached' = Cons(n, cached) /\ UNCHANGED uncached
  BY DEF llcache_object_retrieve
<1>7. CASE \E n \in Object \ Live :
           /\ c # NULL => ob[c].count < MaxCandidates
           /\ obj' = [x \in Object |->
                   IF x = n THEN llcache_object_refetch(new, condition)
                   ELSE IF x = c THEN [ob[x] EXCEPT !.count = @ + 1]
                   ELSE ob[x]]
           /\ Give(n)
           /\ IF force THEN uncached' = Cons(n, uncached) /\ UNCHANGED cached
              ELSE cached' = Cons(n, cached) /\ UNCHANGED uncached
  <2> HIDE DEF new, condition, c
  <2> QED BY <1>3, <1>5, <1>7
<1> QED BY <1>4, <1>6, <1>7

-----------------------------------------------------------------------------
(* What is used of the invariant again and again. *)
LEMMA Basics ==
  ASSUME Structure
  PROVE  /\ obj \in [Object -> ObjectType] /\ Live \subseteq Object
         /\ NULL \notin Object /\ NULL \notin Handle /\ Moved \notin Handle /\ Moved # NULL
         /\ \A o \in Object : obj[o] \in ObjectType /\ obj[o].users \in Seq(Element)
         /\ \A o \in Object : o \in Live \/ obj[o] = Free
         /\ \A h \in Handle : user[h] \in UserType
         /\ \A h \in Handle, o \in Object : user[h].object = o => h \in ToSet(obj[o].users)
         /\ \A h \in Handle, o \in Object : h \in ToSet(obj[o].users) => user[h].object = o
<1>1. obj \in [Object -> ObjectType] /\ Live \subseteq Object
      /\ \A o \in Object : o \in Live \/ obj[o] = Free
  BY DEF Structure, Core
<1>2. \A o \in Object : obj[o] \in ObjectType /\ obj[o].users \in Seq(Element)
  BY <1>1 DEF ObjectType, Element
<1>3. NULL \notin Object /\ NULL \notin Handle /\ Moved \notin Handle /\ Moved # NULL
  BY LLCacheAssumption
<1>4. \A h \in Handle : user[h] \in UserType
  BY DEF Structure
<1>5. \A o \in Object : ToSet(obj[o].users) = Listed(user, MovedAt, o)
  BY DEF Structure, Lists
<1>6. \A h \in Handle, o \in Object : h \in Listed(user, MovedAt, o) <=> user[h].object = o
  BY <1>3 DEF Listed
<1> QED BY <1>1, <1>2, <1>3, <1>4, <1>5, <1>6

(* An object with users, a fetch, a query or a candidate is in a list. *)
LEMMA BusyIsLive ==
  ASSUME Structure, NEW o \in Object,
         obj[o].fetch # "none" \/ obj[o].query \/ obj[o].users # <<>> \/ obj[o].candidate # NULL
  PROVE  o \in Live
<1>1. Free.fetch = "none" /\ ~Free.query /\ Free.users = <<>> /\ Free.candidate = NULL
  BY DEF Free, llcache_object_new
<1> QED BY <1>1, Basics

(* The object of a handle is in a list and has it as a user. *)
LEMMA UsedIsLive ==
  ASSUME Structure, NEW h \in Handle, user[h].object # NULL
  PROVE  user[h].object \in Live /\ h \in ToSet(obj[user[h].object].users)
<1>1. user[h].object \in Object
  BY Basics DEF UserType
<1>2. h \in ToSet(obj[user[h].object].users)
  BY <1>1, Basics
<1>3. obj[user[h].object].users # <<>>
  BY <1>2 DEF ToSet
<1> QED BY <1>1, <1>2, <1>3, BusyIsLive

(* The list of users of one object changes. *)
WithUsers(ob, o, s) == [ob EXCEPT ![o].users = s]

LEMMA CoreUsers ==
  ASSUME NEW ob, NEW live, Core(ob, live), NEW o \in live, NEW s \in Seq(Element)
  PROVE  /\ Core(WithUsers(ob, o, s), live)
         /\ \A p \in Object :
              /\ WithUsers(ob, o, s)[p].users = IF p = o THEN s ELSE ob[p].users
              /\ WithUsers(ob, o, s)[p].len = ob[p].len
<1> DEFINE x == [ob[o] EXCEPT !.users = s]
<1>1. ob[o] \in ObjectType /\ o \in Object /\ ob \in [Object -> ObjectType]
  BY DEF Core
<1>2. x \in ObjectType /\ x.users = s /\ x.url = ob[o].url /\ x.candidate = ob[o].candidate
      /\ x.count = ob[o].count /\ x.len = ob[o].len
  BY <1>1 DEF ObjectType, Element
<1>3. WithUsers(ob, o, s) = [ob EXCEPT ![o] = x]
  BY <1>1 DEF WithUsers
<1> HIDE DEF x
<1>4. Core([ob EXCEPT ![o] = x], live)
  BY <1>2, CoreChange
<1> QED BY <1>1, <1>2, <1>3, <1>4

(* The walk stays where it is. *)
LEMMA WalkStays ==
  ASSUME Walk, UNCHANGED <<pc, it>>, Live \subseteq Live',
         it.at \in Live /\ it.cur # NULL =>
           /\ it.cur \in ToSet(obj'[it.at].users)
           /\ obj'[it.at].len = obj[it.at].len
           /\ ~it.dead => user'[it.cur].bytes = user[it.cur].bytes
  PROVE  Walk' /\ MovedAt' = MovedAt
<1>1. it.at # NULL => it.at \in Live
  BY DEF Walk
<1>2. MovedAt' = MovedAt
  BY DEF MovedAt
<1> QED BY <1>1, <1>2 DEF Walk

-----------------------------------------------------------------------------
(* What clients call. *)
LEMMA RetrieveStep ==
  ASSUME Structure, NEW h \in Handle, NEW u \in Url, llcache_handle_retrieve(h, u)
  PROVE  Structure'
<1> DEFINE us == <<h>>
<1>1. PICK force, stream : force \in BOOLEAN /\ stream \in BOOLEAN
        /\ llcache_object_retrieve(obj, us, u, force, stream, 0)
  BY DEF llcache_handle_retrieve
<1>2. us \in Seq(Element) /\ Injective(us) /\ ToSet(us) = {h}
  BY DEF Element, Injective, ToSet
<1>3. user[h].object = NULL /\ UNCHANGED <<now, pc, it>>
  BY DEF llcache_handle_retrieve
<1>4. \A o \in Object : Listed(user, MovedAt, o) \ {h} = Listed(user, MovedAt, o)
  BY <1>3, Basics DEF Listed
<1>5. 0 \in 0..(REDIRECT_LIMIT + 1)
  BY LLCacheAssumption
<1> HIDE DEF us
<1>6. Given(obj, MovedAt)
  <2>1. \A o \in Object : Injective(obj[o].users)
                           /\ ToSet(obj[o].users) = Listed(user, MovedAt, o) \ ToSet(us)
    BY <1>2, <1>4 DEF Structure, Lists
  <2>2. Ready(obj, us, MovedAt)
    BY <1>2, <2>1 DEF Structure, Ready
  <2>3. Gets(obj, us, u, 0)
    BY <1>1 DEF Gets
  <2> QED BY <1>5, <2>2, <2>3, Retrieved
<1>7. Walk' /\ MovedAt' = MovedAt
  <2>1. it.cur # NULL /\ ~it.dead => it.cur \in Handle
    BY DEF Structure, Walk, WalkType
  <2>2. Walk
    BY DEF Structure
  <2>3. it.at \in Live /\ it.cur # NULL => it.cur \in ToSet(obj[it.at].users)
    BY <2>2 DEF Walk
  <2> QED BY <1>3, <1>6, <2>1, <2>2, <2>3, WalkStays DEF Given
<1> QED BY <1>3, <1>6, <1>7 DEF Structure, Given

(* A handle that was let go. *)
LEMMA NoUserType == NoUser \in UserType /\ NoUser.object = NULL
BY LLCacheAssumption DEF NoUser, UserType, State

(* A client releases a handle, or marks the target of the walk. *)
LEMMA ReleaseStep ==
  ASSUME Structure, NEW h \in Handle, llcache_handle_release(h)
  PROVE  Structure'
<1> DEFINE o == user[h].object
           s == RemoveFirst(obj[o].users, h)
<1>1. /\ ClientRuns /\ o # NULL /\ ~(it.dead /\ it.cur = h)
      /\ UNCHANGED <<cached, uncached, now, pc>>
  BY DEF llcache_handle_release, Owned, lists
<1>2. Live' = Live
  BY <1>1 DEF Live
<1>3. o \in Live /\ o \in Object /\ h \in ToSet(obj[o].users)
  BY <1>1, UsedIsLive, Basics
<1>4. CASE it.cur = h
  <2>1. it' = [it EXCEPT !.dead = TRUE] /\ UNCHANGED <<obj, user>>
    BY <1>4 DEF llcache_handle_release
  <2>2. it \in WalkType /\ pc = "callback" /\ h # NULL /\ h # Moved
    BY <1>1, <1>4, Basics DEF Structure, Walk, ClientRuns
  <2>3. /\ it' \in WalkType /\ it'.cur = it.cur /\ it'.at = it.at /\ it'.dead
        /\ it'.stage = it.stage
    BY <2>1, <2>2 DEF WalkType
  <2>4. MovedAt' = NULL /\ MovedAt = NULL
    BY <1>4, <2>2, <2>3 DEF MovedAt
  <2>5. Walk'
    BY <1>1, <1>2, <2>1, <2>2, <2>3 DEF Structure, Walk
  <2> QED BY <1>1, <1>2, <2>1, <2>4, <2>5 DEF Structure
<1>5. CASE it.cur # h
  <2>1. /\ obj' = [obj EXCEPT ![o].users = s]
        /\ user' = [user EXCEPT ![h] = NoUser]
        /\ it' = it
    BY <1>5 DEF llcache_handle_release
  <2>2. s \in Seq(Element) /\ Injective(s) /\ ToSet(s) = ToSet(obj[o].users) \ {h}
    <3>1. obj[o].users \in Seq(Element) /\ Injective(obj[o].users)
      BY <1>3, Basics DEF Structure, Lists
    <3> QED BY <1>3, <3>1, RemoveFirstProperties
  <2> HIDE DEF s, o
  <2>3. Core(obj', Live)
        /\ \A p \in Object : /\ obj'[p].users = IF p = o THEN s ELSE obj[p].users
                             /\ obj'[p].len = obj[p].len
    <3>1. obj' = WithUsers(obj, o, s) /\ Core(obj, Live)
      BY <2>1 DEF WithUsers, Structure
    <3> QED BY <1>3, <2>2, <3>1, CoreUsers
  <2>4. user' \in [Handle -> UserType]
        /\ \A k \in Handle : user'[k] = IF k = h THEN NoUser ELSE user[k]
    BY <2>1, NoUserType DEF Structure
  <2>5. MovedAt' = MovedAt
    BY <2>1 DEF MovedAt
  <2>6. Lists(obj', user', MovedAt)
    <3> SUFFICES ASSUME NEW p \in Object
                 PROVE  Injective(obj'[p].users) /\ ToSet(obj'[p].users) = Listed(user', MovedAt, p)
      BY DEF Lists
    <3>1. Injective(obj[p].users) /\ ToSet(obj[p].users) = Listed(user, MovedAt, p)
      BY DEF Structure, Lists
    <3>2. Listed(user', MovedAt, p) = Listed(user, MovedAt, p) \ {h}
      BY <2>4, Basics, NoUserType DEF Listed
    <3>3. p # o => h \notin Listed(user, MovedAt, p)
      BY Basics DEF Listed, o
    <3> QED BY <2>2, <2>3, <3>1, <3>2, <3>3
  <2>7. Walk'
    <3>1. Walk /\ UNCHANGED <<pc, it>>
      BY <1>1, <2>1 DEF Structure
    <3>2. it.at \in Live /\ it.cur # NULL => it.cur \in ToSet(obj'[it.at].users)
      BY <1>5, <2>2, <2>3, <3>1, Basics DEF Walk
    <3>3. it.cur # NULL /\ ~it.dead => it.cur \in Handle
      BY <3>1 DEF Walk, WalkType
    <3>4. it.at \in Live => obj'[it.at].len = obj[it.at].len
      BY <2>3, Basics
    <3>5. it.cur # NULL /\ ~it.dead => user'[it.cur].bytes = user[it.cur].bytes
      BY <1>5, <2>4, <3>3
    <3> QED BY <1>2, <3>1, <3>2, <3>4, <3>5, WalkStays
  <2> QED BY <1>1, <1>2, <2>3, <2>4, <2>5, <2>6, <2>7 DEF Structure
<1> QED BY <1>4, <1>5

-----------------------------------------------------------------------------
(* Changes of one object. *)
With(ob, o, x) == [ob EXCEPT ![o] = x]

LEMMA WithCore ==
  ASSUME NEW ob, NEW live, Core(ob, live), NEW o \in live, NEW x \in ObjectType,
         x.url = ob[o].url, x.candidate = ob[o].candidate, x.count = ob[o].count
  PROVE  /\ Core(With(ob, o, x), live)
         /\ \A p \in Object : With(ob, o, x)[p] = IF p = o THEN x ELSE ob[p]
<1>1. o \in Object /\ ob \in [Object -> ObjectType]
  BY DEF Core
<1> QED BY <1>1, CoreChange DEF With

CacheType ==
  [req_time : 0..MaxTime, expiry : 0..(MaxTime + 1),
   no_cache : {"FRESH", "ALWAYS", "ONCE"}, dated : BOOLEAN]

(* Cache control data after they were invalidated. *)
LEMMA InvalidType == Invalid \in CacheType
BY LLCacheAssumption DEF Invalid, CacheType

(* The same object, in other respects. *)
Alike(x, y) ==
  /\ x \in ObjectType /\ x.url = y.url /\ x.candidate = y.candidate
  /\ x.count = y.count /\ x.users = y.users

Patch(x, state, fetch, cache, end) ==
  [x EXCEPT !.state = state, !.fetch = fetch, !.cache = cache, !.end = end]

LEMMA PatchType ==
  ASSUME NEW x \in ObjectType, NEW s \in State, NEW f \in {"none", "plain", "conditional", "stopping"},
         NEW c \in CacheType, NEW e \in {"none", "finished", "failed", "aborted", "revived", "vouched"}
  PROVE  Alike(Patch(x, s, f, c, e), x) /\ Patch(x, s, f, c, e).len = x.len
BY ZenonT(40) DEF Patch, ObjectType, CacheType, Alike

Flags(x, query, auth, tls, stream) ==
  [x EXCEPT !.query = query, !.auth = auth, !.tls = tls, !.stream = stream]

LEMMA FlagsType ==
  ASSUME NEW x \in ObjectType, NEW q, NEW a, NEW t, NEW s, q \in BOOLEAN, a \in BOOLEAN,
         t \in BOOLEAN, s \in BOOLEAN
  PROVE  Alike(Flags(x, q, a, t, s), x) /\ Flags(x, q, a, t, s).len = x.len
BY ZenonT(40) DEF Flags, ObjectType, Alike

Resized(x, k) == [x EXCEPT !.len = k]

LEMMA ResizedType ==
  ASSUME NEW x \in ObjectType, NEW k \in 0..MaxLen
  PROVE  Alike(Resized(x, k), x) /\ Resized(x, k).len = k
BY DEF Resized, ObjectType, Alike

(* Only the objects change, not who uses them. *)
LEMMA ObjectsChange ==
  ASSUME Structure, Core(obj', Live), \A p \in Object : obj'[p].users = obj[p].users,
         Live' = Live, cached' \in Seq(Object), uncached' \in Seq(Object), Injective(cached'),
         user' = user, now' = now, Walk', MovedAt' = MovedAt
  PROVE  Structure'
BY DEF Structure, Lists

(* The same, while the walk stands still. *)
LEMMA ObjectsOnly ==
  ASSUME Structure, Core(obj', Live), \A p \in Object : obj'[p].users = obj[p].users,
         it.cur # NULL => obj'[it.at].len = obj[it.at].len,
         Live' = Live, cached' \in Seq(Object), uncached' \in Seq(Object), Injective(cached'),
         user' = user, now' = now, pc' = pc, it' = it
  PROVE  Structure'
<1>1. Walk
  BY DEF Structure
<1>2. it.cur # NULL => it.at \in Object /\ it.cur \in ToSet(obj[it.at].users)
  BY <1>1 DEF Walk, WalkType
<1>3. Walk' /\ MovedAt' = MovedAt
  BY <1>1, <1>2, WalkStays
<1> QED BY <1>3, ObjectsChange

(* The same for one object. *)
LEMMA OneObject ==
  ASSUME Structure, NEW o \in Live, NEW x, Alike(x, obj[o]), x.len = obj[o].len,
         obj' = With(obj, o, x),
         Live' = Live, cached' \in Seq(Object), uncached' \in Seq(Object), Injective(cached'),
         user' = user, now' = now, pc' = pc, it' = it
  PROVE  Structure'
<1>1. Core(obj, Live) /\ x \in ObjectType
  BY DEF Structure, Alike
<1>2. Core(obj', Live) /\ \A p \in Object : obj'[p] = IF p = o THEN x ELSE obj[p]
  BY <1>1, WithCore DEF Alike
<1>3. it.cur # NULL => it.at \in Object
  BY DEF Structure, Walk, WalkType
<1>4. \A p \in Object : obj'[p].users = obj[p].users /\ obj'[p].len = obj[p].len
  BY <1>2 DEF Alike
<1> QED BY <1>2, <1>3, <1>4, ObjectsOnly

(* Steps that leave the lists of objects alone. *)
LEMMA ListsStay ==
  ASSUME Structure, UNCHANGED lists
  PROVE  Live' = Live /\ cached' \in Seq(Object) /\ uncached' \in Seq(Object) /\ Injective(cached')
BY DEF Structure, lists, Live

(* A client wants its object validated before it is used again. *)
LEMMA InvalidateStep ==
  ASSUME Structure, NEW h \in Handle, llcache_handle_invalidate_cache_data(h)
  PROVE  Structure'
<1> DEFINE o == user[h].object
           cache == [obj[o].cache EXCEPT !.no_cache = "ONCE"]
           x == Patch(obj[o], obj[o].state, obj[o].fetch, cache, obj[o].end)
<1>1. o \in Live /\ UNCHANGED lists /\ user' = user /\ now' = now /\ pc' = pc /\ it' = it
  BY UsedIsLive DEF llcache_handle_invalidate_cache_data, Owned
<1>2. obj[o] \in ObjectType /\ obj \in [Object -> ObjectType] /\ o \in Object
  BY <1>1, Basics
<1>3. /\ cache \in CacheType /\ obj[o].state \in State
      /\ obj[o].fetch \in {"none", "plain", "conditional", "stopping"}
      /\ obj[o].end \in {"none", "finished", "failed", "aborted", "revived", "vouched"}
  BY <1>2 DEF ObjectType, CacheType
<1>4. obj' = With(obj, o, x)
  BY <1>2 DEF llcache_handle_invalidate_cache_data, With, Patch, ObjectType
<1> HIDE DEF cache, o
<1>5. Alike(x, obj[o]) /\ x.len = obj[o].len
  BY <1>2, <1>3, PatchType
<1> HIDE DEF x
<1> QED BY <1>1, <1>4, <1>5, ListsStay, OneObject

(* A sole user takes its object out of the cache. *)
LEMMA StreamStep ==
  ASSUME Structure, NEW h \in Handle, llcache_handle_force_stream(h)
  PROVE  Structure'
<1> DEFINE o == user[h].object
           x == Flags(obj[o], obj[o].query, obj[o].auth, obj[o].tls, TRUE)
<1>1. o \in Live /\ user' = user /\ now' = now /\ pc' = pc /\ it' = it
  BY UsedIsLive DEF llcache_handle_force_stream, Owned, InEventOf
<1>2. obj[o] \in ObjectType /\ obj \in [Object -> ObjectType] /\ o \in Object
  BY <1>1, Basics
<1>3. obj[o].query \in BOOLEAN /\ obj[o].auth \in BOOLEAN /\ obj[o].tls \in BOOLEAN
  BY <1>2 DEF ObjectType
<1>4. obj' = With(obj, o, x)
  BY <1>2 DEF llcache_handle_force_stream, With, Flags, ObjectType
<1>5. /\ Live' = Live /\ cached' \in Seq(Object) /\ uncached' \in Seq(Object)
      /\ Injective(cached')
  <2>1. cached \in Seq(Object) /\ uncached \in Seq(Object) /\ Injective(cached)
    BY DEF Structure
  <2>2. CASE o \in ToSet(cached)
    <3>1. cached' = RemoveFirst(cached, o) /\ uncached' = Cons(o, uncached)
      BY <2>2 DEF llcache_handle_force_stream
    <3>2. cached' \in Seq(Object) /\ Injective(cached') /\ ToSet(cached') = ToSet(cached) \ {o}
      BY <2>1, <2>2, <3>1, RemoveFirstProperties
    <3>3. uncached' \in Seq(Object) /\ ToSet(uncached') = ToSet(uncached) \cup {o}
      BY <1>2, <2>1, <3>1, ConsProperties
    <3> QED BY <2>2, <3>2, <3>3 DEF Live
  <2>3. CASE o \notin ToSet(cached)
    BY <2>3, ListsStay DEF llcache_handle_force_stream
  <2> QED BY <2>2, <2>3
<1> HIDE DEF o
<1>6. Alike(x, obj[o]) /\ x.len = obj[o].len
  BY <1>2, <1>3, FlagsType, ZenonT(40)
<1> HIDE DEF x
<1> QED BY <1>1, <1>4, <1>5, <1>6, OneObject

(* A handle is cloned. *)
LEMMA CloneStep ==
  ASSUME Structure, NEW h \in Handle, NEW new \in Handle, llcache_handle_clone(h, new)
  PROVE  Structure'
<1> DEFINE o == user[h].object
           s == Cons(new, obj[o].users)
<1>1. /\ o # NULL /\ user[new].object = NULL /\ UNCHANGED lists
      /\ now' = now /\ pc' = pc /\ it' = it
      /\ obj' = WithUsers(obj, o, s)
      /\ user' = [user EXCEPT ![new] = [user[h] EXCEPT !.bytes = 0]]
  BY DEF llcache_handle_clone, Owned, WithUsers
<1>2. o \in Live /\ o \in Object /\ obj[o].users \in Seq(Element) /\ Injective(obj[o].users)
  BY <1>1, UsedIsLive, Basics DEF Structure, Lists
<1>3. new \in Element /\ new \notin ToSet(obj[o].users) /\ new # Moved /\ o # NULL
  BY <1>1, <1>2, Basics DEF Element
<1>4. s \in Seq(Element) /\ Injective(s) /\ ToSet(s) = ToSet(obj[o].users) \cup {new}
  BY <1>2, <1>3, ConsProperties
<1> HIDE DEF s
<1>5. Core(obj', Live)
      /\ \A p \in Object : /\ obj'[p].users = IF p = o THEN s ELSE obj[p].users
                           /\ obj'[p].len = obj[p].len
  BY <1>1, <1>2, <1>4, CoreUsers DEF Structure
<1>6. /\ user' \in [Handle -> UserType]
      /\ \A k \in Handle : user'[k].object = IF k = new THEN o ELSE user[k].object
      /\ \A k \in Handle \ {new} : user'[k] = user[k]
  <2>1. user \in [Handle -> UserType] /\ user[h] \in UserType
    BY Basics DEF Structure
  <2>2. [user[h] EXCEPT !.bytes = 0] \in UserType /\ [user[h] EXCEPT !.bytes = 0].object = o
    BY <2>1, LLCacheAssumption DEF UserType
  <2> HIDE DEF o
  <2> QED BY <1>1, <2>1, <2>2
<1> HIDE DEF o
<1>7. Lists(obj', user', MovedAt)
  <2> SUFFICES ASSUME NEW p \in Object
               PROVE  Injective(obj'[p].users) /\ ToSet(obj'[p].users) = Listed(user', MovedAt, p)
    BY DEF Lists
  <2>1. Injective(obj[p].users) /\ ToSet(obj[p].users) = Listed(user, MovedAt, p)
    BY DEF Structure, Lists
  <2>2. Listed(user', MovedAt, p) = Listed(user, MovedAt, p) \cup (IF p = o THEN {new} ELSE {})
    BY <1>1, <1>2, <1>6, Basics DEF Listed
  <2> QED BY <1>4, <1>5, <2>1, <2>2
<1>8. Walk' /\ MovedAt' = MovedAt
  <2>1. Walk
    BY DEF Structure
  <2>2. it.cur # NULL => /\ it.at \in Object /\ it.cur \in ToSet(obj[it.at].users)
                         /\ ~it.dead => it.cur \in Handle
    BY <2>1 DEF Walk, WalkType
  <2>3. it.cur # NULL => it.cur \in ToSet(obj'[it.at].users) /\ obj'[it.at].len = obj[it.at].len
    BY <1>4, <1>5, <2>2
  <2>4. it.cur # NULL /\ ~it.dead => user'[it.cur] = user[it.cur]
    BY <1>1, <1>2, <1>6, <2>2, Basics
  <2> QED BY <1>1, <2>1, <2>3, <2>4, ListsStay, WalkStays
<1> QED BY <1>1, <1>5, <1>6, <1>7, <1>8, ListsStay DEF Structure

(* The end of a fetch, or the end of an object without one. *)
LEMMA AbortedType ==
  ASSUME NEW x \in ObjectType
  PROVE  Alike(Aborted(x), x) /\ Aborted(x).len = x.len
<1> DEFINE f == IF ~Runs(x) THEN x.fetch
                ELSE IF x.state = "HEADERS" THEN "stopping" ELSE "none"
           e == IF x.state = "COMPLETE" THEN x.end ELSE "aborted"
<1>1. Aborted(x) = Patch(x, "COMPLETE", f, Invalid, e)
  BY ZenonT(40) DEF Aborted, Patch, ObjectType
<1>2. /\ f \in {"none", "plain", "conditional", "stopping"} /\ "COMPLETE" \in State
      /\ e \in {"none", "finished", "failed", "aborted", "revived", "vouched"}
  BY DEF ObjectType, State
<1> HIDE DEF f, e
<1> QED BY <1>1, <1>2, InvalidType, PatchType

LEMMA AbortSoleStep ==
  ASSUME Structure, NEW h \in Handle, Owned(h),
         obj' = [obj EXCEPT ![user[h].object] = Aborted(@)],
         UNCHANGED <<lists, user, it, now, pc>>
  PROVE  Structure'
<1> DEFINE o == user[h].object
           x == Aborted(obj[o])
<1>1. o \in Live /\ UNCHANGED lists /\ user' = user /\ now' = now /\ pc' = pc /\ it' = it
  BY UsedIsLive DEF Owned
<1>2. obj[o] \in ObjectType /\ obj \in [Object -> ObjectType] /\ o \in Object
  BY <1>1, Basics
<1>3. obj' = With(obj, o, x)
  BY <1>2 DEF With
<1> HIDE DEF o
<1>5. Alike(x, obj[o]) /\ x.len = obj[o].len
  BY <1>2, AbortedType
<1> HIDE DEF x
<1> QED BY <1>1, <1>3, <1>5, ListsStay, OneObject

Added(ob, n, x) == [y \in Object |-> IF y = n THEN x ELSE ob[y]]

LEMMA CoreAdd ==
  ASSUME NEW ob, NEW live, Core(ob, live), NEW n \in Object \ live,
         NEW x \in ObjectType, x.count = 0, x.candidate = NULL
  PROVE  Core(Added(ob, n, x), live \cup {n})
<1> DEFINE c == x.candidate
           ob2 == [y \in Object |-> IF y = n THEN x
                                   ELSE IF y = c THEN [ob[y] EXCEPT !.count = @ + 1]
                                   ELSE ob[y]]
<1>1. c = NULL /\ c \notin Object /\ c = x.candidate
  BY LLCacheAssumption
<1> HIDE DEF c
<1>2. Core(ob2, live \cup {n})
  BY <1>1, CoreNew
<1>3. ob2 = Added(ob, n, x)
  BY <1>1 DEF Added
<1> QED BY <1>2, <1>3

(* The copy for a user that aborts. *)
LEMMA SnapshotType ==
  ASSUME NEW x \in ObjectType, NEW h \in Element
  PROVE  /\ llcache_object_snapshot(x, h) \in ObjectType
         /\ llcache_object_snapshot(x, h).users = <<h>>
         /\ llcache_object_snapshot(x, h).candidate = NULL
         /\ llcache_object_snapshot(x, h).count = 0
<1>1. x.url \in Url \cup {NULL} /\ x.len \in 0..MaxLen /\ <<h>> \in Seq(Element)
  BY DEF ObjectType
<1>2. llcache_object_new(x.url) \in ObjectType
  BY <1>1, NewObjectType
<1>3. llcache_object_new(x.url).candidate = NULL /\ llcache_object_new(x.url).count = 0
  BY DEF llcache_object_new
<1> DEFINE y == llcache_object_new(x.url)
           s == <<h>>
           y1 == Seeded(y, s, NULL, 0)
           y2 == Resized(y1, x.len)
           y3 == Patch(y2, "COMPLETE", "none", Invalid, "aborted")
<1>4. y \in ObjectType /\ y.count = 0 /\ s \in Seq(Element) /\ 0 \in 0..(REDIRECT_LIMIT + 1)
      /\ "COMPLETE" \in State
  BY <1>1, <1>2, <1>3, LLCacheAssumption DEF State
<1>5. llcache_object_snapshot(x, h) = y3
  <2>1. y.candidate = NULL /\ y.redirects = 0 /\ y.fetch = "none" /\ y.cache = Invalid
    BY DEF llcache_object_new
  <2> DEFINE k == x.len
  <2>2. llcache_object_snapshot(x, h) =
          [y EXCEPT !.users = s, !.len = k, !.state = "COMPLETE", !.end = "aborted"]
    BY DEF llcache_object_snapshot
  <2> HIDE DEF y, s, k
  <2>3. [y EXCEPT !.users = s, !.len = k, !.state = "COMPLETE", !.end = "aborted"] =
          Patch(Resized(Seeded(y, s, NULL, 0), k), "COMPLETE", "none", Invalid, "aborted")
    BY <1>4, <2>1, ZenonT(40) DEF ObjectType, Seeded, Resized, Patch
  <2> QED BY <2>2, <2>3 DEF k
<1> HIDE DEF y, s
<1>6. y1 \in ObjectType /\ y1.users = s /\ y1.candidate = NULL /\ y1.count = 0
  BY <1>4, SeededType
<1> HIDE DEF y1
<1>7. Alike(y2, y1)
  BY <1>1, <1>6, ResizedType
<1> HIDE DEF y2
<1>8. Alike(y3, y2)
  BY <1>4, <1>7, InvalidType, PatchType DEF Alike
<1> HIDE DEF y3
<1>9. y3 \in ObjectType /\ y3.users = s /\ y3.candidate = NULL /\ y3.count = 0
  BY <1>6, <1>7, <1>8 DEF Alike
<1> QED BY <1>5, <1>9 DEF s

(* A user that is not alone aborts and moves to a copy. *)
LEMMA AbortSharedStep ==
  ASSUME Structure, NEW h \in Handle, Owned(h), ClientRuns, NEW n \in Object \ Live,
         obj' = [obj EXCEPT
                   ![user[h].object].users =
                      IF it.cur = h THEN ReplaceAll(@, h, Moved) ELSE RemoveFirst(@, h),
                   ![n] = llcache_object_snapshot(obj[user[h].object], h)],
         uncached' = Cons(n, uncached), user' = [user EXCEPT ![h].object = n],
         it' = IF it.cur = h THEN [it EXCEPT !.cur = Moved, !.dead = TRUE] ELSE it,
         cached' = cached, now' = now, pc' = pc
  PROVE  Structure'
<1> DEFINE o == user[h].object
           s == IF it.cur = h THEN ReplaceAll(obj[o].users, h, Moved)
                ELSE RemoveFirst(obj[o].users, h)
           x == llcache_object_snapshot(obj[o], h)
           ob == WithUsers(obj, o, s)
<1>1. /\ o \in Live /\ o \in Object /\ o # n /\ h \in ToSet(obj[o].users)
      /\ obj[o].users \in Seq(Element) /\ Injective(obj[o].users) /\ obj[o] \in ObjectType
      /\ ToSet(obj[o].users) = Listed(user, MovedAt, o)
      /\ ~(it.dead /\ it.cur = h) /\ h \in Element /\ h # Moved /\ h # NULL /\ Moved # NULL
      /\ Moved \in Element /\ NULL \notin Object /\ Moved \notin Handle
  BY UsedIsLive, Basics DEF Owned, Structure, Lists, Element
<1>2. Walk
  BY DEF Structure
<1>3. it.cur = h => it.at = o /\ ~it.dead /\ MovedAt = NULL /\ pc = "callback"
  BY <1>1, <1>2, Basics DEF Walk, WalkType, MovedAt, ClientRuns
<1>4. /\ s \in Seq(Element) /\ Injective(s)
      /\ ToSet(s) = (ToSet(obj[o].users) \ {h}) \cup (IF it.cur = h THEN {Moved} ELSE {})
  <2>1. CASE it.cur = h
    <3>1. Moved \in Element \ ToSet(obj[o].users)
      BY <1>1, <1>3, <2>1 DEF Listed
    <3> HIDE DEF o
    <3> QED BY <1>1, <2>1, <3>1, ReplaceAllProperties
  <2>2. CASE it.cur # h
    <3> HIDE DEF o
    <3> QED BY <1>1, <2>2, RemoveFirstProperties
  <2> QED BY <2>1, <2>2
<1>5. obj' = Added(ob, n, x)
  <2>1. obj \in [Object -> ObjectType]
    BY Basics
  <2>2. obj' = [[obj EXCEPT ![o].users = s] EXCEPT ![n] = x]
    BY <1>1, <2>1
  <2> HIDE DEF x, s, o
  <2> QED BY <1>1, <2>1, <2>2 DEF WithUsers, Added
<1> HIDE DEF s
<1>6. /\ Core(ob, Live)
      /\ \A p \in Object : /\ ob[p].users = IF p = o THEN s ELSE obj[p].users
                           /\ ob[p].len = obj[p].len
  BY <1>1, <1>4, CoreUsers DEF Structure
<1>7. x \in ObjectType /\ x.users = <<h>> /\ x.candidate = NULL /\ x.count = 0
  BY <1>1, SnapshotType
<1> HIDE DEF x, ob
<1>8. Core(obj', Live \cup {n})
  <2>1. Core(ob, Live) /\ x \in ObjectType /\ x.count = 0 /\ x.candidate = NULL
    BY <1>6, <1>7
  <2>2. Core(Added(ob, n, x), Live \cup {n})
    BY <2>1, CoreAdd
  <2> QED BY <1>5, <2>2
<1>9. \A p \in Object : /\ obj'[p].users = IF p = n THEN <<h>> ELSE
                                           IF p = o THEN s ELSE obj[p].users
                        /\ p # n => obj'[p].len = obj[p].len
  BY <1>1, <1>5, <1>6, <1>7 DEF Added
<1>10. Live' = Live \cup {n} /\ uncached' \in Seq(Object) /\ cached \in Seq(Object)
  BY ConsProperties DEF Structure, Live
<1>11. /\ user' \in [Handle -> UserType]
       /\ \A k \in Handle : /\ user'[k].object = IF k = h THEN n ELSE user[k].object
                            /\ user'[k].bytes = user[k].bytes
  <2>1. user \in [Handle -> UserType] /\ \A k \in Handle : user[k] \in UserType
    BY Basics DEF Structure
  <2>2. [user[h] EXCEPT !.object = n] \in UserType /\ [user[h] EXCEPT !.object = n].object = n
        /\ [user[h] EXCEPT !.object = n].bytes = user[h].bytes
    BY <2>1 DEF UserType
  <2> QED BY <2>1, <2>2
<1>12. MovedAt' = IF it.cur = h THEN o ELSE MovedAt
  BY <1>2, <1>3 DEF MovedAt, Walk, WalkType
<1>13. Lists(obj', user', MovedAt')
  <2> SUFFICES ASSUME NEW p \in Object
               PROVE  Injective(obj'[p].users) /\ ToSet(obj'[p].users) = Listed(user', MovedAt', p)
    BY DEF Lists
  <2>1. Injective(obj[p].users) /\ ToSet(obj[p].users) = Listed(user, MovedAt, p)
    BY DEF Structure, Lists
  <2>2. Injective(<<h>>) /\ ToSet(<<h>>) = {h} /\ obj[n] = Free /\ Free.users = <<>> /\ ToSet(<<>>) = {}
    BY Basics DEF Injective, ToSet, Free, llcache_object_new
  <2>3. Listed(user, MovedAt, n) = {}
    BY <2>2 DEF Structure, Lists
  <2> HIDE DEF o
  <2>4. Listed(user', MovedAt', p) = (Listed(user, MovedAt, p) \ {h})
           \cup (IF p = n THEN {h} ELSE {})
           \cup (IF p = o /\ it.cur = h THEN {Moved} ELSE {})
    BY <1>1, <1>3, <1>11, <1>12 DEF Listed
  <2>5. p # o => h \notin Listed(user, MovedAt, p)
    BY <1>1, Basics DEF Listed, o
  <2>6. CASE p = n
    BY <1>1, <1>9, <2>2, <2>3, <2>4, <2>6
  <2>7. CASE p = o
    BY <1>1, <1>4, <1>9, <2>1, <2>4, <2>7
  <2>8. CASE p # n /\ p # o
    BY <1>9, <2>1, <2>4, <2>5, <2>8
  <2> QED BY <2>6, <2>7, <2>8
<1>14. Walk'
  <2>1. CASE it.cur = h
    <3>1. /\ it' \in WalkType /\ it'.cur = Moved /\ it'.dead /\ it'.at = it.at
          /\ it'.stage = it.stage
      BY <1>2, <2>1 DEF Walk, WalkType
    <3>2. it.at = o /\ pc = "callback" /\ Moved \in ToSet(obj'[o].users)
      BY <1>1, <1>3, <1>4, <1>9, <2>1
    <3> HIDE DEF o
    <3>3. it'.event = it.event
      BY <1>2, <2>1 DEF Walk, WalkType
    <3>4. it'.event \in {"PROGRESS", "ERROR"} => it'.stage = "none"
      BY <1>2, <3>1, <3>3 DEF Walk
    <3>5. it'.at = o /\ o \in Live' /\ o # NULL /\ it'.cur # NULL /\ pc' = "callback"
      BY <1>1, <1>10, <3>1, <3>2
    <3>6. it'.cur \in ToSet(obj'[it'.at].users)
      BY <3>1, <3>2, <3>5
    <3>7. it'.dead /\ it' \in WalkType
      BY <3>1
    <3> QED BY <3>4, <3>5, <3>6, <3>7 DEF Walk
  <2>2. CASE it.cur # h
    <3>1. (it' = it /\ it.at \in Live /\ it.at # n) \/ it.at = NULL
      BY <1>2, <2>2 DEF Walk
    <3>2. it.cur # NULL => it.cur \in ToSet(obj[it.at].users) /\ it.at \in Live /\ it.at \in Object
                           /\ (~it.dead => it.cur \in Handle)
      BY <1>2, Basics DEF Walk, WalkType
    <3>3. it.cur # NULL => /\ it.cur \in ToSet(obj'[it.at].users)
                           /\ obj'[it.at].len = obj[it.at].len
                           /\ ~it.dead => user'[it.cur].bytes = user[it.cur].bytes
      <4> HIDE DEF o
      <4> SUFFICES ASSUME it.cur # NULL
                   PROVE  /\ it.cur \in ToSet(obj'[it.at].users)
                          /\ obj'[it.at].len = obj[it.at].len
                          /\ ~it.dead => user'[it.cur].bytes = user[it.cur].bytes
        OBVIOUS
      <4>1. it.at # n /\ it.at \in Object
        BY <3>2
      <4>2. obj'[it.at].users = (IF it.at = o THEN s ELSE obj[it.at].users)
            /\ obj'[it.at].len = obj[it.at].len
        BY <1>9, <4>1
      <4>3. it.cur \in ToSet(obj'[it.at].users)
        BY <1>4, <2>2, <3>2, <4>2
      <4> QED BY <1>11, <3>2, <4>2, <4>3
    <3>4. it' = it
      BY <2>2
    <3> QED BY <1>2, <1>10, <3>3, <3>4, WalkStays
  <2> QED BY <2>1, <2>2
<1> QED BY <1>8, <1>10, <1>11, <1>13, <1>14 DEF Structure

(* Either kind of abort. *)
LEMMA AbortStep ==
  ASSUME Structure, NEW h \in Handle, llcache_handle_abort(h)
  PROVE  Structure'
<1> DEFINE o == user[h].object
<1>1. ClientRuns /\ Owned(h) /\ UNCHANGED <<now, pc>>
  BY DEF llcache_handle_abort
<1>2. CASE obj' = [obj EXCEPT ![o] = Aborted(@)] /\ UNCHANGED <<lists, user, it>>
  BY <1>1, <1>2, AbortSoleStep
<1>3. CASE /\ \E n \in Object \ Live :
                /\ obj' = [obj EXCEPT
                     ![o].users = IF it.cur = h THEN ReplaceAll(@, h, Moved)
                                  ELSE RemoveFirst(@, h),
                     ![n] = llcache_object_snapshot(obj[o], h)]
                /\ uncached' = Cons(n, uncached)
                /\ user' = [user EXCEPT ![h].object = n]
           /\ it' = IF it.cur = h THEN [it EXCEPT !.cur = Moved, !.dead = TRUE]
                    ELSE it
           /\ UNCHANGED cached
  BY <1>1, <1>3, AbortSharedStep
<1> QED BY <1>2, <1>3 DEF llcache_handle_abort

-----------------------------------------------------------------------------
(* The clean. *)
LEMMA CleanStep ==
  ASSUME Structure, llcache_clean
  PROVE  Structure'
<1>1. PICK gone \in SUBSET Live :
        /\ \A o \in gone : Unused(obj[o])
        /\ obj' = [o \in Object |-> IF o \in gone THEN Free ELSE obj[o]]
        /\ cached' = Sublist(cached, Object \ gone)
        /\ uncached' = Sublist(uncached, Object \ gone)
  <2>1. PICK over_limit \in BOOLEAN :
          LET victims == {o \in Live :
                Unused(obj[o]) /\ (o \in ToSet(cached) /\ Lifetime(obj[o])
                                   => over_limit)}
          IN  /\ victims # {}
              /\ obj' = [o \in Object |-> IF o \in victims THEN Free ELSE obj[o]]
              /\ cached' = Sublist(cached, Object \ victims)
              /\ uncached' = Sublist(uncached, Object \ victims)
    BY DEF llcache_clean
  <2> DEFINE victims == {o \in Live : Unused(obj[o])
                           /\ (o \in ToSet(cached) /\ Lifetime(obj[o]) => over_limit)}
  <2>2. victims \in SUBSET Live /\ \A o \in victims : Unused(obj[o])
    OBVIOUS
  <2>3. /\ obj' = [o \in Object |-> IF o \in victims THEN Free ELSE obj[o]]
        /\ cached' = Sublist(cached, Object \ victims)
        /\ uncached' = Sublist(uncached, Object \ victims)
    BY <2>1
  <2> HIDE DEF victims
  <2> QED BY <2>2, <2>3
<1>2. pc = "gui" /\ UNCHANGED <<user, now, pc, it>>
  BY DEF llcache_clean
<1>3. \A o \in gone : obj[o].users = <<>> /\ obj[o].count = 0
  BY <1>1 DEF Unused
<1>4. cached \in Seq(Object) /\ uncached \in Seq(Object) /\ Injective(cached) /\ Core(obj, Live)
      /\ Live \subseteq Object
  BY Basics DEF Structure
<1>5. /\ cached' \in Seq(Object) /\ ToSet(cached') = ToSet(cached) \cap (Object \ gone)
      /\ Injective(cached')
  BY <1>1, <1>4, SublistProperties
<1>6. uncached' \in Seq(Object) /\ ToSet(uncached') = ToSet(uncached) \cap (Object \ gone)
  BY <1>1, <1>4, SublistProperties
<1>7. Live' = Live \ gone
  BY <1>4, <1>5, <1>6 DEF Live
<1>8. Core(obj', Live \ gone)
  <2>1. Core([o \in Object |-> IF o \in gone THEN Free ELSE obj[o]], Live \ gone)
    BY <1>1, <1>3, <1>4, CoreClean
  <2> QED BY <1>1, <2>1
<1>9. \A o \in Object : obj'[o].users = obj[o].users
  <2>1. Free.users = <<>>
    BY DEF Free, llcache_object_new
  <2> QED BY <1>1, <1>3, <2>1
<1>10. Walk' /\ MovedAt' = MovedAt
  BY <1>2 DEF Structure, Walk, MovedAt
<1> QED BY <1>2, <1>5, <1>6, <1>7, <1>8, <1>9, <1>10 DEF Structure, Lists

-----------------------------------------------------------------------------
(* Messages of fetches, and events sent to all users. *)
Outside == pc = "gui"

(* Between walks nobody is marked. *)
LEMMA OutsideWalk ==
  ASSUME Structure, Outside
  PROVE  it.at = NULL /\ it.cur = NULL /\ ~it.dead /\ MovedAt = NULL /\ it \in WalkType
BY DEF Structure, Walk, Outside, MovedAt, WalkType

(* No walk is going on. *)
LEMMA NoWalkType == NoWalk \in WalkType /\ NoWalk.at = NULL /\ NoWalk.cur = NULL
                    /\ NoWalk.dead = FALSE /\ NoWalk.stage = "none"
BY LLCacheAssumption DEF NoWalk, WalkType, State

(* The lists of users are the same. *)
SameUsers(ob) == \A p \in Object : ob[p].users = obj[p].users

(* A message that changes objects and sends nothing. *)
LEMMA OnlyStep ==
  ASSUME Structure, Outside, NEW ob, Core(ob, Live), SameUsers(ob), Only(ob)
  PROVE  Structure'
BY OutsideWalk, ListsStay, ObjectsOnly DEF Only, SameUsers

SentTo(o, u, event) == [NoWalk EXCEPT !.at = o, !.cur = u, !.event = event]

LEMMA SentType ==
  ASSUME Outside, NEW o \in Object, NEW u \in Handle, NEW event \in {"PROGRESS", "ERROR"}
  PROVE  /\ SentTo(o, u, event) \in WalkType /\ SentTo(o, u, event).at = o
         /\ SentTo(o, u, event).cur = u /\ ~SentTo(o, u, event).dead
         /\ SentTo(o, u, event).stage = "none"
BY NoWalkType DEF WalkType, SentTo, Outside

(* A message that is passed on to all users at once. *)
LEMMA SendStep ==
  ASSUME Structure, Outside, NEW ob, NEW o \in Live, Core(ob, Live), SameUsers(ob),
         NEW event \in {"PROGRESS", "ERROR"}, llcache_send_event_to_users(ob, o, event)
  PROVE  Structure'
<1>1. obj' = ob /\ UNCHANGED <<lists, user, now>> /\ o \in Object
  BY Basics DEF llcache_send_event_to_users
<1>2. CASE ob[o].users = <<>>
  BY <1>1, <1>2, OnlyStep DEF llcache_send_event_to_users, Only
<1>3. CASE ob[o].users # <<>>
  <2> DEFINE u == Head(ob[o].users)
  <2>1. pc' = "callback" /\ it' = SentTo(o, u, event)
    BY <1>3 DEF llcache_send_event_to_users, SentTo
  <2>2. ob[o].users = obj[o].users /\ obj[o].users \in Seq(Element)
    BY <1>1, Basics DEF SameUsers
  <2>3. u \in ToSet(obj[o].users)
    BY <1>3, <2>2 DEF ToSet
  <2>4. u \in Handle /\ u # Moved /\ u # NULL
    BY <1>1, <2>3, OutsideWalk, Basics DEF Structure, Lists, Listed
  <2> HIDE DEF u
  <2>5. it' \in WalkType /\ it'.at = o /\ it'.cur = u /\ ~it'.dead /\ it'.stage = "none"
    BY <1>1, <2>1, <2>4, SentType
  <2>6. Walk'
    <3>1. it'.cur \in ToSet(obj'[it'.at].users) /\ it'.at \in Live'
      BY <1>1, <2>2, <2>3, <2>5, ListsStay
    <3>2. pc' = "callback" /\ it'.at # NULL /\ it'.cur # NULL /\ it'.cur # Moved
      BY <1>1, <2>1, <2>4, <2>5, Basics
    <3> QED BY <2>5, <3>1, <3>2 DEF Walk
  <2>7. MovedAt' = MovedAt
    BY <2>5, OutsideWalk DEF MovedAt
  <2> QED BY <1>1, <2>6, <2>7, ListsStay, ObjectsChange DEF SameUsers
<1> QED BY <1>2, <1>3

(* One object changes further. *)
LEMMA ChangedCore ==
  ASSUME Structure, NEW ob, NEW o \in Live, Core(ob, Live), SameUsers(ob), NEW x, Alike(x, ob[o])
  PROVE  Core(With(ob, o, x), Live) /\ SameUsers(With(ob, o, x))
<1>1. x \in ObjectType /\ x.users = ob[o].users
  BY DEF Alike
<1>2. Core(With(ob, o, x), Live)
      /\ \A p \in Object : With(ob, o, x)[p] = IF p = o THEN x ELSE ob[p]
  BY <1>1, WithCore DEF Alike
<1> QED BY <1>1, <1>2 DEF SameUsers

(* Messages come for objects that are in a list. *)
LEMMA FetchingIsLive ==
  ASSUME Structure, NEW o \in Object,
         Fetching(o) \/ (pc = "gui" /\ obj[o].fetch = "stopping")
  PROVE  Outside /\ o \in Live /\ obj[o] \in ObjectType /\ obj \in [Object -> ObjectType]
         /\ Core(obj, Live) /\ SameUsers(obj) /\ now \in 1..MaxTime
BY BusyIsLive, Basics DEF Fetching, Runs, Outside, Structure, SameUsers

(* A candidate is released, if there is one. *)
LEMMA ReleaseCore ==
  ASSUME Structure, NEW o \in Live
  PROVE  /\ Core(ReleaseCandidate(o), Live) /\ SameUsers(ReleaseCandidate(o))
         /\ ReleaseCandidate(o) \in [Object -> ObjectType] /\ o \in Object
         /\ ReleaseCandidate(o)[o] \in ObjectType
         /\ ReleaseCandidate(o)[o].len = obj[o].len
         /\ ReleaseCandidate(o)[o].cache = obj[o].cache
<1> DEFINE c == obj[o].candidate
           r == ReleaseCandidate(o)
<1>1. Core(obj, Live) /\ obj \in [Object -> ObjectType] /\ o \in Object
  BY Basics DEF Structure
<1>2. CASE c = NULL
  <2>1. r = obj
    BY <1>2 DEF ReleaseCandidate
  <2> QED BY <1>1, <2>1 DEF SameUsers
<1>3. CASE c # NULL
  <2>1. r = Freed(obj, o, c)
    BY <1>3 DEF ReleaseCandidate, Freed
  <2>2. Core(r, Live) /\ \A p \in Object : /\ r[p].users = obj[p].users
                                          /\ r[p].len = obj[p].len
                                          /\ r[p].cache = obj[p].cache
    BY <1>1, <1>3, <2>1, CoreRelease
  <2> HIDE DEF r
  <2>3. r \in [Object -> ObjectType] /\ r[o] \in ObjectType
    BY <1>1, <2>2 DEF Core
  <2> QED BY <1>1, <2>2, <2>3 DEF SameUsers, r
<1> QED BY <1>2, <1>3

(* A header arrives. *)
LEMMA HeaderStep ==
  ASSUME Structure, NEW o \in Object, FETCH_HEADER(o)
  PROVE  Structure'
<1>1. Fetching(o) /\ \E n \in NoCache, y \in {0, now + 1} :
        Only([obj EXCEPT ![o].state = "HEADERS", ![o].cache.no_cache = n,
                         ![o].cache.expiry = y, ![o].cache.dated = TRUE])
  BY DEF FETCH_HEADER, Heading
<1>2. PICK n \in NoCache, y \in {0, now + 1} :
        Only([obj EXCEPT ![o].state = "HEADERS", ![o].cache.no_cache = n,
                         ![o].cache.expiry = y, ![o].cache.dated = TRUE])
  BY <1>1
<1>3. /\ Outside /\ o \in Live /\ obj[o] \in ObjectType /\ obj \in [Object -> ObjectType]
      /\ Core(obj, Live) /\ SameUsers(obj) /\ now \in 1..MaxTime
  BY <1>1, FetchingIsLive
<1>4. n \in {"FRESH", "ALWAYS"} /\ y \in 0..(MaxTime + 1)
  BY <1>3, LLCacheAssumption
<1> DEFINE cache == [obj[o].cache EXCEPT !.no_cache = n, !.expiry = y, !.dated = TRUE]
           x == Patch(obj[o], "HEADERS", obj[o].fetch, cache, obj[o].end)
<1>5. cache \in CacheType /\ "HEADERS" \in State /\ obj[o].fetch \in {"none", "plain", "conditional", "stopping"}
      /\ obj[o].end \in {"none", "finished", "failed", "aborted", "revived", "vouched"}
  BY <1>3, <1>4 DEF ObjectType, CacheType, State
<1>6. With(obj, o, x) = [obj EXCEPT ![o].state = "HEADERS", ![o].cache.no_cache = n,
                         ![o].cache.expiry = y, ![o].cache.dated = TRUE]
  BY <1>3, ZenonT(40) DEF With, Patch, ObjectType
<1>7. Alike(x, obj[o])
  <2> HIDE DEF cache
  <2> QED BY <1>3, <1>5, PatchType
<1> HIDE DEF x
<1>8. Core(With(obj, o, x), Live) /\ SameUsers(With(obj, o, x))
  BY <1>3, <1>7, ChangedCore
<1>9. Only(With(obj, o, x))
  BY <1>2, <1>6
<1> QED BY <1>3, <1>8, <1>9, OnlyStep

(* The fetch ends well. *)
LEMMA FinishedStep ==
  ASSUME Structure, NEW o \in Object, FETCH_FINISHED(o)
  PROVE  Structure'
<1>1. Fetching(o) /\ Only([obj EXCEPT ![o].state = "COMPLETE", ![o].fetch = "none",
                      ![o].cache.dated = TRUE, ![o].end = "finished"])
  BY DEF FETCH_FINISHED
<1>2. /\ Outside /\ o \in Live /\ obj[o] \in ObjectType /\ obj \in [Object -> ObjectType]
      /\ Core(obj, Live) /\ SameUsers(obj)
  BY <1>1, FetchingIsLive
<1> DEFINE cache == [obj[o].cache EXCEPT !.dated = TRUE]
           x == Patch(obj[o], "COMPLETE", "none", cache, "finished")
<1>3. cache \in CacheType /\ "COMPLETE" \in State
  BY <1>2 DEF ObjectType, CacheType, State
<1>4. With(obj, o, x) = [obj EXCEPT ![o].state = "COMPLETE", ![o].fetch = "none",
                      ![o].cache.dated = TRUE, ![o].end = "finished"]
  BY <1>2 DEF With, Patch, ObjectType
<1>5. Alike(x, obj[o])
  <2> HIDE DEF cache
  <2> QED BY <1>2, <1>3, PatchType
<1> HIDE DEF x
<1>6. Core(With(obj, o, x), Live) /\ SameUsers(With(obj, o, x)) /\ Only(With(obj, o, x))
  BY <1>1, <1>2, <1>4, <1>5, ChangedCore
<1> QED BY <1>2, <1>6, OnlyStep

(* Data arrive, the first or more. *)
LEMMA DataStep ==
  ASSUME Structure, NEW o \in Object, FETCH_DATA(o)
  PROVE  Structure'
<1>1. Fetching(o) /\ obj[o].len < MaxLen
  BY DEF FETCH_DATA
<1>2. /\ Outside /\ o \in Live /\ obj[o] \in ObjectType /\ obj \in [Object -> ObjectType]
      /\ Core(obj, Live) /\ SameUsers(obj)
  BY <1>1, FetchingIsLive
<1>3. obj[o].len + 1 \in 0..MaxLen /\ obj[o].cache \in CacheType
  BY <1>1, <1>2, LLCacheAssumption DEF ObjectType, CacheType
<1>4. CASE Only([obj EXCEPT ![o].len = @ + 1])
  <2> DEFINE k == obj[o].len + 1
             x == Resized(obj[o], k)
  <2>1. Only(With(obj, o, x))
    BY <1>4 DEF With, Resized
  <2> HIDE DEF k
  <2>2. Alike(x, obj[o])
    BY <1>2, <1>3, ResizedType DEF k
  <2> HIDE DEF x
  <2>3. Core(With(obj, o, x), Live) /\ SameUsers(With(obj, o, x))
    BY <1>2, <2>2, ChangedCore
  <2> QED BY <1>2, <2>1, <2>3, OnlyStep
<1>5. ASSUME NEW cache \in {obj[o].cache, Invalid},
             Only([ReleaseCandidate(o) EXCEPT ![o].state = "DATA", ![o].len = @ + 1,
                                              ![o].cache = cache])
      PROVE  Structure'
  <2> DEFINE r == ReleaseCandidate(o)
  <2>1. /\ Core(r, Live) /\ SameUsers(r) /\ r \in [Object -> ObjectType]
        /\ r[o] \in ObjectType /\ r[o].len = obj[o].len /\ o \in Object
    BY <1>2, ReleaseCore
  <2> DEFINE k == obj[o].len + 1
             y == Patch(r[o], "DATA", r[o].fetch, cache, r[o].end)
             x == Resized(y, k)
  <2> HIDE DEF r
  <2>2. [r EXCEPT ![o].state = "DATA", ![o].len = @ + 1, ![o].cache = cache] = With(r, o, x)
    BY <2>1, ZenonT(40) DEF With, Resized, Patch, ObjectType
  <2>3. cache \in CacheType /\ k \in 0..MaxLen /\ "DATA" \in State
        /\ r[o].fetch \in {"none", "plain", "conditional", "stopping"}
        /\ r[o].end \in {"none", "finished", "failed", "aborted", "revived", "vouched"}
    BY <1>3, <2>1, InvalidType DEF ObjectType, State
  <2> HIDE DEF k
  <2>4. Alike(y, r[o])
    BY <2>1, <2>3, PatchType
  <2> HIDE DEF y
  <2>5. Alike(x, y)
    BY <2>3, <2>4, ResizedType DEF Alike
  <2> HIDE DEF x
  <2>6. Alike(x, r[o])
    BY <2>4, <2>5 DEF Alike
  <2>7. Core(With(r, o, x), Live) /\ SameUsers(With(r, o, x))
    BY <1>2, <2>1, <2>6, ChangedCore
  <2>8. Only(With(r, o, x))
    BY <1>5, <2>2 DEF r
  <2> QED BY <1>2, <2>7, <2>8, OnlyStep
<1> QED BY <1>4, <1>5 DEF FETCH_DATA

(* The fetch fails, or tells its progress. *)
LEMMA ErrorStep ==
  ASSUME Structure, NEW o \in Object, FETCH_ERROR(o) \/ FETCH_PROGRESS(o)
  PROVE  Structure'
<1>1. Fetching(o) \/ (pc = "gui" /\ obj[o].fetch = "stopping")
  BY DEF FETCH_ERROR, FETCH_PROGRESS
<1>2. Outside /\ o \in Live /\ Core(obj, Live) /\ SameUsers(obj)
  BY <1>1, FetchingIsLive
<1>3. CASE FETCH_PROGRESS(o)
  BY <1>2, <1>3, SendStep DEF FETCH_PROGRESS
<1>4. CASE FETCH_ERROR(o)
  <2> DEFINE r == ReleaseCandidate(o)
             x == Patch(r[o], "COMPLETE", "none", Invalid, "failed")
  <2>1. /\ Core(r, Live) /\ SameUsers(r) /\ r \in [Object -> ObjectType]
        /\ r[o] \in ObjectType /\ o \in Object
    BY <1>2, ReleaseCore
  <2> HIDE DEF r
  <2>2. [r EXCEPT ![o].state = "COMPLETE", ![o].fetch = "none",
                  ![o].cache = Invalid, ![o].end = "failed"] = With(r, o, x)
    BY <2>1 DEF With, Patch, ObjectType
  <2>3. Alike(x, r[o])
    BY <2>1, InvalidType, PatchType DEF State
  <2> HIDE DEF x
  <2>4. Core(With(r, o, x), Live) /\ SameUsers(With(r, o, x))
    BY <1>2, <2>1, <2>3, ChangedCore
  <2>5. llcache_send_event_to_users(With(r, o, x), o, "ERROR")
    BY <1>4, <2>2 DEF FETCH_ERROR, r
  <2> QED BY <1>2, <2>4, <2>5, SendStep
<1> QED BY <1>3, <1>4

(* A fetch is stopped, to be started again or not. *)
Stopped(o) == Patch(ReleaseCandidate(o)[o], ReleaseCandidate(o)[o].state, "none", Invalid,
                    ReleaseCandidate(o)[o].end)

LEMMA StoppedAlike ==
  ASSUME Structure, NEW o \in Live
  PROVE  /\ Alike(Stopped(o), ReleaseCandidate(o)[o])
         /\ Stopped(o) \in ObjectType
         /\ [ReleaseCandidate(o) EXCEPT ![o].fetch = "none", ![o].cache = Invalid] =
              With(ReleaseCandidate(o), o, Stopped(o))
<1> DEFINE r == ReleaseCandidate(o)
<1>1. r \in [Object -> ObjectType] /\ r[o] \in ObjectType /\ o \in Object
  BY ReleaseCore
<1>2. r[o].state \in State /\ r[o].end \in {"none", "finished", "failed", "aborted", "revived", "vouched"}
  BY <1>1 DEF ObjectType
<1> HIDE DEF r
<1>3. Alike(Patch(r[o], r[o].state, "none", Invalid, r[o].end), r[o])
  BY <1>1, <1>2, InvalidType, PatchType
<1>4. [r EXCEPT ![o].fetch = "none", ![o].cache = Invalid] =
        With(r, o, Patch(r[o], r[o].state, "none", Invalid, r[o].end))
  BY <1>1 DEF With, Patch, ObjectType
<1> QED BY <1>3, <1>4 DEF r, Stopped, Alike

(* What comes of an object whose fetch was stopped. *)
LEMMA StoppedCore ==
  ASSUME Structure, NEW o \in Object, Fetching(o), NEW x, Alike(x, Stopped(o))
  PROVE  LET ob == With(ReleaseCandidate(o), o, x)
         IN  Outside /\ o \in Live /\ Core(ob, Live) /\ SameUsers(ob)
<1>1. Outside /\ o \in Live
  BY FetchingIsLive
<1>2. Core(ReleaseCandidate(o), Live) /\ SameUsers(ReleaseCandidate(o))
  BY <1>1, ReleaseCore
<1>3. Alike(x, ReleaseCandidate(o)[o])
  BY <1>1, StoppedAlike DEF Alike
<1> QED BY <1>1, <1>2, <1>3, ChangedCore

LEMMA RefetchAlike ==
  ASSUME Structure, NEW x \in ObjectType
  PROVE  Alike(llcache_object_refetch(x, "plain"), x)
BY RefetchType DEF Alike, Structure

(* The server wants authentication. *)
LEMMA AuthStep ==
  ASSUME Structure, NEW o \in Object, FETCH_AUTH(o)
  PROVE  Structure'
<1> DEFINE r == ReleaseCandidate(o)
           stopped == [r EXCEPT ![o].fetch = "none", ![o].cache = Invalid]
           s == Stopped(o)
<1>1. Fetching(o)
  BY DEF FETCH_AUTH, Heading
<1>2. Outside /\ o \in Live
  BY <1>1, FetchingIsLive
<1>3. /\ stopped = With(r, o, s) /\ s \in ObjectType /\ r \in [Object -> ObjectType]
      /\ o \in Object
  BY <1>2, ReleaseCore, StoppedAlike
<1>4. s.query \in BOOLEAN /\ s.tls \in BOOLEAN /\ s.stream \in BOOLEAN
  BY <1>3 DEF ObjectType
<1>5. CASE Only([stopped EXCEPT
             ![o] = [llcache_object_refetch(@, "plain") EXCEPT !.auth = TRUE]])
  <2> DEFINE y == llcache_object_refetch(s, "plain")
             x == Flags(y, y.query, TRUE, y.tls, y.stream)
  <2>1. Alike(y, s)
    BY <1>3, RefetchAlike
  <2>2. y.query \in BOOLEAN /\ y.tls \in BOOLEAN /\ y.stream \in BOOLEAN /\ y \in ObjectType
    BY <2>1 DEF Alike, ObjectType
  <2>3. [stopped EXCEPT ![o] = [llcache_object_refetch(@, "plain") EXCEPT !.auth = TRUE]] =
          With(r, o, [y EXCEPT !.auth = TRUE])
    <3> HIDE DEF s, r, stopped
    <3> QED BY <1>3 DEF With
  <2> HIDE DEF y
  <2>4. [y EXCEPT !.auth = TRUE] = x
    BY <2>2 DEF Flags, ObjectType
  <2>5. Alike(x, y)
    BY <2>2, FlagsType
  <2> HIDE DEF x
  <2>6. Alike(x, s)
    BY <2>1, <2>5 DEF Alike
  <2>7. Core(With(r, o, x), Live) /\ SameUsers(With(r, o, x))
    BY <1>1, <2>6, StoppedCore
  <2>8. Only(With(r, o, x))
    BY <1>5, <2>3, <2>4
  <2> QED BY <1>2, <2>7, <2>8, OnlyStep
<1>6. CASE Only([stopped EXCEPT ![o].auth = FALSE, ![o].query = TRUE])
  <2> DEFINE x == Flags(s, TRUE, FALSE, s.tls, s.stream)
  <2>1. [stopped EXCEPT ![o].auth = FALSE, ![o].query = TRUE] = With(r, o, x)
    <3> HIDE DEF s, r, stopped
    <3> QED BY <1>3 DEF With, Flags, ObjectType
  <2> HIDE DEF s
  <2>2. Alike(x, s)
    BY <1>3, <1>4, FlagsType
  <2> HIDE DEF x
  <2>3. Core(With(r, o, x), Live) /\ SameUsers(With(r, o, x))
    BY <1>1, <2>2, StoppedCore DEF s
  <2>4. Only(With(r, o, x))
    BY <1>6, <2>1
  <2> QED BY <1>2, <2>3, <2>4, OnlyStep
<1> QED BY <1>5, <1>6 DEF FETCH_AUTH

(* The certificate is in doubt. *)
LEMMA CertStep ==
  ASSUME Structure, NEW o \in Object, FETCH_CERT_ERR(o)
  PROVE  Structure'
<1> DEFINE r == ReleaseCandidate(o)
           s == Stopped(o)
           x == Flags(s, TRUE, s.auth, s.tls, s.stream)
<1>1. Fetching(o) /\ Only([r EXCEPT ![o].fetch = "none", ![o].cache = Invalid,
                                   ![o].query = TRUE])
  BY DEF FETCH_CERT_ERR, Heading
<1>2. Outside /\ o \in Live
  BY <1>1, FetchingIsLive
<1>3. /\ [r EXCEPT ![o].fetch = "none", ![o].cache = Invalid] = With(r, o, s)
      /\ s \in ObjectType /\ r \in [Object -> ObjectType]
  BY <1>2, ReleaseCore, StoppedAlike
<1>4. s.auth \in BOOLEAN /\ s.tls \in BOOLEAN /\ s.stream \in BOOLEAN
  BY <1>3 DEF ObjectType
<1>5. [r EXCEPT ![o].fetch = "none", ![o].cache = Invalid, ![o].query = TRUE] = With(r, o, x)
  <2>1. [r EXCEPT ![o].fetch = "none", ![o].cache = Invalid, ![o].query = TRUE] =
          [[r EXCEPT ![o].fetch = "none", ![o].cache = Invalid] EXCEPT ![o].query = TRUE]
    BY <1>3
  <2> HIDE DEF r, s
  <2>2. [With(r, o, s) EXCEPT ![o].query = TRUE] = With(r, o, x)
    BY <1>3 DEF With, Flags, ObjectType
  <2> QED BY <1>3, <2>1, <2>2
<1> HIDE DEF s
<1>6. Alike(x, s)
  BY <1>3, <1>4, FlagsType
<1> HIDE DEF x
<1>7. Core(With(r, o, x), Live) /\ SameUsers(With(r, o, x))
  BY <1>1, <1>6, StoppedCore DEF s
<1>8. Only(With(r, o, x))
  BY <1>1, <1>5
<1> QED BY <1>2, <1>7, <1>8, OnlyStep

(* TLS cannot be set up. *)
LEMMA SslStep ==
  ASSUME Structure, NEW o \in Object, FETCH_SSL_ERR(o)
  PROVE  Structure'
<1> DEFINE r == ReleaseCandidate(o)
           stopped == [r EXCEPT ![o].fetch = "none", ![o].cache = Invalid]
           s == Stopped(o)
<1>1. Fetching(o)
  BY DEF FETCH_SSL_ERR, Heading
<1>2. Outside /\ o \in Live
  BY <1>1, FetchingIsLive
<1>3. /\ stopped = With(r, o, s) /\ s \in ObjectType /\ r \in [Object -> ObjectType]
      /\ o \in Object
  BY <1>2, ReleaseCore, StoppedAlike
<1>4. CASE Only([stopped EXCEPT
             ![o] = [llcache_object_refetch(@, "plain") EXCEPT !.tls = TRUE]])
  <2> DEFINE y == llcache_object_refetch(s, "plain")
             x == Flags(y, y.query, y.auth, TRUE, y.stream)
  <2>1. Alike(y, s)
    BY <1>3, RefetchAlike
  <2>2. y.query \in BOOLEAN /\ y.auth \in BOOLEAN /\ y.stream \in BOOLEAN /\ y \in ObjectType
    BY <2>1 DEF Alike, ObjectType
  <2>3. [stopped EXCEPT ![o] = [llcache_object_refetch(@, "plain") EXCEPT !.tls = TRUE]] =
          With(r, o, [y EXCEPT !.tls = TRUE])
    <3> HIDE DEF s, r, stopped
    <3> QED BY <1>3 DEF With
  <2> HIDE DEF y
  <2>4. [y EXCEPT !.tls = TRUE] = x
    BY <2>2 DEF Flags, ObjectType
  <2>5. Alike(x, y)
    BY <2>2, FlagsType
  <2> HIDE DEF x
  <2>6. Alike(x, s)
    BY <2>1, <2>5 DEF Alike
  <2>7. Core(With(r, o, x), Live) /\ SameUsers(With(r, o, x))
    BY <1>1, <2>6, StoppedCore
  <2>8. Only(With(r, o, x))
    BY <1>4, <2>3, <2>4
  <2> QED BY <1>2, <2>7, <2>8, OnlyStep
<1>5. CASE llcache_send_event_to_users(
             [stopped EXCEPT ![o].state = "COMPLETE", ![o].end = "failed"], o, "ERROR")
  <2> DEFINE x == Patch(s, "COMPLETE", s.fetch, s.cache, "failed")
  <2>1. [stopped EXCEPT ![o].state = "COMPLETE", ![o].end = "failed"] = With(r, o, x)
    <3> HIDE DEF s, r, stopped
    <3> QED BY <1>3 DEF With, Patch, ObjectType
  <2>2. s.cache \in CacheType /\ s.fetch \in {"none", "plain", "conditional", "stopping"}
        /\ "COMPLETE" \in State
    BY <1>3 DEF ObjectType, CacheType, State
  <2> HIDE DEF s
  <2>3. Alike(x, s)
    BY <1>3, <2>2, PatchType
  <2> HIDE DEF x
  <2>4. Core(With(r, o, x), Live) /\ SameUsers(With(r, o, x))
    BY <1>1, <2>3, StoppedCore DEF s
  <2>5. llcache_send_event_to_users(With(r, o, x), o, "ERROR")
    BY <1>5, <2>1
  <2> QED BY <1>2, <2>4, <2>5, SendStep
<1> QED BY <1>4, <1>5 DEF FETCH_SSL_ERR

(* The user answers a query. *)
LEMMA QueryStep ==
  ASSUME Structure, NEW o \in Object, NEW proceed \in BOOLEAN,
         llcache_query_handle_response(o, proceed)
  PROVE  Structure'
<1>1. Outside /\ obj[o].query
  BY DEF llcache_query_handle_response, Outside
<1>2. /\ o \in Live /\ obj[o] \in ObjectType /\ obj \in [Object -> ObjectType]
      /\ Core(obj, Live) /\ SameUsers(obj)
  BY <1>1, BusyIsLive, Basics DEF Structure, SameUsers
<1>3. CASE Only([obj EXCEPT
            ![o] = [llcache_object_refetch(@, "plain") EXCEPT !.query = FALSE]])
  <2> DEFINE y == llcache_object_refetch(obj[o], "plain")
             x == Flags(y, FALSE, y.auth, y.tls, y.stream)
  <2>1. Alike(y, obj[o])
    BY <1>2, RefetchAlike
  <2>2. y.auth \in BOOLEAN /\ y.tls \in BOOLEAN /\ y.stream \in BOOLEAN /\ y \in ObjectType
    BY <2>1 DEF Alike, ObjectType
  <2>3. [obj EXCEPT ![o] = [llcache_object_refetch(@, "plain") EXCEPT !.query = FALSE]] =
          With(obj, o, [y EXCEPT !.query = FALSE])
    BY <1>2 DEF With
  <2> HIDE DEF y
  <2>4. [y EXCEPT !.query = FALSE] = x
    BY <2>2 DEF Flags, ObjectType
  <2>5. Alike(x, y)
    BY <2>2, FlagsType
  <2> HIDE DEF x
  <2>6. Alike(x, obj[o])
    BY <2>1, <2>5 DEF Alike
  <2>7. Core(With(obj, o, x), Live) /\ SameUsers(With(obj, o, x))
    BY <1>2, <2>6, ChangedCore
  <2>8. Only(With(obj, o, x))
    BY <1>3, <2>3, <2>4
  <2> QED BY <1>1, <2>7, <2>8, OnlyStep
<1>4. CASE llcache_send_event_to_users(
            [obj EXCEPT ![o].query = FALSE, ![o].state = "COMPLETE",
                        ![o].cache = Invalid, ![o].end = "failed"], o, "ERROR")
  <2> DEFINE y == Patch(obj[o], "COMPLETE", obj[o].fetch, Invalid, "failed")
             x == Flags(y, FALSE, y.auth, y.tls, y.stream)
  <2>1. [obj EXCEPT ![o].query = FALSE, ![o].state = "COMPLETE",
                    ![o].cache = Invalid, ![o].end = "failed"] = With(obj, o, x)
    <3> DEFINE z == obj[o]
               w == [z EXCEPT !.query = FALSE, !.state = "COMPLETE", !.cache = Invalid,
                              !.end = "failed"]
    <3>1. [obj EXCEPT ![o].query = FALSE, ![o].state = "COMPLETE",
                      ![o].cache = Invalid, ![o].end = "failed"] = With(obj, o, w)
      BY <1>2 DEF With
    <3>2. y = Patch(z, "COMPLETE", z.fetch, Invalid, "failed") /\ z \in ObjectType
      BY <1>2
    <3> HIDE DEF z, y
    <3>3. w = x
      BY <3>2 DEF Patch, Flags, ObjectType
    <3> QED BY <3>1, <3>3
  <2>2. obj[o].fetch \in {"none", "plain", "conditional", "stopping"} /\ "COMPLETE" \in State
    BY <1>2 DEF ObjectType, State
  <2>3. Alike(y, obj[o])
    BY <1>2, <2>2, InvalidType, PatchType
  <2> HIDE DEF y
  <2>4. y.auth \in BOOLEAN /\ y.tls \in BOOLEAN /\ y.stream \in BOOLEAN /\ y \in ObjectType
    BY <2>3 DEF Alike, ObjectType
  <2>5. Alike(x, y)
    BY <2>4, FlagsType
  <2> HIDE DEF x
  <2>6. Alike(x, obj[o])
    BY <2>3, <2>5 DEF Alike
  <2>7. Core(With(obj, o, x), Live) /\ SameUsers(With(obj, o, x))
    BY <1>2, <2>6, ChangedCore
  <2>8. llcache_send_event_to_users(With(obj, o, x), o, "ERROR")
    BY <1>4, <2>1
  <2> QED BY <1>1, <1>2, <2>7, <2>8, SendStep
<1> QED BY <1>3, <1>4 DEF llcache_query_handle_response

(* The users of an object are its handles when no walk is going on. *)
LEMMA OutsideUsers ==
  ASSUME Structure, Outside
  PROVE  /\ Lists(obj, user, NULL)
         /\ \A o \in Object :
              /\ obj[o].users \in Seq(Element) /\ Injective(obj[o].users)
              /\ ToSet(obj[o].users) = {h \in Handle : user[h].object = o}
              /\ ToSet(obj[o].users) \subseteq Handle
<1>1. Lists(obj, user, NULL)
  BY OutsideWalk DEF Structure
<1>2. \A o \in Object : Listed(user, NULL, o) = {h \in Handle : user[h].object = o}
  BY LLCacheAssumption DEF Listed
<1> QED BY <1>1, <1>2, Basics DEF Lists

(* A redirect is refused, or followed with all users. *)
LEMMA RedirectStep ==
  ASSUME Structure, NEW o \in Object, FETCH_REDIRECT(o)
  PROVE  Structure'
<1> DEFINE r == ReleaseCandidate(o)
           x == Patch(r[o], "COMPLETE", "none", Invalid, "failed")
           us == obj[o].users
           ended == [r EXCEPT ![o].state = "COMPLETE", ![o].fetch = "none",
                              ![o].cache = Invalid, ![o].end = "failed"]
<1>1. Fetching(o)
  BY DEF FETCH_REDIRECT, Heading
<1>2. Outside /\ o \in Live /\ obj[o] \in ObjectType
  BY <1>1, FetchingIsLive
<1>3. /\ Core(r, Live) /\ SameUsers(r) /\ r \in [Object -> ObjectType] /\ r[o] \in ObjectType
  BY <1>2, ReleaseCore
<1>4. ended = With(r, o, x)
  <2> HIDE DEF r
  <2> QED BY <1>3 DEF With, Patch, ObjectType
<1>5. Core(ended, Live) /\ SameUsers(ended)
  <2> HIDE DEF r, ended
  <2>1. Alike(x, r[o])
    BY <1>3, InvalidType, PatchType DEF State
  <2> HIDE DEF x
  <2> QED BY <1>2, <1>3, <1>4, <2>1, ChangedCore
<1>6. CASE llcache_send_event_to_users(ended, o, "ERROR")
  <2> HIDE DEF ended
  <2> QED BY <1>2, <1>5, <1>6, SendStep
<1>7. CASE Only(ended)
  <2> HIDE DEF ended
  <2> QED BY <1>2, <1>5, <1>7, OnlyStep
<1>8. ASSUME obj[o].redirects <= REDIRECT_LIMIT, NEW u \in Url,
             llcache_object_retrieve([ended EXCEPT ![o].users = <<>>], us, u,
               obj[o].force, obj[o].stream, obj[o].redirects + 1),
             UNCHANGED <<now, pc, it>>
      PROVE  Structure'
  <2> DEFINE s == <<>>
             ob == WithUsers(ended, o, s)
             k == obj[o].redirects + 1
  <2>1. k \in 0..(REDIRECT_LIMIT + 1) /\ obj[o].force \in BOOLEAN /\ obj[o].stream \in BOOLEAN
    BY <1>2, <1>8, LLCacheAssumption, SMTT(30) DEF ObjectType
  <2>2. Gets(ob, us, u, k)
    BY <1>8, <2>1 DEF Gets, WithUsers
  <2> HIDE DEF ended, k, us
  <2>3. s \in Seq(Element) /\ Injective(s) /\ ToSet(s) = {}
    BY DEF Injective, ToSet
  <2> HIDE DEF s
  <2>4. Core(ob, Live) /\ \A p \in Object : ob[p].users = IF p = o THEN s ELSE ended[p].users
    BY <1>2, <1>5, <2>3, CoreUsers
  <2> HIDE DEF ob
  <2>5. us \in Seq(Element) /\ Injective(us) /\ ToSet(us) \subseteq Handle
        /\ ToSet(us) = {h \in Handle : user[h].object = o}
    BY <1>2, OutsideUsers DEF us
  <2>6. \A p \in Object : /\ Injective(ob[p].users)
                          /\ ToSet(ob[p].users) = Listed(user, NULL, p) \ ToSet(us)
    <3> TAKE p \in Object
    <3>1. Listed(user, NULL, p) = {h \in Handle : user[h].object = p}
      BY LLCacheAssumption DEF Listed
    <3>2. CASE p = o
      BY <2>3, <2>4, <2>5, <3>1, <3>2
    <3>3. CASE p # o
      <4>1. ob[p].users = obj[p].users
        BY <1>5, <2>4, <3>3 DEF SameUsers
      <4>2. {h \in Handle : user[h].object = p} \ ToSet(us) = {h \in Handle : user[h].object = p}
        BY <2>5, <3>3
      <4> QED BY <1>2, <3>1, <4>1, <4>2, OutsideUsers
    <3> QED BY <3>2, <3>3
  <2>7. Ready(ob, us, NULL)
    BY <2>4, <2>5, <2>6 DEF Ready, Structure
  <2>8. Given(ob, NULL)
    BY <2>1, <2>2, <2>7, Retrieved
  <2>9. Walk' /\ MovedAt' = MovedAt /\ MovedAt = NULL
    BY <1>2, <1>8, OutsideWalk DEF Structure, Walk, Outside, MovedAt
  <2> QED BY <1>8, <2>8, <2>9 DEF Given, Structure
<1> QED
  <2> HIDE DEF r
  <2> QED BY <1>6, <1>7, <1>8 DEF FETCH_REDIRECT, r

(* The candidate of a 304 gets users and cache control data. *)
Heir(x, users, count, end, cache) ==
  [x EXCEPT !.users = users, !.count = count, !.cache = cache, !.end = end]

LEMMA HeirType ==
  ASSUME NEW x \in ObjectType, NEW s \in Seq(Element), NEW k \in 0..MaxCandidates,
         NEW e \in {"none", "finished", "failed", "aborted", "revived", "vouched"}, NEW d \in CacheType
  PROVE  /\ Heir(x, s, k, e, d) \in ObjectType
         /\ Heir(x, s, k, e, d).users = s /\ Heir(x, s, k, e, d).count = k
         /\ Heir(x, s, k, e, d).url = x.url /\ Heir(x, s, k, e, d).candidate = x.candidate
BY DEF Heir, ObjectType, CacheType, Element

(* The object of a 304 has no users and no candidate any more. *)
Spent(x) ==
  [[x EXCEPT !.state = "COMPLETE", !.fetch = "none", !.cache = Invalid, !.candidate = NULL,
             !.end = "failed"] EXCEPT !.users = <<>>]

LEMMA SpentType ==
  ASSUME NEW x \in ObjectType
  PROVE  /\ Spent(x) \in ObjectType /\ Spent(x).users = <<>> /\ Spent(x).candidate = NULL
         /\ Spent(x).url = x.url /\ Spent(x).count = x.count
<1> DEFINE s == <<>>
           c == NULL
           k == x.redirects
           y == Seeded(x, s, c, k)
           z == Patch(y, "COMPLETE", "none", Invalid, "failed")
<1>1. s \in Seq(Element) /\ k \in 0..(REDIRECT_LIMIT + 1) /\ "COMPLETE" \in State
      /\ c \in Object \cup {NULL}
  BY DEF ObjectType, State
<1>2. Spent(x) = [[x EXCEPT !.state = "COMPLETE", !.fetch = "none", !.cache = Invalid,
                            !.candidate = NULL, !.end = "failed"] EXCEPT !.users = s]
  BY DEF Spent
<1> HIDE DEF s
<1>3. Spent(x) = z
  BY <1>2, ZenonT(40) DEF ObjectType, Seeded, Patch
<1> HIDE DEF c, k
<1>4. y \in ObjectType /\ y.users = s
  BY <1>1, SeededType
<1>5. y.url = x.url /\ y.candidate = c
  BY <1>1, SeededType
<1>6. y.count = x.count
  BY <1>1, SeededType
<1> HIDE DEF y
<1>7. Alike(z, y)
  BY <1>1, <1>4, InvalidType, PatchType
<1> QED BY <1>3, <1>4, <1>5, <1>6, <1>7 DEF Alike, s, c

Passed(ob, o, c, users, count, end, cache) ==
  [ob EXCEPT ![o] = Spent(ob[o]), ![c] = Heir(ob[c], users, count, end, cache)]

(* Candidates and counts after a 304. *)
LEMMA NotModifiedCore ==
  ASSUME Structure, NEW o \in Live, NEW c, c = obj[o].candidate, c # NULL,
         NEW s \in Seq(Element), NEW e \in {"none", "finished", "failed", "aborted", "revived", "vouched"}, NEW d \in CacheType
  PROVE  /\ Core(Passed(obj, o, c, s, obj[c].count - 1, e, d), Live)
         /\ \A p \in Object : Passed(obj, o, c, s, obj[c].count - 1, e, d)[p].users =
              IF p = o THEN <<>> ELSE IF p = c THEN s ELSE obj[p].users
<1> DEFINE k == obj[c].count - 1
           xo == Spent(obj[o])
           xc == Heir(obj[c], s, k, e, d)
           ob1 == Freed(obj, o, c)
           ob == [obj EXCEPT ![o] = xo, ![c] = xc]
<1>1. /\ Core(obj, Live) /\ obj \in [Object -> ObjectType] /\ o \in Object /\ c \in Object
      /\ c \in Live /\ c # o /\ obj[o] \in ObjectType /\ obj[c] \in ObjectType
  BY Basics DEF Structure, Core
<1>2. Core(ob1, Live)
  <2> HIDE DEF ob1
  <2> QED BY <1>1, CoreRelease DEF ob1
<1>3. /\ ob1 \in [Object -> ObjectType] /\ ob1[c].count = k
      /\ ob1[o].url = obj[o].url /\ ob1[o].candidate = NULL /\ ob1[o].count = obj[o].count
      /\ ob1[c].url = obj[c].url /\ ob1[c].candidate = obj[c].candidate
  <2>1. ob1 \in [Object -> ObjectType]
    BY <1>2 DEF Core
  <2>2. ob1[c] = [obj[c] EXCEPT !.count = @ - 1] /\ ob1[o] = [obj[o] EXCEPT !.candidate = NULL]
    BY <1>1 DEF Freed
  <2> HIDE DEF ob1
  <2>3. ob1[c].count = k /\ ob1[c].url = obj[c].url /\ ob1[c].candidate = obj[c].candidate
    BY <1>1, <2>2, CountType
  <2>4. ob1[o].url = obj[o].url /\ ob1[o].candidate = NULL /\ ob1[o].count = obj[o].count
    BY <1>1, <2>2 DEF ObjectType
  <2> QED BY <2>1, <2>3, <2>4
<1>4. k \in 0..MaxCandidates
  <2>1. ob1[c] \in ObjectType
    BY <1>1, <1>3
  <2> HIDE DEF ob1, k
  <2>2. ob1[c].count \in 0..MaxCandidates
    BY <2>1 DEF ObjectType
  <2> QED BY <1>3, <2>2
<1>5. /\ xo \in ObjectType /\ xo.users = <<>> /\ xo.candidate = NULL
      /\ xo.url = obj[o].url /\ xo.count = obj[o].count
  BY <1>1, SpentType
<1> HIDE DEF k
<1>6. /\ xc \in ObjectType /\ xc.users = s /\ xc.count = k
      /\ xc.url = obj[c].url /\ xc.candidate = obj[c].candidate
  BY <1>1, <1>4, HeirType
<1> HIDE DEF xo, xc, ob1
<1> DEFINE ob2 == With(ob1, o, xo)
<1>7. /\ Core(ob2, Live)
      /\ \A p \in Object : ob2[p] = IF p = o THEN xo ELSE ob1[p]
  BY <1>2, <1>3, <1>5, WithCore
<1> HIDE DEF ob2
<1> DEFINE ob3 == With(ob2, c, xc)
<1>8. /\ Core(ob3, Live)
      /\ \A p \in Object : ob3[p] = IF p = c THEN xc ELSE ob2[p]
  <2>1. ob2[c] = ob1[c]
    BY <1>1, <1>7
  <2> QED BY <1>1, <1>3, <1>6, <1>7, <2>1, WithCore
<1> HIDE DEF ob3
<1>9. ob3 = ob
  <2>1. \A p \in Object \ {o, c} : ob1[p] = obj[p]
    BY <1>1 DEF ob1, Freed
  <2>2. ob3 \in [Object -> ObjectType]
    BY <1>8 DEF Core
  <2> QED BY <1>1, <1>7, <1>8, <2>1, <2>2
<1>10. \A p \in Object : ob[p].users =
                  IF p = o THEN <<>> ELSE IF p = c THEN s ELSE obj[p].users
  BY <1>1, <1>5, <1>6
<1> QED BY <1>1, <1>8, <1>9, <1>10 DEF k, xo, xc, Passed

(* A 304 moves all users to the candidate. *)
LEMMA NotModifiedStep ==
  ASSUME Structure, NEW o \in Object, FETCH_NOTMODIFIED(o)
  PROVE  Structure'
<1> DEFINE c == obj[o].candidate
           x == obj[o].cache
           ended == [obj[o] EXCEPT
                       !.state = "COMPLETE", !.fetch = "none", !.cache = Invalid,
                       !.candidate = NULL, !.end = "failed"]
           Expiries == IF x.expiry # 0 THEN {x.expiry}
                       ELSE IF obj[c].cache.expiry = 0 THEN {0}
                       ELSE {obj[c].cache.expiry, now + 1}
           no_cache == IF x.no_cache # "FRESH" THEN x.no_cache
                       ELSE obj[c].cache.no_cache
<1>1. Fetching(o) /\ UNCHANGED <<lists, now, pc, it>>
  BY DEF FETCH_NOTMODIFIED, Heading
<1>2. /\ Outside /\ o \in Live /\ obj[o] \in ObjectType /\ obj \in [Object -> ObjectType]
      /\ Core(obj, Live) /\ SameUsers(obj) /\ now \in 1..MaxTime
  BY <1>1, FetchingIsLive
<1>3. CASE c = NULL /\ obj' = [obj EXCEPT ![o] = ended] /\ UNCHANGED user
  <2> DEFINE y == Patch(obj[o], "COMPLETE", "none", Invalid, "failed")
  <2>1. ended = y
    <3> DEFINE z == obj[o]
    <3>1. z.candidate = NULL /\ z \in ObjectType
      BY <1>2, <1>3
    <3> HIDE DEF z
    <3>2. [z EXCEPT !.state = "COMPLETE", !.fetch = "none", !.cache = Invalid,
                    !.candidate = NULL, !.end = "failed"] =
            Patch(z, "COMPLETE", "none", Invalid, "failed")
      BY <3>1 DEF Patch, ObjectType
    <3> QED BY <3>2 DEF z
  <2>2. Alike(y, obj[o])
    BY <1>2, InvalidType, PatchType DEF State
  <2> HIDE DEF y
  <2>3. Core(With(obj, o, y), Live) /\ SameUsers(With(obj, o, y))
    BY <1>2, <2>2, ChangedCore
  <2>4. Only(With(obj, o, y))
    BY <1>1, <1>3, <2>1 DEF Only, With
  <2> QED BY <1>2, <2>3, <2>4, OnlyStep
<1>4. ASSUME c # NULL, NEW expiry \in Expiries,
             obj' = [obj EXCEPT
               ![o] = [ended EXCEPT !.users = <<>>],
               ![c] = Adopt(@, obj[o].users, obj[o].fetch,
                 [req_time |-> x.req_time, expiry |-> expiry, dated |-> TRUE,
                  no_cache |-> IF no_cache = "ONCE" THEN "FRESH" ELSE no_cache])],
             user' = [h \in Handle |->
               IF user[h].object = o THEN [user[h] EXCEPT !.object = c] ELSE user[h]]
      PROVE  Structure'
  <2> DEFINE d == [req_time |-> x.req_time, expiry |-> expiry, dated |-> TRUE,
                   no_cache |-> IF no_cache = "ONCE" THEN "FRESH" ELSE no_cache]
             s == AddUsers(obj[o].users, obj[c].users)
             k == obj[c].count - 1
             e == IF obj[c].end \notin {"failed", "aborted"} THEN obj[c].end
                  ELSE IF obj[o].fetch = "conditional" THEN "revived" ELSE "vouched"
  <2>1. c \in Live /\ c # o /\ c \in Object /\ obj[c] \in ObjectType
    BY <1>2, <1>4, Basics DEF Core
  <2>2. d \in CacheType
    <3>1. x \in CacheType /\ obj[c].cache \in CacheType
      BY <1>2, <2>1 DEF ObjectType, CacheType
    <3>2. now + 1 \in 0..(MaxTime + 1) /\ 0 \in 0..(MaxTime + 1)
      BY <1>2, LLCacheAssumption
    <3> HIDE DEF x, c
    <3>3. expiry \in 0..(MaxTime + 1)
      BY <3>1, <3>2 DEF CacheType
    <3> QED BY <3>1, <3>3 DEF CacheType
  <2>9. e \in {"none", "finished", "failed", "aborted", "revived", "vouched"}
    BY <2>1 DEF ObjectType
  <2>3. /\ s \in Seq(Element) /\ Injective(s)
        /\ ToSet(s) = ToSet(obj[o].users) \cup ToSet(obj[c].users)
    <3>1. ToSet(obj[o].users) \cap ToSet(obj[c].users) = {}
      BY <1>2, <2>1, OutsideUsers, ZenonT(40)
    <3>2. /\ obj[o].users \in Seq(Element) /\ Injective(obj[o].users)
          /\ obj[c].users \in Seq(Element) /\ Injective(obj[c].users)
      BY <1>2, <2>1, OutsideUsers
    <3> HIDE DEF c
    <3> QED BY <3>1, <3>2, AddUsersProperties
  <2>4. obj' = Passed(obj, o, c, s, k, e, d)
    <3>1. Adopt(obj[c], obj[o].users, obj[o].fetch, d) = Heir(obj[c], s, k, e, d)
      BY DEF Adopt, Heir
    <3>2. [ended EXCEPT !.users = <<>>] = Spent(obj[o])
      BY DEF Spent
    <3>3. obj' = [obj EXCEPT ![o] = [ended EXCEPT !.users = <<>>],
                             ![c] = Adopt(@, obj[o].users, obj[o].fetch, d)]
      BY <1>4
    <3> HIDE DEF ended, d, s, k, e, c
    <3>4. obj' = [obj EXCEPT ![o] = [ended EXCEPT !.users = <<>>],
                             ![c] = Adopt(obj[c], obj[o].users, obj[o].fetch, d)]
      BY <1>2, <2>1, <3>3
    <3> QED BY <3>1, <3>2, <3>4 DEF Passed
  <2> HIDE DEF d, s, k, e, c, ended
  <2>5. /\ Core(obj', Live)
        /\ \A p \in Object : obj'[p].users =
             IF p = o THEN <<>> ELSE IF p = c THEN s ELSE obj[p].users
    <3>1. s \in Seq(Element) /\ c = obj[o].candidate /\ k = obj[c].count - 1
      BY <2>3 DEF c, k
    <3>2. o \in Live /\ c # NULL /\ d \in CacheType /\ e \in {"none", "finished", "failed", "aborted", "revived", "vouched"}
      BY <1>2, <1>4, <2>2, <2>9
    <3>3. Core(Passed(obj, o, c, s, obj[c].count - 1, e, d), Live)
      BY <3>1, <3>2, NotModifiedCore
    <3>4. \A p \in Object : Passed(obj, o, c, s, obj[c].count - 1, e, d)[p].users =
             IF p = o THEN <<>> ELSE IF p = c THEN s ELSE obj[p].users
      BY <3>1, <3>2, NotModifiedCore
    <3> QED BY <2>4, <3>1, <3>3, <3>4
  <2>6. /\ user' \in [Handle -> UserType]
        /\ \A h \in Handle : user'[h].object = IF user[h].object = o THEN c ELSE user[h].object
    <3>1. \A h \in Handle : user[h] \in UserType
      BY Basics
    <3>2. \A h \in Handle : [user[h] EXCEPT !.object = c] \in UserType
                            /\ [user[h] EXCEPT !.object = c].object = c
      BY <2>1, <3>1 DEF UserType
    <3> QED BY <1>4, <3>1, <3>2
  <2>7. Lists(obj', user', NULL)
    <3> SUFFICES ASSUME NEW p \in Object
                 PROVE  Injective(obj'[p].users) /\ ToSet(obj'[p].users) = Listed(user', NULL, p)
      BY DEF Lists
    <3>1. Listed(user', NULL, p) = {h \in Handle : user'[h].object = p}
      BY LLCacheAssumption DEF Listed
    <3>2. /\ Injective(obj[p].users)
          /\ ToSet(obj[p].users) = {h \in Handle : user[h].object = p}
          /\ ToSet(obj[o].users) = {h \in Handle : user[h].object = o}
      BY <1>2, OutsideUsers
    <3>3. CASE p = o
      <4>1. Injective(<<>>) /\ ToSet(<<>>) = {}
        BY DEF Injective, ToSet
      <4>2. {h \in Handle : user'[h].object = p} = {}
        BY <2>1, <2>6, <3>3
      <4> QED BY <2>5, <3>1, <3>3, <4>1, <4>2
    <3>4. CASE p = c
      <4>1. {h \in Handle : user'[h].object = p} =
              {h \in Handle : user[h].object = o} \cup {h \in Handle : user[h].object = p}
        BY <2>1, <2>6, <3>4
      <4>2. obj'[p].users = s
        BY <2>1, <2>5, <3>4
      <4> QED BY <2>3, <3>1, <3>2, <3>4, <4>1, <4>2
    <3>5. CASE p # o /\ p # c
      <4>1. {h \in Handle : user'[h].object = p} = {h \in Handle : user[h].object = p}
        BY <2>6, <3>5
      <4> QED BY <2>5, <3>1, <3>2, <3>5, <4>1
    <3> QED BY <3>3, <3>4, <3>5
  <2>8. Walk' /\ MovedAt' = MovedAt /\ MovedAt = NULL
    BY <1>1, <1>2, OutsideWalk DEF Structure, Walk, Outside, MovedAt
  <2> QED BY <1>1, <2>5, <2>6, <2>7, <2>8, ListsStay DEF Structure
<1>5. \/ c = NULL /\ obj' = [obj EXCEPT ![o] = ended] /\ UNCHANGED user
      \/ /\ c # NULL
         /\ \E expiry \in Expiries :
             obj' = [obj EXCEPT
               ![o] = [ended EXCEPT !.users = <<>>],
               ![c] = Adopt(@, obj[o].users, obj[o].fetch,
                 [req_time |-> x.req_time, expiry |-> expiry, dated |-> TRUE,
                  no_cache |-> IF no_cache = "ONCE" THEN "FRESH"
                               ELSE no_cache])]
         /\ user' = [h \in Handle |->
             IF user[h].object = o THEN [user[h] EXCEPT !.object = c]
             ELSE user[h]]
  BY ZenonT(60) DEF FETCH_NOTMODIFIED
<1> QED
  <2> HIDE DEF c, x, ended, Expiries, no_cache
  <2> QED BY <1>3, <1>4, <1>5

-----------------------------------------------------------------------------
(* The walk: the user a callback was made for goes if it was marked.        *)
LEMMA InWalk ==
  ASSUME Structure, pc \in {"notify", "callback"}
  PROVE  /\ it \in WalkType /\ it.at \in Live /\ it.at \in Object /\ obj[it.at] \in ObjectType
         /\ obj[it.at].users \in Seq(Element) /\ Injective(obj[it.at].users)
         /\ it.cur # NULL => it.cur \in ToSet(obj[it.at].users)
         /\ it.cur # NULL /\ ~it.dead => it.cur \in Handle /\ user[it.cur] \in UserType
         /\ pc = "notify" => ~it.dead
         /\ it.dead = FALSE \/ it.dead = TRUE
         /\ ~it.dead => MovedAt = NULL
         /\ \A u \in ToSet(obj[it.at].users) \ {it.cur} : u \in Handle /\ u # NULL /\ u # Moved
<1>1. it \in WalkType /\ it.at \in Live /\ (it.cur = Moved => it.dead) /\ (it.dead => pc = "callback")
  BY DEF Structure, Walk
<1>2. it.at \in Object /\ obj[it.at] \in ObjectType /\ obj[it.at].users \in Seq(Element)
      /\ Injective(obj[it.at].users)
      /\ ToSet(obj[it.at].users) = Listed(user, MovedAt, it.at)
  BY <1>1, Basics DEF Structure, Lists
<1>3. it.cur # NULL => it.cur \in ToSet(obj[it.at].users)
  BY DEF Structure, Walk
<1>4. it.cur # NULL /\ ~it.dead => it.cur \in Handle /\ user[it.cur] \in UserType
  BY <1>1, Basics DEF WalkType
<1>5. ~it.dead => MovedAt = NULL
  BY DEF MovedAt
<1>6. it.cur # Moved => MovedAt = NULL
  BY DEF MovedAt
<1>7. \A u \in ToSet(obj[it.at].users) \ {it.cur} : u \in Handle /\ u # NULL /\ u # Moved
  BY <1>2, <1>6, Basics DEF Listed
<1>8. it.dead = FALSE \/ it.dead = TRUE
  BY <1>1 DEF WalkType
<1>9. pc = "notify" => ~it.dead
  BY <1>1
<1> QED BY <1>1, <1>2, <1>3, <1>4, <1>5, <1>7, <1>8, <1>9

(* The marked user goes when its callback has returned. *)
LEMMA Dropped ==
  ASSUME Structure, pc = "callback"
  PROVE  /\ Core(DropUser, Live) /\ DropUser \in [Object -> ObjectType]
         /\ DropHandle \in [Handle -> UserType]
         /\ Lists(DropUser, DropHandle, NULL)
         /\ ToSet(obj[it.at].users) \ {it.cur} \subseteq ToSet(DropUser[it.at].users)
         /\ ~it.dead => DropUser = obj /\ DropHandle = user
<1> DEFINE o == it.at
           s == RemoveFirst(obj[o].users, it.cur)
<1>1. /\ it \in WalkType /\ o \in Live /\ o \in Object /\ obj[o].users \in Seq(Element)
      /\ Injective(obj[o].users) /\ it.cur # NULL /\ it.cur \in ToSet(obj[o].users)
  BY InWalk DEF Structure, Walk
<1>2. /\ Core(obj, Live) /\ Lists(obj, user, MovedAt) /\ user \in [Handle -> UserType]
      /\ obj \in [Object -> ObjectType]
  BY Basics DEF Structure
<1>3. CASE ~it.dead
  BY <1>2, <1>3, InWalk DEF DropUser, DropHandle
<1>4. CASE it.dead
  <2>1. DropUser = WithUsers(obj, o, s)
    BY <1>4 DEF DropUser, WithUsers
  <2> HIDE DEF o
  <2>2. s \in Seq(Element) /\ Injective(s) /\ ToSet(s) = ToSet(obj[o].users) \ {it.cur}
    BY <1>1, RemoveFirstProperties
  <2> HIDE DEF s
  <2>3. Core(DropUser, Live)
        /\ \A p \in Object : DropUser[p].users = IF p = o THEN s ELSE obj[p].users
    BY <1>1, <1>2, <2>1, <2>2, CoreUsers
  <2>4. /\ DropHandle \in [Handle -> UserType]
        /\ \A h \in Handle : DropHandle[h] = IF h = it.cur THEN NoUser ELSE user[h]
    <3>1. CASE it.cur = Moved
      BY <1>2, <3>1, Basics DEF DropHandle
    <3>2. CASE it.cur # Moved
      <4>1. DropHandle = [user EXCEPT ![it.cur] = NoUser]
        BY <1>4, <3>2 DEF DropHandle
      <4> QED BY <1>2, <4>1, NoUserType
    <3> QED BY <3>1, <3>2
  <2>5. Lists(DropUser, DropHandle, NULL)
    <3> SUFFICES ASSUME NEW p \in Object
                 PROVE  Injective(DropUser[p].users)
                        /\ ToSet(DropUser[p].users) = Listed(DropHandle, NULL, p)
      BY DEF Lists
    <3>1. Injective(obj[p].users) /\ ToSet(obj[p].users) = Listed(user, MovedAt, p)
          /\ ToSet(obj[o].users) = Listed(user, MovedAt, o)
      BY <1>1, <1>2 DEF Lists
    <3>2. Listed(DropHandle, NULL, p) = {h \in Handle \ {it.cur} : user[h].object = p}
      BY <2>4, Basics, NoUserType DEF Listed
    <3>3. MovedAt = IF it.cur = Moved THEN o ELSE NULL
      BY <1>4 DEF MovedAt, o
    <3>4. CASE p = o
      <4>1. Listed(user, MovedAt, o) \ {it.cur} = {h \in Handle \ {it.cur} : user[h].object = o}
        BY <1>1, <3>3, Basics DEF Listed
      <4> QED BY <2>2, <2>3, <3>1, <3>2, <3>4, <4>1
    <3>5. CASE p # o
      <4>1. it.cur \notin {h \in Handle : user[h].object = p}
        BY <1>1, <3>1, <3>5, Basics DEF Listed
      <4>2. Listed(user, MovedAt, p) = {h \in Handle \ {it.cur} : user[h].object = p}
        BY <3>3, <3>5, <4>1, Basics DEF Listed
      <4> QED BY <2>3, <3>1, <3>2, <3>5, <4>2
    <3> QED BY <3>4, <3>5
  <2>6. DropUser \in [Object -> ObjectType]
    BY <2>3 DEF Core
  <2>7. ToSet(obj[it.at].users) \ {it.cur} \subseteq ToSet(DropUser[it.at].users)
    BY <1>1, <2>2, <2>3 DEF o
  <2> QED BY <1>4, <2>3, <2>4, <2>5, <2>6, <2>7
<1> QED BY <1>3, <1>4

(* The user that follows is another, and has a handle.                      *)
LEMMA NextUser ==
  ASSUME Structure, pc \in {"notify", "callback"}, it.cur # NULL,
         NEW u, u = Following(obj[it.at].users, it.cur), u # NULL
  PROVE  u \in ToSet(obj[it.at].users) \ {it.cur} /\ u \in Handle /\ u # NULL /\ u # Moved
<1> DEFINE s == obj[it.at].users
<1>1. s \in Seq(Element) /\ Injective(s) /\ it.cur \in ToSet(s)
  BY InWalk
<1>2. u \in ToSet(s) \ {it.cur}
  <2> HIDE DEF s
  <2>1. u = Following(s, it.cur)
    BY DEF s
  <2> QED BY <1>1, <2>1, FollowingProperties
<1> QED BY <1>2, InWalk

(* A visit of an object, at one of its users or past them. *)
VisitAt(o, l, u) == [Visit(o, l) EXCEPT !.cur = u]

LEMMA VisitType ==
  ASSUME NEW o \in Object, obj[o] \in ObjectType, NEW l \in 0..2, NEW u \in Handle \cup {NULL}
  PROVE  /\ VisitAt(o, l, u) \in WalkType
         /\ VisitAt(o, l, u).at = o /\ VisitAt(o, l, u).cur = u
         /\ ~VisitAt(o, l, u).dead /\ VisitAt(o, l, u).stage = "headers"
         /\ VisitAt(o, l, u).event = "none"
<1> DEFINE v == [NoWalk EXCEPT !.at = o, !.loop = l, !.cur = u,
                               !.os = obj[o].state, !.stage = "headers"]
<1>1. obj[o].state \in State
  BY DEF ObjectType
<1>2. VisitAt(o, l, u) = v
  BY DEF VisitAt, Visit, NoWalk
<1>3. v \in WalkType
  BY <1>1, NoWalkType DEF WalkType
<1>4. v.at = o /\ v.cur = u /\ ~v.dead /\ v.stage = "headers"
  BY <1>1, NoWalkType DEF WalkType
<1>5. v.event = "none"
  BY DEF NoWalk
<1> QED BY <1>2, <1>3, <1>4, <1>5

(* The walk goes on, after the marked user has gone. *)
LEMMA WalkGoes ==
  ASSUME Structure, pc = "callback", obj' = DropUser, user' = DropHandle,
         UNCHANGED <<lists, now>>, Walk', MovedAt' = NULL
  PROVE  Structure'
BY Dropped, ListsStay DEF Structure

(* Where a visit may stand afterwards. *)
LEMMA VisitStep ==
  ASSUME Structure, pc \in {"notify", "callback"}, NEW u \in Handle \cup {NULL},
         it' = VisitAt(it.at, it.loop, u), pc' = "notify", Live' = Live,
         u # NULL => u \in ToSet(obj'[it.at].users)
  PROVE  Walk' /\ MovedAt' = NULL
<1>1. it.at \in Live /\ it.at \in Object /\ obj[it.at] \in ObjectType /\ it.loop \in 0..2
      /\ it.at # NULL /\ Moved \notin Handle /\ Moved # NULL
  BY InWalk, Basics, ZenonT(40) DEF WalkType
<1>2. /\ it' \in WalkType /\ it'.at = it.at /\ it'.cur = u /\ ~it'.dead
      /\ it'.stage = "headers" /\ it'.event = "none"
  BY <1>1, VisitType
<1>3. it'.cur # NULL => it'.cur \in ToSet(obj'[it'.at].users)
  BY <1>2
<1>4. u # Moved
  BY <1>1
<1> QED BY <1>1, <1>2, <1>3, <1>4 DEF Walk, MovedAt

(* The event goes to the next user, or the sending ends. *)
LEMMA SendContinuesStep ==
  ASSUME Structure, SendContinues
  PROVE  Structure'
<1> DEFINE next == Following(obj[it.at].users, it.cur)
<1>1. /\ pc = "callback" /\ it.event \in {"PROGRESS", "ERROR"}
      /\ obj' = DropUser /\ user' = DropHandle /\ UNCHANGED <<lists, now>>
  BY DEF SendContinues, Sending
<1>2. /\ it \in WalkType /\ it.at \in Live /\ it.at # NULL /\ it.cur # NULL
      /\ it.stage = "none"
  BY <1>1, InWalk, Basics DEF Structure, Walk, WalkType
<1>3. CASE next = NULL /\ pc' = "gui" /\ it' = NoWalk
  <2>1. Walk' /\ MovedAt' = NULL
    BY <1>2, <1>3, NoWalkType, Basics DEF Walk, MovedAt
  <2> QED BY <1>1, <2>1, WalkGoes
<1>4. CASE next # NULL /\ it' = [it EXCEPT !.cur = next, !.dead = FALSE] /\ UNCHANGED pc
  <2>1. next \in ToSet(obj[it.at].users) \ {it.cur} /\ next \in Handle /\ next # NULL
        /\ next # Moved
    BY <1>1, <1>2, <1>4, NextUser
  <2> HIDE DEF next
  <2>2. /\ it' \in WalkType /\ it'.at = it.at /\ it'.cur = next /\ ~it'.dead
        /\ it'.stage = "none"
    BY <1>2, <1>4, <2>1 DEF WalkType
  <2>3. next \in ToSet(obj'[it.at].users)
    BY <1>1, <2>1, Dropped
  <2>4. Walk' /\ MovedAt' = NULL
    BY <1>1, <1>2, <1>4, <2>1, <2>2, <2>3, ListsStay DEF Walk, MovedAt
  <2> QED BY <1>1, <2>4, WalkGoes
<1> QED BY <1>3, <1>4 DEF SendContinues

(* A callback fails and ends the sending. *)
LEMMA SendFailsStep ==
  ASSUME Structure, SendFails
  PROVE  Structure'
<1> DEFINE o == it.at
<1>1. /\ pc = "callback" /\ user' = DropHandle /\ UNCHANGED <<lists, now>>
      /\ pc' = "gui" /\ it' = NoWalk
  BY DEF SendFails, Sending
<1>2. it \in WalkType /\ o \in Live /\ o \in Object
  BY <1>1, InWalk DEF WalkType
<1>3. Walk' /\ MovedAt' = NULL
  BY <1>1, <1>2, NoWalkType, Basics DEF Walk, MovedAt
<1>4. CASE obj' = DropUser
  BY <1>1, <1>3, <1>4, WalkGoes
<1>5. CASE obj' = [DropUser EXCEPT ![o].fetch = "none", ![o].state = "COMPLETE",
                                   ![o].cache = Invalid, ![o].end = "failed"]
  <2> DEFINE r == DropUser
             x == Patch(r[o], "COMPLETE", "none", Invalid, "failed")
  <2>1. /\ Core(r, Live) /\ r \in [Object -> ObjectType] /\ r[o] \in ObjectType
        /\ Lists(r, user', NULL) /\ user' \in [Handle -> UserType]
    BY <1>1, <1>2, Dropped
  <2> HIDE DEF r
  <2>2. obj' = With(r, o, x)
    BY <1>2, <1>5, <2>1, ZenonT(40) DEF With, Patch, ObjectType, r
  <2>3. Alike(x, r[o])
    BY <2>1, InvalidType, PatchType DEF State
  <2> HIDE DEF x, o
  <2>4. Core(obj', Live) /\ \A p \in Object : obj'[p] = IF p = o THEN x ELSE r[p]
    BY <1>2, <2>1, <2>2, <2>3, WithCore DEF Alike
  <2>5. \A p \in Object : obj'[p].users = r[p].users
    BY <2>3, <2>4 DEF Alike
  <2>6. Lists(obj', user', NULL)
    BY <2>1, <2>5 DEF Lists
  <2> QED BY <1>1, <1>3, <2>1, <2>4, <2>6, ListsStay DEF Structure
<1> QED BY <1>4, <1>5 DEF SendFails

(* A callback returns to the walk. *)
LEMMA NotifyContinuesStep ==
  ASSUME Structure, NotifyContinues
  PROVE  Structure'
<1> DEFINE next == Following(obj[it.at].users, it.cur)
<1>1. /\ pc = "callback" /\ it.event \in {"HAD_HEADERS", "HAD_DATA", "DONE"}
      /\ obj' = DropUser /\ user' = DropHandle /\ UNCHANGED <<lists, now>> /\ pc' = "notify"
      /\ Live' = Live
  BY ListsStay DEF NotifyContinues, Notifying
<1>2. it \in WalkType /\ it.at \in Live /\ it.at # NULL /\ it.cur # NULL
  BY <1>1, InWalk, Basics DEF Structure, Walk
<1>3. CASE GoTo(next)
  <2>1. next # NULL => next \in ToSet(obj[it.at].users) \ {it.cur} /\ next \in Handle
    BY <1>1, <1>2, NextUser
  <2> HIDE DEF next
  <2>2. next # NULL => next \in ToSet(obj'[it.at].users)
    BY <1>1, <2>1, Dropped
  <2>3. it' = VisitAt(it.at, it.loop, next)
    BY <1>3 DEF GoTo, VisitAt
  <2>4. next \in Handle \cup {NULL}
    BY <2>1
  <2>5. Walk' /\ MovedAt' = NULL
    BY <1>1, <2>2, <2>3, <2>4, VisitStep
  <2> QED BY <1>1, <2>5, WalkGoes
<1>4. CASE ~it.dead /\ it' = [it EXCEPT !.event = "none", !.orig = 0]
  <2>1. /\ it' \in WalkType /\ it'.at = it.at /\ it'.cur = it.cur /\ it'.dead = it.dead
        /\ it'.stage = it.stage /\ it'.event = "none"
    <3>1. 0 \in 0..MaxLen
      BY LLCacheAssumption
    <3> QED BY <1>2, <1>4, <3>1 DEF WalkType
  <2>2. obj' = obj /\ user' = user
    BY <1>1, <1>4, Dropped
  <2>3. Walk'
    BY <1>1, <1>4, <2>1, <2>2 DEF Structure, Walk
  <2>4. MovedAt' = NULL
    BY <1>4, <2>1 DEF MovedAt
  <2> QED BY <1>1, <2>3, <2>4, WalkGoes
<1> QED BY <1>3, <1>4 DEF NotifyContinues

(* A callback fails: the walk leaves the object. *)
LEMMA NotifyFailsStep ==
  ASSUME Structure, NotifyFails
  PROVE  Structure'
<1>1. /\ pc = "callback" /\ obj' = DropUser /\ user' = DropHandle /\ UNCHANGED <<lists, now>>
      /\ pc' = "notify" /\ it' = VisitAt(it.at, it.loop, NULL) /\ Live' = Live
  BY ListsStay DEF NotifyFails, Notifying, GoTo, VisitAt
<1>2. Walk' /\ MovedAt' = NULL
  <2>1. NULL \in Handle \cup {NULL}
    OBVIOUS
  <2> QED BY <1>1, <2>1, VisitStep
<1> QED BY <1>1, <1>2, WalkGoes

(* A user is told something: it keeps its object. *)
LEMMA UserTold ==
  ASSUME Structure, pc \in {"notify", "callback"}, ~it.dead, it.cur # NULL,
         NEW x \in UserType, x.object = user[it.cur].object
  PROVE  /\ [user EXCEPT ![it.cur] = x] \in [Handle -> UserType]
         /\ Lists(obj, [user EXCEPT ![it.cur] = x], NULL)
<1> DEFINE u2 == [user EXCEPT ![it.cur] = x]
<1>1. it.cur \in Handle /\ user \in [Handle -> UserType] /\ MovedAt = NULL
  BY InWalk DEF Structure
<1>2. u2 \in [Handle -> UserType] /\ \A h \in Handle : u2[h].object = user[h].object
  BY <1>1
<1> HIDE DEF u2
<1>3. \A p \in Object : Listed(u2, NULL, p) = Listed(user, NULL, p)
  BY <1>2 DEF Listed
<1>4. Lists(obj, u2, NULL)
  BY <1>1, <1>3 DEF Lists, Structure
<1> QED BY <1>2, <1>4 DEF u2

(* The state of a user and what it was sent. *)
Told(u, state, bytes) == [u EXCEPT !.state = state, !.bytes = bytes]

LEMMA ToldType ==
  ASSUME NEW u \in UserType, NEW s \in State, NEW b \in 0..MaxLen
  PROVE  /\ Told(u, s, b) \in UserType /\ Told(u, s, b).object = u.object
         /\ Told(u, s, b).bytes = b
BY DEF Told, UserType

(* The walk goes on with the next user, one having been told something.     *)
LEMMA NextStep ==
  ASSUME Structure, pc \in {"notify", "callback"}, ~it.dead, it.cur # NULL,
         user' \in [Handle -> UserType], Lists(obj, user', NULL), pc' = "notify",
         UNCHANGED <<obj, lists, now>>, GoTo(Following(obj[it.at].users, it.cur))
  PROVE  Structure'
<1> DEFINE next == Following(obj[it.at].users, it.cur)
<1>1. next # NULL => next \in ToSet(obj[it.at].users) \ {it.cur} /\ next \in Handle
  BY NextUser
<1>2. it' = VisitAt(it.at, it.loop, next)
  BY DEF GoTo, VisitAt
<1> HIDE DEF next
<1>3. next # NULL => next \in ToSet(obj'[it.at].users)
  BY <1>1
<1>4. next \in Handle \cup {NULL} /\ Live' = Live
  BY <1>1, ListsStay
<1>5. Walk' /\ MovedAt' = NULL
  BY <1>2, <1>3, <1>4, VisitStep
<1> QED BY <1>4, <1>5, ListsStay DEF Structure

(* A callback asks for its event again. *)
LEMMA NotifyReplaysStep ==
  ASSUME Structure, NotifyReplays
  PROVE  Structure'
<1> DEFINE u == user[it.cur]
           event == it.event
           x == Told(u, IF event = "HAD_HEADERS" THEN "HEADERS"
                        ELSE IF event = "DONE" THEN "DATA" ELSE u.state,
                     IF event = "HAD_DATA" THEN it.orig ELSE u.bytes)
<1>1. /\ pc = "callback" /\ pc' = "notify" /\ ~it.dead /\ UNCHANGED <<obj, lists, now>>
      /\ event \in {"HAD_HEADERS", "HAD_DATA", "DONE"}
      /\ GoTo(Following(obj[it.at].users, it.cur))
      /\ user' = CASE event = "HAD_HEADERS" -> [user EXCEPT ![it.cur].state = "HEADERS"]
                   [] event = "HAD_DATA" -> [user EXCEPT ![it.cur].bytes = it.orig]
                   [] event = "DONE" -> [user EXCEPT ![it.cur].state = "DATA"]
  BY DEF NotifyReplays, Notifying
<1>2. it.cur # NULL /\ it.cur \in Handle /\ u \in UserType /\ it.orig \in 0..MaxLen
      /\ user \in [Handle -> UserType]
  BY <1>1, InWalk DEF Structure, Walk, WalkType
<1>3. x \in UserType /\ x.object = u.object
  <2>1. u.state \in State /\ u.bytes \in 0..MaxLen /\ "HEADERS" \in State /\ "DATA" \in State
    BY <1>2 DEF UserType, State
  <2> HIDE DEF u, event
  <2> QED BY <1>2, <2>1, ToldType
<1>4. user' = [user EXCEPT ![it.cur] = x]
  <2> HIDE DEF event
  <2>1. CASE event = "HAD_HEADERS"
    BY <1>1, <1>2, <2>1 DEF Told, UserType
  <2>2. CASE event = "HAD_DATA"
    BY <1>1, <1>2, <2>2 DEF Told, UserType
  <2>3. CASE event = "DONE"
    BY <1>1, <1>2, <2>3 DEF Told, UserType
  <2> QED BY <1>1, <2>1, <2>2, <2>3
<1> HIDE DEF x
<1>5. user' \in [Handle -> UserType] /\ Lists(obj, user', NULL)
  BY <1>1, <1>2, <1>3, <1>4, UserTold
<1> QED BY <1>1, <1>2, <1>5, NextStep

(* A user has nothing to be told. *)
LEMMA UserIsCurrentStep ==
  ASSUME Structure, UserIsCurrent
  PROVE  Structure'
<1>1. /\ pc = "notify" /\ pc' = "notify" /\ it.cur # NULL /\ UNCHANGED <<obj, lists, now>>
      /\ GoTo(Following(obj[it.at].users, it.cur))
      /\ user' = user \/ user' = [user EXCEPT ![it.cur].state = "HEADERS"]
  BY DEF UserIsCurrent
<1>2. /\ ~it.dead /\ it.cur \in Handle /\ user[it.cur] \in UserType
      /\ user \in [Handle -> UserType] /\ MovedAt = NULL
  BY <1>1, InWalk DEF Structure
<1>3. CASE user' = user
  <2>1. user' \in [Handle -> UserType] /\ Lists(obj, user', NULL)
    BY <1>2, <1>3 DEF Structure
  <2> QED BY <1>1, <1>2, <2>1, NextStep
<1>4. CASE user' = [user EXCEPT ![it.cur].state = "HEADERS"]
  <2> DEFINE u == user[it.cur]
             x == Told(u, "HEADERS", u.bytes)
  <2>1. user' = [user EXCEPT ![it.cur] = x]
    BY <1>2, <1>4 DEF Told, UserType
  <2>2. x \in UserType /\ x.object = u.object
    <3>1. u.bytes \in 0..MaxLen /\ "HEADERS" \in State
      BY <1>2 DEF UserType, State
    <3> HIDE DEF u
    <3> QED BY <1>2, <3>1, ToldType DEF u
  <2> HIDE DEF x
  <2>3. user' \in [Handle -> UserType] /\ Lists(obj, user', NULL)
    BY <1>1, <1>2, <2>1, <2>2, UserTold
  <2> QED BY <1>1, <1>2, <2>3, NextStep
<1> QED BY <1>1, <1>3, <1>4

(* An event is sent to the user the walk is at. *)
EventTo(event, stage) == [it EXCEPT !.event = event, !.stage = stage]

LEMMA EventStep ==
  ASSUME Structure, pc = "notify", pc' = "callback", it.cur # NULL, UNCHANGED <<obj, lists, now>>,
         NEW s \in State, user' = [user EXCEPT ![it.cur].state = s],
         NEW event \in {"HAD_HEADERS", "DONE"}, NEW stage \in {"data", "end"},
         it' = EventTo(event, stage)
  PROVE  Structure'
<1> DEFINE u == user[it.cur]
           x == Told(u, s, u.bytes)
<1>1. /\ ~it.dead /\ it.cur \in Handle /\ u \in UserType /\ it \in WalkType
      /\ user \in [Handle -> UserType] /\ MovedAt = NULL /\ it.at \in Live
      /\ it.cur \in ToSet(obj[it.at].users) /\ it.at # NULL /\ it.cur # Moved
  BY InWalk, Basics, ZenonT(40) DEF Structure
<1>2. user' = [user EXCEPT ![it.cur] = x]
  BY <1>1 DEF Told, UserType
<1>3. x \in UserType /\ x.object = u.object
  <2>1. u.bytes \in 0..MaxLen
    BY <1>1 DEF UserType
  <2> HIDE DEF u
  <2> QED BY <1>1, <2>1, ToldType
<1> HIDE DEF x
<1>4. user' \in [Handle -> UserType] /\ Lists(obj, user', NULL)
  BY <1>1, <1>2, <1>3, UserTold
<1>5. /\ it' \in WalkType /\ it'.at = it.at /\ it'.cur = it.cur /\ it'.dead = it.dead
      /\ it'.stage = stage /\ it'.event = event
  BY <1>1 DEF EventTo, WalkType
<1>6. Live' = Live
  BY ListsStay
<1>7. Walk'
  BY <1>1, <1>5, <1>6 DEF Walk
<1>8. MovedAt' = NULL
  BY <1>1, <1>5 DEF MovedAt
<1> QED BY <1>4, <1>6, <1>7, <1>8, ListsStay DEF Structure

(* HAD_HEADERS or DONE is sent. *)
LEMMA HeadersDoneStep ==
  ASSUME Structure, HAD_HEADERS \/ DONE
  PROVE  Structure'
<1>1. CASE HAD_HEADERS
  <2>1. /\ pc = "notify" /\ pc' = "callback" /\ it.cur # NULL /\ UNCHANGED <<obj, lists, now>>
        /\ user' = [user EXCEPT ![it.cur].state = "DATA"] /\ it' = EventTo("HAD_HEADERS", "data")
    BY <1>1 DEF HAD_HEADERS, Notify, EventTo
  <2>2. "DATA" \in State
    BY DEF State
  <2> QED BY <2>1, <2>2, EventStep
<1>2. CASE DONE
  <2>1. /\ pc = "notify" /\ pc' = "callback" /\ it.cur # NULL /\ UNCHANGED <<obj, lists, now>>
        /\ user' = [user EXCEPT ![it.cur].state = "COMPLETE"] /\ it' = EventTo("DONE", "end")
    BY <1>2 DEF DONE, Notify, EventTo
  <2>2. "COMPLETE" \in State
    BY DEF State
  <2> QED BY <2>1, <2>2, EventStep
<1> QED BY <1>1, <1>2

(* HAD_DATA is sent, and streamed data are dropped. *)
LEMMA HadDataStep ==
  ASSUME Structure, HAD_DATA
  PROVE  Structure'
<1> DEFINE o == it.at
           u == user[it.cur]
           left == IF obj[o].stream THEN 0 ELSE obj[o].len
           orig == IF obj[o].stream THEN 0 ELSE u.bytes
           x == Told(u, u.state, left)
           y == Resized(obj[o], left)
<1>1. /\ pc = "notify" /\ pc' = "callback" /\ it.cur # NULL /\ UNCHANGED <<lists, now>>
      /\ user' = [user EXCEPT ![it.cur].bytes = left]
      /\ obj' = [obj EXCEPT ![o].len = left]
      /\ it' = [it EXCEPT !.event = "HAD_DATA", !.stage = "done", !.orig = orig]
  BY DEF HAD_DATA, Notify
<1>2. /\ ~it.dead /\ it.cur \in Handle /\ u \in UserType /\ it \in WalkType
      /\ user \in [Handle -> UserType] /\ MovedAt = NULL /\ o \in Live
      /\ o \in Object /\ obj[o] \in ObjectType /\ obj \in [Object -> ObjectType]
      /\ it.cur \in ToSet(obj[o].users) /\ o # NULL /\ it.cur # Moved
  BY <1>1, InWalk, Basics DEF Structure
<1>3. left \in 0..MaxLen /\ orig \in 0..MaxLen /\ u.state \in State
  BY <1>2, LLCacheAssumption DEF ObjectType, UserType
<1>4. user' = [user EXCEPT ![it.cur] = x]
  <2> HIDE DEF left
  <2> QED BY <1>1, <1>2 DEF Told, UserType
<1>5. obj' = With(obj, o, y)
  <2> HIDE DEF left
  <2> QED BY <1>1 DEF With, Resized
<1> HIDE DEF left, orig
<1>6. x \in UserType /\ x.object = u.object /\ x.bytes = left
  <2> HIDE DEF u
  <2> QED BY <1>2, <1>3, ToldType
<1>7. Alike(y, obj[o]) /\ y.len = left
  <2> HIDE DEF o
  <2> QED BY <1>2, <1>3, ResizedType
<1> HIDE DEF x, y
<1>8. user' \in [Handle -> UserType] /\ Lists(obj, user', NULL)
  BY <1>1, <1>2, <1>4, <1>6, UserTold
<1>9. Core(obj', Live) /\ \A p \in Object : obj'[p] = IF p = o THEN y ELSE obj[p]
  <2>1. Core(obj, Live)
    BY DEF Structure
  <2> HIDE DEF o
  <2> QED BY <1>2, <1>5, <1>7, <2>1, WithCore DEF Alike
<1>10. Lists(obj', user', NULL)
  BY <1>7, <1>8, <1>9 DEF Lists, Alike
<1>11. /\ it' \in WalkType /\ it'.at = o /\ it'.cur = it.cur /\ it'.dead = it.dead
       /\ it'.stage = "done" /\ it'.event = "HAD_DATA"
  BY <1>1, <1>2, <1>3 DEF WalkType
<1>12. user'[it.cur].bytes = left /\ obj'[o].len = left /\ obj'[o].users = obj[o].users
  BY <1>2, <1>4, <1>6, <1>7, <1>9 DEF Alike
<1>16. left >= left
  BY <1>3, LLCacheAssumption
<1>13. left >= left /\ Live' = Live
  BY <1>1, <1>16, ListsStay
<1>14. Walk'
  <2> HIDE DEF o
  <2> QED BY <1>1, <1>2, <1>11, <1>12, <1>13 DEF Walk
<1>15. MovedAt' = NULL
  BY <1>2, <1>11 DEF MovedAt
<1> QED BY <1>1, <1>8, <1>9, <1>10, <1>13, <1>14, <1>15, ListsStay DEF Structure

(* The head of a list, if it has one, is in it. *)
LEMMA FirstMember ==
  ASSUME NEW S, NEW s \in Seq(S)
  PROVE  First(s) = NULL \/ First(s) \in ToSet(s)
BY DEF First, ToSet

(* The loop over the objects goes to an object of a list, or ends. *)
LEMMA VisitFromStep ==
  ASSUME Structure, pc \in {"gui", "notify"}, it.cur = NULL, NEW o \in Live \cup {NULL},
         NEW l \in 0..2, VisitFrom(o, l), UNCHANGED <<obj, lists, user, now>>
  PROVE  Structure'
<1>1. /\ Live' = Live /\ obj' = obj /\ user' = user /\ MovedAt = NULL
      /\ NULL \notin Object /\ Moved \notin Handle \cup {NULL}
  <2>1. ~it.dead
    BY DEF Structure, Walk, WalkType
  <2> QED BY <2>1, ListsStay, LLCacheAssumption DEF MovedAt
<1>2. ASSUME NEW p \in Live, NEW k \in 0..2, it' = Visit(p, k), pc' = "notify"
      PROVE  Walk' /\ MovedAt' = NULL
  <2> DEFINE u == First(obj[p].users)
  <2>1. /\ p \in Object /\ obj[p] \in ObjectType /\ obj[p].users \in Seq(Element)
        /\ ToSet(obj[p].users) = Listed(user, NULL, p)
    BY <1>1, Basics DEF Structure, Lists
  <2>2. u = NULL \/ u \in ToSet(obj[p].users)
    BY <2>1, FirstMember
  <2>3. u \in Handle \cup {NULL}
    BY <1>1, <2>1, <2>2 DEF Listed
  <2>4. it' = VisitAt(p, k, u)
    BY <1>2 DEF VisitAt, Visit, NoWalk
  <2> HIDE DEF u
  <2>5. /\ it' \in WalkType /\ it'.at = p /\ it'.cur = u /\ ~it'.dead
        /\ it'.stage = "headers" /\ it'.event = "none"
    BY <2>1, <2>3, <2>4, VisitType
  <2> QED BY <1>1, <1>2, <2>1, <2>2, <2>3, <2>5 DEF Walk, MovedAt
<1>3. Walk' /\ MovedAt' = NULL
  <2>1. CASE o # NULL
    BY <1>2, <2>1 DEF VisitFrom
  <2>2. CASE o = NULL /\ l = 1 /\ uncached # <<>>
    <3>1. Head(uncached) \in Live
      BY <2>2 DEF Structure, Live, ToSet
    <3>2. it' = Visit(Head(uncached), 2) /\ pc' = "notify"
      BY <2>2 DEF VisitFrom
    <3> QED BY <1>2, <3>1, <3>2
  <2>3. CASE o = NULL /\ ~(l = 1 /\ uncached # <<>>)
    <3>1. it' = NoWalk /\ pc' = "gui"
      BY <2>3 DEF VisitFrom
    <3>2. Moved # NULL
      BY <1>1
    <3> QED BY <3>1, <3>2, NoWalkType DEF Walk, MovedAt
  <2> QED BY <2>1, <2>2, <2>3
<1> QED BY <1>1, <1>3, ListsStay DEF Structure, Core, Lists

(* The walk over all objects begins. *)
LEMMA PollStep ==
  ASSUME Structure, llcache_poll
  PROVE  Structure'
<1> DEFINE o == First(cached)
<1>1. pc = "gui" /\ VisitFrom(o, 1) /\ UNCHANGED <<obj, lists, user, now>>
  BY DEF llcache_poll
<1>2. it.cur = NULL
  BY <1>1 DEF Structure, Walk
<1>3. o \in Live \cup {NULL}
  BY FirstMember DEF Structure, Live
<1> HIDE DEF o
<1> QED BY <1>1, <1>2, <1>3, VisitFromStep

(* The walk goes on with the next object of the list its object is in. *)
LEMMA NextObjectStep ==
  ASSUME Structure, NextObject
  PROVE  Structure'
<1> DEFINE o == IF it.at \in ToSet(cached) THEN Following(cached, it.at)
                ELSE Following(uncached, it.at)
           l == it.loop
<1>1. pc = "notify" /\ it.cur = NULL /\ VisitFrom(o, l) /\ UNCHANGED <<obj, lists, user, now>>
  BY DEF NextObject
<1>2. it.at \in Live /\ l \in 0..2 /\ cached \in Seq(Object) /\ uncached \in Seq(Object)
  BY <1>1 DEF Structure, Walk, WalkType
<1>3. o \in Live \cup {NULL}
  <2>1. CASE it.at \in ToSet(cached)
    BY <1>2, <2>1, FollowingMember DEF Live
  <2>2. CASE it.at \in ToSet(uncached) /\ it.at \notin ToSet(cached)
    BY <1>2, <2>2, FollowingMember DEF Live
  <2> QED BY <1>2, <2>1, <2>2 DEF Live
<1> HIDE DEF o, l
<1> QED BY <1>1, <1>2, <1>3, VisitFromStep

(* Time passes. *)
LEMMA TickStep ==
  ASSUME Structure, Tick
  PROVE  Structure'
<1>1. UNCHANGED <<obj, lists, user, it, pc>> /\ now' \in 1..MaxTime
  BY LLCacheAssumption DEF Tick, Structure
<1>2. Live' = Live /\ MovedAt' = MovedAt
  BY <1>1, ListsStay DEF MovedAt
<1>3. Walk'
  BY <1>1, <1>2 DEF Structure, Walk
<1> QED BY <1>1, <1>2, <1>3, ListsStay DEF Structure

(* Nothing happens. *)
LEMMA NothingStep ==
  ASSUME Structure, UNCHANGED vars
  PROVE  Structure'
BY DEF Structure, vars, lists, Live, MovedAt, Walk, Core, Lists

(* The cache is empty when the program starts. *)
LEMMA InitStructure ==
  ASSUME Init
  PROVE  Structure
<1>1. Free \in ObjectType /\ NoUser \in UserType /\ now \in 1..MaxTime
  BY NewObjectType, LLCacheAssumption DEF Init, Free, NoUser, UserType, State
<1>2. /\ obj \in [Object -> ObjectType] /\ user \in [Handle -> UserType]
      /\ cached \in Seq(Object) /\ uncached \in Seq(Object) /\ Injective(cached)
      /\ Live = {}
  BY <1>1 DEF Init, Injective, Live, ToSet
<1>3. Core(obj, Live)
  <2>1. \A o \in Object : obj[o] = Free
    BY DEF Init
  <2>2. \A c \in Object : Cardinality(Claims(obj, Live, c)) = 0
    BY <1>2, FS_EmptySet DEF Claims
  <2>3. \A c \in Object : 0 <= obj[c].count
    BY <1>2, LLCacheAssumption DEF ObjectType
  <2> QED BY <1>2, <2>1, <2>2, <2>3 DEF Core
<1>4. it = NoWalk /\ pc = "gui"
  BY DEF Init
<1>5. Walk /\ MovedAt = NULL
  <2>1. Moved # NULL
    BY LLCacheAssumption
  <2> QED BY <1>4, <2>1, NoWalkType DEF Walk, MovedAt
<1>6. Lists(obj, user, NULL)
  <2> SUFFICES ASSUME NEW o \in Object
               PROVE  Injective(obj[o].users) /\ ToSet(obj[o].users) = Listed(user, NULL, o)
    BY DEF Lists
  <2>1. obj[o].users = <<>> /\ \A h \in Handle : user[h].object = NULL
    BY DEF Init, Free, llcache_object_new, NoUser
  <2>2. Listed(user, NULL, o) = {}
    BY <2>1, LLCacheAssumption DEF Listed
  <2> QED BY <2>1, <2>2 DEF Injective, ToSet
<1> QED BY <1>1, <1>2, <1>3, <1>5, <1>6 DEF Structure

(* Every step of the program keeps the lists and the walk in order. *)
LEMMA NextStructure ==
  ASSUME Structure, [Next]_vars
  PROVE  Structure'
<1>1. ASSUME Client PROVE Structure'
  BY <1>1, RetrieveStep, ReleaseStep, AbortStep, CloneStep, StreamStep, InvalidateStep
     DEF Client
<1>2. ASSUME llcache_fetch_callback PROVE Structure'
  BY <1>2, HeaderStep, DataStep, FinishedStep, ErrorStep, RedirectStep, NotModifiedStep,
     AuthStep, CertStep, SslStep DEF llcache_fetch_callback
<1>3. ASSUME llcache_object_notify_users PROVE Structure'
  BY <1>3, HeadersDoneStep, HadDataStep, UserIsCurrentStep, NotifyContinuesStep,
     NotifyReplaysStep, NotifyFailsStep DEF llcache_object_notify_users
<1>4. CASE llcache_clean
  BY <1>4, CleanStep
<1>5. CASE Tick
  BY <1>5, TickStep
<1>6. CASE SendContinues \/ SendFails
  BY <1>6, SendContinuesStep, SendFailsStep
<1>7. CASE \E o \in Object, proceed \in BOOLEAN : llcache_query_handle_response(o, proceed)
  BY <1>7, QueryStep
<1>8. CASE llcache_poll \/ NextObject
  BY <1>8, PollStep, NextObjectStep
<1>9. CASE UNCHANGED vars
  BY <1>9, NothingStep
<1> QED BY <1>1, <1>2, <1>3, <1>4, <1>5, <1>6, <1>7, <1>8, <1>9 DEF Next

(* The lists, the candidates and the walk of llcache.c stay in order in every *)
(* reachable state, for any number of objects, handles and URLs.              *)
THEOREM StructureHolds == Spec => []Structure
<1>1. Init => Structure
  BY InitStructure
<1>2. Structure /\ [Next]_vars => Structure'
  BY NextStructure
<1> QED BY <1>1, <1>2, PTL DEF Spec

-----------------------------------------------------------------------------
(* What the invariant says of the cache.                                    *)

(* The cache keeps values in their fields, whatever clients and servers do  *)
(* (llcache.c:44-146).                                                      *)
THEOREM TypesHold == Spec => []TypeOK
<1>1. Structure => TypeOK
  BY DEF Structure, TypeOK, Core, Walk, WalkType, UserType
<1> QED BY <1>1, StructureHolds, PTL

(* Every handle is a user of its object, once, and of no other object, as  *)
(* llcache_object_find_user and llcache_object_remove_user assert          *)
(* (llcache.c:1812, 249), whatever clients do from inside their callbacks. *)
THEOREM UsersHold == Spec => []UsersConsistent
<1>1. ASSUME Structure PROVE UsersConsistent
  <2> SUFFICES ASSUME NEW o \in Object
               PROVE  /\ IsInjective(obj[o].users)
                      /\ ToSet(obj[o].users) =
                           {h \in Handle : user[h].object = o}
                           \cup IF it.dead /\ it.cur = Moved /\ it.at = o THEN {Moved} ELSE {}
                      /\ obj[o].users # <<>> => o \in Live
    BY DEF UsersConsistent
  <2>1. Injective(obj[o].users) /\ ToSet(obj[o].users) = Listed(user, MovedAt, o)
    BY <1>1 DEF Structure, Lists
  <2>2. IsInjective(obj[o].users)
    BY <2>1 DEF Injective, IsInjective
  <2>3. o = MovedAt <=> it.dead /\ it.cur = Moved /\ it.at = o
    BY LLCacheAssumption DEF MovedAt
  <2>4. obj[o].users # <<>> => o \in Live
    BY <1>1, BusyIsLive
  <2> QED BY <2>1, <2>2, <2>3, <2>4 DEF Listed
<1> QED BY <1>1, StructureHolds, PTL

(* The walk over users stands on a user that is still in its list      *)
(* (llcache.c:1911-1934), whatever was released, aborted or retrieved. *)
THEOREM WalkHolds == Spec => []WalkIsSafe
<1>1. Structure => WalkIsSafe
  BY LLCacheAssumption DEF Structure, Walk, WalkIsSafe
<1> QED BY <1>1, StructureHolds, PTL

(* A candidate is allocated, for the same URL, and counted at least as often *)
(* as it is held, so that llcache_clean spares it (llcache.c:2187, 2208).    *)
THEOREM CandidatesHold == Spec => []CandidateIsKept
<1>1. ASSUME Structure PROVE CandidateIsKept
  <2>1. Core(obj, Live)
    BY <1>1 DEF Structure
  <2> HIDE DEF Live
  <2>2. \A o \in Live : obj[o].candidate # NULL =>
          /\ obj[o].candidate \in Live /\ obj[o].candidate # o
          /\ obj[obj[o].candidate].url = obj[o].url /\ obj[o].candidate \in Object
    BY <2>1 DEF Core
  <2>3. \A c \in Object : Cardinality({x \in Live : obj[x].candidate = c}) <= obj[c].count
    BY <2>1 DEF Core, Claims
  <2> QED BY <2>2, <2>3 DEF CandidateIsKept
<1> QED BY <1>1, StructureHolds, PTL

(* DONE is sent when no source data are left that the user was not sent, after *)
(* any moves, copies, replays and streaming (llcache.c:1992-2052).             *)
THEOREM NothingLeftAtDone == Spec => DoneHasAll
<1>1. ASSUME Structure, [Next]_vars
      PROVE  [pc = "notify" /\ pc' = "callback" /\ it'.event = "DONE" =>
                user[it.cur].bytes >= obj[it.at].len]_vars
  <2> SUFFICES ASSUME pc = "notify", pc' = "callback", it'.event = "DONE"
               PROVE  user[it.cur].bytes >= obj[it.at].len
    OBVIOUS
  <2>1. DONE
    <3>1. CASE llcache_object_notify_users
      <4>1. ASSUME HAD_HEADERS PROVE it'.event = "HAD_HEADERS"
        BY <1>1, <4>1 DEF HAD_HEADERS, Structure, Walk, WalkType
      <4>2. ASSUME HAD_DATA PROVE it'.event = "HAD_DATA"
        BY <1>1, <4>2 DEF HAD_DATA, Structure, Walk, WalkType
      <4>3. ~UserIsCurrent
        BY DEF UserIsCurrent
      <4>4. ~NotifyContinues /\ ~NotifyReplays /\ ~NotifyFails
        BY DEF NotifyContinues, NotifyReplays, NotifyFails
      <4> QED BY <3>1, <4>1, <4>2, <4>3, <4>4 DEF llcache_object_notify_users
    <3>2. ~Client
      BY DEF Client, llcache_handle_retrieve, llcache_handle_release, llcache_handle_abort,
             llcache_handle_clone, llcache_handle_force_stream, InEventOf,
             llcache_handle_invalidate_cache_data, ClientRuns
    <3>3. ~llcache_fetch_callback
      BY DEF llcache_fetch_callback, FETCH_HEADER, FETCH_DATA, FETCH_FINISHED, FETCH_ERROR,
             FETCH_PROGRESS, FETCH_REDIRECT, FETCH_NOTMODIFIED, FETCH_AUTH, FETCH_CERT_ERR,
             FETCH_SSL_ERR, Heading, Fetching
    <3>4. ~llcache_clean /\ ~Tick
      BY DEF llcache_clean, Tick
    <3>5. ~SendContinues /\ ~SendFails
      BY DEF SendContinues, SendFails, Sending
    <3>6. ~\E o \in Object, proceed \in BOOLEAN : llcache_query_handle_response(o, proceed)
      BY DEF llcache_query_handle_response
    <3>7. ~NextObject /\ ~llcache_poll
      BY DEF NextObject, llcache_poll, VisitFrom
    <3>8. ~UNCHANGED vars
      BY DEF vars
    <3> QED BY <1>1, <3>1, <3>2, <3>3, <3>4, <3>5, <3>6, <3>7, <3>8 DEF Next
  <2>2. /\ it.cur # NULL /\ ~it.dead /\ Due = "DONE"
        /\ it.stage = "done" => user[it.cur].bytes >= obj[it.at].len
    BY <1>1, <2>1 DEF DONE, Notify, Structure, Walk
  <2>3. it.stage # "done" => ~(obj[it.at].len > user[it.cur].bytes)
    BY <2>2 DEF Due
  <2>4. obj[it.at].len \in Nat /\ user[it.cur].bytes \in Nat
    <3>1. obj[it.at] \in ObjectType /\ user[it.cur] \in UserType
      BY <1>1, <2>2, InWalk
    <3> QED BY <3>1, LLCacheAssumption DEF ObjectType, UserType
  <2> QED BY <2>2, <2>3, <2>4
<1> QED BY <1>1, StructureHolds, PTL DEF Spec, DoneHasAll

-----------------------------------------------------------------------------

(* What is known of each object, allocated or not.  A fetch runs only while *)
(* it is not complete, and none runs while a query is open, so that the     *)
(* answer to the query may start one or complete the object.  An object     *)
(* that was completed by a failure or an abort has no lifetime.  One that   *)
(* is streamed although its request was not forced is a redirected one, or  *)
(* one whose data have begun or whose fetch has ended before.               *)
Fields == {"url", "state", "fetch", "query", "cache", "end", "stream", "force", "redirects"}

Worked(x) ==
  /\ Fields \subseteq DOMAIN x /\ "expiry" \in DOMAIN x.cache
  /\ x.url # NULL /\ x.state # "COMPLETE" => Runs(x) \/ x.query
  /\ Runs(x) => x.state # "COMPLETE" /\ ~x.query
  /\ x.state = "COMPLETE" => x.end # "none"
  /\ x.state = "COMPLETE" /\ x.end \in {"failed", "aborted"} => x.cache.expiry = 0
  /\ x.query => x.state # "DATA"
  /\ x.stream /\ ~x.force /\ x.state \in {"INIT", "HEADERS"}
       => x.redirects # 0 \/ x.end # "none"

(* Of the cached objects only the redirected are streamed. *)
AllWorked(ob) ==
  /\ DOMAIN ob = Object
  /\ \A o \in Object : Worked(ob[o]) /\ (o \in ToSet(cached) /\ ob[o].stream => ob[o].redirects # 0)

IInv == AllWorked(obj)

-----------------------------------------------------------------------------
LEMMA NewObject ==
  ASSUME NEW u
  PROVE  LET x == llcache_object_new(u)
         IN  /\ x.url = u /\ x.state = "INIT" /\ x.fetch = "none" /\ x.query = FALSE
             /\ x.cache = Invalid /\ x.end = "none" /\ x.stream = FALSE /\ x.force = FALSE
             /\ Fields \subseteq DOMAIN x
BY DEF llcache_object_new, Fields

LEMMA NoLifetime == Invalid.expiry = 0 /\ "expiry" \in DOMAIN Invalid
BY DEF Invalid

LEMMA FreeWorked == Worked(Free) /\ Free.stream = FALSE
BY NewObject, NoLifetime DEF Free, Worked, Runs

LEMMA ReplaceOne ==
  ASSUME NEW ob, AllWorked(ob), NEW o, NEW x, Worked(x),
         o \in ToSet(cached) /\ x.stream => ob[o].stream /\ x.redirects = ob[o].redirects
  PROVE  AllWorked([ob EXCEPT ![o] = x])
BY DEF AllWorked

LEMMA ReleaseWorked ==
  ASSUME IInv, NEW o \in Object
  PROVE  AllWorked(ReleaseCandidate(o))
<1> DEFINE c == obj[o].candidate
           n == obj[c].count - 1
<1>1. ReleaseCandidate(o) = obj \/
      ReleaseCandidate(o) = [obj EXCEPT ![c].count = n, ![o].candidate = NULL]
  BY DEF ReleaseCandidate
<1> HIDE DEF c, n
<1> QED BY <1>1 DEF IInv, AllWorked, Worked, Fields, Runs

(* The fields of an object that is fetched anew. *)
LEMMA RefetchFields ==
  ASSUME NEW x, Fields \subseteq DOMAIN x, NEW condition
  PROVE  LET y == llcache_object_refetch(x, condition)
         IN  /\ y.state = "INIT" /\ y.fetch = condition /\ y.query = x.query
             /\ y.url = x.url /\ y.end = x.end /\ y.stream = x.stream /\ y.force = x.force
             /\ y.redirects = x.redirects
             /\ Fields \subseteq DOMAIN y /\ "expiry" \in DOMAIN y.cache
BY DEF llcache_object_refetch, Fields, Invalid

LEMMA SnapshotWorked ==
  ASSUME NEW x, NEW h
  PROVE  Worked(llcache_object_snapshot(x, h)) /\ llcache_object_snapshot(x, h).stream = FALSE
<1> DEFINE new == llcache_object_new(x.url)
           copy == [new EXCEPT !.users = <<h>>, !.len = x.len, !.state = "COMPLETE",
                               !.end = "aborted"]
<1>1. /\ new.fetch = "none" /\ new.query = FALSE /\ new.cache = Invalid /\ new.stream = FALSE
      /\ Fields \subseteq DOMAIN new
  BY NewObject
<1> HIDE DEF new
<1>2. /\ copy.state = "COMPLETE" /\ copy.fetch = "none" /\ copy.query = FALSE
      /\ copy.cache = Invalid /\ copy.end = "aborted" /\ copy.stream = FALSE
      /\ Fields \subseteq DOMAIN copy
  BY <1>1 DEF Fields
<1>3. Worked(copy)
  BY <1>2, NoLifetime DEF Worked, Runs
<1> QED BY <1>2, <1>3 DEF llcache_object_snapshot, new

LEMMA SendWorked ==
  ASSUME NEW ob, AllWorked(ob), NEW o, NEW event,
         llcache_send_event_to_users(ob, o, event)
  PROVE  IInv'
BY DEF llcache_send_event_to_users, IInv, AllWorked, lists

LEMMA OnlyWorked ==
  ASSUME NEW ob, AllWorked(ob), Only(ob)
  PROVE  IInv'
BY DEF Only, IInv, AllWorked, lists

LEMMA DropWorked == IInv => AllWorked(DropUser)
BY DEF DropUser, IInv, AllWorked, Worked, Fields, Runs

LEMMA RetrieveWorked ==
  ASSUME NEW ob, AllWorked(ob), cached \in Seq(Object), NEW us, NEW u, NEW force, NEW stream,
         NEW redirects, stream /\ ~force => redirects # 0,
         llcache_object_retrieve(ob, us, u, force, stream, redirects)
  PROVE  IInv'
<1> DEFINE c == IF force THEN NULL ELSE Newest(ob, u)
           new == [llcache_object_new(u) EXCEPT
                     !.users = AddUsers(us, <<>>), !.candidate = c,
                     !.force = force, !.stream = stream, !.redirects = redirects]
           condition == IF c # NULL /\ ob[c].cache.dated THEN "conditional" ELSE "plain"
           fetched == llcache_object_refetch(new, condition)
<1>1. CASE obj' = [ob EXCEPT ![c].users = AddUsers(us, @)] /\ UNCHANGED lists
  <2> HIDE DEF c
  <2> QED BY <1>1 DEF IInv, AllWorked, Worked, Fields, Runs, lists
<1>2. CASE \E o \in Object \ Live :
             /\ obj' = [x \in Object |-> IF x = o THEN fetched
                                        ELSE IF x = c THEN [ob[x] EXCEPT !.count = @ + 1]
                                        ELSE ob[x]]
             /\ IF force
                THEN uncached' = Cons(o, uncached) /\ UNCHANGED cached
                ELSE cached' = Cons(o, cached) /\ UNCHANGED uncached
  <2>1. /\ Worked(fetched) /\ fetched.stream = stream /\ fetched.redirects = redirects
    <3> HIDE DEF c
    <3>1. /\ new.url = u /\ new.state = "INIT" /\ new.fetch = "none" /\ new.query = FALSE
          /\ new.stream = stream /\ new.force = force /\ new.redirects = redirects
          /\ Fields \subseteq DOMAIN new
      BY NewObject DEF Fields
    <3>2. condition \in {"plain", "conditional"}
      OBVIOUS
    <3> HIDE DEF new, condition
    <3>3. /\ fetched.state = "INIT" /\ fetched.fetch = condition /\ fetched.query = FALSE
          /\ fetched.stream = stream /\ fetched.force = force /\ fetched.redirects = redirects
          /\ Fields \subseteq DOMAIN fetched /\ "expiry" \in DOMAIN fetched.cache
      BY <3>1, RefetchFields
    <3> QED BY <3>2, <3>3 DEF Worked, Runs
  <2> HIDE DEF fetched, c
  <2>2. PICK o \in Object \ Live :
           /\ obj' = [x \in Object |-> IF x = o THEN fetched
                                      ELSE IF x = c THEN [ob[x] EXCEPT !.count = @ + 1]
                                      ELSE ob[x]]
           /\ IF force
              THEN uncached' = Cons(o, uncached) /\ UNCHANGED cached
              ELSE cached' = Cons(o, cached) /\ UNCHANGED uncached
    BY <1>2
  <2>3. \A x \in Object :
          LET y == [ob[x] EXCEPT !.count = @ + 1]
          IN  Worked(y) /\ Worked(ob[x]) /\ y.stream = ob[x].stream /\ y.redirects = ob[x].redirects
    BY DEF AllWorked, Worked, Fields, Runs
  <2>4. /\ o \notin ToSet(cached)
        /\ ToSet(cached') \subseteq ToSet(cached) \cup {o}
        /\ o \in ToSet(cached') => ~force
    <3>1. ToSet(Cons(o, cached)) = ToSet(cached) \cup {o}
      BY ConsProperties
    <3> QED BY <2>2, <3>1 DEF Live
  <2>5. \A x \in Object : obj'[x] = IF x = o THEN fetched
                                    ELSE IF x = c THEN [ob[x] EXCEPT !.count = @ + 1] ELSE ob[x]
    BY <2>2
  <2>6. DOMAIN obj' = Object
    BY <2>2
  <2>7. \A x \in Object : Worked(obj'[x])
    BY <2>1, <2>3, <2>5
  <2>8. ASSUME NEW x \in Object, x \in ToSet(cached'), obj'[x].stream
        PROVE  obj'[x].redirects # 0
    <3>1. CASE x = o
      BY <2>1, <2>4, <2>5, <2>8, <3>1
    <3>2. CASE x # o
      <4>1. x \in ToSet(cached)
        BY <2>4, <2>8, <3>2
      <4>2. obj'[x].stream = ob[x].stream /\ obj'[x].redirects = ob[x].redirects
        BY <2>3, <2>5, <3>2
      <4> QED BY <2>8, <4>1, <4>2 DEF AllWorked
    <3> QED BY <3>1, <3>2
  <2> QED BY <2>6, <2>7, <2>8 DEF IInv, AllWorked, Worked, Runs
<1> QED BY <1>1, <1>2 DEF llcache_object_retrieve

-----------------------------------------------------------------------------
(* An event of its own is sent to a user only when the object has data or   *)
(* is complete, and nothing a client does in it starts the object again.   *)
Body == {"DATA", "COMPLETE"}

Seen ==
  /\ it.at # NULL /\ it.os \in Body => obj[it.at].state \in Body
  /\ pc = "callback" /\ it.event \in {"HAD_HEADERS", "HAD_DATA", "DONE"}
       => it.at # NULL /\ it.os \in Body

LEMMA DropKeepsState ==
  ASSUME Structure, NEW o \in Object
  PROVE  DropUser[o].state = obj[o].state
<1>1. obj \in [Object -> ObjectType] /\ obj[o] \in ObjectType
  BY Basics
<1> QED BY <1>1 DEF DropUser, ObjectType

LEMMA ClientSeen ==
  ASSUME Structure, Seen, NEW h \in Handle,
         \/ \E u \in Url : llcache_handle_retrieve(h, u)
         \/ llcache_handle_release(h)
         \/ llcache_handle_abort(h)
         \/ \E new \in Handle : llcache_handle_clone(h, new)
         \/ llcache_handle_force_stream(h)
         \/ llcache_handle_invalidate_cache_data(h)
  PROVE  Seen'
<1> DEFINE o == user[h].object
           Keeps == \A p \in Live : obj[p].state \in Body => obj'[p].state \in Body
<1>1. /\ DOMAIN obj = Object /\ \A p \in Object : {"state", "users", "stream"} \subseteq DOMAIN obj[p]
      /\ Live \subseteq Object
  BY Basics DEF Structure, Walk, ObjectType
<1>0. Live \subseteq Object
  BY <1>1
<1>2. pc' = pc /\ it'.at = it.at /\ it'.os = it.os /\ it'.event = it.event
  <2>1. pc' = pc /\ (\/ it' = it \/ it' = [it EXCEPT !.dead = TRUE]
                     \/ it' = [it EXCEPT !.cur = Moved, !.dead = TRUE])
    BY DEF llcache_handle_retrieve, llcache_handle_release, llcache_handle_abort,
           llcache_handle_clone, llcache_handle_force_stream,
           llcache_handle_invalidate_cache_data
  <2>2. it \in WalkType
    BY DEF Structure, Walk
  <2> QED BY <2>1, <2>2 DEF WalkType
<1>3. ASSUME NEW u \in Url, llcache_handle_retrieve(h, u)
      PROVE  Keeps
  <2>1. PICK force \in BOOLEAN, stream \in BOOLEAN :
          llcache_object_retrieve(obj, <<h>>, u, force, stream, 0)
    BY <1>3 DEF llcache_handle_retrieve
  <2> DEFINE c == IF force THEN NULL ELSE Newest(obj, u)
             new == [llcache_object_new(u) EXCEPT
                       !.users = AddUsers(<<h>>, <<>>), !.candidate = c,
                       !.force = force, !.stream = stream, !.redirects = 0]
             condition == IF c # NULL /\ obj[c].cache.dated THEN "conditional" ELSE "plain"
             fetched == llcache_object_refetch(new, condition)
             us == AddUsers(<<h>>, obj[c].users)
  <2>2. \/ obj' = [obj EXCEPT ![c].users = us]
        \/ \E n \in Object \ Live :
             obj' = [y \in Object |-> IF y = n THEN fetched
                                     ELSE IF y = c THEN [obj[y] EXCEPT !.count = @ + 1]
                                     ELSE obj[y]]
    BY <2>1 DEF llcache_object_retrieve
  <2> HIDE DEF c, fetched, us
  <2>3. CASE obj' = [obj EXCEPT ![c].users = us]
    BY <1>1, <2>3
  <2>4. ASSUME NEW n \in Object \ Live,
               obj' = [y \in Object |-> IF y = n THEN fetched
                                       ELSE IF y = c THEN [obj[y] EXCEPT !.count = @ + 1]
                                       ELSE obj[y]]
        PROVE  Keeps
    <3>1. \A p \in Object : [obj[p] EXCEPT !.count = @ + 1].state = obj[p].state
      BY <1>1
    <3>2. \A p \in Live : obj'[p] = IF p = c THEN [obj[p] EXCEPT !.count = @ + 1] ELSE obj[p]
      BY <1>0, <2>4
    <3>3. \A p \in Live : obj'[p].state = obj[p].state
      BY <1>0, <3>1, <3>2
    <3> QED BY <3>3
  <2> QED BY <2>2, <2>3, <2>4
<1>4. ASSUME llcache_handle_abort(h) PROVE Keeps
  <2> DEFINE copy == llcache_object_snapshot(obj[o], h)
  <2>1. \/ obj' = [obj EXCEPT ![o] = Aborted(@)]
        \/ \E n \in Object \ Live : \E us : obj' = [obj EXCEPT ![o].users = us, ![n] = copy]
    BY <1>4 DEF llcache_handle_abort
  <2> HIDE DEF copy, o
  <2>2. CASE obj' = [obj EXCEPT ![o] = Aborted(@)]
    <3>1. \A p \in Object : Aborted(obj[p]).state = "COMPLETE"
      BY <1>1 DEF Aborted
    <3> QED BY <1>1, <2>2, <3>1 DEF Body
  <2>3. CASE \E n \in Object \ Live : \E us : obj' = [obj EXCEPT ![o].users = us, ![n] = copy]
    <3>1. PICK n \in Object \ Live : \E us : obj' = [obj EXCEPT ![o].users = us, ![n] = copy]
      BY <2>3
    <3>2. PICK us : obj' = [obj EXCEPT ![o].users = us, ![n] = copy]
      BY <3>1
    <3>3. \A p \in Object : [obj[p] EXCEPT !.users = us].state = obj[p].state
      BY <1>1
    <3>4. ASSUME NEW p \in Live PROVE obj'[p].state = obj[p].state
      <4>1. p \in Object /\ p # n
        BY <1>0
      <4>2. obj'[p] = IF p = o THEN [obj[p] EXCEPT !.users = us] ELSE obj[p]
        BY <1>1, <3>2, <4>1
      <4> QED BY <3>3, <4>1, <4>2
    <3> QED BY <3>4
  <2> QED BY <2>1, <2>2, <2>3
<1>5. ASSUME \/ llcache_handle_release(h)
             \/ \E new \in Handle : llcache_handle_clone(h, new)
             \/ llcache_handle_force_stream(h)
             \/ llcache_handle_invalidate_cache_data(h)
      PROVE  Keeps
  <2>1. \/ obj' = obj \/ \E us : obj' = [obj EXCEPT ![o].users = us]
        \/ obj' = [obj EXCEPT ![o].stream = TRUE]
        \/ obj' = [obj EXCEPT ![o].cache.no_cache = "ONCE"]
    BY <1>5 DEF llcache_handle_release, llcache_handle_clone, llcache_handle_force_stream,
                llcache_handle_invalidate_cache_data
  <2> HIDE DEF o
  <2>2. CASE \E us : obj' = [obj EXCEPT ![o].users = us]
    BY <1>1, <2>2
  <2>3. CASE obj' = [obj EXCEPT ![o].stream = TRUE]
    BY <1>1, <2>3
  <2>4. CASE obj' = [obj EXCEPT ![o].cache.no_cache = "ONCE"]
    BY <1>1, <2>4
  <2> QED BY <2>1, <2>2, <2>3, <2>4
<1>6. Keeps
  BY <1>3, <1>4, <1>5
<1>7. it'.at # NULL /\ it'.os \in Body => obj'[it'.at].state \in Body
  <2> SUFFICES ASSUME it'.at # NULL, it'.os \in Body PROVE obj'[it.at].state \in Body
    BY <1>2
  <2>1. it.at # NULL /\ it.os \in Body
    BY <1>2
  <2>2. it.at \in Live /\ obj[it.at].state \in Body
    BY <2>1 DEF Seen, Structure, Walk
  <2> HIDE DEF o
  <2> QED BY <1>6, <2>2
<1> QED BY <1>2, <1>7 DEF Seen

(* The messages and answers begin outside of walks, and tell all users. *)
LEMMA MessageSeen ==
  ASSUME Structure,
         \/ llcache_clean \/ Tick \/ llcache_fetch_callback
         \/ \E o \in Object, proceed \in BOOLEAN : llcache_query_handle_response(o, proceed)
  PROVE  Seen'
<1> DEFINE Sent == \/ UNCHANGED <<pc, it>>
                   \/ \E ob, o : \E event \in {"PROGRESS", "ERROR"} :
                        llcache_send_event_to_users(ob, o, event)
<1>a. pc = "gui" /\ Sent
  <2>1. CASE llcache_clean \/ Tick
    BY <2>1 DEF llcache_clean, Tick
  <2>2. ASSUME NEW o \in Object, NEW proceed \in BOOLEAN,
               llcache_query_handle_response(o, proceed)
        PROVE  pc = "gui" /\ Sent
    BY <2>2 DEF llcache_query_handle_response, Only
  <2>3. ASSUME NEW o \in Object, FETCH_HEADER(o) \/ FETCH_DATA(o) \/ FETCH_FINISHED(o)
        PROVE  pc = "gui" /\ Sent
    <3>1. CASE FETCH_HEADER(o)
      BY <3>1 DEF FETCH_HEADER, Only, Heading, Fetching
    <3>2. CASE FETCH_DATA(o)
      BY <3>2 DEF FETCH_DATA, Only, Fetching
    <3>3. CASE FETCH_FINISHED(o)
      BY <3>3 DEF FETCH_FINISHED, Only, Fetching
    <3> QED BY <2>3, <3>1, <3>2, <3>3
  <2>4. ASSUME NEW o \in Object, FETCH_ERROR(o) \/ FETCH_PROGRESS(o) \/ FETCH_REDIRECT(o)
        PROVE  pc = "gui" /\ Sent
    <3>1. CASE FETCH_ERROR(o)
      BY <3>1 DEF FETCH_ERROR, Fetching
    <3>2. CASE FETCH_PROGRESS(o)
      BY <3>2 DEF FETCH_PROGRESS, Fetching
    <3>3. CASE FETCH_REDIRECT(o)
      <4>1. pc = "gui"
        BY <3>3 DEF FETCH_REDIRECT, Heading, Fetching
      <4>2. Sent
        BY <3>3 DEF FETCH_REDIRECT, Only
      <4> QED BY <4>1, <4>2
    <3> QED BY <2>4, <3>1, <3>2, <3>3
  <2>5. ASSUME NEW o \in Object, FETCH_NOTMODIFIED(o)
        PROVE  pc = "gui" /\ Sent
    BY <2>5, ZenonT(60) DEF FETCH_NOTMODIFIED, Heading, Fetching
  <2>6. ASSUME NEW o \in Object, FETCH_AUTH(o) \/ FETCH_CERT_ERR(o) \/ FETCH_SSL_ERR(o)
        PROVE  pc = "gui" /\ Sent
    <3>1. CASE FETCH_AUTH(o)
      BY <3>1 DEF FETCH_AUTH, Only, Heading, Fetching
    <3>2. CASE FETCH_CERT_ERR(o)
      BY <3>2 DEF FETCH_CERT_ERR, Only, Heading, Fetching
    <3>3. CASE FETCH_SSL_ERR(o)
      BY <3>3 DEF FETCH_SSL_ERR, Only, Heading, Fetching
    <3> QED BY <2>6, <3>1, <3>2, <3>3
  <2> HIDE DEF Sent
  <2> QED BY <2>1, <2>2, <2>3, <2>4, <2>5, <2>6 DEF llcache_fetch_callback
<1>1. pc = "gui" /\ it.at = NULL
  BY <1>a DEF Structure, Walk
<1>2. \/ UNCHANGED <<pc, it>>
      \/ \E ob, o : \E event \in {"PROGRESS", "ERROR"} : llcache_send_event_to_users(ob, o, event)
  BY <1>a
<1> HIDE DEF Sent
<1>3. CASE UNCHANGED <<pc, it>>
  BY <1>1, <1>3 DEF Seen
<1>4. ASSUME NEW ob, NEW o, NEW event \in {"PROGRESS", "ERROR"},
             llcache_send_event_to_users(ob, o, event)
      PROVE  Seen'
  <2>1. \/ UNCHANGED <<pc, it>>
        \/ \E u : it' = [NoWalk EXCEPT !.at = o, !.cur = u, !.event = event]
    BY <1>4 DEF llcache_send_event_to_users
  <2>2. CASE \E u : it' = [NoWalk EXCEPT !.at = o, !.cur = u, !.event = event]
    <3>1. it'.os = "INIT" /\ it'.event = event
      BY <2>2 DEF NoWalk
    <3> QED BY <1>4, <3>1 DEF Seen, Body
  <2> QED BY <1>3, <2>1, <2>2
<1> QED BY <1>2, <1>3, <1>4

(* The walk takes the state of an object as it is when a visit begins. *)
LEMMA WalkSeen ==
  ASSUME Structure, Seen,
         \/ SendContinues \/ SendFails \/ llcache_poll \/ NextObject
         \/ llcache_object_notify_users \/ UNCHANGED vars
  PROVE  Seen'
<1>1. /\ it \in WalkType /\ NULL \notin Object /\ Live \subseteq Object
      /\ \A o \in Object : DropUser[o].state = obj[o].state
      /\ pc \in {"notify", "callback"} => it.at \in Object
      /\ it.at # NULL => it.at \in Object
  BY Basics, DropKeepsState DEF Structure, Walk
<1>2. ASSUME NEW u, it' = [Visit(it.at, it.loop) EXCEPT !.cur = u], it.at \in Object,
             pc' = "notify", obj' = obj \/ obj' = DropUser
      PROVE  Seen'
  <2>1. it'.at = it.at /\ it'.os = obj[it.at].state
    BY <1>2 DEF Visit, NoWalk
  <2> QED BY <1>1, <1>2, <2>1 DEF Seen
<1>3. CASE SendContinues
  <2>1. obj' = DropUser
        /\ \/ it' = NoWalk /\ pc' = "gui"
           \/ UNCHANGED pc /\ \E next : it' = [it EXCEPT !.cur = next, !.dead = FALSE]
    BY <1>3 DEF SendContinues
  <2>2. CASE it' = NoWalk /\ pc' = "gui"
    BY <2>2 DEF Seen, NoWalk
  <2>3. CASE UNCHANGED pc /\ \E next : it' = [it EXCEPT !.cur = next, !.dead = FALSE]
    <3>1. it'.at = it.at /\ it'.os = it.os /\ it'.event = it.event /\ pc' = pc
      BY <1>1, <2>3 DEF WalkType
    <3> QED BY <1>1, <2>1, <3>1 DEF Seen
  <2> QED BY <2>1, <2>2, <2>3
<1>4. CASE SendFails
  BY <1>4 DEF SendFails, Seen, NoWalk
<1>5. ASSUME NEW o, NEW l, VisitFrom(o, l), obj' = obj
      PROVE  Seen'
  <2>1. \/ it' = NoWalk /\ pc' = "gui"
        \/ pc' = "notify" /\ \E p, k : it' = Visit(p, k)
    BY <1>5 DEF VisitFrom
  <2>2. CASE it' = NoWalk /\ pc' = "gui"
    BY <2>2 DEF Seen, NoWalk
  <2>3. ASSUME NEW p, NEW k, it' = Visit(p, k), pc' = "notify" PROVE Seen'
    <3>1. it'.at = p /\ it'.os = obj[p].state
      BY <2>3 DEF Visit, NoWalk
    <3> QED BY <1>5, <2>3, <3>1 DEF Seen
  <2> QED BY <2>1, <2>2, <2>3
<1>6. CASE llcache_poll \/ NextObject
  BY <1>5, <1>6 DEF llcache_poll, NextObject
<1>7. ASSUME NEW event, Notify(event), event # "none",
             \E s, d : it' = [it EXCEPT !.event = event, !.stage = s, !.orig = d],
             \/ obj' = obj \/ \E n : obj' = [obj EXCEPT ![it.at].len = n]
      PROVE  Seen'
  <2>1. pc = "notify" /\ it.at \in Object /\ it.os \in Body
    BY <1>1, <1>7 DEF Notify, Due, Body
  <2>2. it'.at = it.at /\ it'.os = it.os
    BY <1>1, <1>7 DEF WalkType
  <2>3. obj'[it.at].state = obj[it.at].state
    <3>1. DOMAIN obj = Object /\ "state" \in DOMAIN obj[it.at]
      BY <2>1, Basics DEF ObjectType
    <3> QED BY <1>7, <2>1, <3>1
  <2> QED BY <1>1, <2>1, <2>2, <2>3 DEF Seen
<1>8. CASE HAD_HEADERS \/ HAD_DATA \/ DONE
  <2>1. it.orig = it.orig /\ it = [it EXCEPT !.orig = @]
    BY <1>1 DEF WalkType
  <2>2. CASE HAD_HEADERS
    <3>1. it' = [it EXCEPT !.event = "HAD_HEADERS", !.stage = "data", !.orig = it.orig]
      BY <1>1, <2>2 DEF HAD_HEADERS, WalkType
    <3> QED BY <1>7, <2>2, <3>1 DEF HAD_HEADERS
  <2>3. CASE HAD_DATA
    <3>1. \E n : obj' = [obj EXCEPT ![it.at].len = n]
      BY <2>3 DEF HAD_DATA
    <3>2. \E d : it' = [it EXCEPT !.event = "HAD_DATA", !.stage = "done", !.orig = d]
      BY <2>3 DEF HAD_DATA
    <3>3. Notify("HAD_DATA")
      BY <2>3 DEF HAD_DATA
    <3> QED BY <1>7, <3>1, <3>2, <3>3
  <2>4. CASE DONE
    <3>1. it' = [it EXCEPT !.event = "DONE", !.stage = "end", !.orig = it.orig]
      BY <1>1, <2>4 DEF DONE, WalkType
    <3> QED BY <1>7, <2>4, <3>1 DEF DONE
  <2> QED BY <1>8, <2>2, <2>3, <2>4
<1>9. CASE UserIsCurrent \/ NotifyReplays \/ NotifyFails
  <2>1. pc' = "notify" /\ it.at \in Object /\ (obj' = obj \/ obj' = DropUser)
        /\ \E u : it' = [Visit(it.at, it.loop) EXCEPT !.cur = u]
    BY <1>1, <1>9 DEF UserIsCurrent, NotifyReplays, NotifyFails, GoTo, Notifying
  <2> QED BY <1>2, <2>1
<1>10. CASE NotifyContinues
  <2>1. pc' = "notify" /\ it.at \in Object /\ obj' = DropUser
        /\ \/ \E u : it' = [Visit(it.at, it.loop) EXCEPT !.cur = u]
           \/ it' = [it EXCEPT !.event = "none", !.orig = 0]
    BY <1>1, <1>10 DEF NotifyContinues, GoTo, Notifying
  <2>2. CASE it' = [it EXCEPT !.event = "none", !.orig = 0]
    <3>1. it'.at = it.at /\ it'.os = it.os
      BY <1>1, <2>2 DEF WalkType
    <3> QED BY <1>1, <2>1, <3>1 DEF Seen
  <2> QED BY <1>2, <2>1, <2>2
<1>11. CASE UNCHANGED vars
  BY <1>11 DEF vars, Seen
<1> QED BY <1>3, <1>4, <1>6, <1>8, <1>9, <1>10, <1>11 DEF llcache_object_notify_users

LEMMA StepSeen == Structure /\ Seen /\ [Next]_vars => Seen'
<1> SUFFICES ASSUME Structure, Seen, [Next]_vars PROVE Seen'
  OBVIOUS
<1>1. CASE Client
  BY <1>1, ClientSeen DEF Client
<1>2. CASE \/ llcache_clean \/ Tick \/ llcache_fetch_callback
           \/ \E o \in Object, proceed \in BOOLEAN : llcache_query_handle_response(o, proceed)
  BY <1>2, MessageSeen
<1>3. CASE \/ SendContinues \/ SendFails \/ llcache_poll \/ NextObject
           \/ llcache_object_notify_users \/ UNCHANGED vars
  BY <1>3, WalkSeen
<1> QED BY <1>1, <1>2, <1>3 DEF Next

-----------------------------------------------------------------------------
(* A field that matters not is changed. *)
LEMMA PatchWorked ==
  ASSUME IInv, NEW o, NEW v
  PROVE  /\ AllWorked([obj EXCEPT ![o].users = v]) /\ AllWorked([obj EXCEPT ![o].len = v])
         /\ AllWorked([obj EXCEPT ![o].cache.no_cache = v])
BY DEF IInv, AllWorked, Worked, Fields, Runs

LEMMA AbortWorked ==
  ASSUME NEW x, Worked(x)
  PROVE  LET y == Aborted(x)
         IN  Worked(y) /\ y.stream = x.stream /\ y.redirects = x.redirects
<1> DEFINE y == Aborted(x)
<1>1. /\ y.state = "COMPLETE" /\ y.cache = Invalid /\ ~Runs(y)
      /\ y.stream = x.stream /\ y.redirects = x.redirects /\ y.force = x.force
      /\ y.url = x.url /\ y.query = x.query /\ Fields \subseteq DOMAIN y
      /\ y.end = IF x.state = "COMPLETE" THEN x.end ELSE "aborted"
  BY DEF Aborted, Worked, Fields, Runs
<1> HIDE DEF y
<1>2. Worked(y)
  BY <1>1, NoLifetime DEF Worked
<1> QED BY <1>1, <1>2 DEF y

(* What clients do. *)
LEMMA ClientWorked ==
  ASSUME IInv, Structure, Seen, Client
  PROVE  IInv'
<1> PICK h \in Handle :
      \/ \E u \in Url : llcache_handle_retrieve(h, u)
      \/ llcache_handle_release(h)
      \/ llcache_handle_abort(h)
      \/ \E new \in Handle : llcache_handle_clone(h, new)
      \/ llcache_handle_force_stream(h)
      \/ llcache_handle_invalidate_cache_data(h)
  BY DEF Client
<1> DEFINE o == user[h].object
<1>a. ASSUME NEW ob, AllWorked(ob), obj' = ob, UNCHANGED cached
      PROVE  IInv'
  BY <1>a DEF IInv, AllWorked
<1>b. cached \in Seq(Object)
  BY DEF Structure
<1>1. ASSUME NEW u \in Url, llcache_handle_retrieve(h, u)
      PROVE  IInv'
  <2>1. PICK force \in BOOLEAN, stream \in BOOLEAN :
          (stream => force) /\ llcache_object_retrieve(obj, <<h>>, u, force, stream, 0)
    BY <1>1 DEF llcache_handle_retrieve
  <2> QED BY <1>b, <2>1, RetrieveWorked DEF IInv
<1>2. CASE llcache_handle_release(h)
  <2>1. UNCHANGED cached /\ (obj' = obj \/ obj' = [obj EXCEPT ![o].users = RemoveFirst(@, h)])
    BY <1>2 DEF llcache_handle_release, lists
  <2> HIDE DEF o
  <2> QED BY <1>a, <2>1, PatchWorked DEF IInv
<1>3. CASE llcache_handle_abort(h)
  <2> DEFINE copy == llcache_object_snapshot(obj[o], h)
  <2>0. UNCHANGED cached
    BY <1>3 DEF llcache_handle_abort, lists
  <2>1. CASE obj' = [obj EXCEPT ![o] = Aborted(@)]
    <3>1. o \in Object
      BY <1>3, UsedIsLive, Basics DEF llcache_handle_abort, Owned
    <3> HIDE DEF o
    <3>2. Worked(obj[o])
      BY <3>1 DEF IInv, AllWorked
    <3>3. AllWorked([obj EXCEPT ![o] = Aborted(obj[o])])
      BY <3>2, AbortWorked, ReplaceOne DEF IInv
    <3> QED BY <1>a, <2>0, <2>1, <3>3 DEF IInv
  <2>2. CASE \E n \in Object \ Live : \E us : obj' = [obj EXCEPT ![o].users = us, ![n] = copy]
    <3>1. Worked(copy) /\ copy.stream = FALSE
      BY SnapshotWorked
    <3> HIDE DEF copy, o
    <3>2. PICK n \in Object \ Live : \E us : obj' = [obj EXCEPT ![o].users = us, ![n] = copy]
      BY <2>2
    <3>3. PICK us : obj' = [obj EXCEPT ![o].users = us, ![n] = copy]
      BY <3>2
    <3>4. AllWorked([obj EXCEPT ![o].users = us])
      BY PatchWorked
    <3> QED BY <1>a, <2>0, <3>1, <3>4, <3>3, ReplaceOne
  <2> QED BY <1>3, <2>1, <2>2 DEF llcache_handle_abort
<1>4. CASE \E new \in Handle : llcache_handle_clone(h, new)
  <2>1. UNCHANGED cached /\ \E us : obj' = [obj EXCEPT ![o].users = us]
    BY <1>4 DEF llcache_handle_clone, lists
  <2> HIDE DEF o
  <2> QED BY <1>a, <2>1, PatchWorked
<1>5. CASE llcache_handle_force_stream(h)
  <2> DEFINE x == [obj[o] EXCEPT !.stream = TRUE]
  <2>1. /\ obj' = [obj EXCEPT ![o] = x] /\ InEventOf(h)
        /\ IF o \in ToSet(cached) THEN cached' = RemoveFirst(cached, o) ELSE UNCHANGED cached
    BY <1>5 DEF llcache_handle_force_stream, lists
  <2>2. o \in Object /\ it.at = o
    <3>1. user[h].object \in Live
      BY <2>1, UsedIsLive DEF InEventOf, Owned
    <3>2. it.at # NULL /\ h \in ToSet(obj[it.at].users) /\ it.at \in Object
      BY <2>1, Basics DEF InEventOf, Structure, Walk
    <3> QED BY <3>1, <3>2, Basics
  <2>3. obj[o].state \in Body
    BY <2>1, <2>2 DEF Seen, InEventOf
  <2>4. ToSet(cached') = ToSet(cached) \ {o}
    <3>1. cached \in Seq(Object) /\ Injective(cached)
      BY DEF Structure
    <3>2. o \in ToSet(cached) => ToSet(RemoveFirst(cached, o)) = ToSet(cached) \ {o}
      BY <3>1, RemoveFirstProperties
    <3> QED BY <2>1, <3>2
  <2> HIDE DEF o
  <2>5. Worked(x)
    <3>1. Worked(obj[o])
      BY <2>2 DEF IInv, AllWorked
    <3> QED BY <2>3, <3>1 DEF Worked, Fields, Runs, Body
  <2> HIDE DEF x
  <2> QED BY <2>1, <2>2, <2>4, <2>5 DEF IInv, AllWorked
<1>6. CASE llcache_handle_invalidate_cache_data(h)
  <2>1. UNCHANGED cached /\ obj' = [obj EXCEPT ![o].cache.no_cache = "ONCE"]
    BY <1>6 DEF llcache_handle_invalidate_cache_data, lists
  <2> HIDE DEF o
  <2> QED BY <1>a, <2>1, PatchWorked
<1> QED BY <1>1, <1>2, <1>3, <1>4, <1>5, <1>6

-----------------------------------------------------------------------------
(* The messages of fetches. *)
LEMMA MessageWorked ==
  ASSUME IInv, Structure, llcache_fetch_callback
  PROVE  IInv'
<1> PICK o \in Object :
      \/ FETCH_HEADER(o) \/ FETCH_DATA(o) \/ FETCH_FINISHED(o)
      \/ FETCH_ERROR(o) \/ FETCH_PROGRESS(o) \/ FETCH_REDIRECT(o)
      \/ FETCH_NOTMODIFIED(o) \/ FETCH_AUTH(o) \/ FETCH_CERT_ERR(o)
      \/ FETCH_SSL_ERR(o)
  BY DEF llcache_fetch_callback
<1> DEFINE released == ReleaseCandidate(o)
<1>a. AllWorked(released)
  BY ReleaseWorked
<1>f. /\ Worked(obj[o]) /\ Worked(released[o])
      /\ released[o].state = obj[o].state /\ released[o].fetch = obj[o].fetch
      /\ released[o].stream = obj[o].stream /\ released[o].force = obj[o].force
      /\ released[o].redirects = obj[o].redirects /\ released[o].end = obj[o].end
      /\ released[o].query = obj[o].query /\ released[o].url = obj[o].url
  <2>1. Worked(obj[o]) /\ Worked(released[o])
    BY <1>a DEF IInv, AllWorked
  <2> DEFINE c == obj[o].candidate
             n == obj[c].count - 1
  <2>2. released = obj \/ released = [obj EXCEPT ![c].count = n, ![o].candidate = NULL]
    BY DEF ReleaseCandidate
  <2> HIDE DEF c, n, released
  <2> QED BY <2>1, <2>2 DEF IInv, AllWorked, Worked, Fields
<1>1. CASE FETCH_HEADER(o)
  <2>1. PICK no_cache, expiry :
          Only([obj EXCEPT ![o].state = "HEADERS", ![o].cache.no_cache = no_cache,
                           ![o].cache.expiry = expiry, ![o].cache.dated = TRUE])
    BY <1>1, Zenon DEF FETCH_HEADER
  <2> DEFINE cache == [obj[o].cache EXCEPT !.no_cache = no_cache, !.expiry = expiry, !.dated = TRUE]
             x == [obj[o] EXCEPT !.state = "HEADERS", !.cache = cache]
  <2>2. [obj EXCEPT ![o].state = "HEADERS", ![o].cache.no_cache = no_cache,
                    ![o].cache.expiry = expiry, ![o].cache.dated = TRUE] = [obj EXCEPT ![o] = x]
    BY <1>f, ZenonT(40) DEF IInv, AllWorked, Worked, Fields
  <2>3. Runs(obj[o]) /\ obj[o].state \in {"INIT", "HEADERS"}
    BY <1>1 DEF FETCH_HEADER, Heading, Fetching
  <2>4. "expiry" \in DOMAIN cache
    BY <1>f DEF Worked
  <2> HIDE DEF cache
  <2>5. Worked(x) /\ x.stream = obj[o].stream /\ x.redirects = obj[o].redirects
    BY <1>f, <2>3, <2>4 DEF Worked, Fields, Runs
  <2> HIDE DEF x
  <2> QED BY <2>1, <2>2, <2>5, ReplaceOne, OnlyWorked DEF IInv
<1>2. CASE FETCH_DATA(o)
  <2>1. Runs(obj[o])
    BY <1>2 DEF FETCH_DATA, Fetching
  <2>2. \/ \E n : Only([obj EXCEPT ![o].len = n])
        \/ \E n, cache : /\ Only([released EXCEPT ![o].state = "DATA", ![o].len = n,
                                                  ![o].cache = cache])
                         /\ cache \in {obj[o].cache, Invalid}
    BY <1>2, Zenon DEF FETCH_DATA
  <2>3. CASE \E n : Only([obj EXCEPT ![o].len = n])
    BY <2>3, PatchWorked, OnlyWorked
  <2>4. ASSUME NEW n, NEW cache \in {obj[o].cache, Invalid},
               Only([released EXCEPT ![o].state = "DATA", ![o].len = n, ![o].cache = cache])
        PROVE  IInv'
    <3> HIDE DEF released
    <3> DEFINE x == [released[o] EXCEPT !.state = "DATA", !.len = n, !.cache = cache]
    <3>1. [released EXCEPT ![o].state = "DATA", ![o].len = n, ![o].cache = cache] =
            [released EXCEPT ![o] = x]
      BY <1>a, ZenonT(40) DEF AllWorked, Worked, Fields
    <3>2. "expiry" \in DOMAIN cache
      BY <1>f, NoLifetime DEF Worked
    <3>3. Worked(x) /\ x.stream = released[o].stream /\ x.redirects = released[o].redirects
      BY <1>f, <2>1, <3>2 DEF Worked, Fields, Runs
    <3> HIDE DEF x
    <3> QED BY <1>a, <2>4, <3>1, <3>3, ReplaceOne, OnlyWorked
  <2> QED BY <2>2, <2>3, <2>4
<1>3. CASE FETCH_FINISHED(o)
  <2> DEFINE cache == [obj[o].cache EXCEPT !.dated = TRUE]
             x == [obj[o] EXCEPT !.state = "COMPLETE", !.fetch = "none", !.cache = cache,
                                 !.end = "finished"]
  <2>1. Only([obj EXCEPT ![o] = x])
    <3>1. [obj EXCEPT ![o].state = "COMPLETE", ![o].fetch = "none",
                      ![o].cache.dated = TRUE, ![o].end = "finished"] = [obj EXCEPT ![o] = x]
      BY <1>f, ZenonT(40) DEF IInv, AllWorked, Worked, Fields
    <3> QED BY <1>3, <3>1 DEF FETCH_FINISHED
  <2>2. Runs(obj[o])
    BY <1>3 DEF FETCH_FINISHED, Fetching
  <2>3. "expiry" \in DOMAIN cache
    BY <1>f DEF Worked
  <2> HIDE DEF cache
  <2>4. Worked(x) /\ x.stream = obj[o].stream /\ x.redirects = obj[o].redirects
    BY <1>f, <2>2, <2>3 DEF Worked, Fields, Runs
  <2> HIDE DEF x
  <2> QED BY <2>1, <2>4, ReplaceOne, OnlyWorked DEF IInv
<1>b. ASSUME NEW ob, AllWorked(ob)
      PROVE  AllWorked([ob EXCEPT ![o].state = "COMPLETE", ![o].fetch = "none",
                                  ![o].cache = Invalid, ![o].end = "failed"])
  <2> DEFINE x == [ob[o] EXCEPT !.state = "COMPLETE", !.fetch = "none", !.cache = Invalid,
                                !.end = "failed"]
  <2>1. [ob EXCEPT ![o].state = "COMPLETE", ![o].fetch = "none",
                   ![o].cache = Invalid, ![o].end = "failed"] = [ob EXCEPT ![o] = x]
    BY <1>b, ZenonT(40) DEF AllWorked, Worked, Fields
  <2>2. Worked(ob[o])
    BY <1>b DEF AllWorked
  <2>3. Worked(x) /\ x.stream = ob[o].stream /\ x.redirects = ob[o].redirects
    BY <2>2, NoLifetime DEF Worked, Fields, Runs
  <2> HIDE DEF x
  <2> QED BY <1>b, <2>1, <2>3, ReplaceOne
<1>4. CASE FETCH_ERROR(o)
  <2> DEFINE ended == [released EXCEPT ![o].state = "COMPLETE", ![o].fetch = "none",
                                       ![o].cache = Invalid, ![o].end = "failed"]
  <2>1. AllWorked(ended)
    BY <1>a, <1>b
  <2>2. llcache_send_event_to_users(ended, o, "ERROR")
    BY <1>4 DEF FETCH_ERROR
  <2> HIDE DEF ended
  <2> QED BY <2>1, <2>2, SendWorked
<1>5. CASE FETCH_PROGRESS(o)
  BY <1>5, SendWorked DEF FETCH_PROGRESS, IInv
<1>6. CASE FETCH_REDIRECT(o)
  <2> DEFINE ended == [released EXCEPT ![o].state = "COMPLETE", ![o].fetch = "none",
                                       ![o].cache = Invalid, ![o].end = "failed"]
             bare == [ended EXCEPT ![o].users = <<>>]
  <2>1. AllWorked(ended)
    BY <1>a, <1>b
  <2>2. \/ llcache_send_event_to_users(ended, o, "ERROR")
        \/ Only(ended)
        \/ \E u \in Url : llcache_object_retrieve(bare, obj[o].users, u, obj[o].force,
                                                 obj[o].stream, obj[o].redirects + 1)
    BY <1>6 DEF FETCH_REDIRECT
  <2> HIDE DEF ended
  <2>3. AllWorked(bare)
    BY <2>1 DEF AllWorked, Worked, Fields, Runs
  <2>4. obj[o].redirects + 1 # 0 /\ cached \in Seq(Object)
    <3>1. obj[o].redirects \in 0..(REDIRECT_LIMIT + 1) /\ cached \in Seq(Object)
      BY Basics DEF ObjectType, Structure
    <3> QED BY <3>1, LLCacheAssumption
  <2> HIDE DEF bare
  <2> QED BY <2>1, <2>2, <2>3, <2>4, SendWorked, OnlyWorked, RetrieveWorked
<1>7. CASE FETCH_NOTMODIFIED(o)
  <2> DEFINE c == obj[o].candidate
             ended == [obj[o] EXCEPT !.state = "COMPLETE", !.fetch = "none", !.cache = Invalid,
                                     !.candidate = NULL, !.end = "failed"]
             empty == [ended EXCEPT !.users = <<>>]
  <2>1. /\ Worked(ended) /\ ended.stream = obj[o].stream /\ ended.redirects = obj[o].redirects
        /\ Worked(empty) /\ empty.stream = obj[o].stream /\ empty.redirects = obj[o].redirects
    BY <1>f, NoLifetime DEF Worked, Fields, Runs
  <2>2. UNCHANGED cached
    BY <1>7 DEF FETCH_NOTMODIFIED, lists
  <2>3. ASSUME NEW us, NEW fetch, NEW cache, "expiry" \in DOMAIN cache, c # NULL
        PROVE  LET x == Adopt(obj[c], us, fetch, cache)
               IN  Worked(x) /\ x.stream = obj[c].stream /\ x.redirects = obj[c].redirects
    <3>1. c \in Object
      BY <2>3, Basics DEF ObjectType
    <3> HIDE DEF c
    <3>2. Worked(obj[c])
      BY <3>1 DEF IInv, AllWorked
    <3> DEFINE x == Adopt(obj[c], us, fetch, cache)
    <3>3. /\ x.state = obj[c].state /\ x.fetch = obj[c].fetch /\ x.url = obj[c].url
          /\ x.query = obj[c].query /\ x.stream = obj[c].stream /\ x.force = obj[c].force
          /\ x.redirects = obj[c].redirects /\ x.cache = cache /\ Fields \subseteq DOMAIN x
          /\ x.end = IF obj[c].end \notin {"failed", "aborted"} THEN obj[c].end
                     ELSE IF fetch = "conditional" THEN "revived" ELSE "vouched"
      BY <3>2 DEF Adopt, Worked, Fields
    <3> HIDE DEF x
    <3>4. Worked(x)
      BY <2>3, <3>2, <3>3 DEF Worked, Runs
    <3> QED BY <3>3, <3>4 DEF x
  <2>4. CASE c = NULL
    <3>1. obj' = [obj EXCEPT ![o] = ended]
      BY <1>7, <2>4 DEF FETCH_NOTMODIFIED
    <3> HIDE DEF ended, empty
    <3>2. AllWorked([obj EXCEPT ![o] = ended])
      BY <2>1, ReplaceOne DEF IInv
    <3> QED BY <2>2, <3>1, <3>2 DEF IInv, AllWorked
  <2>5. CASE c # NULL
    <3>1. \E cache : /\ "expiry" \in DOMAIN cache
                     /\ obj' = [obj EXCEPT ![o] = empty,
                                           ![c] = Adopt(@, obj[o].users, obj[o].fetch, cache)]
      <4>1. PICK expiry : \E n :
              obj' = [obj EXCEPT
               ![o] = empty,
               ![c] = Adopt(@, obj[o].users, obj[o].fetch,
                 [req_time |-> obj[o].cache.req_time, expiry |-> expiry, dated |-> TRUE,
                  no_cache |-> n])]
        BY <1>7, <2>5, ZenonT(60) DEF FETCH_NOTMODIFIED
      <4> QED BY <4>1
    <3>2. PICK cache : /\ "expiry" \in DOMAIN cache
                       /\ obj' = [obj EXCEPT ![o] = empty,
                                             ![c] = Adopt(@, obj[o].users, obj[o].fetch, cache)]
      BY <3>1
    <3> DEFINE y == Adopt(obj[c], obj[o].users, obj[o].fetch, cache)
    <3>3. Worked(y) /\ y.stream = obj[c].stream /\ y.redirects = obj[c].redirects
      BY <2>3, <2>5, <3>2
    <3>4. c \in Object /\ c # o
      <4>1. o \in Live /\ Core(obj, Live)
        BY <1>7, FetchingIsLive DEF FETCH_NOTMODIFIED, Heading
      <4> QED BY <2>5, <4>1 DEF Core
    <3> HIDE DEF empty, c
    <3>5. obj' = [obj EXCEPT ![o] = empty, ![c] = y]
      BY <3>2, <3>4 DEF IInv, AllWorked
    <3> HIDE DEF y
    <3>6. AllWorked([obj EXCEPT ![o] = empty])
      BY <2>1, ReplaceOne DEF IInv
    <3>7. AllWorked([[obj EXCEPT ![o] = empty] EXCEPT ![c] = y])
      BY <3>3, <3>4, <3>6, ReplaceOne
    <3>8. [[obj EXCEPT ![o] = empty] EXCEPT ![c] = y] = obj'
      BY <3>5
    <3> QED BY <2>2, <3>7, <3>8 DEF IInv, AllWorked
  <2> QED BY <2>4, <2>5
<1> HIDE DEF released
(* An object whose fetch was stopped waits for an answer or is fetched anew. *)
<1>c. ASSUME Heading(o), NEW auth, NEW tls, NEW query \in BOOLEAN, NEW fetch,
             query <=> fetch = "none", fetch \in {"none", "plain"},
             NEW x, Fields \subseteq DOMAIN x, "expiry" \in DOMAIN x.cache,
             x.state \in {"INIT", "HEADERS"}, x.fetch = fetch, x.query = query,
             x.url = released[o].url, x.end = released[o].end, x.stream = released[o].stream,
             x.force = released[o].force, x.redirects = released[o].redirects
      PROVE  AllWorked([released EXCEPT ![o] = x])
  <2>1. obj[o].state \in {"INIT", "HEADERS"}
    BY <1>c DEF Heading
  <2>2. Worked(x)
    BY <1>c, <1>f, <2>1 DEF Worked, Runs
  <2> QED BY <1>a, <1>c, <2>2, ReplaceOne
<1> DEFINE s == [released[o] EXCEPT !.fetch = "none", !.cache = Invalid]
           stopped == [released EXCEPT ![o].fetch = "none", ![o].cache = Invalid]
<1>d. /\ stopped = [released EXCEPT ![o] = s] /\ stopped[o] = s
      /\ Fields \subseteq DOMAIN s /\ s.state = obj[o].state /\ s.query = obj[o].query
      /\ s.url = released[o].url /\ s.end = released[o].end /\ s.stream = released[o].stream
      /\ s.force = released[o].force /\ s.redirects = released[o].redirects
      /\ s.cache = Invalid /\ s.fetch = "none"
  BY <1>a, <1>f DEF AllWorked, Worked, Fields
<1>e. ASSUME Heading(o)
      PROVE  obj[o].state \in {"INIT", "HEADERS"} /\ ~obj[o].query
  BY <1>e, <1>f DEF Heading, Fetching, Worked
<1>g. ASSUME Heading(o), NEW x, Fields \subseteq DOMAIN x, x.state = s.state, x.fetch = "none",
             x.query = TRUE, x.cache = Invalid, x.url = s.url, x.end = s.end,
             x.stream = s.stream, x.force = s.force, x.redirects = s.redirects
      PROVE  AllWorked([released EXCEPT ![o] = x])
  <2>1. "expiry" \in DOMAIN x.cache /\ x.state \in {"INIT", "HEADERS"}
    BY <1>d, <1>e, <1>g, NoLifetime
  <2> HIDE DEF s, stopped
  <2> QED BY <1>c, <1>d, <1>g, <2>1
<1>h. ASSUME Heading(o), NEW x, Fields \subseteq DOMAIN x,
             LET y == llcache_object_refetch(s, "plain")
             IN  /\ x.state = y.state /\ x.fetch = y.fetch /\ x.query = y.query
                 /\ x.url = y.url /\ x.end = y.end /\ x.stream = y.stream
                 /\ x.force = y.force /\ x.redirects = y.redirects /\ x.cache = y.cache
      PROVE  AllWorked([released EXCEPT ![o] = x])
  <2> DEFINE y == llcache_object_refetch(s, "plain")
  <2>1. /\ y.state = "INIT" /\ y.fetch = "plain" /\ y.query = s.query /\ y.url = s.url
        /\ y.end = s.end /\ y.stream = s.stream /\ y.force = s.force /\ y.redirects = s.redirects
        /\ "expiry" \in DOMAIN y.cache
    <3> HIDE DEF s, stopped
    <3>1. Fields \subseteq DOMAIN s
      BY <1>d
    <3> QED BY <3>1, RefetchFields
  <2>2. y.query = FALSE
    BY <1>d, <1>e, <1>f, <1>h, <2>1 DEF Worked, Heading, Fetching
  <2> HIDE DEF y, s, stopped
  <2> QED BY <1>c, <1>d, <1>h, <2>1, <2>2 DEF y
<1>8. CASE FETCH_AUTH(o)
  <2> DEFINE y == llcache_object_refetch(s, "plain")
             x == [y EXCEPT !.auth = TRUE]
             q == [s EXCEPT !.auth = FALSE, !.query = TRUE]
             again == [stopped EXCEPT
                         ![o] = [llcache_object_refetch(@, "plain") EXCEPT !.auth = TRUE]]
             asked == [stopped EXCEPT ![o].auth = FALSE, ![o].query = TRUE]
  <2>1. Heading(o) /\ (Only(again) \/ Only(asked))
    BY <1>8 DEF FETCH_AUTH, released
  <2>2. Fields \subseteq DOMAIN y
    BY <1>d, RefetchFields
  <2> HIDE DEF s, y
  <2>3. AllWorked([released EXCEPT ![o] = x])
    BY <1>h, <2>1, <2>2 DEF Fields, y
  <2>4. AllWorked([released EXCEPT ![o] = q])
    BY <1>d, <1>g, <2>1 DEF Fields
  <2>5. again = [released EXCEPT ![o] = x] /\ asked = [released EXCEPT ![o] = q]
    <3> HIDE DEF stopped
    <3> QED BY <1>a, <1>d DEF y, AllWorked
  <2> HIDE DEF again, asked, x, q
  <2> QED BY <2>1, <2>3, <2>4, <2>5, OnlyWorked
<1>9. CASE FETCH_CERT_ERR(o)
  <2> DEFINE q == [s EXCEPT !.query = TRUE]
             asked == [released EXCEPT ![o].fetch = "none", ![o].cache = Invalid,
                                       ![o].query = TRUE]
  <2>1. Heading(o) /\ Only(asked)
    BY <1>9 DEF FETCH_CERT_ERR, released
  <2>2. asked = [stopped EXCEPT ![o].query = TRUE]
    OBVIOUS
  <2> HIDE DEF s, asked
  <2>3. AllWorked([released EXCEPT ![o] = q])
    BY <1>d, <1>g, <2>1 DEF Fields
  <2>4. asked = [released EXCEPT ![o] = q]
    <3> HIDE DEF stopped
    <3> QED BY <1>a, <1>d, <2>2 DEF AllWorked
  <2> HIDE DEF q
  <2> QED BY <2>1, <2>3, <2>4, OnlyWorked
<1>10. CASE FETCH_SSL_ERR(o)
  <2> DEFINE y == llcache_object_refetch(s, "plain")
             x == [y EXCEPT !.tls = TRUE]
             again == [stopped EXCEPT
                         ![o] = [llcache_object_refetch(@, "plain") EXCEPT !.tls = TRUE]]
             e == [s EXCEPT !.state = "COMPLETE", !.end = "failed"]
             ended == [stopped EXCEPT ![o].state = "COMPLETE", ![o].end = "failed"]
  <2>1. Heading(o) /\ (Only(again) \/ llcache_send_event_to_users(ended, o, "ERROR"))
    BY <1>10 DEF FETCH_SSL_ERR, released
  <2>2. Fields \subseteq DOMAIN y
    BY <1>d, RefetchFields
  <2>3. Worked(e) /\ e.stream = released[o].stream /\ e.redirects = released[o].redirects
    <3> HIDE DEF s
    <3>1. /\ e.state = "COMPLETE" /\ e.end = "failed" /\ e.fetch = "none" /\ e.cache = Invalid
          /\ e.query = obj[o].query /\ e.stream = released[o].stream
          /\ e.redirects = released[o].redirects /\ Fields \subseteq DOMAIN e
      BY <1>d DEF Fields
    <3> HIDE DEF e
    <3> QED BY <1>d, <1>e, <2>1, <3>1, NoLifetime DEF Worked, Runs
  <2> HIDE DEF s, y
  <2>4. AllWorked([released EXCEPT ![o] = x])
    BY <1>h, <2>1, <2>2 DEF Fields, y
  <2>5. AllWorked([released EXCEPT ![o] = e])
    BY <1>a, <2>3, ReplaceOne
  <2>6. again = [released EXCEPT ![o] = x] /\ ended = [released EXCEPT ![o] = e]
    <3> HIDE DEF stopped
    <3> QED BY <1>a, <1>d DEF y, AllWorked
  <2> HIDE DEF again, ended, x, e
  <2> QED BY <2>1, <2>4, <2>5, <2>6, OnlyWorked, SendWorked
<1> QED BY <1>1, <1>2, <1>3, <1>4, <1>5, <1>6, <1>7, <1>8, <1>9, <1>10


(* The answer to a query starts a fetch or completes the object. *)
LEMMA AnswerWorked ==
  ASSUME IInv, Structure, NEW o \in Object, NEW proceed \in BOOLEAN,
         llcache_query_handle_response(o, proceed)
  PROVE  IInv'
<1> DEFINE y == llcache_object_refetch(obj[o], "plain")
           x == [y EXCEPT !.query = FALSE]
           e == [obj[o] EXCEPT !.query = FALSE, !.state = "COMPLETE", !.cache = Invalid,
                               !.end = "failed"]
           ended == [obj EXCEPT ![o].query = FALSE, ![o].state = "COMPLETE",
                                ![o].cache = Invalid, ![o].end = "failed"]
<1>1. Worked(obj[o]) /\ obj[o].query
  BY DEF IInv, AllWorked, llcache_query_handle_response
<1>2. Only([obj EXCEPT ![o] = x]) \/ llcache_send_event_to_users(ended, o, "ERROR")
  BY DEF llcache_query_handle_response
<1>3. ended = [obj EXCEPT ![o] = e]
  BY <1>1, ZenonT(40) DEF IInv, AllWorked, Worked, Fields
<1>4. Worked(e) /\ e.stream = obj[o].stream /\ e.redirects = obj[o].redirects
  BY <1>1, NoLifetime DEF Worked, Fields, Runs
<1>5. /\ y.state = "INIT" /\ y.fetch = "plain" /\ y.url = obj[o].url /\ y.end = obj[o].end
      /\ y.stream = obj[o].stream /\ y.force = obj[o].force /\ y.redirects = obj[o].redirects
      /\ Fields \subseteq DOMAIN y /\ "expiry" \in DOMAIN y.cache
  BY <1>1, RefetchFields DEF Worked
<1> HIDE DEF y, e, ended
<1>6. /\ x.state = "INIT" /\ x.fetch = "plain" /\ x.url = obj[o].url /\ x.end = obj[o].end
      /\ x.query = FALSE /\ x.stream = obj[o].stream /\ x.force = obj[o].force
      /\ x.redirects = obj[o].redirects
      /\ Fields \subseteq DOMAIN x /\ "expiry" \in DOMAIN x.cache
  BY <1>5 DEF Fields
<1> HIDE DEF x
<1>7. Worked(x)
  <2>1. obj[o].state \in {"INIT", "HEADERS", "COMPLETE"}
    <3>1. obj[o].state \in State
      BY Basics DEF ObjectType
    <3> QED BY <1>1, <3>1 DEF Worked, State
  <2>2. obj[o].stream /\ ~obj[o].force => obj[o].redirects # 0 \/ obj[o].end # "none"
    BY <1>1, <2>1 DEF Worked
  <2> QED BY <1>6, <2>2 DEF Worked, Runs
<1> QED BY <1>2, <1>3, <1>4, <1>6, <1>7, ReplaceOne, OnlyWorked, SendWorked DEF IInv

(* A callback that fails ends the fetch, if it still runs. *)
LEMMA SendFailsWorked ==
  ASSUME IInv, Structure, SendFails
  PROVE  IInv'
<1> DEFINE o == it.at
           d == DropUser
           x == [d[o] EXCEPT !.fetch = "none", !.state = "COMPLETE", !.cache = Invalid,
                             !.end = "failed"]
           ended == [d EXCEPT ![o].fetch = "none", ![o].state = "COMPLETE",
                              ![o].cache = Invalid, ![o].end = "failed"]
<1>1. UNCHANGED cached /\ (obj' = d \/ obj' = ended) /\ o \in Object
  BY Basics DEF SendFails, Sending, Structure, Walk, lists
<1>2. AllWorked(d)
  BY DropWorked
<1> HIDE DEF d, o
<1>3. Worked(d[o])
  BY <1>1, <1>2 DEF AllWorked
<1>4. ended = [d EXCEPT ![o] = x]
  BY <1>2, <1>3, ZenonT(40) DEF AllWorked, Worked, Fields
<1>5. Worked(x) /\ x.stream = d[o].stream /\ x.redirects = d[o].redirects
  BY <1>3, NoLifetime DEF Worked, Fields, Runs
<1> HIDE DEF x, ended
<1>6. AllWorked(ended)
  BY <1>2, <1>4, <1>5, ReplaceOne
<1> QED BY <1>1, <1>2, <1>6 DEF IInv, AllWorked

(* The clean makes objects free, and the list of cached objects shorter. *)
LEMMA CleanWorked ==
  ASSUME IInv, Structure, llcache_clean
  PROVE  IInv'
<1>1. PICK victims \in SUBSET Live :
        /\ obj' = [o \in Object |-> IF o \in victims THEN Free ELSE obj[o]]
        /\ cached' = Sublist(cached, Object \ victims)
  BY DEF llcache_clean
<1>2. ToSet(cached') \subseteq ToSet(cached)
  BY <1>1, SublistProperties DEF Structure
<1> QED BY <1>1, <1>2, FreeWorked DEF IInv, AllWorked

(* The walk drops data and users. *)
LEMMA WalkWorked ==
  ASSUME IInv,
         \/ SendContinues \/ llcache_poll \/ NextObject \/ Tick
         \/ llcache_object_notify_users \/ UNCHANGED vars
  PROVE  IInv'
<1>1. UNCHANGED cached /\ (\/ obj' = obj \/ obj' = DropUser
                           \/ \E n : obj' = [obj EXCEPT ![it.at].len = n])
  <2>1. CASE SendContinues
    BY <2>1 DEF SendContinues, lists
  <2>2. CASE llcache_poll \/ NextObject \/ Tick \/ UNCHANGED vars
    BY <2>2 DEF llcache_poll, NextObject, Tick, vars, lists
  <2>3. CASE HAD_HEADERS \/ DONE \/ UserIsCurrent \/ NotifyReplays
    BY <2>3 DEF HAD_HEADERS, DONE, Notify, UserIsCurrent, NotifyReplays, lists
  <2>4. CASE HAD_DATA
    BY <2>4 DEF HAD_DATA, Notify, lists
  <2>5. CASE NotifyContinues \/ NotifyFails
    BY <2>5 DEF NotifyContinues, NotifyFails, lists
  <2> QED BY <2>1, <2>2, <2>3, <2>4, <2>5 DEF llcache_object_notify_users
<1>2. AllWorked(obj) /\ AllWorked(DropUser)
      /\ \A n : AllWorked([obj EXCEPT ![it.at].len = n])
  BY DropWorked, PatchWorked DEF IInv
<1>3. AllWorked(obj')
  BY <1>1, <1>2
<1> QED BY <1>1, <1>3 DEF IInv, AllWorked

LEMMA StepWorked == IInv /\ Structure /\ Seen /\ [Next]_vars => IInv'
<1> SUFFICES ASSUME IInv, Structure, Seen, [Next]_vars PROVE IInv'
  OBVIOUS
<1>1. CASE Client
  BY <1>1, ClientWorked
<1>2. CASE llcache_fetch_callback
  BY <1>2, MessageWorked
<1>3. CASE \E o \in Object, proceed \in BOOLEAN : llcache_query_handle_response(o, proceed)
  BY <1>3, AnswerWorked
<1>4. CASE SendFails
  BY <1>4, SendFailsWorked
<1>5. CASE llcache_clean
  BY <1>5, CleanWorked
<1>6. CASE \/ SendContinues \/ llcache_poll \/ NextObject \/ Tick
           \/ llcache_object_notify_users \/ UNCHANGED vars
  BY <1>6, WalkWorked
<1> QED BY <1>1, <1>2, <1>3, <1>4, <1>5, <1>6 DEF Next

(* What the lists hold, and what each object is worth. *)
LEMMA Works == Spec => [](IInv /\ Structure)
<1>1. Init => IInv /\ Seen
  <2> SUFFICES ASSUME Init PROVE IInv /\ Seen
    OBVIOUS
  <2>1. obj = [o \in Object |-> Free] /\ it.at = NULL /\ pc = "gui"
    BY DEF Init, NoWalk
  <2> QED BY <2>1, FreeWorked DEF IInv, AllWorked, Seen
<1>2. IInv /\ Seen /\ Structure /\ [Next]_vars => IInv' /\ Seen'
  BY StepSeen, StepWorked
<1> QED BY <1>1, <1>2, StructureHolds, PTL DEF Spec

(* No object is left incomplete without a fetch or a query that will complete *)
(* it, and none is complete while its fetch runs, after any retries, aborts,  *)
(* errors and answers (llcache.c:915-917, 2355-2364).                         *)
THEOREM WorkIsPendingHolds == Spec => []WorkIsPending
<1>1. IInv => WorkIsPending
  BY DEF IInv, AllWorked, Worked, WorkIsPending
<1> QED BY <1>1, Works, PTL

(* Nothing is handed out as fresh after its fetch failed or was aborted, with *)
(* or without cache control data of its own, unless a server has called it    *)
(* not modified since, asked by a conditional request or not: every such end  *)
(* invalidates the cache control data (llcache.c:915-917, 1349-1366, 2509).   *)
THEOREM ServedWholeHolds == Spec => []ServedWhole
<1>1. IInv /\ Structure => ServedWhole
  <2> SUFFICES ASSUME IInv, Structure, NEW o \in ToSet(cached),
                      llcache_object_is_fresh(obj[o]), obj[o].state = "COMPLETE"
               PROVE  obj[o].end \in {"finished", "revived", "vouched"}
    BY DEF ServedWhole
  <2>1. o \in Live
    BY DEF Live
  <2>2. o \in Object /\ obj[o] \in ObjectType /\ now \in 1..MaxTime
    BY <2>1, Basics DEF Structure
  <2>3. obj[o].cache.expiry > now
    BY DEF llcache_object_is_fresh, Lifetime
  <2>4. obj[o].cache.expiry # 0
    BY <2>2, <2>3, LLCacheAssumption
  <2>5. obj[o].end \notin {"none", "failed", "aborted"}
    BY <2>2, <2>4 DEF IInv, AllWorked, Worked
  <2>6. obj[o].end \in {"none", "finished", "failed", "aborted", "revived", "vouched"}
    BY <2>2 DEF ObjectType
  <2> QED BY <2>5, <2>6
<1> QED BY <1>1, Works, PTL

(* A client that gets an object from the cache, now or later, gets all of   *)
(* its data: an object whose data are dropped as they are sent is not in   *)
(* the list that is searched (llcache.c:2524-2533).  Only a redirect makes *)
(* a cached one, as it hands the flag on (llcache.c:1300), and only of an  *)
(* object that was fetched again: a query was open when it was aborted.    *)
StreamedIsUncached ==
  /\ \A o \in ToSet(cached) : obj[o].stream => obj[o].redirects > 0
  /\ \A o \in Live :
       LET x == obj[o] IN
       x.stream /\ ~x.force /\ x.state \in {"INIT", "HEADERS"}
         => x.redirects > 0 \/ x.end # "none"

(* Only a redirect of an object whose fetch was aborted or failed before puts *)
(* an object whose data are dropped into the list that is searched: it hands  *)
(* the flag on without forcing the request (llcache.c:1300, 2524-2533).       *)
THEOREM StreamedHolds == Spec => []StreamedIsUncached
<1>1. IInv /\ Structure => StreamedIsUncached
  <2> SUFFICES ASSUME IInv, Structure PROVE StreamedIsUncached
    OBVIOUS
  <2>1. \A o \in Live : o \in Object /\ (obj[o].redirects # 0 => obj[o].redirects > 0)
    <3> SUFFICES ASSUME NEW o \in Live
                 PROVE  o \in Object /\ (obj[o].redirects # 0 => obj[o].redirects > 0)
      OBVIOUS
    <3>1. o \in Object /\ obj[o].redirects \in 0..(REDIRECT_LIMIT + 1)
      BY Basics DEF ObjectType
    <3> QED BY <3>1, LLCacheAssumption
  <2>2. ToSet(cached) \subseteq Live
    BY DEF Live
  <2> QED BY <2>1, <2>2 DEF IInv, AllWorked, Worked, StreamedIsUncached
<1> QED BY <1>1, Works, PTL

=============================================================================
