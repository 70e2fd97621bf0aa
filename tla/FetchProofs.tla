---------------------------- MODULE FetchProofs ----------------------------
(* Safety of the fetch scheduler for any number of fetches, hosts and      *)
(* fetchers, and any limits.                                               *)
EXTENDS Fetch, ListLemmas

(* Where the program is, apart from a dispatch loop it may be in. *)
At == IF pc = "dispatch" THEN dret ELSE pc

(* What the call structure of the single thread implies: which returns are *)
(* pending, and what is known of the fetch the poller is at.               *)
Control ==
  /\ At # "none"
  /\ At \in {"callback", "last"} => cbret # "none"
  /\ At = "free" => cbret = "free"
  /\ At \notin {"callback", "last", "free"} => cbret = "none"
  /\ At \in {"perform", "done"} => pollret # "none"
  /\ cbret \in {"perform", "done", "free"} => pollret # "none"
  /\ cbret = "free" => cb \in Curl
  /\ At = "ring" \/ cbret = "ring" =>
       cb \in Fetch \ Curl /\ ring[scheme[cb]] # <<>> /\ Head(ring[scheme[cb]]) = cb
  /\ \A s \in RingSchemes : ring[s] \in Seq({f \in Fetch : scheme[f] = s})

RingsInjective == \A s \in RingSchemes : Injective(ring[s])

(* A fetch that was aborted or told its end is one its client has let go. *)
LetGo == aborted \cup told \subseteq live /\ held \cap (aborted \cup told) = {}

(* The strengthening of OneRing, AbortIsSafe, HandleIsActive and           *)
(* RingsComplete that the steps preserve.                                  *)
SInv ==
  /\ OneRing
  /\ fetch_is_active \subseteq live /\ Stopped \subseteq live
  /\ AbortIsSafe /\ LetGo
  /\ HandleIsActive /\ Injective(done)
  /\ RingsComplete /\ RingsInjective

IInv == TypeOK /\ Control /\ SInv

-----------------------------------------------------------------------------
(* Types and the call structure are preserved by every step. *)
LEMMA RemovalType ==
  ASSUME TypeOK, NEW f \in Fetch, fetch_remove_from_queues(f)
  PROVE  /\ queue_ring' \in Seq(Fetch)
         /\ fetch_ring' \subseteq Fetch /\ fetch_active' \in BOOLEAN
<1>1. queue_ring \in Seq(Fetch) /\ fetch_ring \subseteq Fetch
  BY DEF TypeOK
<1>2. fetch_ring' \subseteq Fetch /\ fetch_active' \in BOOLEAN
  BY <1>1 DEF fetch_remove_from_queues
<1>3. queue_ring' = queue_ring \/ Dequeue(f)
  BY DEF fetch_remove_from_queues
<1>4. ASSUME Dequeue(f) PROVE queue_ring' \in Seq(Fetch)
  <2>1. PICK i \in DOMAIN queue_ring : queue_ring' = RemoveAt(queue_ring, i)
    BY ONLY <1>4 DEF Dequeue
  <2>2. i \in DOMAIN queue_ring /\ queue_ring \in Seq(Fetch)
    BY <1>1
  <2> QED BY ONLY <2>1, <2>2, RemoveAtType
<1> QED BY <1>1, <1>2, <1>3, <1>4

LEMMA TypeStep ==
  ASSUME TypeOK, Control, [Next]_vars
  PROVE  TypeOK' /\ Control'
<1> USE FetchAssumption DEF TypeOK, Control, At, rings, flags, curl, client,
                            position
<1>0. CASE UNCHANGED vars
  BY <1>0 DEF vars
<1>1. ASSUME NEW f \in Fetch, fetch_start(f)
      PROVE  TypeOK' /\ Control'
  <2>0. ASSUME NEW s \in Seq(Fetch)
        PROVE  /\ Append(s, f) \in Seq(Fetch)
               /\ s # <<>> => Append(s, f) # <<>> /\ Head(Append(s, f)) = Head(s)
    BY ONLY <2>0, f \in Fetch, AppendKeepsHead
  <2>1. /\ ring' \in [RingSchemes -> Seq(Fetch)]
        /\ \A s \in RingSchemes : ring[s] # <<>> =>
             ring'[s] # <<>> /\ Head(ring'[s]) = Head(ring[s])
    <3>1. ring' = [s \in RingSchemes |->
                     IF s = scheme[f] THEN Append(ring[s], f) ELSE ring[s]]
      BY <1>1 DEF fetch_start
    <3> QED BY <2>0, <3>1
  <2>2. \A g \in Fetch \ Curl : scheme[g] \in RingSchemes
    BY DEF Curl
  <2>3. ASSUME NEW s \in RingSchemes
        PROVE  ring'[s] \in Seq({g \in Fetch : scheme[g] = s})
    <3> DEFINE T == {g \in Fetch : scheme[g] = s}
    <3>1. ring[s] \in Seq(T) /\ (s = scheme[f] => f \in T)
      OBVIOUS
    <3> HIDE DEF T
    <3>2. s = scheme[f] => Append(ring[s], f) \in Seq(T)
      BY <3>1
    <3>3. ring'[s] \in Seq(T)
      BY <1>1, <3>1, <3>2 DEF fetch_start
    <3> QED BY <3>3 DEF T
  <2>4. TypeOK'
    BY <1>1, <2>1 DEF fetch_start, ClientRuns
  <2> QED BY <1>1, <2>1, <2>2, <2>3, <2>4 DEF fetch_start, ClientRuns
<1>2. ASSUME NEW f \in Fetch, fetch_abort(f)
      PROVE  TypeOK' /\ Control'
  <2>1. CASE f \in Curl \ handle
    <3>1. fetch_remove_from_queues(f) /\ fetch_free(f)
      BY <1>2, <2>1 DEF fetch_abort
    <3> QED BY <1>2, <2>1, <3>1, RemovalType DEF fetch_abort, fetch_free
  <2>2. CASE f \notin Curl \ handle
    BY <1>2, <2>2 DEF fetch_abort
  <2> QED BY <2>1, <2>2
<1>3. CASE DispatchStarts
  <2>1. PICK i \in DOMAIN queue_ring : fetch_dispatch_job(i)
    BY <1>3 DEF DispatchStarts
  <2>2. queue_ring[i] \in Fetch /\ queue_ring' \in Seq(Fetch)
    BY <2>1, RemoveAtType DEF fetch_dispatch_job
  <2>3. UNCHANGED <<live, held, fetch_active, ring, flags, done, pc, dret, position>>
    BY <1>3 DEF DispatchStarts
  <2>4. /\ fetch_ring' \subseteq Fetch /\ fetch_is_active' \subseteq Fetch
        /\ handle' \subseteq Curl /\ scheduled' \in BOOLEAN
    BY <2>1, <2>2 DEF fetch_dispatch_job
  <2> QED BY <2>2, <2>3, <2>4
<1>4. CASE DispatchFails
  <2>1. PICK i \in DOMAIN queue_ring :
             queue_ring' = Append(RemoveAt(queue_ring, i), queue_ring[i])
    BY <1>4 DEF DispatchFails
  <2>2. queue_ring' \in Seq(Fetch)
    BY <2>1, RemoveAtType
  <2> QED BY <1>4, <2>2 DEF DispatchFails, Dispatching
<1>5. CASE DispatchEnds
  BY <1>5 DEF DispatchEnds
<1>6. CASE GuiReturns
  BY <1>6 DEF GuiReturns
<1>7. CASE fetch_poll
  BY <1>7 DEF fetch_poll
<1>8. CASE PollFetchers
  BY <1>8 DEF PollFetchers
<1>9. CASE PollReturns
  BY <1>9 DEF PollReturns
<1>10. CASE NotifyReturns
  BY <1>10 DEF NotifyReturns
<1>11. CASE RingPoll
  <2>1. Head(todo) \in RingSchemes /\ Tail(todo) \in Seq(CurlSchemes \cup RingSchemes)
    BY <1>11 DEF RingPoll
  <2>2. ring[Head(todo)] # <<>> =>
          LET f == Head(ring[Head(todo)])
          IN  f \in Fetch \ Curl /\ scheme[f] = Head(todo)
    <3> DEFINE T == {f \in Fetch : scheme[f] = Head(todo)}
    <3>1. ring[Head(todo)] \in Seq(T)
      BY <2>1
    <3>2. T \subseteq Fetch \ Curl
      BY <2>1 DEF Curl
    <3> HIDE DEF T
    <3>3. ring[Head(todo)] # <<>> => Head(ring[Head(todo)]) \in T
      BY <3>1
    <3> QED BY <3>2, <3>3 DEF T
  <2> QED BY <1>11, <2>1, <2>2 DEF RingPoll
<1>12. CASE RingMessage
  BY <1>12 DEF RingMessage, Message
<1>13. CASE RingLastMessage
  BY <1>13 DEF RingLastMessage, LastMessage
<1>14. CASE RingFree
  <2>1. cb \in Fetch /\ scheme[cb] \in RingSchemes
    BY <1>14 DEF RingFree, Curl
  <2>2. /\ Tail(ring[scheme[cb]]) \in Seq(Fetch)
        /\ Tail(ring[scheme[cb]]) \in Seq({f \in Fetch : scheme[f] = scheme[cb]})
    BY <1>14, <2>1 DEF RingFree
  <2>3. /\ ring' \in [RingSchemes -> Seq(Fetch)]
        /\ \A s \in RingSchemes : ring'[s] \in Seq({f \in Fetch : scheme[f] = s})
    BY <1>14, <2>1, <2>2 DEF RingFree
  <2>4. /\ queue_ring' \in Seq(Fetch)
        /\ fetch_ring' \subseteq Fetch /\ fetch_active' \in BOOLEAN
    BY <1>14, <2>1, RemovalType DEF RingFree
  <2> QED BY <1>14, <2>3, <2>4 DEF RingFree, fetch_free
<1>15. CASE CurlPoll
  BY <1>15 DEF CurlPoll
<1>16. CASE ScheduledCurlPoll
  BY <1>16 DEF ScheduledCurlPoll
<1>17. CASE PerformEnds
  BY <1>17 DEF PerformEnds
<1>18. CASE fetch_curl_done
  <2>1. Head(done) \in Curl /\ Head(done) \in Fetch /\ Tail(done) \in Seq(Curl)
    BY <1>18 DEF fetch_curl_done, Curl
  <2> QED BY <1>18, <2>1, RemovalType DEF fetch_curl_done, fetch_free, LastMessage
<1>19. CASE CurlFree
  BY <1>19 DEF CurlFree, fetch_free
<1>20. CASE CurlPollReturns
  BY <1>20 DEF CurlPollReturns
<1>21. ASSUME NEW f \in Curl, CurlMessage(f) \/ CurlHeaders(f) \/ CurlComplete(f)
       PROVE  TypeOK' /\ Control'
  <2> f \in Fetch
    BY DEF Curl
  <2>1. CASE CurlMessage(f)
    BY <2>1 DEF CurlMessage, Message
  <2>2. CASE CurlHeaders(f)
    BY <2>2 DEF CurlHeaders, LastMessage
  <2>3. CASE CurlComplete(f)
    BY <2>3 DEF CurlComplete
  <2> QED BY <1>21, <2>1, <2>2, <2>3
<1>22. CASE CallbackReturns
  BY <1>22 DEF CallbackReturns
<1> QED
  BY <1>0, <1>1, <1>2, <1>3, <1>4, <1>5, <1>6, <1>7, <1>8, <1>9, <1>10, <1>11,
     <1>12, <1>13, <1>14, <1>15, <1>16, <1>17, <1>18, <1>19, <1>20, <1>21, <1>22
  DEF Next, Client, Dispatch, MainLoop, RingFetcher, CurlFetcher

(* The scheduler's variables always have their types, and the returns that *)
(* are pending are always those the call structure allows.                 *)
THEOREM TypeCorrect == Spec => [](TypeOK /\ Control)
<1>1. Init => TypeOK /\ Control
  <2> SUFFICES ASSUME Init PROVE TypeOK /\ Control
    OBVIOUS
  <2>1. /\ ring \in [RingSchemes -> Seq(Fetch)]
        /\ \A s \in RingSchemes : ring[s] \in Seq({f \in Fetch : scheme[f] = s})
    BY DEF Init
  <2>2. queue_ring \in Seq(Fetch) /\ done \in Seq(Curl)
        /\ todo \in Seq(CurlSchemes \cup RingSchemes)
    BY DEF Init
  <2> QED BY <2>1, <2>2 DEF Init, TypeOK, Control, At
<1>2. TypeOK /\ Control /\ [Next]_vars => (TypeOK /\ Control)'
  BY TypeStep
<1> QED BY <1>1, <1>2, PTL DEF Spec

-----------------------------------------------------------------------------
(* The active ring grows only by a dispatch, by one fetch that has room. *)
LEMMA FetchRingStep ==
  ASSUME [Next]_vars
  PROVE  \/ fetch_ring' \subseteq fetch_ring
         \/ \E f : /\ fetch_ring' = fetch_ring \cup {f}
                   /\ Cardinality(fetch_ring) < max_fetchers /\ Room(f)
<1> USE DEF rings
<1>1. CASE DispatchStarts
  BY <1>1 DEF DispatchStarts, Dispatching, fetch_dispatch_job, Chosen
<1>2. ASSUME NEW f, fetch_remove_from_queues(f)
      PROVE  fetch_ring' \subseteq fetch_ring
  BY <1>2 DEF fetch_remove_from_queues
<1>3. CASE Client \/ RingFetcher \/ CurlFetcher
  BY <1>2, <1>3
  DEF Client, fetch_start, fetch_abort, RingFetcher, RingPoll, RingMessage,
      Message, RingLastMessage, RingFree, CurlFetcher, CurlPoll,
      ScheduledCurlPoll, PerformEnds, fetch_curl_done, CurlFree,
      CurlPollReturns, CurlMessage, CurlHeaders, CurlComplete
<1>4. CASE DispatchFails \/ DispatchEnds \/ MainLoop \/ CallbackReturns
  BY <1>4 DEF DispatchFails, DispatchEnds, MainLoop, GuiReturns, fetch_poll,
              PollFetchers, PollReturns, NotifyReturns, CallbackReturns
<1>5. CASE UNCHANGED vars
  BY <1>5 DEF vars
<1> QED BY <1>1, <1>3, <1>4, <1>5 DEF Next, Dispatch

(* Counting fetches. *)
LEMMA Fewer ==
  ASSUME NEW A, IsFiniteSet(A), NEW B, B \subseteq A
  PROVE  Cardinality(A) \in Nat /\ Cardinality(B) \in Nat
         /\ Cardinality(B) <= Cardinality(A)
BY FS_Subset, FS_CardinalityType

LEMMA OneMore ==
  ASSUME NEW A, IsFiniteSet(A), NEW f, NEW n \in Nat, Cardinality(A) < n
  PROVE  Cardinality(A \cup {f}) <= n
BY FS_AddElement, FS_CardinalityType

(* The limits on active fetches, in all and for each host, are never       *)
(* exceeded: the dispatch loop of content/fetch.c:395-448.                 *)
THEOREM LimitsHold == Spec => []Limits
<1>1. Init => Limits
  <2> SUFFICES ASSUME Init PROVE Limits
    OBVIOUS
  <2>1. fetch_ring = {} /\ \A h : {f \in fetch_ring : host[f] = h} = {}
    BY DEF Init
  <2> QED BY <2>1, FS_EmptySet, FetchAssumption DEF Limits
<1>2. TypeOK /\ Limits /\ [Next]_vars => Limits'
  <2> SUFFICES ASSUME TypeOK, Limits, [Next]_vars PROVE Limits'
    OBVIOUS
  <2> DEFINE Of(S, h) == {f \in S : host[f] = h}
  <2>1. IsFiniteSet(fetch_ring) /\ \A h : IsFiniteSet(Of(fetch_ring, h))
    <3>1. fetch_ring \in SUBSET Fetch /\ \A h : Of(fetch_ring, h) \in SUBSET Fetch
      BY DEF TypeOK
    <3> QED BY <3>1, FS_Subset, FetchAssumption
  <2>2. Cardinality(fetch_ring) \in Nat
        /\ \A h : Cardinality(Of(fetch_ring, h)) \in Nat
    BY <2>1, FS_CardinalityType
  <2>3. /\ Cardinality(fetch_ring) <= max_fetchers
        /\ \A h \in Host : Cardinality(Of(fetch_ring, h)) <= max_fetchers_per_host
    BY DEF Limits
  <2>4. CASE fetch_ring' \subseteq fetch_ring
    <3>1. Cardinality(fetch_ring') \in Nat
          /\ Cardinality(fetch_ring') <= Cardinality(fetch_ring)
      BY <2>1, <2>4, FS_Subset, FS_CardinalityType
    <3>2. ASSUME NEW h \in Host
          PROVE  Cardinality(Of(fetch_ring', h)) <= max_fetchers_per_host
      <4>1. Of(fetch_ring', h) \in SUBSET Of(fetch_ring, h)
        BY <2>4
      <4>2. /\ Cardinality(Of(fetch_ring', h)) \in Nat
            /\ Cardinality(Of(fetch_ring', h)) <= Cardinality(Of(fetch_ring, h))
        BY <2>1, <4>1, Fewer
      <4>3. /\ Cardinality(Of(fetch_ring, h)) \in Nat
            /\ Cardinality(Of(fetch_ring, h)) <= max_fetchers_per_host
        BY <2>2, <2>3
      <4> HIDE DEF Of
      <4> QED BY <4>2, <4>3, FetchAssumption
    <3>3. Cardinality(fetch_ring') <= max_fetchers
      BY <2>2, <2>3, <3>1, FetchAssumption
    <3> QED BY <3>2, <3>3 DEF Limits, Host
  <2>5. ASSUME NEW f, fetch_ring' = fetch_ring \cup {f},
               Cardinality(fetch_ring) < max_fetchers, Room(f)
        PROVE  Limits'
    <3>1. Cardinality(fetch_ring') <= max_fetchers
      BY <2>1, <2>5, OneMore, FetchAssumption
    <3>2. ASSUME NEW h \in Host
          PROVE  Cardinality(Of(fetch_ring', h)) <= max_fetchers_per_host
      <4>1. CASE host[f] = h
        <5>1. Of(fetch_ring', h) = Of(fetch_ring, h) \cup {f}
          BY <2>5, <4>1
        <5>2. Cardinality(Of(fetch_ring, h)) < max_fetchers_per_host
          BY <2>5, <4>1 DEF Room
        <5>3. Cardinality(Of(fetch_ring, h) \cup {f}) <= max_fetchers_per_host
          BY <2>1, <5>2, OneMore, FetchAssumption
        <5> QED BY <5>1, <5>3
      <4>2. CASE host[f] # h
        <5>1. Of(fetch_ring', h) = Of(fetch_ring, h)
          BY <2>5, <4>2
        <5> QED BY <2>3, <5>1
      <4> QED BY <4>1, <4>2
    <3> QED BY <3>1, <3>2 DEF Limits, Host
  <2> QED BY <2>4, <2>5, FetchRingStep
<1> QED BY <1>1, <1>2, TypeCorrect, PTL DEF Spec

-----------------------------------------------------------------------------
(* fetch_remove_from_queues takes an allocated fetch that was not stopped   *)
(* out of the ring it is in, and touches nothing else.                      *)
LEMMA RemovalEffect ==
  ASSUME TypeOK, SInv, NEW f \in live \ Stopped, fetch_remove_from_queues(f)
  PROVE  /\ Injective(queue_ring') /\ ToSet(queue_ring') = Queued \ {f}
         /\ fetch_ring' = fetch_ring \ {f}
<1>1. CASE f \in fetch_is_active
  <2>1. fetch_ring' = fetch_ring \ {f} /\ queue_ring' = queue_ring
    BY <1>1 DEF fetch_remove_from_queues
  <2>2. f \notin Queued
    BY <1>1 DEF SInv, OneRing
  <2> QED BY <2>1, <2>2 DEF Queued, SInv, OneRing, Injective
<1>2. CASE f \notin fetch_is_active
  <2>1. PICK i \in DOMAIN queue_ring :
          queue_ring[i] = f /\ queue_ring' = RemoveAt(queue_ring, i)
    BY <1>2 DEF fetch_remove_from_queues, Dequeue
  <2>2. Injective(queue_ring) /\ queue_ring \in Seq(Fetch)
    BY DEF SInv, OneRing, Injective, TypeOK
  <2>3. f \notin fetch_ring /\ fetch_ring' = fetch_ring
    BY <1>2 DEF SInv, OneRing, fetch_remove_from_queues
  <2> QED BY <2>1, <2>2, <2>3, RemoveAtProperties DEF Queued
<1> QED BY <1>1, <1>2

(* A step that changes only the position of the program. *)
LEMMA SameStructure ==
  ASSUME SInv, UNCHANGED <<live, held, queue_ring, fetch_ring, fetch_is_active,
                           ring, aborted, told, handle, done>>,
         Stopped' = Stopped
  PROVE  SInv'
BY DEF SInv, OneRing, Queued, AbortIsSafe, LetGo, HandleIsActive, Injective,
       RingsComplete, RingsInjective

LEMMA StartStructure ==
  ASSUME TypeOK, Control, SInv, NEW f \in Fetch, fetch_start(f)
  PROVE  SInv'
<1>1. /\ f \notin live /\ live' = live \cup {f} /\ held' = held \cup {f}
      /\ queue_ring' = Append(queue_ring, f)
      /\ UNCHANGED <<fetch_ring, fetch_is_active, aborted, told, handle, done,
                     cb, cbret>>
  BY DEF fetch_start, flags, curl, position
<1>2. ring' = [s \in RingSchemes |->
                 IF s = scheme[f] THEN Append(ring[s], f) ELSE ring[s]]
  BY DEF fetch_start
<1>3. Stopped' = Stopped /\ f \notin Stopped
  BY <1>1 DEF Stopped, SInv
<1>4. f \notin Queued /\ queue_ring \in Seq(Fetch) /\ Injective(queue_ring)
  BY <1>1 DEF SInv, OneRing, TypeOK, Injective
<1>5. Injective(queue_ring') /\ Queued' = Queued \cup {f}
  BY <1>1, <1>4, AppendNew DEF Queued
<1>6. OneRing'
  BY <1>1, <1>3, <1>5 DEF SInv, OneRing, Injective
<1>7. ASSUME NEW s \in RingSchemes
      PROVE  /\ ToSet(ring'[s]) = {g \in live' : scheme[g] = s}
             /\ Injective(ring'[s])
  <2>1. /\ ring[s] \in Seq(Fetch) /\ Injective(ring[s])
        /\ ToSet(ring[s]) = {g \in live : scheme[g] = s}
    BY DEF SInv, RingsInjective, RingsComplete, TypeOK
  <2>2. CASE s = scheme[f]
    <3>1. ring'[s] = Append(ring[s], f) /\ f \notin ToSet(ring[s])
      BY <1>1, <1>2, <2>1, <2>2
    <3> QED BY <1>1, <2>1, <2>2, <3>1, AppendNew
  <2>3. CASE s # scheme[f]
    BY <1>1, <1>2, <2>1, <2>3
  <2> QED BY <2>2, <2>3
<1> QED
  BY <1>1, <1>3, <1>6, <1>7
  DEF SInv, AbortIsSafe, LetGo, HandleIsActive, Injective, RingsComplete,
      RingsInjective

LEMMA AbortStructure ==
  ASSUME TypeOK, Control, SInv, NEW f \in Fetch, fetch_abort(f)
  PROVE  SInv'
<1>1. /\ f \in held /\ held' = held \ {f} /\ f \in live \ Stopped
      /\ UNCHANGED <<ring, handle, done, cb, cbret>>
  BY DEF fetch_abort, curl, position, SInv, AbortIsSafe
<1>2. Stopped' = Stopped
  BY <1>1 DEF Stopped
<1>3. CASE f \in Curl \ handle
  <2>1. fetch_remove_from_queues(f) /\ fetch_free(f)
    BY <1>3 DEF fetch_abort
  <2>2. /\ Injective(queue_ring') /\ ToSet(queue_ring') = Queued \ {f}
        /\ fetch_ring' = fetch_ring \ {f}
    BY <1>1, <2>1, RemovalEffect
  <2>3. f \notin fetch_ring
    BY <1>3 DEF SInv, HandleIsActive
  <2>4. OneRing'
    BY <1>1, <1>2, <2>1, <2>2, <2>3
    DEF fetch_free, SInv, OneRing, Queued, Injective
  <2>5. scheme[f] \notin RingSchemes
    BY <1>3, FetchAssumption DEF Curl
  <2> QED
    BY <1>1, <1>2, <2>1, <2>2, <2>3, <2>4, <2>5
    DEF fetch_free, SInv, AbortIsSafe, LetGo, HandleIsActive, Injective,
        RingsComplete, RingsInjective
<1>4. CASE f \notin Curl \ handle
  <2>1. /\ aborted' = aborted \cup {f}
        /\ UNCHANGED <<live, told, queue_ring, fetch_ring, fetch_is_active>>
    BY <1>4 DEF fetch_abort, rings
  <2> QED
    BY <1>1, <1>2, <2>1
    DEF SInv, OneRing, Queued, AbortIsSafe, LetGo, HandleIsActive, Injective,
        RingsComplete, RingsInjective
<1> QED BY <1>3, <1>4

LEMMA DispatchStructure ==
  ASSUME TypeOK, Control, SInv, DispatchStarts \/ DispatchFails
  PROVE  SInv'
<1>1. /\ UNCHANGED <<live, held, ring, aborted, told, done, cb, cbret>>
      /\ Stopped' = Stopped
  BY DEF DispatchStarts, DispatchFails, client, flags, curl, position, Stopped
<1>2. queue_ring \in Seq(Fetch) /\ Injective(queue_ring)
  BY DEF TypeOK, SInv, OneRing, Injective
<1>3. ASSUME NEW i \in DOMAIN queue_ring
      PROVE  /\ RemoveAt(queue_ring, i) \in Seq(Fetch)
             /\ Injective(RemoveAt(queue_ring, i))
             /\ ToSet(RemoveAt(queue_ring, i)) = Queued \ {queue_ring[i]}
             /\ queue_ring[i] \in Queued /\ queue_ring[i] \in Fetch
  <2>1. queue_ring[i] \in Queued /\ queue_ring[i] \in Fetch
    BY <1>2 DEF Queued, ToSet
  <2> QED BY <1>2, <2>1, RemoveAtProperties DEF Queued
<1>4. CASE DispatchStarts
  <2>1. PICK i \in DOMAIN queue_ring : fetch_dispatch_job(i)
    BY <1>4 DEF DispatchStarts
  <2> DEFINE f == queue_ring[i]
  <2>2. /\ queue_ring' = RemoveAt(queue_ring, i)
        /\ fetch_ring' = fetch_ring \cup {f}
        /\ fetch_is_active' = fetch_is_active \cup {f}
        /\ handle' = IF f \in Curl THEN handle \cup {f} ELSE handle
    BY <2>1 DEF fetch_dispatch_job
  <2>3. Injective(queue_ring') /\ Queued' = Queued \ {f} /\ f \in Queued
    BY <1>3, <2>2 DEF Queued
  <2> HIDE DEF f
  <2>4. f \in live \ Stopped
    BY <2>3 DEF SInv, OneRing
  <2>5. OneRing'
    BY <1>1, <2>2, <2>3 DEF SInv, OneRing, Injective
  <2> QED
    BY <1>1, <2>2, <2>4, <2>5
    DEF SInv, AbortIsSafe, LetGo, HandleIsActive, Injective, RingsComplete,
        RingsInjective
<1>5. CASE DispatchFails
  <2>1. PICK i \in DOMAIN queue_ring :
          queue_ring' = Append(RemoveAt(queue_ring, i), queue_ring[i])
    BY <1>5 DEF DispatchFails
  <2>2. UNCHANGED <<fetch_ring, fetch_is_active, handle>>
    BY <1>5 DEF DispatchFails, curl
  <2> DEFINE q == RemoveAt(queue_ring, i)
  <2>3. Injective(queue_ring') /\ Queued' = Queued
    <3>1. /\ q \in Seq(Fetch) /\ Injective(q) /\ queue_ring' = Append(q, queue_ring[i])
          /\ ToSet(q) = Queued \ {queue_ring[i]}
          /\ queue_ring[i] \in Queued /\ queue_ring[i] \in Fetch
      BY <1>3, <2>1
    <3> HIDE DEF q
    <3>2. Injective(queue_ring') /\ ToSet(queue_ring') = ToSet(q) \cup {queue_ring[i]}
      BY <3>1, AppendNew
    <3> QED BY <3>1, <3>2 DEF Queued
  <2>4. OneRing'
    BY <1>1, <2>2, <2>3 DEF SInv, OneRing, Injective
  <2> QED
    BY <1>1, <2>2, <2>4
    DEF SInv, AbortIsSafe, LetGo, HandleIsActive, Injective, RingsComplete,
        RingsInjective
<1> QED BY <1>4, <1>5

(* The steps of a poller that only move the program or send a message. *)
LEMMA MoveStructure ==
  ASSUME TypeOK, Control, SInv,
         \/ DispatchEnds \/ MainLoop \/ RingPoll \/ RingMessage \/ CurlPoll
         \/ ScheduledCurlPoll \/ PerformEnds \/ CurlPollReturns
         \/ CallbackReturns \/ \E f : CurlMessage(f)
  PROVE  SInv'
<1>1. UNCHANGED <<live, held, queue_ring, fetch_ring, fetch_is_active, ring,
                  aborted, told, handle, done>>
  BY DEF DispatchEnds, MainLoop, GuiReturns, fetch_poll, PollFetchers,
         PollReturns, NotifyReturns, RingPoll, RingMessage, Message, CurlPoll,
         ScheduledCurlPoll, PerformEnds, CurlPollReturns, CallbackReturns,
         CurlMessage, client, rings, flags, curl
<1>2. CASE DispatchEnds \/ MainLoop \/ CurlPoll \/ ScheduledCurlPoll
           \/ PerformEnds \/ CurlPollReturns
  <2>1. Stopped' = Stopped
    BY <1>2 DEF DispatchEnds, MainLoop, GuiReturns, fetch_poll, PollFetchers,
                PollReturns, NotifyReturns, CurlPoll, ScheduledCurlPoll,
                PerformEnds, CurlPollReturns, position, Stopped
  <2> QED BY <1>1, <2>1, SameStructure
<1>3. CASE RingPoll \/ RingMessage \/ \E f : CurlMessage(f)
  <2>1. cbret = "none" /\ cbret' # "free"
    BY <1>3 DEF RingPoll, RingMessage, CurlMessage, Message, Control, At
  <2>2. Stopped' = Stopped
    BY <2>1 DEF Stopped
  <2> QED BY <1>1, <2>2, SameStructure
<1>4. CASE CallbackReturns
  <2>1. Stopped' = Stopped
    BY <1>4 DEF CallbackReturns, Stopped
  <2> QED BY <1>1, <2>1, SameStructure
<1> QED BY <1>2, <1>3, <1>4

(* The last message of a fetch that stays in its ring. *)
LEMMA LastMessageStructure ==
  ASSUME TypeOK, Control, SInv, RingLastMessage \/ \E f \in Curl : CurlHeaders(f)
  PROVE  SInv'
<1>1. PICK f : /\ held' = held \ {f} /\ told' = told \cup {f}
               /\ aborted' \subseteq aborted \cup {f}
               /\ f \in live /\ cbret = "none" /\ cbret' # "free"
  <2>1. CASE RingLastMessage
    <3>1. /\ cb \in Fetch \ Curl /\ ring[scheme[cb]] # <<>>
          /\ Head(ring[scheme[cb]]) = cb
      BY <2>1 DEF RingLastMessage, Control, At
    <3>2. scheme[cb] \in RingSchemes
      BY <3>1, FetchAssumption DEF Curl
    <3>3. cb \in ToSet(ring[scheme[cb]])
      BY <3>1, <3>2, TailProperties DEF TypeOK, SInv, RingsInjective
    <3>4. cb \in live
      BY <3>2, <3>3 DEF SInv, RingsComplete
    <3> QED BY <2>1, <3>4 DEF RingLastMessage, LastMessage, Control, At
  <2>2. ASSUME NEW f \in Curl, CurlHeaders(f)
        PROVE  /\ held' = held \ {f} /\ told' = told \cup {f}
               /\ aborted' \subseteq aborted \cup {f}
               /\ f \in live /\ cbret = "none" /\ cbret' # "free"
    <3>1. f \in handle
      <4>1. CASE f = Head(done) /\ done # <<>>
        BY <4>1, TailProperties DEF TypeOK, SInv, HandleIsActive
      <4>2. CASE Running(f)
        BY <4>2 DEF Running
      <4> QED BY <2>2, <4>1, <4>2 DEF CurlHeaders
    <3>2. f \in live
      BY <3>1 DEF SInv, HandleIsActive, OneRing
    <3> QED BY <2>2, <3>2 DEF CurlHeaders, LastMessage, Control, At
  <2> QED BY <2>1, <2>2
<1>2. UNCHANGED <<live, queue_ring, fetch_ring, fetch_is_active, ring, handle, done>>
  BY DEF RingLastMessage, CurlHeaders, rings, curl
<1>3. aborted \subseteq aborted'
  BY DEF RingLastMessage, CurlHeaders
<1>4. Stopped' = Stopped
  BY <1>1 DEF Stopped
<1> QED
  BY <1>1, <1>2, <1>3, <1>4
  DEF SInv, OneRing, Queued, AbortIsSafe, LetGo, HandleIsActive, Injective,
      RingsComplete, RingsInjective

LEMMA RingFreeStructure ==
  ASSUME TypeOK, Control, SInv, RingFree
  PROVE  SInv'
<1>1. /\ cb \in Fetch \ Curl /\ cbret = "none" /\ cbret' = "none"
      /\ ring[scheme[cb]] # <<>> /\ Head(ring[scheme[cb]]) = cb
  BY DEF RingFree, Control, At
<1> DEFINE s == scheme[cb]
<1>2. s \in RingSchemes
  BY <1>1, FetchAssumption DEF Curl
<1>3. ring[s] \in Seq(Fetch) /\ Injective(ring[s])
  BY <1>2 DEF TypeOK, SInv, RingsInjective
<1>4. /\ Injective(Tail(ring[s])) /\ cb \in ToSet(ring[s])
      /\ ToSet(Tail(ring[s])) = ToSet(ring[s]) \ {cb}
  BY <1>1, <1>3, TailProperties
<1>5. Stopped = {} /\ Stopped' = {}
  BY <1>1 DEF Stopped
<1>6. cb \in live \ Stopped
  BY <1>2, <1>4, <1>5 DEF SInv, RingsComplete
<1>7. fetch_remove_from_queues(cb) /\ fetch_free(cb)
  BY DEF RingFree
<1>8. /\ Injective(queue_ring') /\ ToSet(queue_ring') = Queued \ {cb}
      /\ fetch_ring' = fetch_ring \ {cb}
  BY <1>6, <1>7, RemovalEffect
<1>9. /\ UNCHANGED <<held, handle, done>> /\ cb \in aborted \cup told
      /\ ring' = [ring EXCEPT ![s] = Tail(ring[s])]
  BY DEF RingFree, curl
<1>10. OneRing'
  BY <1>5, <1>7, <1>8 DEF fetch_free, SInv, OneRing, Queued, Injective
<1>11. held \subseteq live' \ Stopped'
  BY <1>5, <1>7, <1>9 DEF fetch_free, SInv, AbortIsSafe, LetGo
<1>12. ASSUME NEW r \in RingSchemes
       PROVE  ToSet(ring'[r]) = {f \in live' : scheme[f] = r} /\ Injective(ring'[r])
  <2>1. Injective(ring[r]) /\ ToSet(ring[r]) = {f \in live : scheme[f] = r}
    BY DEF SInv, RingsInjective, RingsComplete
  <2>2. live' = live \ {cb}
    BY <1>7 DEF fetch_free
  <2>3. CASE r = s
    <3>1. ring'[r] = Tail(ring[s])
      BY <1>2, <1>9, <2>3 DEF TypeOK
    <3> QED BY <1>4, <2>1, <2>2, <2>3, <3>1
  <2>4. CASE r # s
    <3>1. ring'[r] = ring[r]
      BY <1>9, <2>4 DEF TypeOK
    <3> QED BY <2>1, <2>2, <2>4, <3>1
  <2> QED BY <2>3, <2>4
<1>13. LetGo' /\ HandleIsActive'
  BY <1>1, <1>6, <1>7, <1>8, <1>9
  DEF fetch_free, SInv, LetGo, HandleIsActive
<1> QED
  BY <1>5, <1>7, <1>9, <1>10, <1>11, <1>12, <1>13
  DEF fetch_free, SInv, AbortIsSafe, Injective, RingsComplete, RingsInjective

LEMMA CurlDoneStructure ==
  ASSUME TypeOK, Control, SInv, fetch_curl_done
  PROVE  SInv'
<1> DEFINE f == Head(done)
<1>1. done # <<>> /\ done \in Seq(Curl) /\ Injective(done) /\ cbret = "none"
  BY DEF fetch_curl_done, TypeOK, SInv, Control, At
<1>2. /\ done' = Tail(done) /\ handle' = handle \ {f} /\ ring' = ring
      /\ fetch_remove_from_queues(f)
  BY DEF fetch_curl_done
<1>3. /\ f \in ToSet(done) /\ Injective(done') /\ ToSet(done') = ToSet(done) \ {f}
  BY <1>1, <1>2, TailProperties
<1> HIDE DEF f
<1>4. f \in Curl /\ f \in fetch_ring /\ f \in live /\ Stopped = {}
  BY <1>1, <1>3 DEF SInv, HandleIsActive, OneRing, Stopped
<1>5. /\ Injective(queue_ring') /\ ToSet(queue_ring') = Queued \ {f}
      /\ fetch_ring' = fetch_ring \ {f}
  BY <1>2, <1>4, RemovalEffect
<1>6. HandleIsActive'
  BY <1>2, <1>3, <1>5 DEF SInv, HandleIsActive
<1>7. scheme[f] \notin RingSchemes
  BY <1>4, FetchAssumption DEF Curl
<1>8. CASE f \in aborted \cup told /\ fetch_free(f) /\ UNCHANGED <<held, pc, cb, cbret>>
  <2>1. Stopped' = {}
    BY <1>1, <1>8 DEF Stopped
  <2>2. OneRing'
    BY <1>4, <1>5, <1>8, <2>1 DEF fetch_free, SInv, OneRing, Queued, Injective
  <2>3. AbortIsSafe' /\ LetGo'
    BY <1>4, <1>8, <2>1 DEF fetch_free, SInv, AbortIsSafe, LetGo
  <2> QED
    BY <1>2, <1>3, <1>6, <1>7, <1>8, <2>1, <2>2, <2>3
    DEF fetch_free, SInv, RingsComplete, RingsInjective, Injective
<1>9. CASE LastMessage(f, "free") /\ UNCHANGED <<live, fetch_is_active, aborted>>
  <2>1. Stopped' = {f}
    BY <1>9 DEF LastMessage, Stopped
  <2>2. OneRing'
    BY <1>4, <1>5, <1>9, <2>1 DEF SInv, OneRing, Queued, Injective
  <2>3. AbortIsSafe' /\ LetGo'
    BY <1>4, <1>9, <2>1 DEF LastMessage, SInv, AbortIsSafe, LetGo
  <2> QED
    BY <1>2, <1>3, <1>4, <1>6, <1>9, <2>1, <2>2, <2>3
    DEF SInv, RingsComplete, RingsInjective, Injective
<1> QED BY <1>8, <1>9 DEF fetch_curl_done, f

LEMMA CurlFreeStructure ==
  ASSUME TypeOK, Control, SInv, CurlFree
  PROVE  SInv'
<1>1. /\ cbret = "free" /\ cb \in Curl /\ cbret' = "none" /\ fetch_free(cb)
      /\ UNCHANGED <<held, queue_ring, fetch_ring, ring, handle, done>>
  BY DEF CurlFree, Control, At, curl
<1>2. Stopped = {cb} /\ Stopped' = {}
  BY <1>1 DEF Stopped
<1>3. scheme[cb] \notin RingSchemes
  BY <1>1, FetchAssumption DEF Curl
<1>4. OneRing'
  BY <1>1, <1>2 DEF fetch_free, SInv, OneRing, Queued, Injective
<1> QED
  BY <1>1, <1>2, <1>3, <1>4
  DEF fetch_free, SInv, AbortIsSafe, LetGo, HandleIsActive, Injective,
      RingsComplete, RingsInjective

LEMMA StructureStep ==
  ASSUME TypeOK, Control, SInv, [Next]_vars
  PROVE  SInv'
<1>1. CASE Client
  BY <1>1, StartStructure, AbortStructure DEF Client
<1>2. CASE Dispatch \/ MainLoop \/ CallbackReturns
  BY <1>2, DispatchStructure, MoveStructure DEF Dispatch
<1>3. CASE RingFetcher
  BY <1>3, MoveStructure, LastMessageStructure, RingFreeStructure DEF RingFetcher
<1>4. CASE CurlFetcher
  <2>1. ASSUME NEW f \in Curl, CurlComplete(f)
        PROVE  SInv'
    <3>1. /\ done' = Append(done, f) /\ f \in handle /\ f \notin ToSet(done)
          /\ UNCHANGED <<live, held, queue_ring, fetch_ring, fetch_is_active,
                         ring, aborted, told, handle, cb, cbret>>
      BY <2>1 DEF CurlComplete, Running, client, rings, flags, position
    <3>2. done \in Seq(Curl) /\ Injective(done)
      BY DEF TypeOK, SInv
    <3>3. Injective(done') /\ ToSet(done') = ToSet(done) \cup {f}
      BY <3>1, <3>2, AppendNew
    <3>4. Stopped' = Stopped
      BY <3>1 DEF Stopped
    <3> QED
      BY <3>1, <3>3, <3>4
      DEF SInv, OneRing, Queued, AbortIsSafe, LetGo, HandleIsActive,
          RingsComplete, RingsInjective, Injective
  <2> QED
    BY <1>4, <2>1, MoveStructure, LastMessageStructure, CurlDoneStructure,
       CurlFreeStructure
    DEF CurlFetcher
<1>5. CASE UNCHANGED vars
  <2>1. Stopped' = Stopped
    BY <1>5 DEF vars, Stopped
  <2> QED BY <1>5, <2>1, SameStructure DEF vars
<1> QED BY <1>1, <1>2, <1>3, <1>4, <1>5 DEF Next

(* The strengthened structure of the rings is kept by every step: where    *)
(* each allocated fetch is, what the client may still abort, and how        *)
(* libcurl's handles and the fetchers' own rings agree with the scheduler's *)
(* (content/fetch.c:676-700, curl.c:700-738, data.c:103-132).               *)
THEOREM StructureHolds == Spec => []SInv
<1>1. Init => SInv
  <2> SUFFICES ASSUME Init PROVE SInv
    OBVIOUS
  <2>1. /\ Stopped = {} /\ Queued = {} /\ ToSet(done) = {}
        /\ \A s \in RingSchemes : ToSet(ring[s]) = {} /\ Injective(ring[s])
        /\ Injective(queue_ring) /\ Injective(done)
    BY DEF Init, Stopped, Queued, ToSet, Injective
  <2> QED
    BY <2>1
    DEF Init, SInv, OneRing, AbortIsSafe, LetGo, HandleIsActive, Injective,
        RingsComplete, RingsInjective
<1>2. TypeOK /\ Control /\ SInv /\ [Next]_vars => SInv'
  BY StructureStep
<1> QED BY <1>1, <1>2, TypeCorrect, PTL DEF Spec

(* Every allocated fetch is in exactly one ring, once, and fetch_is_active  *)
(* says in which (content/fetch.c:676-700).                                 *)
THEOREM OneRingHolds == Spec => []OneRing
<1>1. SInv => OneRing
  BY DEF SInv
<1> QED BY <1>1, StructureHolds, PTL

(* A fetch the client still points to is allocated and in a ring, so that   *)
(* fetch_abort may be called on it at any time (content/llcache.c:1698-1716,*)
(* content/fetchers/curl.c:700-711).                                        *)
THEOREM AbortIsSafeHolds == Spec => []AbortIsSafe
<1>1. SInv => AbortIsSafe
  BY DEF SInv
<1> QED BY <1>1, StructureHolds, PTL

(* libcurl has a handle for exactly the active cURL fetches, and reports     *)
(* the end of those alone (content/fetchers/curl.c:478-489, 727-737); the    *)
(* ring of every other fetcher holds the contexts of its allocated fetches,  *)
(* no fewer and no more (content/fetchers/data.c:103-132, 242-325).          *)
THEOREM FetchersAgreeHolds == Spec => []FetchersAgree
<1>1. SInv => FetchersAgree
  BY DEF SInv, FetchersAgree
<1> QED BY <1>1, StructureHolds, PTL

(* The flag the main loop gives to gui_poll is true exactly when a fetch   *)
(* is active (content/fetch.c:405, 694), except inside the dispatch loop.  *)
THEOREM ActiveFlagHolds == Spec => []ActiveFlag
<1>1. Init => ActiveFlag
  BY DEF Init, ActiveFlag
<1>2. ActiveFlag /\ [Next]_vars => ActiveFlag'
  <2> SUFFICES ASSUME ActiveFlag, [Next]_vars PROVE ActiveFlag'
    OBVIOUS
  <2> USE DEF ActiveFlag, rings
  <2>1. ASSUME NEW f, fetch_remove_from_queues(f)
        PROVE  ActiveFlag'
    BY <2>1 DEF fetch_remove_from_queues
  <2>2. CASE Client
    BY <2>1, <2>2 DEF Client, fetch_start, fetch_abort, ClientRuns
  <2>3. CASE Dispatch
    BY <2>3 DEF Dispatch, DispatchStarts, Dispatching, DispatchFails, DispatchEnds
  <2>4. CASE MainLoop \/ CallbackReturns
    BY <2>4 DEF MainLoop, GuiReturns, fetch_poll, PollFetchers, PollReturns,
                NotifyReturns, CallbackReturns
  <2>5. CASE RingFetcher
    BY <2>1, <2>5 DEF RingFetcher, RingPoll, RingMessage, Message,
                      RingLastMessage, RingFree
  <2>6. CASE CurlFetcher
    BY <2>1, <2>6 DEF CurlFetcher, CurlPoll, ScheduledCurlPoll, PerformEnds,
                      fetch_curl_done, CurlFree, CurlPollReturns, CurlMessage,
                      Message, CurlHeaders, CurlComplete
  <2>7. CASE UNCHANGED vars
    BY <2>7 DEF vars
  <2> QED BY <2>2, <2>3, <2>4, <2>5, <2>6, <2>7 DEF Next
<1> QED BY <1>1, <1>2, PTL DEF Spec
=============================================================================
