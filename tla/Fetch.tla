------------------------------- MODULE Fetch -------------------------------
(***************************************************************************)
(* The fetch scheduler of content/fetch.c together with what it relies on   *)
(* in its fetchers: the cURL fetcher (content/fetchers/curl.c), whose       *)
(* transfers run in libcurl, and the fetchers that keep a ring of their own *)
(* and do a whole fetch in one poll (data.c, file.c, resource.c, about.c).  *)
(*                                                                          *)
(* The program is single threaded: control is a program counter that        *)
(* follows the main loop gui_poll -> fetch_poll -> notification of users.   *)
(* The interleavings are those of callbacks: while a callback of a fetch    *)
(* runs, its client (llcache.c) may start and abort fetches, so fetch_start *)
(* and its dispatch loop run inside a poller that is half way through.      *)
(*                                                                          *)
(* A member of Fetch is a struct fetch: it may be allocated again after it  *)
(* was freed.  The order of fetch_ring is never read by the code (only its  *)
(* size and the number of its members for a host), so it is a set.          *)
(***************************************************************************)
EXTENDS SequencesExt

CONSTANTS
  Fetch,                  \* struct fetch addresses
  NoFetch,                \* NULL
  host,                   \* the host of a fetch's URL (NULL is a host here)
  scheme,                 \* the scheme of a fetch's URL
  CurlSchemes,            \* schemes of the cURL fetcher
  RingSchemes,            \* schemes of the fetchers that keep a ring
  fetchers,               \* the fetchers in the order fetch_poll visits them
  MayFail,                \* fetches whose start_fetch may fail
  max_fetchers,           \* option: limit on active fetches
  max_fetchers_per_host   \* option: limit on active fetches of one host

Host == {host[f] : f \in Fetch}

ASSUME FetchAssumption ==
  /\ IsFiniteSet(Fetch)
  /\ NoFetch \notin Fetch
  /\ scheme \in [Fetch -> CurlSchemes \cup RingSchemes]
  /\ CurlSchemes \cap RingSchemes = {}
  /\ fetchers \in Seq(CurlSchemes \cup RingSchemes)
  /\ MayFail \subseteq Fetch
  /\ max_fetchers \in Nat
  /\ max_fetchers_per_host \in Nat

Curl == {f \in Fetch : scheme[f] \in CurlSchemes}

VARIABLES
  live,             \* allocated struct fetches
  held,             \* fetches the client may still pass to fetch_abort
  queue_ring,       \* queued fetches, the head first
  fetch_ring,       \* active fetches
  fetch_is_active,  \* fetches with the fetch_is_active flag
  fetch_active,     \* the global the main loop gives to gui_poll
  ring,             \* for each ring fetcher, its contexts, the head first
  aborted,          \* fetches flagged as aborted by their fetcher
  told,             \* fetches whose last message has been sent
  handle,           \* fetches that own a cURL handle in the multi handle
  done,             \* CURLMSG_DONE messages waiting in libcurl
  scheduled,        \* a call of fetch_curl_poll is scheduled
  pc,               \* where the program is
  cb,               \* the fetch a poller is at
  cbret,            \* where the running callback returns to
  dret,             \* where the running dispatch loop returns to
  todo,             \* fetchers fetch_poll has still to poll
  pollret           \* where fetch_curl_poll returns to

rings    == <<queue_ring, fetch_ring, fetch_is_active, fetch_active>>
flags    == <<aborted, told>>
curl     == <<handle, done, scheduled>>
client   == <<live, held>>
position == <<cb, cbret, todo, pollret>>
vars     == <<live, held, queue_ring, fetch_ring, fetch_is_active,
              fetch_active, ring, aborted, told, handle, done, scheduled,
              pc, cb, cbret, dret, todo, pollret>>

Init ==
  /\ live = {} /\ held = {}
  /\ queue_ring = <<>> /\ fetch_ring = {} /\ fetch_is_active = {}
  /\ fetch_active = FALSE
  /\ ring = [s \in RingSchemes |-> <<>>]
  /\ aborted = {} /\ told = {}
  /\ handle = {} /\ done = <<>> /\ scheduled = FALSE
  /\ pc = "gui" /\ cb = NoFetch /\ cbret = "none" /\ dret = "none"
  /\ todo = <<>> /\ pollret = "none"

(* The places where code outside the fetch layer runs: event handlers and  *)
(* scheduled functions, callbacks, and the user notification of llcache.   *)
ClientRuns == pc \in {"gui", "callback", "last", "notify"}

-----------------------------------------------------------------------------
(* Removal from the queue, from a ring, and the freeing of a struct fetch. *)

Dequeue(f) == \E i \in DOMAIN queue_ring :
  queue_ring[i] = f /\ queue_ring' = RemoveAt(queue_ring, i)

(* Seeded fault: the flag of the fetch is not asked. *)
RemoveFromActive(f) ==
  /\ fetch_ring' = fetch_ring \ {f} /\ UNCHANGED queue_ring
  /\ fetch_active' = (fetch_ring' # {})

fetch_remove_from_queues(f) ==
  /\ \/ f \in fetch_is_active /\ fetch_ring' = fetch_ring \ {f}
                              /\ UNCHANGED queue_ring
     \/ f \notin fetch_is_active /\ Dequeue(f) /\ UNCHANGED fetch_ring
  /\ fetch_active' = (fetch_ring' # {})

fetch_free(f) ==
  /\ live' = live \ {f}
  /\ fetch_is_active' = fetch_is_active \ {f}
  /\ aborted' = aborted \ {f}
  /\ told' = told \ {f}

-----------------------------------------------------------------------------
(* The dispatch loop.  It runs with pc = "dispatch" and returns to dret.   *)

Room(f) ==
  Cardinality({g \in fetch_ring : host[g] = host[f]}) < max_fetchers_per_host

(* The position in the queue of the fetch to dispatch.  The code also      *)
(* skips a run of fetches of the host it just found full, which have no    *)
(* room either.                                                            *)
Chosen(i) ==
  /\ i \in DOMAIN queue_ring
  /\ Room(queue_ring[i])
  /\ \A j \in 1..(i-1) : ~Room(queue_ring[j])

Dispatching ==
  /\ pc = "dispatch"
  /\ queue_ring # <<>>
  /\ Cardinality(fetch_ring) < max_fetchers

(* Seeded fault: a handle for fetches of every fetcher. *)
DispatchWithHandle(i) ==
  LET f == queue_ring[i] IN
  /\ queue_ring' = RemoveAt(queue_ring, i)
  /\ fetch_ring' = fetch_ring \cup {f}
  /\ fetch_is_active' = fetch_is_active \cup {f}
  /\ handle' = handle \cup {f} /\ scheduled' = TRUE

fetch_dispatch_job(i) ==
  LET f == queue_ring[i] IN
  /\ queue_ring' = RemoveAt(queue_ring, i)
  /\ fetch_ring' = fetch_ring \cup {f}
  /\ fetch_is_active' = fetch_is_active \cup {f}
  /\ IF f \in Curl
     THEN handle' = handle \cup {f} /\ scheduled' = TRUE
     ELSE UNCHANGED <<handle, scheduled>>

(* start_fetch succeeds and the loop goes round again. *)
DispatchStarts ==
  /\ Dispatching
  /\ \E i \in DOMAIN queue_ring : Chosen(i) /\ fetch_dispatch_job(i)
  /\ UNCHANGED <<live, held, fetch_active, ring, flags, done, pc, dret,
                 position>>

(* Seeded fault: the loop is left without setting fetch_active. *)
DispatchFailsEarly ==
  /\ Dispatching
  /\ \E i \in DOMAIN queue_ring :
       /\ Chosen(i) /\ queue_ring[i] \in MayFail
       /\ queue_ring' = Append(RemoveAt(queue_ring, i), queue_ring[i])
  /\ pc' = dret /\ dret' = "none"
  /\ UNCHANGED <<client, fetch_ring, fetch_is_active, fetch_active, ring,
                 flags, curl, position>>

(* start_fetch fails: back to the end of the queue, and the loop ends. *)
DispatchFails ==
  /\ Dispatching
  /\ \E i \in DOMAIN queue_ring :
       /\ Chosen(i) /\ queue_ring[i] \in MayFail
       /\ queue_ring' = Append(RemoveAt(queue_ring, i), queue_ring[i])
  /\ fetch_active' = (fetch_ring # {})
  /\ pc' = dret /\ dret' = "none"
  /\ UNCHANGED <<client, fetch_ring, fetch_is_active, ring, flags, curl,
                 position>>

(* Nothing is queued, there is no room, or no queued fetch has room. *)
DispatchEnds ==
  /\ pc = "dispatch"
  /\ Dispatching => ~ \E i \in DOMAIN queue_ring : Chosen(i)
  /\ fetch_active' = (fetch_ring # {})
  /\ pc' = dret /\ dret' = "none"
  /\ UNCHANGED <<client, queue_ring, fetch_ring, fetch_is_active, ring, flags,
                 curl, position>>

-----------------------------------------------------------------------------
(* What the client may do whenever its code runs.                          *)

(* A new fetch joins the queue, which is asked to run.  A failing set-up   *)
(* leaves no trace.                                                        *)
fetch_start(f) ==
  /\ ClientRuns
  /\ f \in Fetch \ live
  /\ live' = live \cup {f}
  /\ held' = held \cup {f}
  /\ queue_ring' = Append(queue_ring, f)
  /\ ring' = [s \in RingSchemes |->
                IF s = scheme[f] THEN Append(ring[s], f) ELSE ring[s]]
  /\ pc' = "dispatch"
  /\ dret' = pc
  /\ UNCHANGED <<fetch_ring, fetch_is_active, fetch_active, flags, curl,
                 position>>

(* The fetcher flags the fetch, and its poll will free it; but a cURL      *)
(* fetch without a handle goes at once.                                    *)
fetch_abort(f) ==
  /\ ClientRuns
  /\ f \in held
  /\ held' = held \ {f}
  /\ \/ /\ f \in Curl \ handle
        /\ fetch_remove_from_queues(f)
        /\ fetch_free(f)
     \/ /\ f \notin Curl \ handle
        /\ aborted' = aborted \cup {f}
        /\ UNCHANGED <<live, told, rings>>
  /\ UNCHANGED <<ring, curl, pc, dret, position>>

(* A callback returns to the poller that made it. *)
CallbackReturns ==
  /\ pc \in {"callback", "last"}
  /\ pc' = cbret
  /\ cb' = IF cbret \in {"ring", "free"} THEN cb ELSE NoFetch
  /\ cbret' = IF cbret = "free" THEN cbret ELSE "none"
  /\ UNCHANGED <<client, rings, ring, flags, curl, dret, todo, pollret>>

(* A poller sends fetch f a message that is not its last. *)
Message(f) ==
  /\ pc' = "callback" /\ cb' = f /\ cbret' = pc
  /\ UNCHANGED <<client, rings, ring, flags, curl, dret, todo, pollret>>

(* Seeded fault: the client keeps its pointer to the fetch. *)
LastMessageKept(f, return) ==
  /\ pc' = "last" /\ cb' = f /\ cbret' = return
  /\ told' = told \cup {f} /\ UNCHANGED held

(* The last message: the client forgets the fetch as it gets it. *)
LastMessage(f, return) ==
  /\ pc' = "last" /\ cb' = f /\ cbret' = return
  /\ held' = held \ {f}
  /\ told' = told \cup {f}

-----------------------------------------------------------------------------
(* The main loop.                                                          *)

GuiReturns ==
  /\ pc = "gui"
  /\ pc' = "fetch_poll"
  /\ UNCHANGED <<client, rings, ring, flags, curl, dret, position>>

(* Seeded fault: the poll does not look at the queue. *)
PollWithoutDispatch ==
  /\ pc = "fetch_poll"
  /\ pc' = "dispatched"
  /\ UNCHANGED <<client, rings, ring, flags, curl, dret, position>>

fetch_poll ==
  /\ pc = "fetch_poll"
  /\ IF queue_ring = <<>>
     THEN pc' = "dispatched" /\ UNCHANGED dret
     ELSE pc' = "dispatch" /\ dret' = "dispatched"
  /\ UNCHANGED <<client, rings, ring, flags, curl, position>>

(* There is no point in polling when no fetch is active. *)
PollFetchers ==
  /\ pc = "dispatched"
  /\ IF fetch_active
     THEN pc' = "poll" /\ todo' = fetchers
     ELSE pc' = "notify" /\ UNCHANGED todo
  /\ UNCHANGED <<client, rings, ring, flags, curl, dret, cb, cbret, pollret>>

PollReturns ==
  /\ pc = "poll" /\ todo = <<>>
  /\ pc' = "notify"
  /\ UNCHANGED <<client, rings, ring, flags, curl, dret, position>>

NotifyReturns ==
  /\ pc = "notify"
  /\ pc' = "gui"
  /\ UNCHANGED <<client, rings, ring, flags, curl, dret, position>>

-----------------------------------------------------------------------------
(* A ring fetcher.  Its loop begins at the head of its ring and ends when  *)
(* the next context is the head: since freeing the head makes the next one *)
(* the head, a call handles exactly one context.  It does not ask whether  *)
(* the fetch was dispatched or is still queued.                            *)

RingPoll ==
  /\ pc = "poll" /\ todo # <<>> /\ Head(todo) \in RingSchemes
  /\ todo' = Tail(todo)
  /\ IF ring[Head(todo)] = <<>>
     THEN UNCHANGED <<pc, cb>>
     ELSE pc' = "ring" /\ cb' = Head(ring[Head(todo)])
  /\ UNCHANGED <<client, rings, ring, flags, curl, dret, cbret, pollret>>

RingMessage ==
  /\ pc = "ring" /\ cb \notin aborted \cup told
  /\ Message(cb)

RingLastMessage ==
  /\ pc = "ring" /\ cb \notin aborted \cup told
  /\ LastMessage(cb, "ring")
  /\ UNCHANGED <<live, rings, ring, aborted, curl, dret, todo, pollret>>

(* Seeded fault: the last context of the ring goes. *)
RingFreeLast ==
  /\ pc = "ring" /\ cb \in aborted \cup told
  /\ fetch_remove_from_queues(cb)
  /\ fetch_free(cb)
  /\ ring' = [ring EXCEPT ![scheme[cb]] = Front(@)]
  /\ pc' = "poll" /\ cb' = NoFetch
  /\ UNCHANGED <<held, curl, dret, cbret, todo, pollret>>

RingFree ==
  /\ pc = "ring" /\ cb \in aborted \cup told
  /\ fetch_remove_from_queues(cb)
  /\ fetch_free(cb)
  /\ ring' = [ring EXCEPT ![scheme[cb]] = Tail(@)]
  /\ pc' = "poll" /\ cb' = NoFetch
  /\ UNCHANGED <<held, curl, dret, cbret, todo, pollret>>

-----------------------------------------------------------------------------
(* The cURL fetcher: curl_multi_perform runs the transfers and calls back, *)
(* then the finished transfers are handled one by one.                     *)

CurlPoll ==
  /\ pc = "poll" /\ todo # <<>> /\ Head(todo) \in CurlSchemes
  /\ todo' = Tail(todo)
  /\ pc' = "perform" /\ pollret' = "poll"
  /\ UNCHANGED <<client, rings, ring, flags, curl, dret, cb, cbret>>

(* The call scheduled when a transfer was initiated. *)
ScheduledCurlPoll ==
  /\ pc = "gui" /\ scheduled
  /\ scheduled' = FALSE
  /\ pc' = "perform" /\ pollret' = "gui"
  /\ UNCHANGED <<client, rings, ring, flags, handle, done, dret, cb, cbret,
                 todo>>

Running(f) == f \in handle /\ f \notin ToSet(done)

(* Progress, a header or a piece of the body. *)
CurlMessage(f) ==
  /\ pc = "perform" /\ Running(f) /\ f \notin aborted \cup told
  /\ Message(f)

(* The response needs no body (NOTMODIFIED, REDIRECT, AUTH or an ERROR for *)
(* a status that is not 2xx).  It is found out when the first data arrive, *)
(* or when the transfer is done; in a partial transfer also after an       *)
(* abort.  The client may abort the fetch as it handles the message.       *)
CurlHeaders(f) ==
  /\ \/ pc = "perform" /\ Running(f) /\ f \notin aborted
     \/ pc = "done" /\ done # <<>> /\ f = Head(done)
  /\ f \notin told
  /\ LastMessage(f, pc)
  /\ aborted' \in {aborted, aborted \cup {f}}
  /\ UNCHANGED <<live, rings, ring, curl, dret, todo, pollret>>

CurlComplete(f) ==
  /\ pc = "perform" /\ Running(f)
  /\ done' = Append(done, f)
  /\ UNCHANGED <<client, rings, ring, flags, handle, scheduled, pc, dret,
                 position>>

PerformEnds ==
  /\ pc = "perform"
  /\ pc' = "done"
  /\ UNCHANGED <<client, rings, ring, flags, curl, dret, position>>

(* The fetch leaves the active ring before its client is told the end: an  *)
(* aborted fetch, or one whose last message went out, is freed silently.   *)
fetch_curl_done ==
  /\ pc = "done" /\ done # <<>>
  /\ LET f == Head(done) IN
     /\ handle' = handle \ {f}
     /\ fetch_remove_from_queues(f)
     /\ \/ /\ f \in aborted \cup told
           /\ fetch_free(f)
           /\ UNCHANGED <<held, pc, cb, cbret>>
        \/ /\ f \notin aborted \cup told
           /\ LastMessage(f, "free")
           /\ UNCHANGED <<live, fetch_is_active, aborted>>
  /\ done' = Tail(done)
  /\ UNCHANGED <<ring, scheduled, dret, todo, pollret>>

CurlFree ==
  /\ pc = "free"
  /\ fetch_free(cb)
  /\ pc' = "done" /\ cb' = NoFetch /\ cbret' = "none"
  /\ UNCHANGED <<held, queue_ring, fetch_ring, fetch_active, ring, curl, dret,
                 todo, pollret>>

CurlPollReturns ==
  /\ pc = "done" /\ done = <<>>
  /\ pc' = pollret /\ pollret' = "none"
  /\ UNCHANGED <<client, rings, ring, flags, curl, dret, cb, cbret, todo>>

-----------------------------------------------------------------------------
Client == \E f \in Fetch : fetch_start(f) \/ fetch_abort(f)

Dispatch == DispatchStarts \/ DispatchFails \/ DispatchEnds

MainLoop == GuiReturns \/ fetch_poll \/ PollFetchers \/ PollReturns
            \/ NotifyReturns

RingFetcher == RingPoll \/ RingMessage \/ RingLastMessage \/ RingFree

CurlFetcher == \/ CurlPoll \/ ScheduledCurlPoll \/ PerformEnds
               \/ fetch_curl_done \/ CurlFree \/ CurlPollReturns
               \/ \E f \in Curl : \/ CurlMessage(f) \/ CurlHeaders(f)
                                  \/ CurlComplete(f)

Next == Client \/ Dispatch \/ MainLoop \/ RingFetcher \/ CurlFetcher
        \/ CallbackReturns

Spec == Init /\ [][Next]_vars

(* A fair program: the single thread keeps going; code of the client that  *)
(* was called returns however often it starts or aborts fetches first; a   *)
(* fetcher stops calling back at some time; libcurl ends every transfer    *)
(* (the server answers or a time limit set on the handle expires); and     *)
(* gui_poll returns, which when it was told that no fetch is active it     *)
(* does only because a user event or a scheduled call comes.               *)
Program == \/ Dispatch \/ fetch_poll \/ PollFetchers \/ PollReturns
           \/ RingPoll \/ RingFree \/ CurlPoll \/ fetch_curl_done \/ CurlFree
           \/ CurlPollReturns

Fairness ==
  /\ WF_vars(Program)
  /\ SF_vars(GuiReturns) /\ SF_vars(CallbackReturns) /\ SF_vars(NotifyReturns)
  /\ SF_vars(RingLastMessage) /\ SF_vars(PerformEnds)
  /\ \A f \in Curl : SF_vars(CurlComplete(f))

FairSpec == Spec /\ Fairness

-----------------------------------------------------------------------------
(* The type invariant of the scheduler's state (content/fetch.c:78-96).    *)
TypeOK ==
  /\ live \subseteq Fetch /\ held \subseteq Fetch
  /\ queue_ring \in Seq(Fetch)
  /\ fetch_ring \subseteq Fetch /\ fetch_is_active \subseteq Fetch
  /\ fetch_active \in BOOLEAN /\ scheduled \in BOOLEAN
  /\ ring \in [RingSchemes -> Seq(Fetch)]
  /\ aborted \subseteq Fetch /\ told \subseteq Fetch
  /\ handle \subseteq Curl /\ done \in Seq(Curl)
  /\ pc \in {"gui", "fetch_poll", "dispatch", "dispatched", "poll", "ring",
             "perform", "done", "free", "callback", "last", "notify"}
  /\ cb \in Fetch \cup {NoFetch}
  /\ cbret \in {"none", "ring", "perform", "done", "free"}
  /\ dret \in {"none", "gui", "callback", "last", "notify", "dispatched"}
  /\ todo \in Seq(CurlSchemes \cup RingSchemes)
  /\ pollret \in {"none", "poll", "gui"}

(* The fetch fetch_curl_done has stopped but not yet freed: it is in no    *)
(* ring, and its flag still says it is active.                             *)
Stopped == IF cbret = "free" THEN {cb} ELSE {}

Queued == ToSet(queue_ring)

(* Every allocated fetch is in exactly one of the two rings, and once,     *)
(* except the one fetch_curl_stop just removed; the flag says which.  This *)
(* is what lets fetch_remove_from_queues take a fetch out of the ring its  *)
(* flag names without looking (content/fetch.c:685-689).                   *)
OneRing ==
  /\ \A i, j \in DOMAIN queue_ring : queue_ring[i] = queue_ring[j] => i = j
  /\ Queued \cap fetch_ring = {}
  /\ Queued \cup fetch_ring = live \ Stopped
  /\ Queued \cap fetch_is_active = {}
  /\ fetch_ring \subseteq fetch_is_active

(* The limits of the user's options are never exceeded, in all and for     *)
(* each host, whatever starts and aborts callbacks make (fetch.c:395,432). *)
Limits ==
  /\ Cardinality(fetch_ring) <= max_fetchers
  /\ \A h \in Host :
       Cardinality({f \in fetch_ring : host[f] = h}) <= max_fetchers_per_host

(* The global given to gui_poll says truly whether a fetch is active,      *)
(* except while the dispatch loop runs (fetch.c:405,694; netsurf.c:249).   *)
ActiveFlag == pc # "dispatch" => (fetch_active <=> fetch_ring # {})

(* A fetch the client may still abort is allocated and in a ring, so that  *)
(* the abort of a cURL fetch without a handle, which frees it at once      *)
(* (curl.c:705-710), finds it there.                                       *)
AbortIsSafe == held \subseteq live \ Stopped

(* libcurl has a handle for exactly the active cURL fetches, and only for  *)
(* those does it hold a result (curl.c:478-489,727-737).                   *)
HandleIsActive ==
  /\ handle = Curl \cap fetch_ring
  /\ ToSet(done) \subseteq handle

(* Whenever the rings of the ring fetchers are looked at, they hold the    *)
(* allocated fetches of their scheme (data.c:103,120): none is lost to the *)
(* poller, queued or not, and none is left behind in the ring.             *)
RingsComplete ==
  \A s \in RingSchemes :
    ToSet(ring[s]) = {f \in live : scheme[f] = s}

(* Each fetcher and the scheduler have the same fetches in view, whatever  *)
(* callbacks start and abort while a poller is half way through its list:  *)
(* libcurl its handles, a ring fetcher its ring.                           *)
FetchersAgree == HandleIsActive /\ RingsComplete

(* Every fetch that can be started comes to an end and is freed, be it     *)
(* polled, aborted, queued behind a full host or behind one whose start     *)
(* fails again and again, or started from inside a callback.               *)
FetchEnds == \A f \in Fetch \ MayFail : f \in live ~> f \notin live
=============================================================================
