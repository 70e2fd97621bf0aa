------------------------------ MODULE LLCache ------------------------------
(***************************************************************************)
(* The low-level cache (content/llcache.c): objects that are fetched once   *)
(* and shared by the handles of many clients, the validation of stale       *)
(* objects against the server, and the notification of clients.             *)
(*                                                                          *)
(* The program is single threaded.  gui_poll, where cURL is scheduled, and  *)
(* fetch_poll call llcache_fetch_callback with the messages of fetches;     *)
(* llcache_poll then walks the two object lists and the users of each       *)
(* object and brings every user up to the state of its object.  Both call   *)
(* clients, and a client may call any function of the cache from inside its *)
(* callback, on any of its handles.                                         *)
(*                                                                          *)
(* The fetch layer is modelled by the order of the messages of one fetch:   *)
(* headers, then either a message that needs no body or data and FINISHED;  *)
(* an aborted fetch may still report an error.  Allocation does not fail,   *)
(* except that an object needs a free member of Object.  POST requests      *)
(* behave as forced fetches.                                                *)
(***************************************************************************)
EXTENDS Lists

CONSTANTS
  Object,          \* addresses of llcache_object
  Handle,          \* addresses of llcache_handle
  Url,             \* URLs without their fragments
  Moved,           \* a user record whose handle was moved to another record
  Enabled,         \* the optional calls and messages of this instance
  NoCache,         \* values of no_cache a response may carry
  REDIRECT_LIMIT,  \* redirects followed before giving up
  MaxLen,          \* bound: chunks of source data of one object
  MaxTime,         \* bound: the clock
  MaxCandidates    \* bound: candidate_count

ASSUME LLCacheAssumption ==
  /\ NULL \notin Object \cup Handle \cup Url
  /\ Moved \notin Handle \cup {NULL}
  /\ NoCache \subseteq {"FRESH", "ALWAYS"}
  /\ IsFiniteSet(Object)
  /\ {REDIRECT_LIMIT, MaxLen, MaxCandidates} \subseteq Nat
  /\ MaxTime \in Nat \ {0}

VARIABLES
  obj,       \* the objects
  cached,    \* the list of cached objects, the head first
  uncached,  \* the list of uncached objects, the head first
  user,      \* the handle of each client and what it has been told
  now,       \* the clock, in units of a lifetime
  pc,        \* gui (and fetch_poll), notify or callback
  it         \* the walk over the users of an object, if one is going on

lists == <<cached, uncached>>
vars  == <<obj, cached, uncached, user, now, pc, it>>

(* Cache control data as llcache_invalidate_cache_control_data leaves them; *)
(* dated says that there is an etag or a date to make a request conditional *)
(* and expiry is the time the remaining lifetime ends.                      *)
Invalid == [req_time |-> 0, expiry |-> 0, no_cache |-> "FRESH",
            dated |-> FALSE]

(* A new object.  A fetch that is stopping has been aborted, but its        *)
(* fetcher has yet to see it.  The field "end" is history: how the fetch    *)
(* last ended, or that a 304 to another request said, after it failed or    *)
(* was aborted, that what there is was not modified: it was revived if that *)
(* request was conditional, vouched for if the server was not asked.        *)
llcache_object_new(u) ==
  [url |-> u, users |-> <<>>, state |-> "INIT", fetch |-> "none",
   query |-> FALSE, auth |-> FALSE, tls |-> FALSE, redirects |-> 0,
   force |-> FALSE, stream |-> FALSE, candidate |-> NULL, count |-> 0,
   len |-> 0, cache |-> Invalid, end |-> "none"]

Free   == llcache_object_new(NULL)
NoUser == [object |-> NULL, state |-> "INIT", bytes |-> 0]
NoWalk == [at |-> NULL, cur |-> NULL, event |-> "none", stage |-> "none",
           os |-> "INIT", orig |-> 0, loop |-> 0, dead |-> FALSE]

Init ==
  /\ obj = [o \in Object |-> Free]
  /\ cached = <<>> /\ uncached = <<>>
  /\ user = [h \in Handle |-> NoUser]
  /\ now = 1
  /\ pc = "gui"
  /\ it = NoWalk

Runs(x) == x.fetch \in {"plain", "conditional"}

Live == ToSet(cached) \cup ToSet(uncached)

(* Users are added at the head of the list, one after the other. *)
AddUsers(us, list) == Reverse(us) \o list

-----------------------------------------------------------------------------
(* Retrieval of an object.                                                 *)

Lifetime(x) == x.cache.no_cache = "FRESH" /\ x.cache.expiry > now

llcache_object_is_fresh(x) ==
  /\ x.cache.no_cache = "FRESH"
  /\ Lifetime(x) \/ x.state # "COMPLETE"

(* The most recently requested cached object for a URL, in ties the first. *)
Newest(ob, u) ==
  LET match == {i \in DOMAIN cached : ob[cached[i]].url = u}
      time(i) == ob[cached[i]].cache.req_time
  IN  IF match = {} THEN NULL
      ELSE cached[CHOOSE i \in match : \A j \in match :
                    time(j) < time(i) \/ (time(j) = time(i) /\ i <= j)]

llcache_object_refetch(x, condition) ==
  [x EXCEPT !.cache = [Invalid EXCEPT !.req_time = now],
            !.state = "INIT", !.fetch = condition]

(* The users us get an object for u: a fresh cached one, or a new one,     *)
(* whose request is conditional on its candidate, the stale one.  ob are   *)
(* the objects the caller has changed already.                             *)
llcache_object_retrieve(ob, us, u, force, stream, redirects) ==
  LET c == IF force THEN NULL ELSE Newest(ob, u)
      found == c # NULL /\ llcache_object_is_fresh(ob[c])
      new == [llcache_object_new(u) EXCEPT
                !.users = AddUsers(us, <<>>), !.candidate = c,
                !.force = force, !.stream = stream, !.redirects = redirects]
      condition == IF c # NULL /\ ob[c].cache.dated
                   THEN "conditional" ELSE "plain"
      Give(o) == user' = [h \in Handle |->
                   IF h \in ToSet(us) THEN [user[h] EXCEPT !.object = o]
                   ELSE user[h]]
  IN  \/ /\ found
         /\ obj' = [ob EXCEPT ![c].users = AddUsers(us, @)]
         /\ Give(c)
         /\ UNCHANGED lists
      \/ /\ ~found
         /\ c # NULL => ob[c].count < MaxCandidates
         /\ \E o \in Object \ Live :
              /\ obj' = [x \in Object |->
                   IF x = o THEN llcache_object_refetch(new, condition)
                   ELSE IF x = c THEN [ob[x] EXCEPT !.count = @ + 1]
                   ELSE ob[x]]
              /\ Give(o)
              /\ IF force
                 THEN uncached' = Cons(o, uncached) /\ UNCHANGED cached
                 ELSE cached' = Cons(o, cached) /\ UNCHANGED uncached

-----------------------------------------------------------------------------
(* What clients call.                                                      *)

ClientRuns == pc \in {"gui", "callback"}

(* A handle the client still has: not one it released from its callback.   *)
Owned(h) == user[h].object # NULL /\ ~(it.dead /\ it.cur = h)

(* Downloads stream their data; their fetches are always forced.           *)
llcache_handle_retrieve(h, u) ==
  /\ ClientRuns
  /\ user[h].object = NULL
  /\ \E force \in BOOLEAN, stream \in BOOLEAN :
       /\ force => "force_fetch" \in Enabled
       /\ stream => force /\ "stream" \in Enabled
       /\ llcache_object_retrieve(obj, <<h>>, u, force, stream, 0)
  /\ UNCHANGED <<now, pc, it>>

(* Seeded fault: the target of the walk is removed at once. *)
ReleaseAtOnce(h) ==
  /\ ClientRuns
  /\ Owned(h)
  /\ obj' = [obj EXCEPT ![user[h].object].users = RemoveFirst(@, h)]
  /\ user' = [user EXCEPT ![h] = NoUser]
  /\ UNCHANGED <<it, lists, now, pc>>

(* The user a callback is made for is only marked. *)
llcache_handle_release(h) ==
  /\ ClientRuns
  /\ Owned(h)
  /\ IF it.cur = h
     THEN it' = [it EXCEPT !.dead = TRUE] /\ UNCHANGED <<obj, user>>
     ELSE /\ obj' = [obj EXCEPT ![user[h].object].users = RemoveFirst(@, h)]
          /\ user' = [user EXCEPT ![h] = NoUser]
          /\ UNCHANGED it
  /\ UNCHANGED <<lists, now, pc>>

llcache_handle_clone(h, new) ==
  /\ ClientRuns /\ "clone" \in Enabled
  /\ Owned(h) /\ user[new].object = NULL
  /\ obj' = [obj EXCEPT ![user[h].object].users = Cons(new, @)]
  /\ user' = [user EXCEPT ![new] = [user[h] EXCEPT !.bytes = 0]]
  /\ UNCHANGED <<lists, now, pc, it>>

(* The object of a copy made for a user that aborts while others stay.     *)
llcache_object_snapshot(x, h) ==
  [llcache_object_new(x.url) EXCEPT
     !.users = <<h>>, !.len = x.len, !.state = "COMPLETE",
     !.end = "aborted"]

(* Seeded fault: the record of the target of the walk moves with its       *)
(* handle, for a user that is not alone.                                   *)
AbortMovesTarget(h) ==
  /\ ClientRuns /\ "abort" \in Enabled
  /\ Owned(h)
  /\ LET o == user[h].object IN
     /\ obj[o].users # <<h>>
     /\ \E n \in Object \ Live :
          /\ obj' = [obj EXCEPT ![o].users = RemoveFirst(@, h),
                                ![n] = llcache_object_snapshot(obj[o], h)]
          /\ uncached' = Cons(n, uncached)
          /\ user' = [user EXCEPT ![h].object = n]
  /\ it' = IF it.cur = h THEN [it EXCEPT !.cur = Moved, !.dead = TRUE] ELSE it
  /\ UNCHANGED <<cached, now, pc>>

(* A sole user aborts: the fetcher of a fetch that has headers sees it     *)
(* only after them.                                                        *)
Aborted(x) ==
  [x EXCEPT !.fetch = IF ~Runs(x) THEN @
                      ELSE IF x.state = "HEADERS" THEN "stopping" ELSE "none",
            !.state = "COMPLETE", !.cache = Invalid,
            !.end = IF x.state = "COMPLETE" THEN @ ELSE "aborted"]

(* The fetch is stopped for a sole user; another user gets a copy of what  *)
(* there is.  The record of the user a callback is made for stays where it *)
(* is, without its handle.                                                 *)
llcache_handle_abort(h) ==
  /\ ClientRuns /\ "abort" \in Enabled
  /\ Owned(h)
  /\ LET o == user[h].object IN
     \/ /\ obj[o].users = <<h>>
        /\ obj' = [obj EXCEPT ![o] = Aborted(@)]
        /\ UNCHANGED <<lists, user, it>>
     \/ /\ obj[o].users # <<h>>
        /\ \E n \in Object \ Live :
             /\ obj' = [obj EXCEPT
                  ![o].users = IF it.cur = h THEN ReplaceAll(@, h, Moved)
                               ELSE RemoveFirst(@, h),
                  ![n] = llcache_object_snapshot(obj[o], h)]
             /\ uncached' = Cons(n, uncached)
             /\ user' = [user EXCEPT ![h].object = n]
        /\ it' = IF it.cur = h THEN [it EXCEPT !.cur = Moved, !.dead = TRUE]
                 ELSE it
        /\ UNCHANGED cached
  /\ UNCHANGED <<now, pc>>

(* The callback of h runs for an event of its own. *)
InEventOf(h) ==
  pc = "callback" /\ it.cur = h /\ Owned(h)
  /\ it.event \in {"HAD_HEADERS", "HAD_DATA", "DONE"}

(* A sole user takes its object out of the cache.  Clients do it when they *)
(* learn the type of the data, in an event (hlcache.c:639, video.c:89).    *)
llcache_handle_force_stream(h) ==
  /\ InEventOf(h) /\ "force_stream" \in Enabled
  /\ LET o == user[h].object IN
     /\ obj[o].users = <<h>>
     /\ obj' = [obj EXCEPT ![o].stream = TRUE]
     /\ IF o \in ToSet(cached)
        THEN cached' = RemoveFirst(cached, o) /\ uncached' = Cons(o, uncached)
        ELSE UNCHANGED lists
  /\ UNCHANGED <<user, now, pc, it>>

llcache_handle_invalidate_cache_data(h) ==
  /\ ClientRuns /\ "invalidate" \in Enabled
  /\ Owned(h)
  /\ LET o == user[h].object IN
     /\ ~Runs(obj[o]) /\ obj[o].cache.no_cache = "FRESH"
     /\ obj' = [obj EXCEPT ![o].cache.no_cache = "ONCE"]
  /\ UNCHANGED <<lists, user, now, pc, it>>

-----------------------------------------------------------------------------
(* The scheduled clean.                                                    *)

(* Seeded fault: candidates are not spared. *)
UnusedOrCandidate(x) == x.users = <<>> /\ ~Runs(x) /\ ~x.query

Unused(x) == x.users = <<>> /\ x.count = 0 /\ ~Runs(x) /\ ~x.query

(* Unused objects go: the uncached, the stale, and when the cache is over  *)
(* its limit the fresh.  What a destroyed object had as its candidate is   *)
(* not told.                                                               *)
llcache_clean ==
  /\ pc = "gui"
  /\ \E over_limit \in BOOLEAN :
       LET victims == {o \in Live :
             Unused(obj[o]) /\ (o \in ToSet(cached) /\ Lifetime(obj[o])
                                 => over_limit)}
       IN  /\ victims # {}
           /\ obj' = [o \in Object |-> IF o \in victims THEN Free ELSE obj[o]]
           /\ cached' = Sublist(cached, Object \ victims)
           /\ uncached' = Sublist(uncached, Object \ victims)
  /\ UNCHANGED <<user, now, pc, it>>

-----------------------------------------------------------------------------
(* Events sent to all users of an object at once.                          *)

llcache_send_event_to_users(ob, o, event) ==
  /\ obj' = ob
  /\ IF ob[o].users = <<>> THEN UNCHANGED <<pc, it>>
     ELSE /\ pc' = "callback"
          /\ it' = [NoWalk EXCEPT !.at = o, !.cur = Head(ob[o].users),
                                  !.event = event]
  /\ UNCHANGED <<lists, user, now>>

Sending == pc = "callback" /\ it.event \in {"PROGRESS", "ERROR"}

(* The objects and handles without the user that was marked. *)
DropUser ==
  IF it.dead THEN [obj EXCEPT ![it.at].users = RemoveFirst(@, it.cur)] ELSE obj
DropHandle ==
  IF it.dead /\ it.cur # Moved THEN [user EXCEPT ![it.cur] = NoUser] ELSE user

SendContinues ==
  LET next == Following(obj[it.at].users, it.cur) IN
  /\ Sending
  /\ obj' = DropUser /\ user' = DropHandle
  /\ IF next = NULL
     THEN pc' = "gui" /\ it' = NoWalk
     ELSE it' = [it EXCEPT !.cur = next, !.dead = FALSE] /\ UNCHANGED pc
  /\ UNCHANGED <<lists, now>>

(* A callback fails: the walk ends, and the fetch too if it still runs.    *)
SendFails ==
  /\ Sending /\ "callback_error" \in Enabled
  /\ obj' = IF Runs(obj[it.at])
            THEN [DropUser EXCEPT
                    ![it.at].fetch = "none", ![it.at].state = "COMPLETE",
                    ![it.at].cache = Invalid, ![it.at].end = "failed"]
            ELSE DropUser
  /\ user' = DropHandle
  /\ pc' = "gui" /\ it' = NoWalk
  /\ UNCHANGED <<lists, now>>

-----------------------------------------------------------------------------
(* Messages of fetches, and the answers to queries.                        *)

Fetching(o) == pc = "gui" /\ Runs(obj[o])

(* No message but data, FINISHED and ERROR comes after the first data.     *)
Heading(o) == Fetching(o) /\ obj[o].state \in {"INIT", "HEADERS"}

(* Seeded fault: the pointer to the candidate stays. *)
ReleaseCountOnly(o) ==
  LET c == obj[o].candidate IN
  IF c = NULL THEN obj ELSE [obj EXCEPT ![c].count = @ - 1]

ReleaseCandidate(o) ==
  LET c == obj[o].candidate IN
  IF c = NULL THEN obj
  ELSE [obj EXCEPT ![c].count = @ - 1, ![o].candidate = NULL]

Only(ob) == obj' = ob /\ UNCHANGED <<lists, user, now, pc, it>>

(* The response headers that matter to the cache. *)
FETCH_HEADER(o) ==
  /\ Heading(o)
  /\ \E no_cache \in NoCache, expiry \in {0, now + 1} :
       /\ no_cache = "ALWAYS" => expiry = 0
       /\ Only([obj EXCEPT ![o].state = "HEADERS",
                           ![o].cache.no_cache = no_cache,
                           ![o].cache.expiry = expiry,
                           ![o].cache.dated = TRUE])

(* With the first data the candidate is given up, and the cache control    *)
(* data too if the status or the URL forbid caching.                       *)
FETCH_DATA(o) ==
  /\ Fetching(o)
  /\ obj[o].len < MaxLen
  /\ IF obj[o].state = "DATA"
     THEN Only([obj EXCEPT ![o].len = @ + 1])
     ELSE \E cache \in {obj[o].cache, Invalid} :
            Only([ReleaseCandidate(o) EXCEPT
                    ![o].state = "DATA", ![o].len = @ + 1,
                    ![o].cache = cache])

FETCH_FINISHED(o) ==
  /\ Fetching(o)
  /\ Only([obj EXCEPT ![o].state = "COMPLETE", ![o].fetch = "none",
                      ![o].cache.dated = TRUE, ![o].end = "finished"])

(* Seeded fault: the cache control data survive the error. *)
ErrorKeepsCacheData(o) ==
  /\ Fetching(o) \/ (pc = "gui" /\ obj[o].fetch = "stopping")
  /\ "ERROR" \in Enabled
  /\ llcache_send_event_to_users(
       [ReleaseCandidate(o) EXCEPT
          ![o].state = "COMPLETE", ![o].fetch = "none",
          ![o].end = "failed"], o, "ERROR")

(* cURL looks at the headers it has even if the fetch was aborted meanwhile, *)
(* and reports a status that is an error (curl.c:861-866,1231-1237).         *)
FETCH_ERROR(o) ==
  /\ Fetching(o) \/ (pc = "gui" /\ obj[o].fetch = "stopping")
  /\ "ERROR" \in Enabled
  /\ llcache_send_event_to_users(
       [ReleaseCandidate(o) EXCEPT
          ![o].state = "COMPLETE", ![o].fetch = "none", ![o].cache = Invalid,
          ![o].end = "failed"], o, "ERROR")

FETCH_PROGRESS(o) ==
  /\ Fetching(o) /\ "PROGRESS" \in Enabled
  /\ llcache_send_event_to_users(obj, o, "PROGRESS")

(* A redirect that is refused (its scheme, its status code, no fetcher for *)
(* it) leaves a complete object without data.                              *)
FETCH_REDIRECT(o) ==
  LET ended == [ReleaseCandidate(o) EXCEPT
                  ![o].state = "COMPLETE", ![o].fetch = "none",
                  ![o].cache = Invalid, ![o].end = "failed"]
      us == obj[o].users
  IN
  /\ Heading(o) /\ "REDIRECT" \in Enabled
  /\ \/ /\ obj[o].redirects > REDIRECT_LIMIT
        /\ llcache_send_event_to_users(ended, o, "ERROR")
     \/ /\ obj[o].redirects <= REDIRECT_LIMIT
        /\ Only(ended)
     \/ /\ obj[o].redirects <= REDIRECT_LIMIT
        /\ \E u \in Url :
             llcache_object_retrieve([ended EXCEPT ![o].users = <<>>], us, u,
               obj[o].force, obj[o].stream, obj[o].redirects + 1)
        /\ UNCHANGED <<now, pc, it>>

(* A candidate gets the users of the object that chose it, and says in its *)
(* history what a 304 makes of the end of its own fetch.                   *)
Adopt(x, us, fetch, cache) ==
  [x EXCEPT !.users = AddUsers(us, @), !.count = @ - 1, !.cache = cache,
            !.end = IF @ \notin {"failed", "aborted"} THEN @
                    ELSE IF fetch = "conditional" THEN "revived"
                    ELSE "vouched"]

(* The users move to the candidate, which gets the cache control data.  A  *)
(* lifetime of its own it keeps: one that is relative (max-age) counts     *)
(* from the new request, one that is absolute (Expires) stays.  Whether    *)
(* the request was conditional is not looked at; without a candidate a 304 *)
(* leaves an empty object.                                                 *)
FETCH_NOTMODIFIED(o) ==
  LET c == obj[o].candidate
      x == obj[o].cache
      ended == [obj[o] EXCEPT
                  !.state = "COMPLETE", !.fetch = "none", !.cache = Invalid,
                  !.candidate = NULL, !.end = "failed"]
      Expiries == IF x.expiry # 0 THEN {x.expiry}
                  ELSE IF obj[c].cache.expiry = 0 THEN {0}
                  ELSE {obj[c].cache.expiry, now + 1}
      no_cache == IF x.no_cache # "FRESH" THEN x.no_cache
                  ELSE obj[c].cache.no_cache
  IN
  /\ Heading(o) /\ "NOTMODIFIED" \in Enabled
  /\ \/ /\ c = NULL
        /\ obj' = [obj EXCEPT ![o] = ended]
        /\ UNCHANGED user
     \/ /\ c # NULL
        /\ \E expiry \in Expiries :
             obj' = [obj EXCEPT
               ![o] = [ended EXCEPT !.users = <<>>],
               ![c] = Adopt(@, obj[o].users, obj[o].fetch,
                 [req_time |-> x.req_time, expiry |-> expiry, dated |-> TRUE,
                  no_cache |-> IF no_cache = "ONCE" THEN "FRESH"
                               ELSE no_cache])]
        /\ user' = [h \in Handle |->
             IF user[h].object = o THEN [user[h] EXCEPT !.object = c]
             ELSE user[h]]
  /\ UNCHANGED <<lists, now, pc, it>>

(* Authentication: try the known details once, or ask the user. *)
FETCH_AUTH(o) ==
  LET stopped == [ReleaseCandidate(o) EXCEPT ![o].fetch = "none",
                                             ![o].cache = Invalid]
  IN
  /\ Heading(o) /\ "AUTH" \in Enabled
  /\ \/ /\ ~obj[o].auth
        /\ Only([stopped EXCEPT
             ![o] = [llcache_object_refetch(@, "plain") EXCEPT !.auth = TRUE]])
     \/ Only([stopped EXCEPT ![o].auth = FALSE, ![o].query = TRUE])

(* Seeded fault: nobody is asked. *)
CertErrWithoutQuery(o) ==
  /\ Heading(o) /\ "CERT_ERR" \in Enabled
  /\ Only([ReleaseCandidate(o) EXCEPT ![o].fetch = "none",
                                      ![o].cache = Invalid])

FETCH_CERT_ERR(o) ==
  /\ Heading(o) /\ "CERT_ERR" \in Enabled
  /\ Only([ReleaseCandidate(o) EXCEPT ![o].fetch = "none",
                                      ![o].cache = Invalid,
                                      ![o].query = TRUE])

(* TLS set-up: try again with an older version, once. *)
FETCH_SSL_ERR(o) ==
  LET stopped == [ReleaseCandidate(o) EXCEPT ![o].fetch = "none",
                                             ![o].cache = Invalid]
  IN
  /\ Heading(o) /\ "SSL_ERR" \in Enabled
  /\ \/ /\ obj[o].tls
        /\ llcache_send_event_to_users(
             [stopped EXCEPT ![o].state = "COMPLETE", ![o].end = "failed"],
             o, "ERROR")
     \/ /\ ~obj[o].tls
        /\ Only([stopped EXCEPT
             ![o] = [llcache_object_refetch(@, "plain") EXCEPT !.tls = TRUE]])

(* The answer comes later from the user, or at once from a front end that  *)
(* does not ask.                                                           *)
llcache_query_handle_response(o, proceed) ==
  /\ pc = "gui" /\ obj[o].query
  /\ IF proceed
     THEN Only([obj EXCEPT
            ![o] = [llcache_object_refetch(@, "plain") EXCEPT !.query = FALSE]])
     ELSE llcache_send_event_to_users(
            [obj EXCEPT ![o].query = FALSE, ![o].state = "COMPLETE",
                        ![o].cache = Invalid, ![o].end = "failed"],
            o, "ERROR")

-----------------------------------------------------------------------------
(* llcache_poll: after fetch_poll, the walk over all objects and users.    *)

Visit(o, l) ==
  [NoWalk EXCEPT !.at = o, !.loop = l, !.cur = First(obj[o].users),
                 !.os = obj[o].state, !.stage = "headers"]

(* The loop over the cached objects ends at the end of the list its object *)
(* is in by then; the loop over the uncached objects follows.              *)
VisitFrom(o, l) ==
  IF o # NULL THEN it' = Visit(o, l) /\ pc' = "notify"
  ELSE IF l = 1 /\ uncached # <<>>
  THEN it' = Visit(Head(uncached), 2) /\ pc' = "notify"
  ELSE it' = NoWalk /\ pc' = "gui"

llcache_poll ==
  /\ pc = "gui" /\ Live # {}
  /\ VisitFrom(First(cached), 1)
  /\ UNCHANGED <<obj, lists, user, now>>

NextObject ==
  /\ pc = "notify" /\ it.cur = NULL
  /\ VisitFrom(IF it.at \in ToSet(cached) THEN Following(cached, it.at)
               ELSE Following(uncached, it.at), it.loop)
  /\ UNCHANGED <<obj, lists, user, now>>

(* Seeded faults: data are only sent after HAD_HEADERS in the same visit;  *)
(* users of an object that is complete are left out.                       *)
DueAfterHeaders ==
  LET u == user[it.cur]
      body == it.os \in {"DATA", "COMPLETE"}
  IN  IF it.stage = "headers" /\ u.state \in {"INIT", "HEADERS"} /\ body
      THEN "HAD_HEADERS"
      ELSE IF it.stage = "data" /\ u.state = "DATA" /\ body
                                /\ obj[it.at].len > u.bytes
      THEN "HAD_DATA"
      ELSE IF u.state = "DATA" /\ it.os = "COMPLETE" THEN "DONE"
      ELSE "none"

DueWhileFetching ==
  LET u == user[it.cur]
  IN  IF it.stage = "headers" /\ u.state \in {"INIT", "HEADERS"}
                              /\ it.os = "DATA"
      THEN "HAD_HEADERS"
      ELSE IF it.stage # "done" /\ u.state = "DATA" /\ it.os = "DATA"
                                /\ obj[it.at].len > u.bytes
      THEN "HAD_DATA"
      ELSE IF u.state = "DATA" /\ it.os = "COMPLETE" THEN "DONE"
      ELSE "none"

(* The next event for the user the walk is at, of those not yet considered *)
(* in this visit; os is the state of the object when the visit began.      *)
Due ==
  LET u == user[it.cur]
      body == it.os \in {"DATA", "COMPLETE"}
  IN  IF it.stage = "headers" /\ u.state \in {"INIT", "HEADERS"} /\ body
      THEN "HAD_HEADERS"
      ELSE IF it.stage # "done" /\ u.state = "DATA" /\ body
                                /\ obj[it.at].len > u.bytes
      THEN "HAD_DATA"
      ELSE IF u.state = "DATA" /\ it.os = "COMPLETE" THEN "DONE"
      ELSE "none"

Notify(event) ==
  /\ pc = "notify" /\ it.cur # NULL /\ Due = event
  /\ pc' = "callback"
  /\ UNCHANGED <<lists, now>>

HAD_HEADERS ==
  /\ Notify("HAD_HEADERS")
  /\ user' = [user EXCEPT ![it.cur].state = "DATA"]
  /\ it' = [it EXCEPT !.event = "HAD_HEADERS", !.stage = "data"]
  /\ UNCHANGED obj

(* Streamed data are dropped from the object as they are sent. *)
HAD_DATA ==
  /\ Notify("HAD_DATA")
  /\ LET stream == obj[it.at].stream
         left == IF stream THEN 0 ELSE obj[it.at].len
     IN  /\ user' = [user EXCEPT ![it.cur].bytes = left]
         /\ obj' = [obj EXCEPT ![it.at].len = left]
         /\ it' = [it EXCEPT !.event = "HAD_DATA", !.stage = "done",
                     !.orig = IF stream THEN 0 ELSE user[it.cur].bytes]

DONE ==
  /\ Notify("DONE")
  /\ user' = [user EXCEPT ![it.cur].state = "COMPLETE"]
  /\ it' = [it EXCEPT !.event = "DONE", !.stage = "end"]
  /\ UNCHANGED obj

(* The walk goes on with another user, or at the end with none. *)
GoTo(u) == it' = [Visit(it.at, it.loop) EXCEPT !.cur = u]

UserIsCurrent ==
  /\ pc = "notify" /\ it.cur # NULL /\ Due = "none"
  /\ user' = IF it.stage = "headers" /\ user[it.cur].state = "INIT"
                                     /\ it.os = "HEADERS"
             THEN [user EXCEPT ![it.cur].state = "HEADERS"] ELSE user
  /\ GoTo(Following(obj[it.at].users, it.cur))
  /\ UNCHANGED <<obj, lists, now, pc>>

Notifying == pc = "callback" /\ it.event \in {"HAD_HEADERS", "HAD_DATA", "DONE"}

(* The callback returns NSERROR_OK. *)
NotifyContinues ==
  /\ Notifying
  /\ pc' = "notify"
  /\ obj' = DropUser /\ user' = DropHandle
  /\ IF it.dead
     THEN GoTo(Following(obj[it.at].users, it.cur))
     ELSE IF it.stage = "end" THEN GoTo(Following(obj[it.at].users, it.cur))
     ELSE it' = [it EXCEPT !.event = "none", !.orig = 0]
  /\ UNCHANGED <<lists, now>>

(* It returns NSERROR_NEED_DATA: the event will be sent again. *)
NotifyReplays ==
  /\ Notifying /\ ~it.dead /\ "NEED_DATA" \in Enabled
  /\ pc' = "notify"
  /\ user' = CASE it.event = "HAD_HEADERS" ->
                    [user EXCEPT ![it.cur].state = "HEADERS"]
               [] it.event = "HAD_DATA" ->
                    [user EXCEPT ![it.cur].bytes = it.orig]
               [] it.event = "DONE" ->
                    [user EXCEPT ![it.cur].state = "DATA"]
  /\ GoTo(Following(obj[it.at].users, it.cur))
  /\ UNCHANGED <<obj, lists, now>>

(* It returns another error, or asks for a replay of an event whose handle *)
(* it has let go: the other users of the object have to wait.              *)
NotifyFails ==
  /\ Notifying /\ "callback_error" \in Enabled
  /\ pc' = "notify"
  /\ obj' = DropUser /\ user' = DropHandle
  /\ GoTo(NULL)
  /\ UNCHANGED <<lists, now>>

-----------------------------------------------------------------------------
Tick ==
  /\ pc = "gui" /\ now < MaxTime
  /\ now' = now + 1
  /\ UNCHANGED <<obj, lists, user, pc, it>>

Client ==
  \E h \in Handle :
    \/ \E u \in Url : llcache_handle_retrieve(h, u)
    \/ llcache_handle_release(h)
    \/ llcache_handle_abort(h)
    \/ \E new \in Handle : llcache_handle_clone(h, new)
    \/ llcache_handle_force_stream(h)
    \/ llcache_handle_invalidate_cache_data(h)

llcache_fetch_callback ==
  \E o \in Object :
    \/ FETCH_HEADER(o) \/ FETCH_DATA(o) \/ FETCH_FINISHED(o)
    \/ FETCH_ERROR(o) \/ FETCH_PROGRESS(o) \/ FETCH_REDIRECT(o)
    \/ FETCH_NOTMODIFIED(o) \/ FETCH_AUTH(o) \/ FETCH_CERT_ERR(o)
    \/ FETCH_SSL_ERR(o)

llcache_object_notify_users ==
  \/ HAD_HEADERS \/ HAD_DATA \/ DONE \/ UserIsCurrent
  \/ NotifyContinues \/ NotifyReplays \/ NotifyFails

Next ==
  \/ Client \/ llcache_clean \/ Tick
  \/ llcache_fetch_callback \/ SendContinues \/ SendFails
  \/ \E o \in Object, proceed \in BOOLEAN :
       llcache_query_handle_response(o, proceed)
  \/ llcache_poll \/ NextObject
  \/ llcache_object_notify_users

Spec == Init /\ [][Next]_vars

(* What the program is assumed to do in the end: the single thread goes    *)
(* on; gui_poll and fetch_poll return; a fetch finishes even if it is      *)
(* redirected or needs authentication over and over; the user answers      *)
(* queries; and a callback, for each user, sooner or later succeeds.       *)
Program == NextObject \/ UserIsCurrent \/ HAD_HEADERS \/ HAD_DATA \/ DONE

Fairness ==
  /\ WF_vars(Program)
  /\ SF_vars(llcache_poll) /\ SF_vars(SendContinues)
  /\ \A h \in Handle \cup {Moved} : SF_vars(NotifyContinues /\ it.cur = h)
  /\ \A o \in Object :
       /\ SF_vars(FETCH_FINISHED(o))
       /\ SF_vars(\E proceed \in BOOLEAN :
                    llcache_query_handle_response(o, proceed))

FairSpec == Spec /\ Fairness

-----------------------------------------------------------------------------
(* The type invariant of the cache (content/llcache.c:44-146).             *)
State == {"INIT", "HEADERS", "DATA", "COMPLETE"}

ObjectType ==
  [url : Url \cup {NULL}, users : Seq(Handle \cup {Moved}), state : State,
   fetch : {"none", "plain", "conditional", "stopping"}, query : BOOLEAN,
   auth : BOOLEAN, tls : BOOLEAN, redirects : 0..(REDIRECT_LIMIT + 1),
   force : BOOLEAN, stream : BOOLEAN, candidate : Object \cup {NULL},
   count : 0..MaxCandidates, len : 0..MaxLen,
   cache : [req_time : 0..MaxTime, expiry : 0..(MaxTime + 1),
            no_cache : {"FRESH", "ALWAYS", "ONCE"}, dated : BOOLEAN],
   end : {"none", "finished", "failed", "aborted", "revived", "vouched"}]

TypeOK ==
  /\ obj \in [Object -> ObjectType]
  /\ cached \in Seq(Object) /\ uncached \in Seq(Object)
  /\ user \in [Handle -> [object : Object \cup {NULL}, state : State,
                          bytes : 0..MaxLen]]
  /\ now \in 1..MaxTime
  /\ pc \in {"gui", "notify", "callback"}
  /\ it \in [at : Object \cup {NULL}, cur : Handle \cup {NULL, Moved},
             event : {"none", "HAD_HEADERS", "HAD_DATA", "DONE", "PROGRESS",
                      "ERROR"},
             stage : {"none", "headers", "data", "done", "end"},
             os : State, orig : 0..MaxLen, loop : 0..2, dead : BOOLEAN]

(* Every handle is a user of its object, once, and of no other object; a   *)
(* record without a handle is only the marked target of the walk.  This is *)
(* what llcache_object_find_user and llcache_object_remove_user assert     *)
(* (llcache.c:1812,249), through aborts and releases in the middle of the  *)
(* walk, redirects and 304s that move all users (llcache.c:1305,1358).     *)
UsersConsistent ==
  \A o \in Object :
    /\ IsInjective(obj[o].users)
    /\ ToSet(obj[o].users) =
         {h \in Handle : user[h].object = o}
         \cup IF it.dead /\ it.cur = Moved /\ it.at = o THEN {Moved} ELSE {}
    /\ obj[o].users # <<>> => o \in Live

(* The walk stands on a user that is still in the list of its object, so   *)
(* that the next user can be read from it when the callback has returned   *)
(* (llcache.c:1911-1934), whatever was released, aborted or retrieved.     *)
WalkIsSafe ==
  it.at # NULL =>
    /\ it.at \in Live
    /\ it.cur # NULL => it.cur \in ToSet(obj[it.at].users)

(* An object that may still fall back to a candidate finds it allocated,   *)
(* for the same URL, and counted: llcache_clean spares candidates by their *)
(* count (llcache.c:2187,2208,2232).                                       *)
CandidateIsKept ==
  \A o \in Live :
    LET c == obj[o].candidate IN
    c # NULL =>
      /\ c \in Live /\ c # o
      /\ obj[c].url = obj[o].url
      /\ Cardinality({x \in Live : obj[x].candidate = c}) <= obj[c].count

(* No user waits for an object nobody works on: while an object is not     *)
(* complete it has a fetch or a query, and a complete object has no fetch, *)
(* after any mix of retries, aborts, errors and answers to queries.        *)
WorkIsPending ==
  \A o \in Object : obj[o].url # NULL =>
    /\ obj[o].state # "COMPLETE" => Runs(obj[o]) \/ obj[o].query
    /\ Runs(obj[o]) => obj[o].state # "COMPLETE"

(* DONE is sent when no source data are left that the user was not sent,   *)
(* even if it was moved to another object, got a copy of it, asked for a   *)
(* replay or shares a streamed object (llcache.c:1992-2052).               *)
DoneHasAll ==
  [][pc = "notify" /\ pc' = "callback" /\ it'.event = "DONE" =>
       user[it.cur].bytes >= obj[it.at].len]_vars

(* What the cache hands out as fresh without asking the server again has   *)
(* been fetched to its end, or is being fetched (llcache.c:915-917), or a  *)
(* server has called it not modified since: no failure, abort, refusal or  *)
(* snapshot leaves a lifetime behind, not even one that comes late.        *)
ServedWhole ==
  \A o \in ToSet(cached) :
    llcache_object_is_fresh(obj[o]) /\ obj[o].state = "COMPLETE"
      => obj[o].end \in {"finished", "revived", "vouched"}

(* What was fetched in part does not become fresh again:                   *)
(* llcache_handle_abort invalidates the cache control data of an object    *)
(* (llcache.c:2509-2510), and a conditional request is made only for what  *)
(* is stale.  But an object may be chosen as a candidate while it is being *)
(* fetched, and the 304 gives it new data (llcache.c:1363-1365).           *)
AbortedIsNotServed ==
  \A o \in ToSet(cached) :
    llcache_object_is_fresh(obj[o]) /\ obj[o].state = "COMPLETE"
      => obj[o].end # "revived"

(* Every client is told DONE in the end, unless it lets its handle go: new *)
(* users catch up with an object others have had for long, and redirects,  *)
(* retries and queries come to an end (llcache.c:2355-2364).               *)
EveryoneIsTold ==
  \A h \in Handle :
    user[h].object # NULL ~> user[h].object = NULL \/ user[h].state = "COMPLETE"
=============================================================================
