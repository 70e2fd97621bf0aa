# NetSurf: a TLA+ verification of its fetches, caches and pages

NetSurf is a single-threaded web browser.  All waiting is done in the main
loop, and all concurrency is that of callbacks: a fetcher calls the cache, the
cache calls contents, contents call windows and the pages that embed them, and
any of these may call back into the layer below while that layer is half way
through a list.  Some work is put off: scheduled calls, pages that finish later,
cached state that is flushed later.  That is where this project looks: at what
each layer promises while it is being re-entered, and at what is left behind
between two steps of a job.

File and line references are to the repository's `src/` directory.

## 1. Inventory

From the bottom up.  "Hard" names the behaviour that tests hardly reach, "right
when" the properties that make the component correct.

| component | source | state | operations and partners | module |
|---|---|---|---|---|
| main loop | `desktop/netsurf.c` | `netsurf_quit` | `gui_poll(fetch_active)`, then the cache poll; the exit sequence | `Fetch`, `Background` |
| front ends, schedulers | `framebuffer/schedule.c`, `gui.c` (and each other front end) | list of scheduled calls, time to wait | schedule, remove, run; waits for events | `Background` |
| fetch scheduler | `content/fetch.c` | queue ring, active ring, flags, list of fetchers | start, abort, poll, dispatch, free; calls fetchers through a table of functions, is re-entered from callbacks | `Fetch` |
| cURL fetcher | `content/fetchers/curl.c` | the multi handle, flags of a transfer | start, abort, poll, done, free; libcurl, `schedule` | `Fetch` |
| ring fetchers | `content/fetchers/{data,file,about,resource}.c` | a ring of contexts with `aborted` and `locked` | a whole fetch in one poll | `Fetch` |
| low-level cache | `content/llcache.c` | cached and uncached objects, their users, candidates, queries, cache control data | retrieve, clone, release, abort, stream; poll; fetch messages; answers to queries | `LLCache` |
| high-level cache | `content/hlcache.c` | contents in a list, ring of retrieval contexts, scheduled clean | retrieve, migrate, abort, release, clean | `HLCache` |
| content life cycle | `content/content.c`, `content_factory.c` | status, lock, users | low-level events, convert, broadcast, abort, clone | `HLCache` |
| downloads | `desktop/download.c` | the handle taken over | convert to download, destroy | `HLCache`, `BrowserWindow` |
| HTML content and scripts | `render/html.c`, `html_script.c` | count of active fetches, scripts, sheets, objects, stage of conversion | parse, scripts, style sheets, boxes, objects, stop, refresh, destroy | `HtmlContent` |
| browser windows, frames | `desktop/browser.c`, `frames.c` | loading and current content and icon, throbber, refresh | go, reload, stop, messages, destroy | `BrowserWindow` |
| history | `desktop/history_core.c` | entries, the current one | add, go | `BrowserWindow` |
| image cache | `image/image_cache.c` | entries, bitmaps, total size and count, ages | convert, speculate, redraw, update, clean | `Background` |
| image decoders | `image/{jpeg,png,gif}.c` | bitmaps, the animation timer | convert, animate, destroy | `Background` |
| redraw batching | `desktop/knockout.c` | tables of entries, boxes and polygons | plots, clip, start, end, flush | `Knockout` |
| cookies and URLs | `content/urldb.c`, `desktop/cookies.c` | a tree of path segments for each host, with cookies | add, find, set, get, delete, save, load | `UrlDb` |

What is hard in each, and when it is right:

* *Scheduler and fetchers*: dispatch runs inside callbacks of fetches that have
  left the active ring but are not yet freed; an abort frees at once or later,
  depending on the fetcher; a start that fails returns its job to the queue.
  Right when every allocated fetch is in one ring, the flag given to
  `gui_poll` is true, fetchers and scheduler have the same fetches in view, the
  client never holds a fetch that is gone, and every fetch ends.
* *Low-level cache*: lists of users change while they are walked, all users of
  an object may move to another, an object may change its list during the loop
  over that list, retries and queries replace fetches, candidates must outlive
  the objects that point to them.  Right when handles and users agree, the walk
  stands on a user of its list, candidates are kept, an object in progress has
  a fetch or a query, DONE comes after all data, only whole objects are served
  without validation, and every client is told the end.
* *High-level cache and contents*: a retrieval context dies inside a low-level
  event; catch-up messages arrive inside the retrieval; a broadcast is walked
  while its users are removed or send messages of their own.  Right when each
  low-level handle has one owner, users and handles agree, each handle gets
  LOADING, READY and DONE in this order or an ERROR, nobody waits for ever but
  for a page, and what is not used is swept, but for a page that is being converted.
* *HTML*: one counter, changed in a dozen places by callbacks in any order,
  gates every stage.  Right when it is what is being fetched, stages follow one
  another, nothing calls a page that failed or is freed, and every page gets to
  DONE.  Some of this the code does not do, and the properties name what is
  missing.
* *Windows and history*: the history moves before the page arrives; stopping a
  page may make it DONE from inside the call that loads the next.  Right when
  handles are neither lost nor used late, the throbber shown is that of the
  windows and never runs while nothing loads, and the entry marked is the page
  shown.
* *Scheduled work*: a job runs in the middle of a traversal of the schedule list
  and changes that list; contents are destroyed by one such job.  Right when no
  timer outlives its content, periodic jobs are pending once, the totals of the
  image cache are true, the front end wakes up in time and calls what is due.
* *Redraw batching*: bounded tables are flushed in the middle of the recursion
  that cuts boxes.  Right when nothing overflows and the result is what
  plotting at once shows.
* *URL database*: the search for a path takes the first segment that begins
  with the one wanted and never turns back; cookies are kept on nodes by path
  and expire, are replaced, deleted, saved and loaded.  Right when each node is
  found and a fetch sends exactly the cookies that apply.

Section 8 lists the parts left out.

## 2. Modules

| module | what it is |
|---|---|
| `Fetch`, `MCFetch` | scheduler, cURL fetcher and ring fetchers as one state machine |
| `FetchProofs` | theorems about `Fetch` |
| `Lists`, `ListLemmas` | the lists of both caches, the scheduler and the cookies as sequences, and lemmas about sequences |
| `LLCache`, `MCLLCache` | the low-level cache and its clients |
| `LLCacheProofs` | theorems about `LLCache`: its lists and records, and what follows from them |
| `HandleProtocol` | abstract: what a client of the high-level cache is promised for a handle |
| `HLCache`, `MCHLCache` | high-level cache, contents and downloads; implements `HandleProtocol` |
| `HLCacheProofs` | theorems about `HLCache`: who owns and uses what; what clients are told |
| `HtmlContent`, `MCHtmlContent` | one page with its scripts, sheets and objects |
| `HtmlProofs` | theorems about `HtmlContent` |
| `BrowserWindow`, `MCBrowserWindow` | a window with frames and its history |
| `BrowserProofs` | theorems about `BrowserWindow` |
| `Background`, `MCBackground` | scheduler of the framebuffer front end, its wait, image cache, animations, sweep, exit |
| `BackgroundProofs` | theorems about `Background` |
| `Knockout`, `MCKnockout` | redraw batching against plotting at once |
| `UrlDb`, `MCUrlDb` | the tree of URL paths and its cookies |
| `UrlDbProofs` | theorems about `UrlDb` |

The modules meet at interfaces.  What one proves or checks is what the next
one assumes:

| below | shown there | assumed by |
|---|---|---|
| `Fetch` | a client may abort what it holds, and is told each end once; every fetch ends | `LLCache`: messages only for a fetch that runs, an error at most after an abort, and an end |
| `LLCache` | headers, data, DONE or ERROR, in order, to every user in the end | `HLCache`: its low-level handles |
| `HLCache` | `HandleProtocol` for every handle; who waits is told in the end, or has a page | `HtmlContent` (sheets and objects), `BrowserWindow` (pages and icons) |
| `HtmlContent` | a stop makes a page in READY DONE at once, or later when it has objects to finish | `BrowserWindow`: its stop |
| `Background` | scheduled calls happen | `HLCache` (clean), `HtmlContent` (slices of the box tree) |

## 3. State and actions

Actions carry the names of the functions or of the messages and callbacks they
stand for; an action whose name begins with a capital letter without a prefix
is a step of the surroundings or a part of a function between two calls of a
callback.  The comment before each names what it abstracts.

**Fetch.**  A member of `Fetch` is the address of a `struct fetch`, so it can be
used again once freed; `live` are the allocated ones.  `queue_ring` is a
sequence because dispatch reads it in order; `fetch_ring` is a set because the
code only counts its members.  `held` is what the client still has a pointer to
(`object->fetch.fetch` in `llcache.c`).  `handle` and `done` stand for libcurl.
`pc` is where the one thread is; `cb`, `cbret`, `dret`, `todo` and `pollret` are
its stack.  Client code runs at four places: in event handlers during
`gui_poll`, in a callback, in the last callback of a fetch, and while the cache
notifies users.  At each it may start a fetch (which enters the dispatch loop)
or abort one.

**LLCache.**  `obj` maps addresses to objects.  `cached` and `uncached` are
sequences since lookups, the loops of `llcache_poll` and insertion at the head
depend on the order.  `users` of an object is its list of user records, named
by their handles; `Moved` is the record left behind when the target of a walk
aborts and its handle moves to a copy.  `it` is the walk going on, with the
record it stands on, the event, and what was read when the visit began.  `pc` is
"gui" while the event loop, the fetchers (which cURL's scheduled poll may call
there) and the start of `llcache_poll` run: messages, answers and clean come
there, and walks begin there.  A fetch that was aborted after its headers came is "stopping":
cURL sees the abort at its next message, and may report an error before.  Cache
control data are reduced to the request time, the end of the lifetime, the
no-cache mark and whether a conditional request is possible; a tick is one
lifetime.  A client callback is a state in which any public function may be
called any number of times; `Enabled` names the calls and messages of an
instance, so that a run holds those its question is about.

**HLCache.**  `handle` are the clients' handles with their entry and what they
were told, `ctx` the ring of retrieval contexts (named by their low-level
handle), `low` the low-level handles and to whom their events go, `content` the
contents with status, lock and users, `list` the list of contents, and `stack`
the calls that have not returned: broadcasts, migrations, catch-ups.  A
broadcast frame holds the user remembered before the callback, as
`content_broadcast` does.  A content is a page, which is not shared and has
handles of its own, or an image.  Style sheets, which are shared like images and
locked while their imports load, are a third kind that is not modelled.

**HtmlContent.**  `stage` is what the page is doing, `active` the counter, and
`item` the state of the handle of every script, sheet and object.  The items a
slice of the document names are chosen freely; what an item is follows from the
set it is in.  `onFalse` in `html_begin_conversion` is the status the page gets
when the conversion cannot begin: the callers differ in it, and the callbacks of
scripts drop the result, which leaves the page in the stage "left" for ever.  A
retrieval may be refused ("refused", where no handle is set; `llcache.c:2380`).
Assertions are in the program, as no makefile defines `NDEBUG`: one that
fails, and a call into a page that is freed, end in the stage "crashed".  The
actions that lead there (`ObjectCallsError`, `CallsFreedPage`, the last disjuncts
of `html_object_refresh`, `html_stop`, `html_destroy` and others) are the ways in
which a page is called too late.

**BrowserWindow.**  A window is a record of the fields that hold handles, and the
flags `throbbing`, `history_add`, `refresh_interval` and whether a refresh is
scheduled.  A handler is one action that computes the new state from the old
call by call, in the order of the code, because what it does first (stopping
the old page, which then reports DONE) changes what it does next.  `trip`
follows a move in the history whose page never arrived.

**Background.**  A list entry holds its call, its parameter and the ticks left;
`schedule_run` reads the clock once.  `cache` is the image cache with its own
total and count; `idle` and `age` are its ages, capped where they no longer
differ.  `pc` leads from the loop to the exit: stop, finalise, fini.

**Knockout.**  `knk` holds the tables, the current clip, and the canvas of the
real plotter: for each pixel the plots that show in it.  `direct` is the canvas
of plotting at once.  Boxes form the trees of the code, linked by `child` and
`next`; the recursion is a fold over what is left of a box.

**UrlDb.**  `children` are the segments below each node in their order and
`cookies` the list of each node.  `jar` is history: the cookies there should be,
by the plain rule that a cookie set replaces the one with the same name, domain
and path.  Segments are named; their order, which of them is empty, and which
begins with which, are constants, since only these decide what `strcmp` and `strncmp`
do.  `urldb_get_cookie` gives the lists of cookies in the order it visits them.

## 4. Runs

| run | instance | states | what it shows |
|---|---|---|---|
| `fetch` | 2 transfers to one host, one whose start may fail, 2 `data:` URLs; limits 2 in all, 1 for each host; fair | 20,723 | `TypeOK`, `OneRing`, `ActiveFlag`, `AbortIsSafe`, `FetchersAgree`, `FetchEnds` |
| `ll_cache` | 1 URL, 2 objects, 2 handles, a clock of two ticks; aborts, clones, progress, errors, failing callbacks, 304 to any request, redirect | 1,016,464 | `TypeOK`, `UsersConsistent`, `WalkIsSafe`, `CandidateIsKept`, `ServedWhole`, `DoneHasAll` |
| `ll_told` | 1 object, 2 handles; replays, errors, authentication, certificate and TLS queries, forced fetches, invalidation, streaming; fair | 33,329 | `WorkIsPending`, `EveryoneIsTold` |
| `ll_stale` | 2 objects, 2 handles; servers that say no-cache, aborts, 304 | | the first finding of section 6 |
| `hl_cache` | 3 handles, 3 low-level handles, 2 contents, a shared object, 2 windows; aborts, downloads, refusals, failures | 184,571 | `OneOwner`, `UsersConsistent`, `CallsAreSafe`, `ToldStatus`, `ImplementsProtocol` |
| `hl_told` | 2 handles, 2 low-level handles, 2 contents, 2 windows; aborts with clones, downloads, refusals, failures, errors; fair | 130,109 | `EveryHandleTold`, `UnusedGo` |
| `html` | a script of each kind, base sheet, a linked and an inline sheet, 2 objects, 2 refreshes, refusals, stop, close; fair | 495,147 | `ActiveCounts`, `NoLateCalls`, `DoneIsLoaded`, `StagesInOrder`, `PageLoads` |
| `html_async` | a synchronous and an asynchronous script, 2 sheets, an object; fair | 682 | the second finding of section 6 |
| `browser` | a window with a frame, 2 URLs, 3 loads, 10 handles | 609,067 | `OneOwner`, `AssertionsHold`, `ThrobberShows`, `EntryIsShown` |
| `background` | a JPEG, a PNG, a GIF, a page; a limit that the two bitmaps together exceed; fair | 318,196 | `CacheConsistent`, `PendingOnce`, `WakesInTime`, `DueIsCalled` |
| `knockout` | a target of 3 by 3 pixels, any 4 plots, tables of 5 entries, 8 boxes, 4 integers of polygons, sessions in sessions | 1,065,935 | `TypeOK`, `ShowsTheSame`, `PlottedOnce` |
| `urldb` | 2 hosts, one in the domain of the other, 5 paths of which one begins another and one passes a directory as a node, 2 cookies set, 2 fetches, 2 ticks | 162,859 | `FindsUrls`, `SentIsRight` |

Why the bounds are enough:

* `fetch`: two transfers to one host give a full host and a full limit with
  fetches of another host behind them; a transfer that fails to start gives the
  returned job; two fetches of one ring give one that is stopped or started
  while the poller is at the other.  For the safety properties `FetchProofs`
  removes the bound.
* `ll_*`: two handles are enough for a walk to meet a change before, at and
  after its target, as a released handle can be used again at the head; two
  objects are a candidate and the object that validates it, or an object and
  the one it is redirected to.  One chunk of data separates a user that has all
  from one that has none.  Redirect limit 0 meets the limit at the second
  redirect.  An answer may be stale when it comes, so one tick is enough for
  time that passes in between.  For the safety properties `LLCacheProofs`
  removes the bound.  Runs that are not about liveness use
  the symmetry of addresses; fair ones do not.
* `hl_*`: three handles are a page, its object, and another client that shares
  the object; more contents add no new relation, since a content is related to
  its low-level handle and its users only.  In `hl_told` two windows share an image,
  and one aborts and gets a clone; a page has an image; and a content that lost
  its user is left while another is retrieved.  Each content holds a low-level
  handle, so there is always a free content to migrate to.  For the safety
  properties and the refinement, `HLCacheProofs` removes the bound.
* `html`: each counter path occurs with one item of a kind, and two objects
  give a loop that is changed from inside.  For the safety properties
  `HtmlProofs` removes the bound.
* `browser`: three loads are one shown, one loading and one that replaces it; the
  ten handles are more than two windows have fields for, so that one is always
  free, as `BrowserAssumption` asks.  `BrowserProofs` removes the bound.
* `background`: two images that together exceed the limit make the update evict and
  the speculation refuse; every kind of job is there, and intervals of one and two
  ticks give all orders of jobs due together.
* `knockout`: a box is cut in at most four pieces, tables of 8 boxes are full in
  the middle of cutting two; rectangles give every overlap of sides and
  corners, and one that a clip reduces to nothing; a bad clip is refused.
* `urldb`: paths `/`, `/a`, `/a/` and `/ab` give a segment that begins with
  another and a directory, `//a` an empty segment before the last; two cookies are
  a cookie and its replacement, or one that could shadow it, and the fetches add
  segments before, between or after them.  `UrlDbProofs` removes the bound.

Bounds on counters (`MaxTime`, `MaxLen`, `MaxCandidates`, `MaxRefresh`,
`MaxClicks`, `MaxPlots`, `MaxNesting`, `MaxCookies`, `MaxUrls`, `CleanTime`) are
guards of the action that counts.  `CHECK_DEADLOCK FALSE` stands where a bound
ends the run or the program exits.

**Fairness.**  `Fetch`: the thread goes on; callbacks, the notification of users
and `gui_poll` return though they may start and abort fetches any number of
times first (strong, as these steps are disabled and enabled in turn; that
`gui_poll` comes back for a queued fetch though no fetcher is active is so assumed and
not shown: the front ends wake it for input and for scheduled calls); a
fetcher sends its last message; libcurl completes every transfer, as the code
sets time limits on each handle.  `LLCache`: the program's own steps go on,
every fetch finishes in the end, the user answers queries, and a callback of
each handle succeeds in the end rather than asking for a replay for ever.
Aborts are left out of the fair run, as its one object has no room for a copy, and
callbacks that fail, since
`llcache_object_notify_users` returns at the first failure (`llcache.c:1987`),
so that users behind it wait for as long as failing users are added in front.
`HLCache`: callbacks return, the low-level cache tells all, the clean runs
again and again; nothing is assumed of pages, as some stay LOADING for ever
(section 6).  `HtmlContent`: as long as a
fetch has an end to report or a slice is scheduled, one of these steps happens
(one condition for all, as they are finitely many); nothing is assumed of the
user, of the sweep or of refresh timers.  `Background`: the loop goes on
and the clock ticks.

**The refinement.**  `HLCache!ImplementsProtocol` is `HandleProtocol!Spec` under
the mapping of each handle to the last message it was told.  Every step of the
detailed specification, in any nesting of broadcasts and migrations, tells one
handle the next message of its order, releases some handles, or stutters.

## 5. What is proved

The theorems hold for every value of the constants that satisfies the module's
assumption (`FetchAssumption`: the fetches are finitely many, each has a scheme
that is the cURL fetcher's or a ring fetcher's, the fetchers are a list of
schemes; `LLCacheAssumption`: NULL and the record of a walk are no addresses,
the objects are finitely many, the limits are natural numbers; `HLCacheAssumption`:
NULL is no address, windows, contents and the words that name other owners are
different things; `HtmlAssumption`: the kinds of items are disjoint and finite;
`BrowserAssumption`: the root window is no frame, frames and handles are finitely
many, NULL and 0 name none of them, and there are five handles for each window,
that is, a call for a new handle finds one;
`BackgroundAssumption`: images, animations and pages are different things, the
images finitely many, sizes, limits and intervals natural numbers;
`UrlDbAssumption`: every domain of two or more labels that the host of a URL is in
is the host of a URL too, the directory above a path is a path, the segments are listed in
the order of `strcmp`, in which a segment that begins with another stands behind
it, NULL is neither host nor path).
TLC evaluates these assumptions in the runs.

| theorem | statement |
|---|---|
| `FetchProofs!TypeCorrect` | `Spec => [](TypeOK /\ Control)` |
| `FetchProofs!LimitsHold` | `Spec => []Limits` |
| `FetchProofs!OneRingHolds` | `Spec => []OneRing` |
| `FetchProofs!AbortIsSafeHolds` | `Spec => []AbortIsSafe` |
| `FetchProofs!FetchersAgreeHolds` | `Spec => []FetchersAgree` |
| `FetchProofs!ActiveFlagHolds` | `Spec => []ActiveFlag` |
| `LLCacheProofs!TypesHold` | `Spec => []TypeOK` |
| `LLCacheProofs!UsersHold` | `Spec => []UsersConsistent` |
| `LLCacheProofs!WalkHolds` | `Spec => []WalkIsSafe` |
| `LLCacheProofs!CandidatesHold` | `Spec => []CandidateIsKept` |
| `LLCacheProofs!NothingLeftAtDone` | `Spec => DoneHasAll` |
| `LLCacheProofs!WorkIsPendingHolds` | `Spec => []WorkIsPending` |
| `LLCacheProofs!ServedWholeHolds` | `Spec => []ServedWhole` |
| `LLCacheProofs!StreamedHolds` | `Spec => []StreamedIsUncached` |
| `HLCacheProofs!TiedHolds` | `Spec => []Tied` |
| `HLCacheProofs!UsersConsistentHolds` | `Spec => []UsersConsistent` |
| `HLCacheProofs!OneOwnerHolds` | `Spec => []OneOwner` |
| `HLCacheProofs!AgreedHolds` | `Spec => [](Tied /\ Agreed)` |
| `HLCacheProofs!CallsAreSafeHolds` | `Spec => []CallsAreSafe` |
| `HLCacheProofs!ToldStatusHolds` | `Spec => []ToldStatus` |
| `HLCacheProofs!Implements` | `Spec => ImplementsProtocol` |
| `HtmlProofs!ActiveCountsHolds` | `Spec => []ActiveCounts` |
| `HtmlProofs!NoLateCallsHolds` | `Spec => []NoLateCalls` |
| `HtmlProofs!DoneIsLoadedHolds` | `Spec => []DoneIsLoaded` |
| `HtmlProofs!StagesInOrderHolds` | `Spec => StagesInOrder` |
| `BrowserProofs!Safe` | `Spec => []IInv` |
| `BrowserProofs!HandlesOwned` | `Spec => []OneOwner` |
| `BrowserProofs!AssertionsTrue` | `Spec => []AssertionsHold` |
| `BrowserProofs!ThrobberTrue` | `Spec => []ThrobberShows` |
| `BrowserProofs!EntryShown` | `Spec => []EntryIsShown` |
| `BackgroundProofs!CacheConsistentHolds` | `Spec => []CacheConsistent` |
| `BackgroundProofs!PendingOnceHolds` | `Spec => []PendingOnce` |
| `BackgroundProofs!WakesInTimeHolds` | `Spec => []WakesInTime` |
| `UrlDbProofs!Invariant` | `Spec => []IInv` |
| `UrlDbProofs!Finds` | `Spec => []FindsUrls` |
| `UrlDbProofs!Sends` | `Spec => []SentIsRight` |

*The scheduler.*  `TypeOK` is not inductive: the successors of `pc` are read
from `cbret`, `dret` and `pollret`, which may be "none".  `Control` says which
of these are set at which place of the program, that is, that the stack of the
single thread is well formed; `TypeOK /\ Control` is inductive.  For the
structure, `IInv == TypeOK /\ Control /\ SInv`, where `SInv` adds to the
properties that the rings of the ring fetchers and the results of libcurl have
no duplicates, that the flag `fetch_is_active` is only on allocated fetches,
and that a fetch whose end was told or that was aborted is allocated and no
longer held.  The last is the point: it is why `fetch_curl_done` may free such a
fetch without telling anyone, and why an abort from inside the last callback of
a fetch cannot reach it.  `SInv` is preserved action by action
(`StartStructure`, `AbortStructure`, `DispatchStructure`, ...), on lemmas about
taking an element out of a ring (`RemovalEffect`, in `ListLemmas`).  `LimitsHold`
needs only that `fetch_ring` grows by one fetch for which `Room` held.
`ActiveFlagHolds` needs that each step that changes the ring recomputes the
flag or is in the dispatch loop, which recomputes it when it ends.

*The low-level cache: structure.*  None of its properties is inductive: that the
next user of a walk is in the list (`WalkIsSafe`) depends on what the callback
of the one before may have done, and that a candidate outlives the object it
may replace (`CandidateIsKept`) on its count.  `Structure` says that the count
of each object is at least the number of objects it is the candidate of, that
an object's list of users are exactly the handles that name it, without
duplicates, with the record of users that a walk moved, where a walk may stand
at each place of the program, and that a user that was told DONE has all the
data.  The model's operators are taken one at a time (`ListLemmas` for lists):
each function that is called by several actions has a lemma of its own, and the
actions only put these together.

*The low-level cache: what an object is worth.*  None of the three properties is
inductive: an open query may be answered by a new fetch or by completing the object,
either of which would break `WorkIsPending` if a fetch were running, and whether
an object may be handed out depends on how its fetch ended.  `Worked` says of
every address, as free ones are taken and retried ones renewed, that no fetch
runs while a query is open, that an object which was completed by a failure or an
abort has no lifetime, and that one which is streamed without having been forced is
redirected, or has begun its data, or was fetched before; `IInv` adds that only
redirected ones of these are in the list that is searched.  `Seen`, which goes with it, says
that an event of its own is sent to a user only when its object has data or is complete, which is
when a client may turn it into a stream.  One lemma for each function says that it
replaces objects by worked ones (`RetrieveWorked`, `SnapshotWorked`,
`MessageWorked`, `AnswerWorked`, ...).

What follows is weaker than one would like, as the code is.  `ServedWhole`
lets an object be handed out after a 304 however its own fetch ended: a request that was
conditional revives it (the first finding of section 6), and one that was not vouches
for it without having been asked.  `StreamedIsUncached`
lets a redirect put a stream into the list that is searched:
an object aborted while its query is open is complete, a later user turns it
into a stream, the answer to the query fetches it again, and if that is
redirected the object of the new address is a stream in the cached list.
`hlcache.c` releases a handle at once after it aborts it (300-302, 352), so
there the case needs two users.  No run checks it: an instance with a redirect, a
query, an abort and two objects has more than five million states.

*The high-level cache: owners and users.*  `OneOwner` and `UsersConsistent` speak of contents and
their users, but what keeps them true is what each call that has not returned yet
relies on: a broadcast holds the next user it will call, a migration holds a
retrieval context and the low-level handle it is to give to a content, a
download holds both.  `Tied` says of handles and contents that a content's
users are the handles with that entry, each once (`Users`), of every low-level
handle who its client is (`Lows`), and of every frame of the stack what it
holds (`Frames`).  The functions of the code are operators; for each there is a
lemma saying what it does to the three parts (`Makes`, `Joins`, `Leaves`,
`Releases`, `Forgets`), which the steps cite without opening the operator.

*The high-level cache: what clients are told.*  A client is told the status of
its content by a message, and between the change of the status and the message
any number of calls may be made: a window that is told READY releases its old
page, a page that is told of its image may become READY itself and tell its own
users, a migration tells a late user two or three messages one after another.
So the promise is not inductive.  `Agreed`, stated over `Tied`, says what holds
inside.  A handle knows the status of its content, or a broadcast has yet to
come to it (`Behind`), or a migration has yet to bring it up to date (`Late`),
or it is being told ERROR (`HandlesAgree`).  Users in the rest of a broadcast
were told the message before (`Broadcasts`), and what a migration has left to
say continues what its handle was told (`CatchesUp`, `Steps`).  A content is
READY or DONE only when its low-level handle has told all (`ContentsAgree`).
Two facts make nesting harmless.  A broadcast of a page that is not the
innermost call has no user left, since a page has one user (`Deep`), so the
broadcasts that can be interrupted half way are those of images; and while an
image tells its users, no window of a user was told that another content is
LOADING (`Apart`), so what a window releases when it is told READY is never a handle
that a call still has to reach (`Spared`, `MayRelease`).  The lemmas are for the
shapes of steps: a call returns (`ReturnAgrees`), a status changes and its
broadcast begins (`AnnounceAgrees`), a handle joins a content (`MigratesAgree`),
one that no call concerns comes or goes (`ComesOrGoes`), any handles go while
nobody is being told anything (`CalmReleases`).  `Implements` then goes
through the actions: each tells one handle the next message of its order
(`TellsOne`), lets a set of handles go (`LetsGo`), or tells nobody.

*The page.*  `ActiveCounts` is not inductive: whether a callback may lower the
counter, and what it finds at zero, depends on the stage.  `IInv` adds `Order`,
what the stages passed have left behind (no sheet or object is asked for while
the document is parsed, no script is to come afterwards, no sheet once boxes are
built), and `Counts`, which says for a page in error too that the counter is at
least what is owed.  The last is needed because a failed page goes on receiving
the ends of its scripts and sheets: were the counter too low, lowering it would
wrap.  It is exact unless the page is in error or gone, since some error paths
drop fetches without counting them; the page without root element ("rootless")
keeps its objects and its count, which is why a refresh of one of them may take
it back to READY.  That the assertions of `html_object_callback` and
`html_object_refresh` fail in the ways `NoLateCalls` names and in no other follows
from what `html_destroy_objects` does to handles and timers (`ObjectsDestroyed`).  The lemmas `StartOwed`, `EndOwed`,
`OneEnds` and `OneStarts` say what a set of fetches started or ended does to
what is owed; each action then has a lemma of its own (`DocumentStep`,
`ScriptStep`, `StyleStep`, ...), which proves at the same time that the step
keeps `StagesInOrder`.

*Windows and history.*  The handlers compute a state from a state, so the
invariant is a predicate `Good(S)` of a state record with four parts, each of
which needs the ones before.  `Owned` says what a handle in each field of a
window may be, and in which field the record of a handle that is not free must
stand; from it follows that no handle stands in two fields (`Exclusive`), which
is `OneOwner`.  `Opened` says that a window that is not open is empty, that one
that refreshes shows a page, and that while there are frames the page that has
them is shown and no other is loading in its window.  The last is needed for the
arrival of a page: its frames must find none of the page before.  `Throbs`
relates the front end's throbber, those of the windows, and the pages awaited.
`Trips` is about the history: `EntryIsShown` speaks of the moments when nothing
loads, and what it says then depends on which page was to come.  So `Trips` says
of a page being loaded that it is to get an entry, or is the page of the entry
marked, or was overtaken; and that an entry is marked as soon as there is one.
The handlers are compositions of operators, and each operator has a lemma that
says what it keeps (`GoPostFields`, `GoodArrived`, `GoodAdded`, `GoodIcon`, ...);
the states between the calls, such as the one in which the old page reports DONE
from inside the stop, are taken one after another.  A call that takes a new handle finds
one free because the places a handle can stand in are four for each window
(`Room`), an argument about cardinalities.

*Scheduled work.*  `BInv` is the conjunction of what the image cache and what the
schedule list keep.  For the cache, `Sound` says of any cache record that its
entries are without duplicates, its bitmaps among them, and its total and count
those of its bitmaps; that a loop over the entries, which frees
bitmaps or entries one at a time, keeps it, is shown by induction over the
passes of the loop (`UpToBound`, from the least number principle of
`WellFoundedInduction`).  Totals are sums over sets, and that one image adds or
takes its size, whatever the order they are summed in, is `BytesAdd`, by
induction over the cardinality.  For the list, jobs are counted: an entry put
in front adds one to the count of its call and parameter (`CountCons`), taking
some out leaves those that stay (`Reindexed`, by the bijection between the
places of the two lists), so the calls of `schedule_run`, each of which takes
one entry and puts in others, leave each count where its owner believes it.
`WakesInTime` is what `NextTime` returns for a list of which nothing is due
(`Soonest`), kept by the clock and by what else is scheduled.

*The URL database.*  That every node is found is not inductive.  The search
takes the first child that begins with the segment wanted, so it depends on the
order of children, which `strcmp` gives; and whether a cookie's node is in the
tree depends on which nodes a load brings back.  `IInv` is `TypeOK` with three
parts: the segments below a node are sorted, without repetition, and lead to nodes
(`Ordered`); a cookie is on the node of its host and path or at the root of its
domain, no two of a node are the same cookie, and a node with cookies can be reached
(`Housed`); and what is kept there and has not expired is what the plain rule says
should be there (`Listed`).  A segment that begins with another stands behind it,
so the one wanted is the first that matches (`LeadsTo`), and a path other than
the one wanted is excluded at the first segment where they differ (`MatchPath`).
An insertion keeps the order because it goes in front of the first segment that is
larger (`InsertionPlace`, `AddNode`), a load because it leaves a selection of
what was there (`SublistSorted`), which holds with each node the nodes above it
(`Restarts`).  For
`SentIsRight`, `Which` names the one list of those `urldb_get_cookie` visits in
which a cookie that applies must be: its exact path, the directory or node it was
set for, or its domain.  A cookie in any list applies and the list is this
one, or the one before if the directory it is of is also a node that is passed
(`SentApplies`); and one that applies is in this list (`AppliesSent`).

*Model-checked only.*  Liveness, which needs fairness (`FetchEnds`,
`EveryoneIsTold`, `EveryHandleTold`, `UnusedGo`, `PageLoads`, `DueIsCalled`).
The properties of `Knockout` (`TypeOK`, `ShowsTheSame`, `PlottedOnce`) depend on what
the cutting of a box computes, a fold over the pieces that are left and the
tables that are flushed in the middle of it.  The induction theorems of the library
take an operator as parameter and cannot be used here; the least number principle
of `BackgroundProofs` can, but the fold would have to be a recursive function
with a proof of its own that it is defined, and of every call what it leaves
of the tables.

## 6. Findings

`ll_stale`: `llcache_object_retrieve_from_cache` takes the newest object of the
URL as a candidate for validation though it is still being fetched, if a
no-cache header keeps it from being served (`llcache.c:1013-1045`).  If that fetch is then aborted or fails, the object holds
part of its data; if the server answers the conditional request with 304, the
object is given the new control data (1351-1373) and is fresh, and users are served the part
as the whole.  The run has servers that say no-cache, for which the newest
object is never fresh while it is fetched.

`html_async`: `html_convert` begins the conversion only if no fetch is active
and otherwise leaves it to the scripts, with the comment "if there are no active
fetches in progress no scripts are being fetched or they completed already"
(`render/html.c:1916`).  The callbacks of synchronous and deferred scripts
begin it when they are the last (`html_script.c:254-260,348-354`); that of an
asynchronous script (145-199) does not.  A page whose asynchronous script is
the last fetch to end stays LOADING for ever.  `PageLoads` of the run `html`
says that otherwise a page stays so only if its conversion failed when a script
callback began it (which drops the failure), or the user stopped it while it was
being parsed.

## 7. Observations

Met while modelling, not checked by a run of their own:

* Fetch.  After the last active transfer ends, a queued fetch that has room
  waits for the next poll though `curl.c:717` says the queue is prodded.
* Low-level cache.  `candidate_count` is not given back when an object with a
  candidate is aborted, finishes empty or is destroyed (`llcache.c:785-826`,
  `2500-2511`), so the candidate is never cleaned.  cURL looks at the headers it
  has before it sees an abort (`curl.c:861-866,1188-1237`): a 304, a
  redirect or a 401 is then handed to an object that has no fetch any more, and
  `fetch_abort` is called with NULL (`llcache.c:1224,1384,1472`), and any message may
  come after the object was cleaned; only the error to an object
  that is still there is a step of the model.  An abort leaves a
  query open, and the answer fetches the aborted object again (`1434-1457`); if
  that is redirected, the new streamed object is put into the cached list.
* Pages, all of them steps of `HtmlContent`, and the exceptions its properties
  name.  The callbacks of scripts ignore the result of `html_begin_conversion`: a
  page that was stopped, or has no html element, stays LOADING and locked.
  `html_free_scripts` does not release the handles of asynchronous and deferred scripts, whose
  callbacks then reach a freed page; the handle of a synchronous script
  whose retrieval failed is never set, and freed all the same.  A linked sheet
  whose retrieval is refused is counted by one of two counts that an assertion
  compares (`html.c:1888`).  A document whose root element is gone when its boxes
  are built fails without destroying its objects (`html.c:172-181`, with a `@todo`
  that asks whether it should), and the next message of one of them fails the
  assertion at 1144.  The refresh of an object that loses its handle is not
  unscheduled and fails the assertion of `html_object_refresh`, or is left when
  the object is freed.  A refused replacement of an object leaves a READY page
  READY for ever (1388).  A refresh while the boxes are built sets READY early, on
  a page that is locked: a reformat or the sweep then fails the assertions of
  `content.c:356,384`.
* Pages that enclose others.  `html_replace_object` adjusts their counts
  (`html.c:1391-1393`); they are not modelled.
* Windows.  `history_go` moves the current entry before the page is there: back,
  an error, then reload leaves entry and page different (`trip` marks this in
  the model).  While the page of an entry loads, a click on a fragment adds an entry
  of the page still shown; when the page arrives it gets no entry, so the history
  goes on marking a place of the page that went (`history_core.c:426-460`;
  `trip` is "lost" then).  `history_update` can give an entry the title of another page.
  `forward_pref` is not changed by jumps.
* Background.  The periodic clean of the image cache may evict an image drawn
  just before, if another was added since (compare `image_cache.c:267`).
  `redraw_age` is 0 for an image never drawn.  The early bitmap of a PNG leaks if
  the content fails before it is converted.  `hlcache_finalise` schedules the
  sweep again after `hlcache_stop` has removed it, against `hlcache.h:92-95`.
  `curl.c` schedules its poll once for every fetch started (491), and each call
  schedules itself again (812).
* Redraw.  A fill that was cut up and then wholly covered is marked deleted, but
  the flush looks at its pieces first (`knockout.c:318-330`), so they are
  plotted, under what covers them.  "End any previous sessions" in
  `knockout_plot_start` is not reached.
* URL database.  A cookie of the path `/` is sent twice to a URL with an empty segment
  before its last, such as `//a`: once for the node passed, and again for the
  directory's entry, which is the same one (`urldb.c:2515-2590`).  The model does so
  too: it is the exception `SentIsRight` names (`Twice`).  `urldb_match_path` can answer `/ab` for an absent `/a`.  Host
  cookies go to port 0 (`urldb.c:3345`), so one with a path other than `/` set
  by a server on another port is not found.  `include_http_only` is looked at
  for cookies of the exact path only (2397, 2490-2500).  The iteration over all
  cookies visits leaves only (compare 1403).  Nodes that are not leaves are not
  saved as visited.  The referer check compares the URL's host with itself
  (2717).  `cookies_remove` calls `cookies_schedule_callback`
  (`desktop/cookies.c:428-434`), not the removal `cookies.h:44-50` promises.

## 8. Not modelled

Left out as a whole, since a model would say nothing, or nothing that TLC can
check:

* HTML boxes, forms and layout: numerical functions of large trees.
* CSS: selection is done by an external library.  That a style sheet is shared, and stays
  LOADING and locked while its imports load (`css/css.c:260-281,447-476`), is not modelled, nor
  what becomes of it when they fail or it is cloned; a page sees it as any handle.
* MIME sniffing and URL parsing: pure functions of bytes, table driven; unit
  tests reach them, there is no state to interleave.
* Text areas, selection, scroll bars, tree views: user interface state changed by
  one event at a time.
* JavaScript binding: generated glue for an external engine.
* Utilities: small containers and string handling; the rings of `utils/ring.h`
  are sequences and sets in `Fetch`.
* Front ends other than the framebuffer's: their schedulers have the same
  contract (compare `gtk/schedule.c`, `atari/schedule.c`, `monkey/schedule.c`),
  their widgets no state the core depends on.

Left out of modelled components: failing allocations; registration and reference
counts of fetchers and `fetch_quit`; the order of headers and status handling
inside one transfer and the cache of easy handles; the content of messages,
referers, cookies and multipart data of a fetch; POST data (a POST behaves as a
forced fetch); `llcache_finalise`; children waiting for the quirks mode of their
parent; encoding changes; imports in style sheets; the pages enclosing a page;
`<frameset>` frames and new windows; the statistics of the image cache;
groups in redraw batching; more than one scheme or port, queries and fragments
in `UrlDb`, its host trees, authentication and certificate entries.  Whether the
low-level cache is over its size limit is a free choice of each clean.

## 9. Seeded faults

Beside the operators that model the code stand variants under the heading
"Seeded fault": the same operator with a mistake a programmer might make.  No
action uses them.  Each property of a passing run is violated when the variant
named with it in `PROJECT.json` takes the place of the operator, so each
property depends on the code it is about.

## 10. What could follow

A model of the
messages inside one transfer (`CurlTransfer`) against the order `LLCache`
assumes; the pages that enclose a page as a composition of two `HtmlContent`s;
the composition of `BrowserWindow` with `HLCache` through `HandleProtocol`.
