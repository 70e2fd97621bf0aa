--------------------------- MODULE BrowserWindow ---------------------------
(***************************************************************************)
(* A browser window with its frames, and its history (desktop/browser.c,     *)
(* frames.c, history_core.c).  A window keeps the page it shows and the page *)
(* it loads, the icon it shows and the icon it loads, a throbber, and at     *)
(* most one scheduled refresh; the high-level cache calls it with the        *)
(* messages of these four handles while the user navigates.  What makes it   *)
(* hard: the history moves before the page arrives, stopping a page makes    *)
(* it DONE from inside the call that loads the next one, and the pages a     *)
(* user leaves go on reporting until their handles are released.            *)
(*                                                                         *)
(* Messages come in the order HandleProtocol.tla allows.  A page in READY    *)
(* that is stopped becomes DONE from inside the call, or later if an object  *)
(* of it does not finish at once (HtmlContent!html_stop).  Windows are       *)
(* changed by a handler as a whole: an action computes the new state S from  *)
(* the old one, call by call, in the order of the code.                     *)
(***************************************************************************)
EXTENDS Naturals, FiniteSets, Sequences

CONSTANTS Root,      \* the window of the front end
          Frame,     \* the iframes its page can have
          Handle,    \* addresses of hlcache handles, more than the windows can hold
          Page,      \* URLs of pages
          FramePage, \* URL of any page in a frame
          NULL,
          MaxClicks  \* bound: loads the user and the timers start

Window == Frame \cup {Root}

ASSUME BrowserAssumption ==
  /\ Root \notin Frame /\ NULL \notin Frame \cup Page \cup {Root, FramePage}
  /\ 0 \notin Handle /\ IsFiniteSet(Handle) /\ IsFiniteSet(Frame)
  /\ Cardinality(Handle) >= 5 * Cardinality(Window)
  /\ MaxClicks \in Nat

Pages(w) == IF w = Root THEN Page ELSE {FramePage}

VARIABLES
  open,    \* the windows there are
  bw,      \* their fields
  handle,  \* the handles they hold, and what the content behind each is
  history, \* the history of Root: its entries and the current one
  gui,     \* the throbber the front end shows
  clicks,  \* loads started so far
  trip     \* what became of the last history_go: see EntryIsShown

vars == <<open, bw, handle, history, gui, clicks, trip>>

\* loading_content, current_content, loading_favicon, current_favicon (0 is
\* NULL), failed_favicon, throbbing, history_add, refresh_interval # -1, and
\* whether browser_window_refresh is scheduled
NewWindow == [loading |-> 0, current |-> 0, lfav |-> 0, cfav |-> 0, failed |-> FALSE,
              throbbing |-> FALSE, add |-> FALSE, interval |-> FALSE, refresh |-> FALSE]
Free == [win |-> NULL, page |-> NULL, status |-> "free"]

Init ==
  /\ open = {Root}
  /\ bw = [w \in Window |-> NewWindow]
  /\ handle = [h \in Handle |-> Free]
  /\ history = [entry |-> <<>>, current |-> 0]
  /\ gui = FALSE
  /\ clicks = 0
  /\ trip = "none"

State == [open |-> open, bw |-> bw, handle |-> handle, history |-> history,
          gui |-> gui, trip |-> trip]

Becomes(S) ==
  /\ open' = S.open /\ bw' = S.bw /\ handle' = S.handle
  /\ history' = S.history /\ gui' = S.gui /\ trip' = S.trip

-----------------------------------------------------------------------------
\* Handles, throbber and history

hlcache_handle_release(S, h) == IF h = 0 THEN S ELSE [S EXCEPT !.handle[h] = Free]

NextFree(S) == CHOOSE h \in Handle : S.handle[h] = Free

\* hlcache_handle_retrieve into a field of the window
Retrieve(S, w, field, p) ==
  LET h == NextFree(S)
  IN [S EXCEPT !.handle[h] = [win |-> w, page |-> p, status |-> "fetching"],
               !.bw[w][field] = h]

browser_window_start_throbber(S, w) == [S EXCEPT !.bw[w].throbbing = TRUE, !.gui = TRUE]

\* Seeded fault: the other windows are not asked
StopsEveryThrobber(S, w) == [S EXCEPT !.bw[w].throbbing = FALSE, !.gui = FALSE]

browser_window_stop_throbber(S, w) ==
  LET others == \E v \in S.open \ {w} : S.bw[v].throbbing
  IN [S EXCEPT !.bw[w].throbbing = FALSE, !.gui = others /\ S.gui]

\* What becomes of the trip when the entry that becomes current is a place of the
\* page shown: they agree, unless a page that gets no entry is still to come
Rejoined(S) ==
  IF S.trip = "none" \/ S.bw[Root].loading = 0 \/ S.bw[Root].add THEN "none" ELSE "lost"

\* The entry becomes current; the tree is reduced to what each entry shows
history_add(S, p, frag) ==
  [S EXCEPT !.history = [entry |-> Append(@.entry, [page |-> p, frag |-> frag]),
                         current |-> Len(@.entry) + 1],
            !.trip = Rejoined(S)]

\* The load a history_go started ended without its page
Lost(S, w) == IF w = Root /\ S.trip = "going" THEN [S EXCEPT !.trip = "lost"] ELSE S

\* icon says what is found: a link or /favicon.ico, the default, or nothing
\* that can be fetched
browser_window_update_favicon(S, w, icon) ==
  IF w # Root \/ S.bw[w].lfav # 0 THEN S
  ELSE LET T == [S EXCEPT !.bw[w].failed = (icon = "default")]
       IN IF icon = "none" THEN T ELSE Retrieve(T, w, "lfav", NULL)

\* browser_window_callback with DONE
ShownDone(S, w, icon) ==
  LET h == S.bw[w].current
      T == browser_window_update_favicon(
             browser_window_stop_throbber([S EXCEPT !.handle[h].status = "DONE"], w), w, icon)
  IN [T EXCEPT !.bw[w].refresh = @ \/ T.bw[w].interval]

-----------------------------------------------------------------------------
\* Stopping, loading and destroying

\* Stopping a READY page makes it DONE, and it says so at once but in the windows
\* `later`, whose pages still have objects to finish
StopContents(S, w, icon, later) ==
  LET h == S.bw[w].current
      T == IF S.bw[w].loading = 0 THEN S
           ELSE [Lost(hlcache_handle_release(S, S.bw[w].loading), w) EXCEPT !.bw[w].loading = 0]
      U == IF h # 0 /\ T.handle[h].status = "READY" /\ w \notin later
           THEN ShownDone(T, w, icon) ELSE T
  IN [U EXCEPT !.bw[w].refresh = FALSE]

Children(S, w) == IF w = Root THEN S.open \ {Root} ELSE {}

\* A frame has no icon, and stopping one does not concern the others
StopFrames(S, W, later) ==
  LET Stopped(h) == \E v \in W : S.bw[v].loading = h
      Shown(h) == \E v \in W \ later : S.bw[v].current = h
  IN [S EXCEPT
        !.handle = [h \in Handle |->
                      IF Stopped(h) THEN Free
                      ELSE IF Shown(h) /\ @[h].status = "READY" THEN [@[h] EXCEPT !.status = "DONE"]
                      ELSE @[h]],
        !.bw = [v \in Window |->
                  IF v \in W
                  THEN [@[v] EXCEPT !.loading = 0, !.throbbing = FALSE, !.refresh = FALSE]
                  ELSE @[v]]]

browser_window_stop(S, w, icon, later) ==
  browser_window_stop_throbber(
    StopFrames(StopContents(S, w, icon, later), Children(S, w), later), w)

Held(b) == {b.loading, b.current, b.lfav, b.cfav}

\* Seeded fault: the page being loaded keeps its handle
DestroyKeepsLoading(S, W) ==
  LET kept == UNION {Held(S.bw[v]) \ {S.bw[v].loading} : v \in W}
  IN [S EXCEPT !.open = @ \ W,
               !.bw = [v \in Window |-> IF v \in W THEN NewWindow ELSE @[v]],
               !.handle = [h \in Handle |-> IF h \in kept THEN Free ELSE @[h]]]

\* Windows go, with all their handles
browser_window_destroy_internal(S, W) ==
  LET gone == UNION {Held(S.bw[v]) : v \in W}
  IN [S EXCEPT !.open = @ \ W,
               !.bw = [v \in Window |-> IF v \in W THEN NewWindow ELSE @[v]],
               !.handle = [h \in Handle |-> IF h \in gone THEN Free ELSE @[h]]]

browser_window_destroy_children(S, w) == browser_window_destroy_internal(S, Children(S, w))

\* Seeded fault: what is still loading is not stopped
GoWithoutStop(S, w, p, add, refused, icon, later) ==
  LET T == [browser_window_destroy_children(S, w) EXCEPT !.bw[w].add = add]
  IN IF refused THEN T
     ELSE browser_window_start_throbber(Retrieve(T, w, "loading", p), w)

\* refused: there is no fetcher for the URL
browser_window_go_post(S, w, p, add, refused, icon, later) ==
  LET T == [browser_window_destroy_children(browser_window_stop(S, w, icon, later), w)
              EXCEPT !.bw[w].add = add]
  IN IF refused THEN T
     ELSE browser_window_start_throbber(Retrieve(T, w, "loading", p), w)

\* The windows that show a page in READY
Unfinished == {v \in open : bw[v].current # 0 /\ handle[bw[v].current].status = "READY"}

Icons(w) == IF w = Root THEN {"found", "default", "none"} ELSE {"none"}

Go(w, p, add) ==
  /\ clicks < MaxClicks /\ clicks' = clicks + 1
  /\ \E refused \in BOOLEAN, icon \in Icons(w), later \in SUBSET Unfinished :
        Becomes(browser_window_go_post(State, w, p, add, refused, icon, later))

\* A link or the URL bar; Root's history takes what is not a frame's
browser_window_go(w) ==
  /\ w \in open
  /\ \E p \in Pages(w) : Go(w, p, w = Root)

\* A link to another place of the same page is not fetched
GoToFragment ==
  /\ Root \in open /\ bw[Root].current # 0
  /\ clicks < MaxClicks /\ clicks' = clicks + 1
  /\ Becomes(history_add(State, handle[bw[Root].current].page, TRUE))

browser_window_reload ==
  /\ Root \in open /\ bw[Root].current # 0 /\ bw[Root].loading = 0
  /\ Go(Root, handle[bw[Root].current].page, FALSE)

\* Seeded fault: the current entry stays, as it does when a new window is opened
HistoryStays(e) ==
  /\ Root \in open
  /\ clicks < MaxClicks /\ clicks' = clicks + 1
  /\ \E refused \in BOOLEAN, icon \in Icons(Root), later \in SUBSET Unfinished :
        Becomes([browser_window_go_post(State, Root, history.entry[e].page, FALSE, refused, icon, later)
                   EXCEPT !.trip = IF refused THEN "lost" ELSE "going"])

\* The current entry moves before the page is loaded, and is all that moves
\* when the entry is a place of the page that is shown
history_go(e) ==
  LET S == [State EXCEPT !.history.current = e]
      c == bw[Root].current
      p == history.entry[e].page
  IN /\ Root \in open
     /\ clicks < MaxClicks /\ clicks' = clicks + 1
     /\ IF history.entry[e].frag /\ c # 0 /\ handle[c].page = p
        THEN Becomes([S EXCEPT !.trip = Rejoined(S)])
        ELSE \E refused \in BOOLEAN, icon \in Icons(Root), later \in SUBSET Unfinished :
               Becomes([browser_window_go_post(S, Root, p, FALSE, refused, icon, later)
                          EXCEPT !.trip = IF refused THEN "lost" ELSE "going"])

\* The timer of the page's <meta> refresh
browser_window_refresh(w) ==
  /\ w \in open /\ bw[w].refresh /\ bw[w].current # 0
  /\ clicks < MaxClicks /\ clicks' = clicks + 1
  /\ \E p \in Pages(w), refused \in BOOLEAN, icon \in Icons(w), later \in SUBSET Unfinished :
        Becomes(browser_window_go_post([State EXCEPT !.bw[w].refresh = FALSE], w, p,
                  w = Root /\ p # handle[bw[w].current].page, refused, icon, later))

UserStops ==
  /\ Root \in open
  /\ \E icon \in Icons(Root), later \in SUBSET Unfinished : Becomes(browser_window_stop(State, Root, icon, later))
  /\ UNCHANGED clicks

browser_window_destroy ==
  /\ Root \in open
  /\ Becomes([browser_window_destroy_internal(browser_window_destroy_children(State, Root), {Root})
                EXCEPT !.gui = FALSE])
  /\ UNCHANGED clicks

-----------------------------------------------------------------------------
\* The messages of a page: browser_window_callback

Of(h) == handle[h].win
IsPage(h, S) == handle[h].page # NULL /\ handle[h].status \in S

Loading(h) ==
  /\ IsPage(h, {"fetching"})
  /\ Becomes([State EXCEPT !.handle[h].status = "LOADING", !.bw[Of(h)].interval = FALSE])

browser_window_convert_to_download(h) ==
  /\ IsPage(h, {"fetching"}) /\ Of(h) = Root
  /\ Becomes(browser_window_stop_throbber(
       [Lost(hlcache_handle_release(State, h), Root) EXCEPT !.bw[Root].loading = 0], Root))

\* REFRESH, and LINK with an icon, come from the head of the document
Refreshes(h) ==
  /\ IsPage(h, {"LOADING"}) /\ ~bw[Of(h)].interval
  /\ Becomes([State EXCEPT !.bw[Of(h)].interval = TRUE])

Link(h) ==
  /\ IsPage(h, {"LOADING"}) /\ bw[Of(h)].lfav = 0 /\ Of(h) = Root
  /\ Becomes(browser_window_update_favicon(State, Of(h), "found"))

\* The frames F of a page are made, and those of G begin to load: a new window has
\* nothing to stop, and its URL may be missing or refused
browser_window_create_iframes(S, F, G) ==
  LET new == CHOOSE f \in [G -> {h \in Handle : S.handle[h] = Free}] :
               \A v, u \in G : f[v] = f[u] => v = u
      Made(v) == IF v \in G THEN [NewWindow EXCEPT !.loading = new[v], !.throbbing = TRUE]
                 ELSE NewWindow
  IN [S EXCEPT !.open = @ \cup F,
               !.bw = [v \in Window |-> IF v \in F THEN Made(v) ELSE @[v]],
               !.handle = [h \in Handle |->
                             IF \E v \in G : new[v] = h
                             THEN [win |-> CHOOSE v \in G : new[v] = h,
                                   page |-> FramePage, status |-> "fetching"]
                             ELSE @[h]],
               !.gui = @ \/ G # {}]

\* The page that was loading is the one shown
Replaced(S, w, h) ==
  [hlcache_handle_release(S, S.bw[w].current) EXCEPT
     !.handle[h].status = "READY", !.bw[w] = [@ EXCEPT !.current = h, !.loading = 0],
     !.trip = IF w = Root /\ @ = "going" THEN "none" ELSE @]

Ready(h) ==
  LET w == Of(h)
      S == Replaced(State, w, h)
      T == IF w = Root /\ bw[w].add THEN history_add(S, handle[h].page, FALSE) ELSE S
  IN /\ IsPage(h, {"LOADING"})
     /\ \E F \in SUBSET (IF w = Root THEN Frame ELSE {}) : \E G \in SUBSET F :
           Becomes(browser_window_create_iframes(T, F, G))

Done(h) ==
  /\ IsPage(h, {"READY"})
  /\ \E icon \in Icons(Of(h)) : Becomes(ShownDone(State, Of(h), icon))

\* An embedded document refreshes itself: html_replace_object
BecomesReadyAgain(h) ==
  /\ IsPage(h, {"DONE"})
  /\ clicks < MaxClicks /\ clicks' = clicks + 1
  /\ Becomes([State EXCEPT !.handle[h].status = "READY"])

Dropped(S, w, h) ==
  LET b == S.bw[w]
      c == IF b.loading = h THEN [b EXCEPT !.loading = 0]
           ELSE IF b.current = h THEN [b EXCEPT !.current = 0] ELSE b
  IN [Lost(hlcache_handle_release(S, h), w) EXCEPT !.bw[w] = c]

\* ERROR or ERRORCODE
Error(h) ==
  /\ IsPage(h, {"fetching", "LOADING"})
  /\ Becomes(browser_window_stop_throbber(Dropped(State, Of(h), h), Of(h)))

\* browser_window_favicon_callback
IsIcon(h) == handle[h].win # NULL /\ handle[h].page = NULL /\ handle[h].status = "fetching"

IconDone(h) ==
  /\ IsIcon(h)
  /\ Becomes([hlcache_handle_release(State, bw[Root].cfav) EXCEPT
                !.handle[h].status = "DONE", !.bw[Root] = [@ EXCEPT !.cfav = h, !.lfav = 0]])

IconFails(h) ==
  LET S == [hlcache_handle_release(State, h) EXCEPT
             !.bw[Root] = [@ EXCEPT !.lfav = 0, !.failed = TRUE]]
  IN /\ IsIcon(h)
     /\ Becomes(IF bw[Root].failed THEN S ELSE Retrieve(S, Root, "lfav", NULL))

-----------------------------------------------------------------------------
Message(h) ==
  \/ Loading(h) \/ browser_window_convert_to_download(h) \/ Refreshes(h) \/ Link(h)
  \/ Ready(h) \/ Done(h) \/ Error(h) \/ IconDone(h) \/ IconFails(h)

Next ==
  \/ \E w \in Window : browser_window_go(w) \/ browser_window_refresh(w)
  \/ GoToFragment \/ browser_window_reload \/ UserStops \/ browser_window_destroy
  \/ \E e \in DOMAIN history.entry : history_go(e)
  \/ \E h \in Handle : (Message(h) /\ UNCHANGED clicks) \/ BecomesReadyAgain(h)

Spec == Init /\ [][Next]_vars

-----------------------------------------------------------------------------
\* Properties

Holds == {"loading", "current", "lfav", "cfav"}

TypeOK ==
  /\ open \subseteq Window
  /\ bw \in [Window -> [loading : Handle \cup {0}, current : Handle \cup {0},
               lfav : Handle \cup {0}, cfav : Handle \cup {0}, failed : BOOLEAN,
               throbbing : BOOLEAN, add : BOOLEAN, interval : BOOLEAN, refresh : BOOLEAN]]
  /\ handle \in [Handle -> [win : Window \cup {NULL}, page : Page \cup {FramePage, NULL},
               status : {"free", "fetching", "LOADING", "READY", "DONE"}]]
  /\ history.entry \in Seq([page : Page, frag : BOOLEAN])
  /\ history.current \in 0..Len(history.entry)
  /\ gui \in BOOLEAN /\ clicks \in 0..MaxClicks /\ trip \in {"none", "going", "lost"}

\* No handle is lost and none is used after its release: every handle there
\* is stands in exactly one field of the window it calls back, whatever
\* navigation, error, stop or close came between.
OneOwner ==
  /\ TypeOK
  /\ \A h \in Handle :
       LET places == {at \in Window \X Holds : bw[at[1]][at[2]] = h}
       IN IF handle[h] = Free THEN places = {}
          ELSE \E f \in Holds : places = {<<handle[h].win, f>>}

\* The assertions of browser_window_callback, browser_window_update and
\* browser_window_refresh: a page that has not been shown reports to the
\* window that loads it, one that is shown to the window that shows it, a
\* frame lives in a page, and a refresh finds a page to refresh.
AssertionsHold ==
  /\ \A h \in Handle :
        /\ IsPage(h, {"fetching", "LOADING"}) => bw[Of(h)].loading = h
        /\ IsPage(h, {"READY", "DONE"}) => bw[Of(h)].current = h
  /\ open \cap Frame # {} => bw[Root].current # 0
  /\ \A w \in Window : bw[w].refresh => w \in open /\ bw[w].current # 0

\* The front end's throbber runs exactly while some window's does, and no
\* window's runs without a page that is still to report.
ThrobberShows ==
  /\ gui = \E w \in open : bw[w].throbbing
  /\ \A w \in open : bw[w].throbbing =>
        \/ bw[w].loading # 0
        \/ bw[w].current # 0 /\ handle[bw[w].current].status = "READY"

\* Unless the page of a history entry never arrived, or the user went to another
\* place of the page shown before it did, the entry marked as current is the page
\* the window shows as soon as nothing is loading, after any mixture of links,
\* reloads, refreshes, stops and moves in the history.
EntryIsShown ==
  Root \in open /\ trip = "none" /\ bw[Root].loading = 0 /\ history.current # 0 =>
     /\ bw[Root].current # 0
     /\ handle[bw[Root].current].page = history.entry[history.current].page
=============================================================================
