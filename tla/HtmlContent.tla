---------------------------- MODULE HtmlContent ----------------------------
(***************************************************************************)
(* The life of one HTML content (render/html.c, render/html_script.c): the  *)
(* document is fetched and parsed, scripts are fetched on the way, then the  *)
(* style sheets are fetched, the box tree is built a slice at a time while  *)
(* its objects are fetched, and the page is READY until the last object has *)
(* arrived.  What gates every stage is one counter, `active`, raised and    *)
(* lowered in a dozen places by the callbacks of scripts, sheets and objects *)
(* in the order their fetches happen to end, while the user may stop the    *)
(* page, an object may refresh itself, and the last client may go away.     *)
(*                                                                         *)
(* The handles a page holds come from the high-level cache (HLCache.tla);    *)
(* here each is an item that is fetched and ends READY, DONE or in error.    *)
(* An assertion that fails stops the program, as the makefiles never define *)
(* NDEBUG, and what a freed page does is undefined: both end in the stage    *)
(* "crashed", in which nothing happens any more.                            *)
(***************************************************************************)
EXTENDS Naturals, FiniteSets

CONSTANTS Sync, Async, Defer, \* the scripts the document names, by HTML_SCRIPT_* type
          Base,               \* the style sheet of slot STYLESHEET_BASE
          Sheet,              \* the other style sheets the document can need, fetched or inline
          Inline,             \* those of Sheet that are <style> elements
          Object,             \* the objects (images, embedded documents) it can need
          Enabled,            \* which of "abort", "refresh", "refuse", "close" happen
          MaxRefresh          \* bound: how often embedded documents ask for a refresh

ASSUME HtmlAssumption ==
  /\ IsFiniteSet(Sync \cup Async \cup Defer \cup Sheet \cup Object)
  /\ Sync \cap (Async \cup Defer \cup Sheet \cup Object) = {}
  /\ Async \cap (Defer \cup Sheet \cup Object) = {}
  /\ Defer \cap (Sheet \cup Object) = {}
  /\ Sheet \cap Object = {}
  /\ Base \notin Sync \cup Async \cup Defer \cup Sheet \cup Object
  /\ Inline \subseteq Sheet
  /\ MaxRefresh \in Nat

Script == Sync \cup Async \cup Defer
Sheets == Sheet \cup {Base}
Item == Script \cup Sheets \cup Object

VARIABLES
  status,    \* content status of the page
  stage,     \* what the page is doing: "parse", "styles", "boxes", "shown" and then
             \* "gone"; "left" when the conversion failed and nobody took notice,
             \* "rootless" when the boxes are built of a document without root
             \* element, "crashed" when the program has stopped
  fetched,   \* html_convert has run: the document itself has arrived
  active,    \* c->base.active
  aborted,   \* c->aborted
  item,      \* item[i]: "none", "fetching", "READY", "DONE", "NULL" (handle released),
             \* "refused" (no fetcher took it), "freed" (an object destroyed with a handle)
  timer,     \* the objects html_object_refresh is scheduled for
  refreshes, \* how many refreshes have been asked for
  used       \* the page has a client

vars == <<status, stage, fetched, active, aborted, item, timer, refreshes, used>>

Pending(kids) == {i \in Item : kids[i] \in {"fetching", "READY"}}
Handles(kids) == {i \in Item : kids[i] \in {"fetching", "READY", "DONE"}}
Held(i) == item[i] \in {"fetching", "READY", "DONE"}
Alive == stage \notin {"gone", "crashed"}
Paused == \E s \in Sync : item[s] = "fetching"
Set(kids, S, state) == [i \in Item |-> IF i \in S THEN state ELSE kids[i]]

\* A failed assertion, or a call into freed memory: nothing is left of the page
Nothing == [i \in Item |-> "none"]
Crashes ==
  /\ stage' = "crashed" /\ status' = "ERROR"
  /\ item' = Nothing /\ active' = 0
  /\ timer' = {}
  /\ UNCHANGED <<fetched, aborted, refreshes, used>>

Init ==
  /\ status = "LOADING" /\ stage = "parse"
  /\ fetched = FALSE
  /\ active = 1
  /\ aborted = FALSE
  /\ item = Nothing
  /\ timer = {} /\ refreshes = 0
  /\ used = TRUE

-----------------------------------------------------------------------------
\* Parsing, and the scripts found on the way

\* exec_src_script for every script the parser meets until one pauses it: the
\* scripts fetched, and the synchronous ones refused, whose handle is never set.
\* A refused script of another kind is as good as none.
Found(kids) ==
  LET unmet == {s \in Script : kids[s] = "none"}
  IN {found \in [begun : SUBSET unmet, refused : SUBSET (unmet \cap Sync)] :
        /\ Cardinality(found.begun \cap Sync) <= 1
        /\ found.begun \cap found.refused = {}
        /\ found.refused # {} => "refuse" \in Enabled}

Meet(kids, found) == Set(Set(kids, found.refused, "refused"), found.begun, "fetching")

html_process_data ==
  /\ stage = "parse" /\ status = "LOADING" /\ ~fetched /\ ~Paused
  /\ \E found \in Found(item) \ {[begun |-> {}, refused |-> {}]} :
        /\ item' = Meet(item, found)
        /\ active' = active + Cardinality(found.begun)
  /\ UNCHANGED <<status, stage, fetched, aborted, timer, refreshes, used>>

\* A sheet that is refused is counted in stylesheet_count and not in ctx.count,
\* which the assertion after the walk compares.
html_find_stylesheets(kids, n) ==
  \E S \in SUBSET Sheet :
     /\ item' = Set(kids, S \cup {Base}, "fetching")
     /\ active' = n + Cardinality(S \cup {Base})

\* Entered with the handles `kids` and n fetches active.  The result is false
\* for a page that was stopped, and for a document that cannot be parsed to its
\* end or whose root element is not html.  The caller from content_convert turns
\* it into an error; the callbacks of scripts drop it and leave the page LOADING.
html_begin_conversion(kids, n, onFalse) ==
  \/ /\ item' = kids /\ active' = n
     /\ status' = onFalse
     /\ stage' = IF onFalse = "ERROR" THEN stage ELSE "left"
  \/ /\ ~aborted
     /\ html_find_stylesheets(kids, n)
     /\ stage' = "styles"
     /\ UNCHANGED status
  \/ /\ ~aborted /\ "refuse" \in Enabled /\ Sheet # Inline
     /\ stage' = "crashed" /\ status' = "ERROR"
     /\ item' = Nothing /\ active' = 0

\* Seeded fault: the scripts still active are forgotten
ConvertIgnoresScripts ==
  /\ stage = "parse" /\ status = "LOADING" /\ ~fetched
  /\ fetched' = TRUE
  /\ html_begin_conversion(item, active - 1, "ERROR")
  /\ UNCHANGED <<aborted, timer, refreshes, used>>

\* content_convert: the document has arrived
html_convert ==
  /\ stage = "parse" /\ status = "LOADING" /\ ~fetched
  /\ fetched' = TRUE
  /\ IF active - 1 = 0
     THEN html_begin_conversion(item, 0, "ERROR")
     ELSE active' = active - 1 /\ UNCHANGED <<status, stage, item>>
  /\ UNCHANGED <<aborted, timer, refreshes, used>>

\* content_llcache_callback: the fetch of the document failed
FetchFails ==
  /\ stage = "parse" /\ status = "LOADING" /\ ~fetched
  /\ status' = "ERROR"
  /\ UNCHANGED <<stage, fetched, active, aborted, item, timer, refreshes, used>>

ScriptEnd(s, kids, n) ==
  IF n = 0
  THEN html_begin_conversion(kids, n, status)
  ELSE item' = kids /\ active' = n /\ UNCHANGED <<status, stage>>

\* DONE keeps the handle, ERROR releases it
Ends(i, kids) == {Set(kids, {i}, "DONE"), Set(kids, {i}, "NULL")}

convert_script_async_cb(s) ==
  /\ s \in Async /\ item[s] = "fetching" /\ Alive
  /\ item' \in Ends(s, item)
  /\ active' = active - 1
  /\ UNCHANGED <<status, stage, fetched, aborted, timer, refreshes, used>>

\* Seeded fault: written like the callback of asynchronous scripts
DeferLikeAsync(s) ==
  /\ s \in Defer /\ item[s] = "fetching" /\ Alive
  /\ item' \in Ends(s, item)
  /\ active' = active - 1
  /\ UNCHANGED <<status, stage, fetched, aborted, timer, refreshes, used>>

convert_script_defer_cb(s) ==
  /\ s \in Defer /\ item[s] = "fetching" /\ Alive
  /\ \E kids \in Ends(s, item) : ScriptEnd(s, kids, active - 1)
  /\ UNCHANGED <<fetched, aborted, timer, refreshes, used>>

\* The parser goes on, and may meet further scripts before it returns
convert_script_sync_cb(s) ==
  /\ s \in Sync /\ item[s] = "fetching" /\ Alive
  /\ \E kids \in Ends(s, item) : \E found \in Found(kids) :
        ScriptEnd(s, Meet(kids, found), active - 1 + Cardinality(found.begun))
  /\ UNCHANGED <<fetched, aborted, timer, refreshes, used>>

-----------------------------------------------------------------------------
\* Style sheets, boxes and objects

\* Entered when no fetch is active.  A document without root element fails too.
html_finish_conversion(kids) ==
  \/ status' = "ERROR" /\ UNCHANGED stage
  \/ ~aborted /\ kids[Base] # "NULL" /\ stage' = "boxes" /\ UNCHANGED status

\* html_convert_css_callback with DONE or ERROR, and html_inline_style_done
StyleEnds(s) ==
  /\ s \in Sheets /\ item[s] = "fetching" /\ Alive
  /\ item' \in Ends(s, item)
  /\ s \in Inline => item'[s] = "DONE"
  /\ active' = active - 1
  /\ IF active' = 0 THEN html_finish_conversion(item') ELSE UNCHANGED <<status, stage>>
  /\ UNCHANGED <<fetched, aborted, timer, refreshes, used>>

\* convert_xml_to_box, a slice at a time
html_fetch_object(o) ==
  /\ stage = "boxes" /\ status # "ERROR" /\ ~aborted
  /\ item[o] = "none"
  /\ item' = Set(item, {o}, "fetching")
  /\ active' = active + 1
  /\ UNCHANGED <<status, stage, fetched, aborted, timer, refreshes, used>>

\* The refresh of an object is unscheduled only if it has a handle
html_destroy_objects(kids) ==
  /\ item' = Set(kids, Object \cap Handles(kids), "freed")
  /\ timer' = timer \ Handles(kids)

\* Seeded fault: the objects are kept when the conversion fails
BoxesFailWithObjects(result) ==
  LET failed == aborted \/ result # "built"
  IN /\ stage = "boxes" /\ status # "ERROR"
     /\ status' = IF failed THEN "ERROR" ELSE IF active = 0 THEN "DONE" ELSE "READY"
     /\ stage' = IF failed THEN stage ELSE "shown"
     /\ UNCHANGED <<fetched, active, aborted, item, timer, refreshes, used>>

\* "failed" stands for every failure that destroys the objects.  That of a
\* document whose root element is gone does not.
html_box_convert_done(result) ==
  /\ stage = "boxes" /\ status # "ERROR"
  /\ \/ /\ aborted \/ result = "failed"
        /\ status' = "ERROR"
        /\ html_destroy_objects(item)
        /\ UNCHANGED stage
     \/ /\ ~aborted /\ result = "rootless"
        /\ status' = "ERROR" /\ stage' = "rootless"
        /\ UNCHANGED <<item, timer>>
     \/ /\ ~aborted /\ result = "built"
        /\ status' = IF active = 0 THEN "DONE" ELSE "READY"
        /\ stage' = "shown"
        /\ UNCHANGED <<item, timer>>
  /\ UNCHANGED <<fetched, active, aborted, refreshes, used>>

\* All objects have arrived: the last lines of html_object_callback and html_stop
AfterObjects(n) == IF status = "READY" /\ n = 0 THEN "DONE" ELSE status

\* From content_convert to content_set_ready or content_set_error the page is
\* locked, which content__reformat and content_destroy assert it is not.
Locked == stage = "boxes" /\ status # "ERROR"

\* html_object_callback with READY.  A page that is not LOADING is reformatted
\* if the object can be.
ObjectReady(o) ==
  /\ o \in Object /\ item[o] = "fetching" /\ Alive /\ status # "ERROR"
  /\ \/ /\ item' = Set(item, {o}, "READY")
        /\ UNCHANGED <<status, stage, fetched, active, aborted, timer, refreshes, used>>
     \/ Locked /\ status # "LOADING" /\ Crashes

\* html_object_callback with DONE, or with ERROR.  A page that is not LOADING is
\* reformatted when all objects have arrived, and may be before (incremental_reflow).
ObjectEnds(o) ==
  /\ o \in Object /\ item[o] \in {"fetching", "READY"} /\ Alive /\ status # "ERROR"
  /\ \/ /\ item' \in Ends(o, item)
        /\ item[o] = "READY" => item'[o] = "DONE"
        /\ active' = active - 1
        /\ status' = AfterObjects(active')
        /\ Locked => status' = status
        /\ UNCHANGED <<stage, fetched, aborted, timer, refreshes, used>>
     \/ Locked /\ status # "LOADING" /\ Crashes

\* html_object_callback with REFRESH: the head of an embedded document asked for it
ObjectRefreshes(o) ==
  /\ "refresh" \in Enabled /\ refreshes < MaxRefresh
  /\ o \in Object /\ item[o] = "fetching" /\ Alive /\ status # "ERROR" /\ o \notin timer
  /\ timer' = timer \cup {o}
  /\ refreshes' = refreshes + 1
  /\ UNCHANGED <<status, stage, fetched, active, aborted, item, used>>

\* The assertion html_object_callback begins with
ObjectCallsError(o) ==
  /\ Held(o) /\ Alive /\ status = "ERROR"
  /\ Crashes

\* Seeded fault: an unfinished object that is replaced stays counted
ReplaceKeepsCount(o) ==
  item' = Set(item, {o}, "fetching") /\ active' = active + 1 /\ status' = "READY"

\* A page that stands for itself: the pages that enclose it are not modelled.
\* When the retrieval is refused the old handle is gone and nothing replaces it.
html_replace_object(o) ==
  LET n == active - (IF item[o] # "DONE" THEN 1 ELSE 0)
  IN \/ /\ item' = Set(item, {o}, "fetching")
        /\ active' = n + 1
        /\ status' = "READY"
     \/ /\ "refuse" \in Enabled
        /\ item' = Set(item, {o}, "refused")
        /\ active' = n
        /\ UNCHANGED status

\* The assertion at its head fails for an object without handle, and an object
\* that was destroyed is freed memory
html_object_refresh(o) ==
  /\ o \in timer /\ stage # "crashed"
  /\ \/ /\ Held(o)
        /\ timer' = timer \ {o}
        /\ html_replace_object(o)
        /\ UNCHANGED <<stage, fetched, aborted, refreshes, used>>
     \/ ~Held(o) /\ Crashes

-----------------------------------------------------------------------------
\* Stopping the page, and its end

\* Seeded fault: the stopped page is left READY when nothing is active any more
StopStaysReady ==
  /\ "abort" \in Enabled /\ used /\ status \in {"LOADING", "READY"} /\ Alive
  /\ aborted' = (aborted \/ status = "LOADING")
  /\ LET loading == {o \in Object : status = "READY" /\ item[o] = "fetching"}
     IN item' = Set(item, loading, "NULL") /\ active' = active - Cardinality(loading)
  /\ UNCHANGED <<status, stage, fetched, timer, refreshes, used>>

\* Objects still loading are dropped; those that are READY are told to stop
\* and finish at once (now) or later.  One that finishes at once and is the last
\* has the page reformatted.
html_stop ==
  /\ "abort" \in Enabled /\ used /\ status # "ERROR" /\ Alive
  /\ \/ /\ status = "LOADING" /\ ~aborted
        /\ aborted' = TRUE
        /\ UNCHANGED <<status, stage, fetched, active, item, timer, refreshes, used>>
     \/ /\ status = "READY"
        /\ LET loading == {o \in Object : item[o] = "fetching"}
           IN \E now \in SUBSET {o \in Object : item[o] = "READY"} :
                 /\ item' = Set(Set(item, loading, "NULL"), now, "DONE")
                 /\ active' = active - Cardinality(loading) - Cardinality(now)
                 /\ status' = AfterObjects(active')
                 /\ Locked /\ loading = {} /\ now # {} => status' = status
        /\ UNCHANGED <<stage, fetched, aborted, timer, refreshes, used>>
     \/ /\ status = "READY" /\ Locked /\ \E o \in Object : item[o] = "READY"
        /\ Crashes

\* Every client of a page in error drops it, the others may
ClientLeaves ==
  /\ "close" \in Enabled /\ used
  /\ used' = FALSE
  /\ UNCHANGED <<status, stage, fetched, active, aborted, item, timer, refreshes>>

\* Only those of type HTML_SCRIPT_SYNC are released
html_free_scripts(kids) == Set(kids, Sync \cap Handles(kids), "NULL")
FreeSheets(kids) == Set(kids, Sheets \cap Handles(kids), "NULL")

\* hlcache_clean: a content that nobody uses and that is not LOADING.
\* content_destroy asserts that it is not locked, and the handle of a refused
\* script is whatever the memory held.
html_destroy ==
  /\ ~used /\ status # "LOADING" /\ Alive
  /\ \/ /\ ~Locked
        /\ stage' = "gone"
        /\ html_destroy_objects(html_free_scripts(FreeSheets(item)))
        /\ UNCHANGED <<status, fetched, active, aborted, refreshes, used>>
     \/ Locked /\ Crashes
     \/ (\E s \in Sync : item[s] = "refused") /\ Crashes

\* The callback of something a destroyed page still fetches
CallsFreedPage(i) ==
  /\ stage = "gone" /\ i \in Pending(item)
  /\ Crashes

-----------------------------------------------------------------------------
ScriptSettles(s) ==
  convert_script_sync_cb(s) \/ convert_script_defer_cb(s) \/ convert_script_async_cb(s)

Results == {"built", "failed", "rootless"}

Next ==
  \/ html_process_data \/ html_convert \/ FetchFails
  \/ \E s \in Script : ScriptSettles(s)
  \/ \E s \in Sheets : StyleEnds(s)
  \/ \E result \in Results : html_box_convert_done(result)
  \/ \E o \in Object :
        \/ html_fetch_object(o) \/ ObjectReady(o) \/ ObjectEnds(o)
        \/ ObjectRefreshes(o) \/ html_object_refresh(o) \/ ObjectCallsError(o)
  \/ html_stop \/ ClientLeaves \/ html_destroy
  \/ \E i \in Item : CallsFreedPage(i)

Spec == Init /\ [][Next]_vars

\* Every fetch ends (Fetch.FetchEnds), its end is reported (LLCache and HLCache),
\* and a scheduled callback is run.  All of it is bounded, as an item ends once
\* for each time it is fetched, so that it is enough to ask that something of it
\* happens.  No fairness for the user, for refresh timers, or for what the
\* document contains.
Progress ==
  \/ html_convert \/ FetchFails
  \/ \E s \in Script : ScriptSettles(s)
  \/ \E s \in Sheets : StyleEnds(s)
  \/ \E o \in Object : ObjectEnds(o)
  \/ \E result \in Results : html_box_convert_done(result)

Fairness == WF_vars(Progress)

FairSpec == Spec /\ Fairness

-----------------------------------------------------------------------------
\* Properties

Stages == {"parse", "left", "styles", "boxes", "shown", "rootless", "gone", "crashed"}
ItemStates == {"none", "fetching", "READY", "DONE", "NULL", "refused", "freed"}

TypeOK ==
  /\ status \in {"LOADING", "READY", "DONE", "ERROR"}
  /\ stage \in Stages
  /\ fetched \in BOOLEAN /\ aborted \in BOOLEAN /\ used \in BOOLEAN
  /\ active \in Nat
  /\ item \in [Item -> ItemStates]
  /\ timer \subseteq Object
  /\ refreshes \in 0..MaxRefresh

\* "Number of child fetches or conversions currently in progress"
\* (content_protected.h): every path that starts, ends, drops, replaces or is
\* refused a fetch keeps `active` equal to the fetches there are, for as long as
\* the page can still use it.
ActiveCounts ==
  /\ TypeOK
  /\ status # "ERROR" /\ Alive =>
       active = Cardinality(Pending(item)) + (IF fetched THEN 0 ELSE 1)

\* No script is still to come when the style sheets are asked for, and no
\* style sheet when the boxes are built: whatever the order in which the
\* fetches end, each stage begins with everything of the stage before.
StagesInOrder ==
  [][ /\ stage' = "styles" /\ stage # "styles"
         => fetched' /\ Pending(item') \cap Script = {}
      /\ stage' = "boxes" /\ stage # "boxes"
         => Pending(item') = {} /\ item'[Base] = "DONE" ]_vars

\* html_object_callback asserts that the page is not in error: a page in error
\* has no object left that could report to it.  The document without root
\* element is the exception, as html_box_convert_done's @todo suspects.
ErrorIsQuiet ==
  status = "ERROR" /\ Alive /\ stage # "rootless" => \A o \in Object : ~Held(o)

\* Once html_destroy has run, no sheet, object or synchronous script can call
\* back into the page.  Asynchronous and deferred scripts can: html_free_scripts
\* does not release them.
DestroyedIsQuiet ==
  stage = "gone" => Handles(item) \subseteq Async \cup Defer

\* A refresh is scheduled for objects that have a handle.  The exception is one
\* that lost it, to an error or to a stop, while the refresh was scheduled; no
\* refresh outlives an object that is destroyed with its handle.
RefreshFindsObject ==
  \A o \in timer : Held(o) \/ item[o] = "NULL"

\* Nothing the page fetched or scheduled calls it when it can no longer take
\* the call, but for the three exceptions named above.
NoLateCalls == ErrorIsQuiet /\ DestroyedIsQuiet /\ RefreshFindsObject

\* A page that is shown and DONE has nothing left to load, and a page that has
\* nothing left to load is DONE, also after a stop or a refresh, unless an
\* object asked to be replaced by what no fetcher takes.
Refused == \E o \in Object : item[o] = "refused"
DoneIsLoaded ==
  stage = "shown" =>
    /\ status = "DONE" => Pending(item) = {}
    /\ Pending(item) = {} => status = "DONE" \/ Refused

\* A page whose document arrives gets converted or fails, whichever of its
\* fetches ends last, unless the user stopped it while it was being parsed.
\* Two things get in the way: the callback of an asynchronous script that ends
\* last does not begin the conversion, and those of the others drop its failure.
Converting ==
  status = "LOADING" /\ stage \notin {"left", "crashed"} /\ ~(aborted /\ stage = "parse")
AsyncPending == stage = "parse" /\ Pending(item) \cap Async # {}
PageConverts ==
  Converting /\ ~(stage = "parse" /\ active = 0) ~> ~Converting \/ AsyncPending

\* html_convert leaves the conversion to the scripts still being fetched
\* ("if there are no active fetches in progress no scripts are being fetched
\* or they completed already"): one of them has to begin it.
EveryPageConverts == Converting ~> ~Converting

\* A page that is shown becomes DONE once its objects have arrived, unless the
\* last it waited for was replaced by what no fetcher takes.
PageCompletes ==
  stage = "shown" ~> status = "DONE" \/ ~Alive \/ (Pending(item) = {} /\ Refused)

\* A page gets from its document to DONE, if no asynchronous script, failure or
\* refusal gets in the way.
PageLoads == PageConverts /\ PageCompletes
=============================================================================
