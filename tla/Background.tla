----------------------------- MODULE Background -----------------------------
(***************************************************************************)
(* What NetSurf does in the background: the scheduler of the framebuffer    *)
(* front end (framebuffer/schedule.c), the wait of its main loop, and jobs  *)
(* that live on the scheduler: the update of the image cache                *)
(* (image/image_cache.c), the sweep of the high-level cache, GIF animation  *)
(* and the construction of boxes.  A job runs in the middle of a traversal  *)
(* of the schedule list, and schedules and removes others from there: the   *)
(* sweep destroys contents, whose handlers take their timers away.          *)
(*                                                                         *)
(* Time is counted in ticks.  An entry holds the ticks until the clock is   *)
(* past its time; schedule_run reads the clock once, so no time passes      *)
(* inside a run.                                                            *)
(***************************************************************************)
EXTENDS Lists, Integers

CONSTANTS Image,          \* contents whose bitmaps the image cache keeps
          Png,            \* those of Image whose bitmap may be made while they load
          Gif,            \* contents that may be animated
          Page,           \* documents whose boxes are built
          Size,           \* bitmap_size of an image
          Small,          \* the images of at most speculative_small
          Limit, Hysteresis, CleanTime,  \* params of the image cache
          UpdateInterval, CleanInterval, FrameInterval  \* of the schedule, in ticks

ASSUME BackgroundAssumption ==
  /\ Png \subseteq Image /\ Small \subseteq Image
  /\ Image \cap Gif = {} /\ NULL \notin Image \cup Gif \cup Page
  /\ IsFiniteSet(Image)
  /\ Size \in [Image -> Nat \ {0}]
  /\ {Limit, Hysteresis, CleanTime, UpdateInterval, CleanInterval, FrameInterval}
       \subseteq Nat
  /\ Hysteresis <= Limit

Content == Image \cup Gif

VARIABLES
  schedule_list,  \* entries of a call, its parameter and the ticks left, the newest first
  timeout,        \* ticks the front end still waits for an event, -1: for ever
  content,        \* what has become of each content
  early,          \* PNGs with a bitmap of their own, which the image cache does not know yet
  cache,          \* the image cache: its entries (the newest first), the images that
                  \* have a bitmap, total_bitmap_size and bitmap_count
  idle,           \* current_age - redraw_age of each image, capped at CleanTime + 1
  age,            \* current_age, capped at CleanTime + 1
  pc              \* where the program is

vars == <<schedule_list, timeout, content, early, cache, idle, age, pc>>
images == <<early, cache, idle, age>>

Cap(n) == IF n > CleanTime THEN CleanTime + 1 ELSE n

-----------------------------------------------------------------------------
(* The scheduler. *)

schedule(list, ival, call, of) == <<[call |-> call, of |-> of, left |-> ival + 1]>> \o list

(* The list without the entries of a call with one of some parameters. *)
Unscheduled(list, call, params) ==
  Sublist(list, {e \in ToSet(list) : ~(e.call = call /\ e.of \in params)})

schedule_remove(list, call, of) == Unscheduled(list, call, {of})

Due(e) == e.left = 0

(* The entry that schedule_run takes: the first that is due, since every   *)
(* call starts the traversal again.                                        *)
FirstDue == CHOOSE i \in DOMAIN schedule_list :
               /\ Due(schedule_list[i])
               /\ \A j \in 1..(i - 1) : ~Due(schedule_list[j])

Others == RemoveAt(schedule_list, FirstDue)

(* Seeded fault: the first entry of the list stands for the soonest. *)
NextOfHead == IF schedule_list = <<>> THEN -1 ELSE Head(schedule_list).left - 1

(* Seeded fault: while a job is pending nothing but an event wakes the program. *)
WaitsForEvents == -1

(* How long until the soonest entry, -1 when there is none. *)
NextTime == IF schedule_list = <<>> THEN -1
            ELSE Min({schedule_list[i].left - 1 : i \in DOMAIN schedule_list})

-----------------------------------------------------------------------------
(* The image cache. *)

image_cache_stats_bitmap_add(k, c) ==
  [k EXCEPT !.bitmap = @ \cup {c}, !.total = @ + Size[c], !.count = @ + 1]

(* Seeded fault: the size is taken off even when there was no bitmap. *)
FreeTwice(k, c) ==
  [k EXCEPT !.bitmap = @ \ {c}, !.total = @ - Size[c],
            !.count = IF c \in k.bitmap THEN @ - 1 ELSE @]

image_cache__free_bitmap(k, c) ==
  IF c \in k.bitmap
  THEN [k EXCEPT !.bitmap = @ \ {c}, !.total = @ - Size[c], !.count = @ - 1]
  ELSE k

image_cache__free_entry(k, c) ==
  [image_cache__free_bitmap(k, c) EXCEPT !.entries = Sublist(@, Image \ {c})]

(* One call for each entry of a set of contents. *)
FreeEntries(k, gone) ==
  LET after[i \in 0..Len(k.entries)] ==
        IF i = 0 THEN k
        ELSE IF k.entries[i] \in gone
             THEN image_cache__free_entry(after[i - 1], k.entries[i])
             ELSE after[i - 1]
  IN  after[Len(k.entries)]

image_cache_speculate(c) == cache.total < Limit /\ c \in Small

(* image_cache__clean: every old entry is freed or not, at random, while the *)
(* total is above the low water mark.                                        *)
image_cache__clean(k, old, chosen) ==
  LET after[i \in 0..Len(k.entries)] ==
        IF i = 0 THEN k
        ELSE IF k.entries[i] \in old \cap chosen /\ after[i - 1].total > Limit - Hysteresis
             THEN image_cache__free_bitmap(after[i - 1], k.entries[i])
             ELSE after[i - 1]
  IN  after[Len(k.entries)]

(* A bitmap is made for an entry that has none; the conversion may fail. *)
Converted(c) == IF c \in cache.bitmap THEN {cache}
                ELSE {cache, image_cache_stats_bitmap_add(cache, c)}

(* image_cache_add of a content that is not in the cache. *)
image_cache_add(c) ==
  LET new == [cache EXCEPT !.entries = <<c>> \o @]
      converted == image_cache_stats_bitmap_add(new, c)
  IN  /\ age' = Cap(age + 1)
      /\ idle' = [d \in Image |-> IF d = c THEN Cap(age + 1) ELSE Cap(idle[d] + 1)]
      /\ IF c \in early THEN cache' = converted
         ELSE IF image_cache_speculate(c) THEN cache' \in {new, converted}
         ELSE cache' = new
      /\ early' = early \ {c}

-----------------------------------------------------------------------------
(* The jobs: what is left of the list is given to each. *)

image_cache__background_update(list) ==
  LET older == [c \in Image |-> Cap(idle[c] + CleanTime)] IN
  /\ age' = Cap(age + CleanTime)
  /\ idle' = older
  /\ \E chosen \in SUBSET Image :
        cache' = image_cache__clean(cache, {c \in Image : older[c] > CleanTime}, chosen)
  /\ schedule_list' = schedule(list, UpdateInterval, "update", NULL)
  /\ UNCHANGED <<content, early>>

Destroyed == {c \in Content : content[c] \in {"unused", "failed"}}

(* Seeded fault: a GIF that goes leaves its timer. *)
TimerStays(list, gone) == list

(* The timers and the cache entries that destroying contents takes away: *)
(* nsgif_destroy and image_cache_destroy.                                *)
nsgif_destroy(list, gone) == Unscheduled(list, "animate", gone \cap Gif)
image_cache_destroy(gone) == FreeEntries(cache, gone)

hlcache_clean(list) ==
  /\ content' = [c \in Content |-> IF c \in Destroyed THEN "none" ELSE content[c]]
  /\ cache' = image_cache_destroy(Destroyed)
  /\ early' = early \ Destroyed
  /\ schedule_list' = schedule(nsgif_destroy(list, Destroyed), CleanInterval,
                               "clean", NULL)
  /\ UNCHANGED <<idle, age>>

(* A GIF goes on while its loops last. *)
nsgif_animate(list, c) ==
  /\ \/ schedule_list' = schedule(list, FrameInterval, "animate", c)
     \/ schedule_list' = list
  /\ UNCHANGED <<content, images>>

(* Ten elements at a time, until the boxes are complete or cannot be built. *)
convert_xml_to_box(list, p) ==
  /\ \/ schedule_list' = schedule(list, 0, "boxes", p)
     \/ schedule_list' = list
  /\ UNCHANGED <<content, images>>

-----------------------------------------------------------------------------
Init ==
  /\ schedule_list = schedule(schedule(<<>>, UpdateInterval, "update", NULL),
                              CleanInterval, "clean", NULL)
  /\ timeout = 0
  /\ content = [c \in Content |-> "none"]
  /\ early = {}
  /\ cache = [entries |-> <<>>, bitmap |-> {}, total |-> 0, count |-> 0]
  /\ idle = [c \in Image |-> 0]
  /\ age = 0
  /\ pc = "work"

Aged == [i \in DOMAIN schedule_list |->
           [schedule_list[i] EXCEPT !.left = IF @ = 0 THEN 0 ELSE @ - 1]]

(* The clock advances while the program waits. *)
Tick ==
  /\ pc = "wait" /\ timeout # 0
  /\ schedule_list' = Aged
  /\ timeout' = IF timeout > 0 THEN timeout - 1 ELSE timeout
  /\ UNCHANGED <<content, images, pc>>

schedule_run ==
  /\ pc = "run" /\ \E i \in DOMAIN schedule_list : Due(schedule_list[i])
  /\ LET e == schedule_list[FirstDue] IN
       \/ e.call = "update" /\ image_cache__background_update(Others)
       \/ e.call = "clean" /\ hlcache_clean(Others)
       \/ e.call = "animate" /\ nsgif_animate(Others, e.of)
       \/ e.call = "boxes" /\ convert_xml_to_box(Others, e.of)
  /\ UNCHANGED <<timeout, pc>>

(* gui_poll has run what is due, and waits for an event; not at all when a *)
(* fetch is active or a redraw is pending.                                 *)
StartsToWait ==
  /\ pc = "run" /\ \A i \in DOMAIN schedule_list : ~Due(schedule_list[i])
  /\ timeout' \in {NextTime, 0}
  /\ pc' = "wait"
  /\ UNCHANGED <<schedule_list, content, images>>

(* The wait is over.  The time that what follows takes is added here. *)
Wakes ==
  /\ pc = "wait" /\ timeout = 0 /\ pc' = "work"
  /\ UNCHANGED <<schedule_list, timeout, content, images>>

WakesLater ==
  /\ pc = "wait" /\ timeout = 0 /\ pc' = "work"
  /\ schedule_list' = Aged
  /\ UNCHANGED <<timeout, content, images>>

Event ==
  /\ pc = "wait" /\ timeout # 0 /\ pc' = "work" /\ timeout' = 0
  /\ UNCHANGED <<schedule_list, content, images>>

gui_poll ==
  /\ pc = "work" /\ pc' = "run"
  /\ UNCHANGED <<schedule_list, timeout, content, images>>

(* What the events of the user and of the network do.  A content that loads   *)
(* touches neither a timer nor the image cache, but a PNG whose header is in. *)
Works(c, before, after) ==
  /\ pc = "work" /\ content[c] \in before
  /\ content' = [content EXCEPT ![c] = after]
  /\ UNCHANGED <<timeout, pc>>

(* The header of a PNG has come: its bitmap may be made right away. *)
info_callback(c) ==
  /\ Works(c, {"none"}, "header")
  /\ \/ image_cache_speculate(c) /\ early' = early \cup {c}
     \/ UNCHANGED early
  /\ UNCHANGED <<schedule_list, cache, idle, age>>

ImageConverts(c) ==
  /\ Works(c, IF c \in Png THEN {"header"} ELSE {"none"}, "held")
  /\ image_cache_add(c)
  /\ UNCHANGED schedule_list

nsgif_convert(c) ==
  /\ Works(c, {"none"}, "held")
  /\ \/ schedule_list' = schedule(schedule_list, FrameInterval, "animate", c)
     \/ UNCHANGED schedule_list
  /\ UNCHANGED images

Fails(c) ==
  Works(c, {"header"}, "failed") /\ UNCHANGED <<schedule_list, images>>

Leaves(c) == Works(c, {"held"}, "unused") /\ UNCHANGED <<schedule_list, images>>
Returns(c) == Works(c, {"unused"}, "held") /\ UNCHANGED <<schedule_list, images>>

image_cache_redraw(c) ==
  /\ Works(c, {"held"}, "held")
  /\ cache' \in Converted(c)
  /\ idle' = IF c \in cache'.bitmap THEN [idle EXCEPT ![c] = 0] ELSE idle
  /\ UNCHANGED <<schedule_list, early, age>>

image_cache_get_bitmap(c) ==
  /\ Works(c, {"held"}, "held")
  /\ cache' \in Converted(c)
  /\ UNCHANGED <<schedule_list, early, idle, age>>

dom_to_box(p) ==
  /\ pc = "work"
  /\ \A i \in DOMAIN schedule_list : schedule_list[i].of # p
  /\ schedule_list' = schedule(schedule_list, 0, "boxes", p)
  /\ UNCHANGED <<timeout, content, images, pc>>

-----------------------------------------------------------------------------
(* netsurf_exit. *)
Quits == pc = "work" /\ pc' = "stop" /\ UNCHANGED <<schedule_list, timeout, content, images>>

hlcache_stop ==
  /\ pc = "stop" /\ pc' = "finalise"
  /\ schedule_list' = schedule_remove(schedule_list, "clean", NULL)
  /\ UNCHANGED <<timeout, content, images>>

(* The drain sweeps until a sweep changes nothing: a second sweep, which    *)
(* destroys nothing, follows one that took some contents and left others.   *)
(* Every sweep schedules itself.                                            *)
hlcache_finalise ==
  /\ pc = "finalise" /\ pc' = "fini"
  /\ \E second \in BOOLEAN :
        hlcache_clean(IF second
                      THEN schedule(schedule_list, CleanInterval, "clean", NULL)
                      ELSE schedule_list)
  /\ UNCHANGED timeout

image_cache_fini ==
  /\ pc = "fini" /\ pc' = "ended"
  /\ schedule_list' = schedule_remove(schedule_list, "update", NULL)
  /\ cache' = FreeEntries(cache, Image)
  /\ UNCHANGED <<timeout, content, early, idle, age>>

Exit == hlcache_stop \/ hlcache_finalise \/ image_cache_fini

ImageSteps(c) ==
  \/ ImageConverts(c) \/ image_cache_redraw(c) \/ image_cache_get_bitmap(c)
  \/ c \in Png /\ info_callback(c)

ContentSteps(c) == Fails(c) \/ Leaves(c) \/ Returns(c)

Poll == gui_poll \/ schedule_run \/ StartsToWait \/ Wakes \/ WakesLater

Next ==
  \/ Poll \/ Tick \/ Event \/ Quits \/ Exit
  \/ \E c \in Content : ContentSteps(c)
  \/ \E c \in Image : ImageSteps(c)
  \/ \E c \in Gif : nsgif_convert(c)
  \/ \E p \in Page : dom_to_box(p)

Spec == Init /\ [][Next]_vars

(* The program goes on with its loop and with its exit, and the clock with   *)
(* its ticks: a tick is possible again and again, and happens again and again. *)
FairSpec == Spec /\ WF_vars(Poll \/ Exit) /\ SF_vars(Tick \/ WakesLater)

-----------------------------------------------------------------------------
(* How often a list has a call with a parameter. *)
Times(list, call, of) ==
  Cardinality({i \in DOMAIN list : list[i].call = call /\ list[i].of = of})
Pending(call, of) == Times(schedule_list, call, of)

(* What may be scheduled. *)
Job == [call : {"update", "clean"}, of : {NULL}, left : Nat]
         \cup [call : {"animate"}, of : Gif, left : Nat]
         \cup [call : {"boxes"}, of : Page, left : Nat]

TypeOK ==
  /\ schedule_list \in Seq(Job)
  /\ timeout \in Nat \cup {-1}
  /\ content \in [Content -> {"none", "header", "held", "unused", "failed"}]
  /\ early \subseteq Png
  /\ cache \in [entries : Seq(Image), bitmap : SUBSET Image, total : Int, count : Int]
  /\ IsInjective(cache.entries) /\ cache.bitmap \subseteq ToSet(cache.entries)
  /\ idle \in [Image -> 0..(CleanTime + 1)] /\ age \in 0..(CleanTime + 1)
  /\ pc \in {"run", "wait", "work", "stop", "finalise", "fini", "ended"}

(* The size of some bitmaps together. *)
Bytes[B \in SUBSET Image] ==
  IF B = {} THEN 0
  ELSE LET c == CHOOSE c \in B : TRUE IN Size[c] + Bytes[B \ {c}]

(* The size and the count by which image_cache_speculate and               *)
(* image_cache__clean decide are those of the bitmaps the cache really      *)
(* holds, whichever way a bitmap came (decoded while loading, speculation,   *)
(* a redraw) and went (the update, the destruction of its content, exit).    *)
SizesAdd ==
  /\ cache.total = Bytes[cache.bitmap]
  /\ cache.count = Cardinality(cache.bitmap)

(* An entry of the image cache is one of a content that exists, and every    *)
(* converted image that exists has one: image_cache_redraw finds the entry   *)
(* of what it is asked to draw, and no entry points to a freed content.      *)
EntriesLive ==
  pc # "ended" => ToSet(cache.entries) = {c \in Image : content[c] \in {"held", "unused"}}

(* The image cache knows the images there are, and what it holds of them. *)
CacheConsistent == TypeOK /\ SizesAdd /\ EntriesLive

(* A timer of a content is never left behind when the sweep destroys the     *)
(* content in the middle of schedule_run, and no content has two.            *)
TimersLive ==
  \A c \in Gif : Pending("animate", c) <= (IF content[c] \in {"held", "unused"} THEN 1 ELSE 0)

(* From start to exit each periodic job is pending exactly once outside its  *)
(* own call, and none is pending once it has been stopped (the sweep only    *)
(* until the drain in hlcache_finalise, which schedules it again).           *)
PeriodicOnce ==
  /\ Pending("update", NULL) = (IF pc = "ended" THEN 0 ELSE 1)
  /\ pc \notin {"fini", "ended"} =>
       Pending("clean", NULL) = (IF pc = "finalise" THEN 0 ELSE 1)

(* Every job is pending as often as its owner believes. *)
PendingOnce == TimersLive /\ PeriodicOnce

(* The front end never sleeps past the time of an entry: gui_poll waits no   *)
(* longer than the soonest of them, and for ever only when there is none.    *)
WakesInTime ==
  pc = "wait" => \A i \in DOMAIN schedule_list :
                    timeout # -1 /\ timeout < schedule_list[i].left

(* A job whose time has come is called, or removed, before the program ends: *)
(* the front end wakes up for it, whatever else is scheduled, and calls what  *)
(* is due though the calls change the list under the traversal.              *)
Overdue(call, of) == \E i \in DOMAIN schedule_list :
                       /\ schedule_list[i].call = call /\ schedule_list[i].of = of
                       /\ Due(schedule_list[i])
DueIsCalled ==
  /\ \A call \in {"update", "clean"} :
        Overdue(call, NULL) ~> (~Overdue(call, NULL) \/ pc = "ended")
  /\ \A c \in Gif : Overdue("animate", c) ~> (~Overdue("animate", c) \/ pc = "ended")
=============================================================================
