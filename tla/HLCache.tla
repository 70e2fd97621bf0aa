------------------------------ MODULE HLCache ------------------------------
(***************************************************************************)
(* The high-level cache (content/hlcache.c), the life cycle of contents      *)
(* (content/content.c) and downloads (desktop/download.c).                  *)
(*                                                                          *)
(* A retrieval makes a low-level handle and a context that waits for the    *)
(* type of the data.  Once that is known the context is migrated: the       *)
(* low-level handle goes to a new content, is released because a content    *)
(* for the same object exists, or becomes a download.  Contents tell their  *)
(* users LOADING, READY, DONE or ERROR.                                     *)
(*                                                                          *)
(* All of it runs in one thread, but callbacks nest: an event of the        *)
(* low-level cache makes a content send a message, a user of the content    *)
(* reacts by calling the cache, or is a page that now sends a message of    *)
(* its own.  The variable stack holds the calls that have not returned.     *)
(*                                                                          *)
(* The low-level cache is modelled by what it promises its clients (see     *)
(* LLCache): headers, data if there are any, then DONE; ERROR ends it; an   *)
(* event answered with NEED_DATA comes again; nothing after the release.    *)
(* Allocations do not fail.  A content is a page, which is not shared and   *)
(* has handles of its own, or an image, which is converted at once.  Style  *)
(* sheets, which are shared and locked while their imports load, are left   *)
(* out.                                                                     *)
(***************************************************************************)
EXTENDS Lists

CONSTANTS
  Handle,   \* addresses of hlcache_handle
  Low,      \* addresses of llcache_handle
  Content,  \* addresses of hlcache_entry with their content
  Source,   \* objects of the low-level cache that handles share
  Window,   \* browser windows
  Enabled   \* the optional calls of this instance

ASSUME HLCacheAssumption ==
  /\ NULL \notin Handle \cup Low \cup Content \cup Source \cup Window
  /\ Window \cap Content = {}
  /\ Content \cap {"none", "ctx", "download"} = {}

VARIABLES
  handle,   \* the handles of clients
  ctx,      \* the ring of retrieval contexts, by low-level handle
  low,      \* low-level handles
  content,  \* contents
  list,     \* content_list, the head first
  stack     \* calls that have not returned, the innermost first

vars == <<handle, ctx, low, content, list, stack>>

(* owner is the window or the page a handle belongs to; told is what its   *)
(* client was told last.                                                   *)
NoHandle  == [entry |-> NULL, owner |-> NULL, told |-> "free"]
NoCtx     == [handle |-> NULL, target |-> FALSE]
NoLow     == [source |-> NULL, told |-> "none", client |-> "none"]
NoContent == [low |-> NULL, status |-> "none", shared |-> FALSE,
              locked |-> FALSE, users |-> <<>>]

Init ==
  /\ handle = [h \in Handle |-> NoHandle]
  /\ ctx = [l \in Low |-> NoCtx]
  /\ low = [l \in Low |-> NoLow]
  /\ content = [c \in Content |-> NoContent]
  /\ list = <<>>
  /\ stack = <<>>

(* Calls: a message being delivered to h, a broadcast that continues with  *)
(* user h, a migration that has messages to deliver or ends, or a step     *)
(* that content c has yet to make.                                         *)
Client(h, msg)       == [at |-> "client", h |-> h, msg |-> msg]
Broadcast(c, h, msg) == [at |-> "broadcast", c |-> c, h |-> h, msg |-> msg]
CatchUp(l, msgs)     == [at |-> "catch_up", l |-> l, msgs |-> msgs]
Migrated(l, how)     == [at |-> how, l |-> l]
Then(c, step)        == [at |-> step, c |-> c]

(* The calls that a content makes. *)
OfContent == {"broadcast", "set_done", "set_error", "abort", "data_failed"}

At(kind) == stack # <<>> /\ Head(stack).at = kind
Idle == stack = <<>>

(* Addresses the allocator may return. *)
UnusedLow     == {l \in Low : low[l] = NoLow /\ ctx[l] = NoCtx}
UnusedContent == {c \in Content : content[c] = NoContent}

(* content_broadcast starts with the first user there is now. *)
ToAll(c, msg) == Broadcast(c, First(content[c].users), msg)

-----------------------------------------------------------------------------
(* What clients call.                                                      *)

(* A page runs when it is sent a message for one of its handles, or is     *)
(* scheduled to, unless it is sending a message itself.                    *)
PageRuns(c) ==
  /\ content[c].status \in {"LOADING", "READY", "DONE"} /\ ~content[c].shared
  /\ \/ Idle
     \/ At("client") /\ handle[Head(stack).h].owner = c
  /\ \A i \in DOMAIN stack : stack[i].at \in OfContent => stack[i].c # c

Of(owner, told) == {h \in Handle : handle[h].owner = owner
                                   /\ handle[h].told \in told}

(* A window loads one content at a time.                                   *)
hlcache_handle_retrieve(h, owner) ==
  /\ handle[h].told = "free"
  /\ IF owner \in Window
     THEN /\ Idle \/ At("client")
          /\ Of(owner, {"waiting", "LOADING"}) = {}
     ELSE PageRuns(owner)
  /\ \E l \in UnusedLow, x \in Source :
       /\ low' = [low EXCEPT ![l] =
                    [source |-> x, told |-> "INIT", client |-> "ctx"]]
       /\ ctx' = [ctx EXCEPT ![l].handle = h]
  /\ handle' = [handle EXCEPT ![h] = [@ EXCEPT !.owner = owner,
                                               !.told = "waiting"]]
  /\ UNCHANGED <<content, list, stack>>

(* Seeded fault: a context being migrated is not spared. *)
NascentOrMigrating(H) ==
  {l \in Low : ctx[l].handle \in H /\ handle[ctx[l].handle].entry = NULL}

(* The contexts still waiting for a type among those of the handles H.     *)
Nascent(H) ==
  {l \in Low : /\ ctx[l].handle \in H /\ ~ctx[l].target
               /\ handle[ctx[l].handle].entry = NULL}

ReleaseLow(L) == [l \in Low |-> IF l \in L THEN NoLow ELSE low[l]]
DropCtx(L)    == [l \in Low |-> IF l \in L THEN NoCtx ELSE ctx[l]]

RemoveUsers(H) ==
  [c \in Content |->
     [content[c] EXCEPT !.users = Sublist(@, Handle \ H)]]

(* Several handles are released when the page they belong to goes.         *)
hlcache_handle_release(H) ==
  /\ handle' = [h \in Handle |-> IF h \in H THEN NoHandle ELSE handle[h]]
  /\ low' = ReleaseLow(Nascent(H))
  /\ ctx' = DropCtx(Nascent(H))
  /\ content' = RemoveUsers(H)

(* In the callback of a handle that is told ERROR its client releases it;  *)
(* a window whose new content is READY releases the old one.               *)
MustRelease ==
  LET f == Head(stack) IN
  IF f.msg = "ERROR" THEN Of(handle[f.h].owner, {"ERROR"}) \cap {f.h}
  ELSE IF f.msg = "READY" /\ handle[f.h].owner \in Window
  THEN Of(handle[f.h].owner, {"READY", "DONE"}) \ {f.h}
  ELSE {}

Release(h) ==
  /\ handle[h].told # "free"
  /\ Idle \/ (At("client") /\ h \in MustRelease)
  /\ hlcache_handle_release({h})
  /\ UNCHANGED <<list, stack>>

(* What is left of the low-level handle's object when it is aborted is its *)
(* own, and no other handle gets it (llcache.c:2455-2514).                 *)
Abort(lo, l) == [lo EXCEPT ![l].source = NULL]

(* What is left to do for h when its content c has been stopped.           *)
Aborting(c, h) ==
  IF handle[h].told = "READY" THEN <<Then(c, "abort")>>
  ELSE Cons(Then(c, "abort"), <<[at |-> "release", h |-> h]>>)

(* A page that is READY gives up what it waits for and becomes DONE.       *)
(* The calls made before content_abort aborts the low-level handle.        *)
Stop(c, h) ==
  IF ~content[c].shared /\ content[c].status = "READY"
  THEN Cons(Then(c, "set_done"), Aborting(c, h)) ELSE Aborting(c, h)

(* Seeded fault: the user of the clone stays a user of the original. *)
AbortKeepsUser(h) ==
  /\ Idle /\ "abort" \in Enabled
  /\ handle[h].told \in {"LOADING", "READY"} /\ handle[h].entry # NULL
  /\ LET c == handle[h].entry IN
     /\ Len(content[c].users) > 1
     /\ \E n \in UnusedContent, l \in UnusedLow :
          /\ low' = [low EXCEPT ![l] =
                       [low[content[c].low] EXCEPT !.client = n]]
          /\ content' = [content EXCEPT ![n] =
                           [content[c] EXCEPT !.low = l, !.users = <<h>>]]
          /\ handle' = [handle EXCEPT ![h].entry = n]
          /\ list' = Cons(n, list)
          /\ stack' = <<Then(n, "abort")>>
  /\ UNCHANGED ctx

(* Clients abort what is not DONE, and release at once what is not READY   *)
(* (html.c:2187-2212, browser.c:1864-1880); without a content yet, the     *)
(* release does all.  A content with other users is cloned.                *)
hlcache_handle_abort(h) ==
  /\ Idle /\ "abort" \in Enabled
  /\ handle[h].told \in {"LOADING", "READY"} /\ handle[h].entry # NULL
  /\ LET c == handle[h].entry IN
     \/ /\ Len(content[c].users) = 1
        /\ stack' = Stop(c, h)
        /\ UNCHANGED <<handle, ctx, low, content, list>>
     \/ /\ Len(content[c].users) > 1
        /\ \E n \in UnusedContent, l \in UnusedLow :
             /\ low' = [low EXCEPT ![l] =
                          [low[content[c].low] EXCEPT !.client = n]]
             /\ content' = [RemoveUsers({h}) EXCEPT ![n] =
                              [content[c] EXCEPT !.low = l, !.users = <<h>>]]
             /\ handle' = [handle EXCEPT ![h].entry = n]
             /\ list' = Cons(n, list)
             /\ stack' = Aborting(n, h)
        /\ UNCHANGED ctx

ReleaseAborted ==
  /\ At("release")
  /\ hlcache_handle_release({Head(stack).h})
  /\ stack' = Tail(stack)
  /\ UNCHANGED list

-----------------------------------------------------------------------------
(* Migration of a retrieval context.                                       *)

(* Seeded fault: the last message is forgotten. *)
CatchUpToReady(status) ==
  IF status = "LOADING" THEN <<"LOADING">> ELSE <<"LOADING", "READY">>

(* The messages that bring a new user up to the state of its content.      *)
CatchUpOf(status) ==
  CASE status = "LOADING" -> <<"LOADING">>
    [] status = "READY"   -> <<"LOADING", "READY">>
    [] status = "DONE"    -> <<"LOADING", "READY", "DONE">>

(* Contents the low-level handle may share.  Whether the quirks mode fits  *)
(* is left open, so that a new content may be made all the same.           *)
Suitable(l) ==
  {c \in ToSet(list) :
     /\ content[c].status # "ERROR" /\ content[c].shared
     /\ low[content[c].low].source # NULL
     /\ low[content[c].low].source = low[l].source}

(* told is the state the low-level handle has after the event, and again   *)
(* the state it has if the event is to be sent again to another client.    *)
hlcache_find_content(l, told, again) ==
  LET h == ctx[l].handle IN
  \/ \E c \in Suitable(l) :
       /\ low' = [low EXCEPT ![l] = NoLow]
       /\ content' = [content EXCEPT ![c].users = Cons(h, @)]
       /\ handle' = [handle EXCEPT ![h].entry = c]
       /\ stack' = <<CatchUp(l, CatchUpOf(content[c].status))>>
       /\ UNCHANGED list
  \/ \E c \in UnusedContent, shared \in BOOLEAN :
       /\ content' = [content EXCEPT ![c] =
                        [low |-> l, status |-> "LOADING", shared |-> shared,
                         locked |-> FALSE, users |-> <<h>>]]
       /\ low' = [low EXCEPT ![l] = [@ EXCEPT !.client = c, !.told = again]]
       /\ handle' = [handle EXCEPT ![h].entry = c]
       /\ list' = Cons(c, list)
       /\ stack' = <<CatchUp(l, CatchUpOf("LOADING"))>>

(* The type is acceptable, not known but to be downloaded, or refused.     *)
(* Only windows download (browser.c:970).                                  *)
hlcache_migrate_ctx(l, told, again) ==
  LET h == ctx[l].handle IN
  /\ ctx' = [ctx EXCEPT ![l].target = TRUE]
  /\ \/ hlcache_find_content(l, told, again)
     \/ /\ "download" \in Enabled /\ handle[h].owner \in Window
        /\ low' = [low EXCEPT ![l].told = again]
        /\ stack' = Cons(Client(h, "DOWNLOAD"), <<Migrated(l, "migrated")>>)
        /\ handle' = [handle EXCEPT ![h].told = "DOWNLOAD"]
        /\ UNCHANGED <<content, list>>
     \/ /\ "refuse" \in Enabled
        /\ low' = [low EXCEPT ![l].told = told]
        /\ stack' = Cons(Client(h, "ERROR"), <<Migrated(l, "refused")>>)
        /\ handle' = [handle EXCEPT ![h].told = "ERROR"]
        /\ UNCHANGED <<content, list>>

(* The context is gone when the client has been told all. *)
MigrationEnds ==
  /\ \/ At("catch_up") /\ Head(stack).msgs = <<>> /\ UNCHANGED low
     \/ At("migrated") /\ UNCHANGED low
     \/ At("refused") /\ low' = ReleaseLow({Head(stack).l})
  /\ ctx' = DropCtx({Head(stack).l})
  /\ stack' = Tail(stack)
  /\ UNCHANGED <<handle, content, list>>

Deliver(h, msg, rest) ==
  /\ stack' = Cons(Client(h, msg), rest)
  /\ handle' = [handle EXCEPT ![h].told = msg]

CatchUpNext ==
  /\ At("catch_up") /\ Head(stack).msgs # <<>>
  /\ LET f == Head(stack) IN
     Deliver(ctx[f.l].handle, Head(f.msgs),
             Cons(CatchUp(f.l, Tail(f.msgs)), Tail(stack)))
  /\ UNCHANGED <<ctx, low, content, list>>

(* A callback returns.  Told DOWNLOAD a window gives the low-level handle   *)
(* to a download and lets its own handle go.                               *)
ClientReturns ==
  /\ At("client")
  /\ MustRelease = {} /\ Head(stack).msg # "DOWNLOAD"
  /\ stack' = Tail(stack)
  /\ UNCHANGED <<handle, ctx, low, content, list>>

browser_window_convert_to_download ==
  /\ At("client") /\ Head(stack).msg = "DOWNLOAD"
  /\ LET l == stack[2].l IN
     /\ handle' = [handle EXCEPT ![Head(stack).h] = NoHandle]
     /\ low' = [low EXCEPT ![l].client = "download"]
  /\ stack' = Tail(stack)
  /\ UNCHANGED <<ctx, content, list>>

-----------------------------------------------------------------------------
(* The life of a content.                                                  *)

(* Seeded fault: the next user is read from the one that was called. *)
BroadcastReadsLate ==
  /\ At("broadcast")
  /\ LET f == Head(stack) IN
     IF f.h = NULL
     THEN stack' = Tail(stack) /\ UNCHANGED handle
     ELSE Deliver(f.h, f.msg, stack)
  /\ UNCHANGED <<ctx, low, content, list>>

(* The next user is read before the callback is made. *)
content_broadcast ==
  /\ At("broadcast")
  /\ LET f == Head(stack) IN
     IF f.h = NULL
     THEN stack' = Tail(stack) /\ UNCHANGED handle
     ELSE Deliver(f.h, f.msg,
            Cons(Broadcast(f.c, Following(content[f.c].users, f.h), f.msg),
                 Tail(stack)))
  /\ UNCHANGED <<ctx, low, content, list>>

content_set_ready(c, rest) ==
  /\ content' = [content EXCEPT ![c].locked = FALSE, ![c].status = "READY"]
  /\ stack' = Cons(ToAll(c, "READY"), rest)

PageReady(c) ==
  /\ PageRuns(c) /\ content[c].locked
  /\ content_set_ready(c, stack)
  /\ UNCHANGED <<handle, ctx, low, list>>

(* Seeded fault: a page is done before it was ready. *)
PageDoneTooEarly(c) ==
  /\ PageRuns(c) /\ content[c].locked
  /\ stack' = Cons(Then(c, "set_done"), stack)
  /\ UNCHANGED <<handle, ctx, low, content, list>>

PageDone(c) ==
  /\ PageRuns(c) /\ content[c].status = "READY"
  /\ stack' = Cons(Then(c, "set_done"), stack)
  /\ UNCHANGED <<handle, ctx, low, content, list>>

(* The handler tells the users, then the status is set. *)
Failing(c, step, rest) ==
  stack' = Cons(ToAll(c, "ERROR"), Cons(Then(c, step), rest))

PageFails(c) ==
  /\ PageRuns(c) /\ content[c].locked
  /\ Failing(c, "set_error", stack)
  /\ UNCHANGED <<handle, ctx, low, content, list>>

(* An image is converted at once, a page later (html.c:1911).              *)
content_convert(c) ==
  IF content[c].status # "LOADING" \/ content[c].locked
  THEN UNCHANGED <<content, stack>>
  ELSE \/ /\ content[c].shared
          /\ content_set_ready(c, <<Then(c, "set_done")>>)
       \/ /\ ~content[c].shared
          /\ content' = [content EXCEPT ![c].locked = TRUE]
          /\ UNCHANGED stack
       \/ /\ "fail" \in Enabled
          /\ content' = [content EXCEPT ![c].locked = TRUE]
          /\ Failing(c, "set_error", <<>>)

content_set_done ==
  /\ At("set_done")
  /\ LET c == Head(stack).c IN
     /\ content' = [content EXCEPT ![c].status = "DONE"]
     /\ stack' = Cons(ToAll(c, "DONE"), Tail(stack))
  /\ UNCHANGED <<handle, ctx, low, list>>

content_set_error ==
  /\ At("set_error")
  /\ content' = [content EXCEPT ![Head(stack).c] =
                   [@ EXCEPT !.status = "ERROR", !.locked = FALSE]]
  /\ stack' = Tail(stack)
  /\ UNCHANGED <<handle, ctx, low, list>>

(* The end of content_abort, and of data that could not be processed.      *)
ContentAborts ==
  /\ At("abort") \/ At("data_failed")
  /\ LET c == Head(stack).c IN
     /\ low' = Abort(low, content[c].low)
     /\ content' = IF At("abort") THEN content
                   ELSE [content EXCEPT ![c].status = "ERROR"]
  /\ stack' = Tail(stack)
  /\ UNCHANGED <<handle, ctx, list>>

-----------------------------------------------------------------------------
(* Events of the low-level cache, for the client of a low-level handle.    *)

HAD_HEADERS(l) ==
  /\ Idle /\ low[l].told = "INIT" /\ low[l].client = "ctx"
  /\ \/ hlcache_migrate_ctx(l, "HEADERS", "HEADERS")
     \/ /\ low' = [low EXCEPT ![l].told = "HEADERS"]
        /\ UNCHANGED <<handle, ctx, content, list, stack>>

(* Data tell the type.  A new content has the data sent to it again.       *)
HAD_DATA(l) ==
  /\ Idle /\ low[l].told = "HEADERS"
  /\ LET c == low[l].client IN
     \/ c = "ctx" /\ hlcache_migrate_ctx(l, "DATA", "HEADERS")
     \/ /\ c # "ctx"
        /\ low' = [low EXCEPT ![l].told = "DATA"]
        /\ \/ UNCHANGED stack
           \/ /\ "fail" \in Enabled /\ c \in Content
              /\ Failing(c, "data_failed", <<>>)
        /\ UNCHANGED <<handle, ctx, content, list>>

(* Seeded fault: the client is not told that there is no type. *)
DoneWithoutType(l) ==
  /\ Idle /\ low[l].told \in {"HEADERS", "DATA"}
  /\ low' = [low EXCEPT ![l].told = "DONE"]
  /\ LET c == low[l].client IN
     IF c \in Content THEN content_convert(c) ELSE UNCHANGED <<content, stack>>
  /\ UNCHANGED <<handle, ctx, list>>

(* The end comes before the type is known if there are no data; the type   *)
(* is that of the headers, or the client is told that there is none.       *)
DONE(l) ==
  /\ Idle /\ low[l].told \in {"HEADERS", "DATA"}
  /\ LET c == low[l].client IN
     \/ c = "ctx" /\ hlcache_migrate_ctx(l, "DONE", "DATA")
     \/ /\ c = "ctx"
        /\ low' = [low EXCEPT ![l].told = "DONE"]
        /\ Deliver(ctx[l].handle, "ERROR", <<>>)
        /\ UNCHANGED <<ctx, content, list>>
     \/ /\ c \in Content
        /\ low' = [low EXCEPT ![l].told = "DONE"]
        /\ content_convert(c)
        /\ UNCHANGED <<handle, ctx, list>>
     \/ /\ c = "download"
        /\ low' = [low EXCEPT ![l].told = "DONE"]
        /\ UNCHANGED <<handle, ctx, content, list, stack>>

ERROR(l) ==
  /\ "ERROR" \in Enabled
  /\ Idle /\ low[l].told \in {"INIT", "HEADERS", "DATA"}
  /\ low' = [low EXCEPT ![l].told = "DONE"]
  /\ LET c == low[l].client IN
     \/ /\ c = "ctx"
        /\ Deliver(ctx[l].handle, "ERROR", <<>>)
        /\ UNCHANGED content
     \/ /\ c \in Content
        /\ content' = [content EXCEPT ![c].status = "ERROR"]
        /\ stack' = <<ToAll(c, "ERROR")>>
        /\ UNCHANGED handle
     \/ c = "download" /\ UNCHANGED <<handle, content, stack>>
  /\ UNCHANGED <<ctx, list>>

(* A download ends by itself when it has no window yet, or its window is   *)
(* closed.                                                                 *)
download_context_destroy(l) ==
  /\ Idle /\ low[l].client = "download"
  /\ low' = ReleaseLow({l})
  /\ UNCHANGED <<handle, ctx, content, list, stack>>

-----------------------------------------------------------------------------
(* Seeded fault: contents that failed are passed over. *)
UnwantedDone(c) == content[c].status = "DONE" /\ content[c].users = <<>>

Unwanted(c) == content[c].status # "LOADING" /\ content[c].users = <<>>

(* A page that is destroyed releases its handles.                          *)
content_destroy(c) ==
  LET H == {h \in Handle : handle[h].owner = c} IN
  /\ handle' = [h \in Handle |-> IF h \in H THEN NoHandle ELSE handle[h]]
  /\ ctx' = DropCtx(Nascent(H))
  /\ low' = ReleaseLow(Nascent(H) \cup {content[c].low})
  /\ content' = [RemoveUsers(H) EXCEPT ![c] = NoContent]
  /\ list' = RemoveFirst(list, c)

(* The scheduled clean walks over the list.  One that would destroy nothing *)
(* is left out.                                                            *)
hlcache_clean ==
  /\ Idle /\ \E c \in ToSet(list) : Unwanted(c)
  /\ stack' = <<Then(First(list), "sweep")>>
  /\ UNCHANGED <<handle, ctx, low, content, list>>

(* The next content is read before one is destroyed.                       *)
Sweep ==
  /\ At("sweep")
  /\ LET c == Head(stack).c IN
     \/ c = NULL /\ stack' = <<>> /\ UNCHANGED <<handle, ctx, low, content, list>>
     \/ /\ c # NULL
        /\ stack' = <<Then(Following(list, c), "sweep")>>
        /\ IF Unwanted(c) THEN content_destroy(c)
           ELSE UNCHANGED <<handle, ctx, low, content, list>>

-----------------------------------------------------------------------------
Clients ==
  \E h \in Handle :
    \/ \E owner \in Content \cup Window : hlcache_handle_retrieve(h, owner)
    \/ Release(h)
    \/ hlcache_handle_abort(h)

hlcache_poll ==
  \E l \in Low : HAD_HEADERS(l) \/ HAD_DATA(l) \/ DONE(l) \/ ERROR(l)

Pages == \E c \in Content : PageReady(c) \/ PageDone(c) \/ PageFails(c)

Calls == \/ CatchUpNext \/ MigrationEnds \/ content_broadcast
         \/ ClientReturns \/ browser_window_convert_to_download
         \/ content_set_done \/ content_set_error \/ ContentAborts
         \/ ReleaseAborted \/ Sweep

Next == \/ Clients \/ hlcache_poll \/ Pages \/ Calls \/ hlcache_clean
        \/ \E l \in Low : download_context_destroy(l)

Spec == Init /\ [][Next]_vars

(* The thread goes on and callbacks return; the low-level cache tells its  *)
(* clients all (EveryoneIsTold of LLCache); the clean is scheduled again   *)
(* and again.  Nothing is assumed of pages: some stay LOADING for ever     *)
(* (PageLoads of HtmlContent).                                             *)
Fairness ==
  /\ WF_vars(Calls \/ (\E h \in Handle : Release(h) /\ ~Idle))
  /\ \A l \in Low : SF_vars(HAD_HEADERS(l) \/ HAD_DATA(l) \/ DONE(l))
  /\ SF_vars(hlcache_clean)

FairSpec == Spec /\ Fairness

-----------------------------------------------------------------------------
Statuses == {"none", "LOADING", "READY", "DONE", "ERROR"}

(* The type of the state (hlcache.c:45-84, content_protected.h). *)
TypeOK ==
  /\ handle \in [Handle -> [entry : Content \cup {NULL},
       owner : Content \cup Window \cup {NULL},
       told : {"free", "waiting", "LOADING", "READY", "DONE", "ERROR",
               "DOWNLOAD"}]]
  /\ ctx \in [Low -> [handle : Handle \cup {NULL}, target : BOOLEAN]]
  /\ low \in [Low -> [source : Source \cup {NULL},
       told : {"none", "INIT", "HEADERS", "DATA", "DONE"},
       client : Content \cup {"none", "ctx", "download"}]]
  /\ content \in [Content -> [low : Low \cup {NULL}, status : Statuses,
       shared : BOOLEAN, locked : BOOLEAN, users : Seq(Handle)]]
  /\ list \in Seq(Content) /\ IsInjective(list)

(* Every low-level handle has one owner, a context in the ring, a content  *)
(* in the list or a download, and its events go to that owner: migrations, *)
(* refusals, releases and aborts inside callbacks and clones never leave   *)
(* one behind, and a migration finds what it is to release at its end      *)
(* (hlcache.c:296-311,610-677,740-778).                                    *)
OneOwner ==
  /\ \A l \in Low :
       LET owners == {c \in ToSet(list) : content[c].low = l}
           waits == ctx[l].handle # NULL /\ ~ctx[l].target
       IN  /\ low[l].client \in Content <=> owners # {}
           /\ owners \subseteq {low[l].client}
           /\ waits => low[l].client = "ctx"
           /\ low[l].client = "ctx" => ctx[l].handle # NULL
  /\ \A i \in DOMAIN stack :
       stack[i].at \in {"catch_up", "migrated", "refused"} =>
         /\ ctx[stack[i].l].target
         /\ stack[i].at = "refused" => low[stack[i].l].client = "ctx"

(* A handle is a user of its content, once, and of no other, and contents  *)
(* with users are in the list: content_remove_user finds what it removes   *)
(* (content.c:617), and a user never outlives its handle.                  *)
UsersConsistent ==
  /\ TypeOK
  /\ \A c \in Content :
       /\ \A h \in Handle : Cardinality({i \in DOMAIN content[c].users :
                                           content[c].users[i] = h})
                             = IF handle[h].entry = c THEN 1 ELSE 0
       /\ content[c] # NoContent <=> c \in ToSet(list)

(* A broadcast goes on with a user still in the list, and a migration with *)
(* a handle that is still allocated, whatever callbacks released, retrieved*)
(* or sent (content.c:673-676, hlcache.c:785-816); and a content that may  *)
(* be destroyed is unlocked, as content_destroy asserts (content.c:385).   *)
CallsAreSafe ==
  /\ \A i \in DOMAIN stack :
       /\ stack[i].at = "broadcast" =>
            stack[i].h = NULL
            \/ stack[i].h \in ToSet(content[stack[i].c].users)
       /\ stack[i].at = "catch_up" =>
            handle[ctx[stack[i].l].handle].told # "free"
  /\ \A c \in Content : content[c].locked => content[c].status = "LOADING"

(* Between events every user of a content has been told its status: those   *)
(* that came late, those of a clone, and those told by a message in a      *)
(* message (content.c:668-677, hlcache.c:784-818).                         *)
ToldStatus ==
  Idle => \A h \in Handle : LET c == handle[h].entry IN
            c # NULL => handle[h].told = content[c].status

(* Each handle is told what HandleProtocol promises. *)
Protocol == INSTANCE HandleProtocol
              WITH told <- [h \in Handle |-> handle[h].told]

ImplementsProtocol == Protocol!Spec

(* A client is told DONE or ERROR or gets a download in the end, unless it *)
(* lets its handle go or has a page, which is a matter of that page then:  *)
(* an aborted, refused, failed, shared or cloned content does not keep a   *)
(* user waiting (hlcache.c:512-599, content.c:171-183).                    *)
HasPage(h) ==
  /\ handle[h].entry # NULL /\ ~content[handle[h].entry].shared
  /\ handle[h].told \in {"LOADING", "READY"}

EveryHandleTold ==
  \A h \in Handle :
    handle[h].told = "waiting" ~>
      handle[h].told \in {"DONE", "ERROR", "DOWNLOAD", "free"} \/ HasPage(h)

(* A content without users is destroyed or used again, whatever state it   *)
(* was left in, though hlcache_clean passes over contents that are LOADING *)
(* (hlcache.c:467).  Only a page that is being converted may stay.         *)
UnusedGo ==
  \A c \in Content :
    c \in ToSet(list) /\ content[c].users = <<>> ~>
      \/ c \notin ToSet(list) \/ content[c].users # <<>>
      \/ ~content[c].shared /\ content[c].locked
=============================================================================
