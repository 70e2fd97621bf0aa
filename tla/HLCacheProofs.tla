--------------------------- MODULE HLCacheProofs ---------------------------
(***************************************************************************)
(* What the high-level cache keeps and tells, for any number of handles,   *)
(* contents and windows.                                                   *)
(***************************************************************************)
EXTENDS HLCache, ListLemmas

Messages == {"LOADING", "READY", "DONE", "ERROR", "DOWNLOAD"}

(* The calls that may be on the stack. *)
Frame ==
  [at : {"client"}, h : Handle, msg : Messages]
  \cup [at : {"broadcast"}, c : Content, h : Handle \cup {NULL}, msg : {"READY", "DONE", "ERROR"}]
  \cup [at : {"catch_up"}, l : Low, msgs : Seq({"LOADING", "READY", "DONE"})]
  \cup [at : {"migrated", "refused"}, l : Low]
  \cup [at : {"set_done", "set_error", "abort", "data_failed"}, c : Content]
  \cup [at : {"release"}, h : Handle]
  \cup [at : {"sweep"}, c : Content \cup {NULL}]

LEMMA FrameFields ==
  ASSUME NEW f \in Frame
  PROVE  /\ f.at = "client" => f.h \in Handle /\ f.msg \in Messages
         /\ f.at = "broadcast" => /\ f.c \in Content /\ f.h \in Handle \cup {NULL}
                                  /\ f.msg \in {"READY", "DONE", "ERROR"}
         /\ f.at = "catch_up" => f.l \in Low /\ f.msgs \in Seq({"LOADING", "READY", "DONE"})
         /\ f.at \in {"migrated", "refused"} => f.l \in Low
         /\ f.at \in {"set_done", "set_error", "abort", "data_failed"} => f.c \in Content
         /\ f.at = "release" => f.h \in Handle
         /\ f.at = "sweep" => f.c \in Content \cup {NULL}
BY DEF Frame

LEMMA FrameTypes ==
  /\ \A h \in Handle, msg \in Messages : Client(h, msg) \in Frame
  /\ \A c \in Content, h \in Handle \cup {NULL}, msg \in {"READY", "DONE", "ERROR"} :
       Broadcast(c, h, msg) \in Frame
  /\ \A l \in Low, msgs \in Seq({"LOADING", "READY", "DONE"}) : CatchUp(l, msgs) \in Frame
  /\ \A l \in Low, how \in {"migrated", "refused"} : Migrated(l, how) \in Frame
  /\ \A c \in Content, step \in {"set_done", "set_error", "abort", "data_failed", "sweep"} :
       Then(c, step) \in Frame
  /\ Then(NULL, "sweep") \in Frame
  /\ \A h \in Handle : [at |-> "release", h |-> h] \in Frame
BY DEF Frame, Client, Broadcast, CatchUp, Migrated, Then

(* A call is made. *)
LEMMA ConsFrames ==
  ASSUME NEW S, NEW s \in Seq(S), NEW f \in S
  PROVE  /\ Cons(f, s) \in Seq(S) /\ Cons(f, s) # <<>> /\ Head(Cons(f, s)) = f
         /\ Cons(f, s)[1] = f /\ Len(Cons(f, s)) = Len(s) + 1
         /\ \A i \in 1..Len(s) : Cons(f, s)[i + 1] = s[i]
         /\ \A i \in 2..(Len(s) + 1) : Cons(f, s)[i] = s[i - 1] /\ i - 1 \in 1..Len(s)
<1> DEFINE t == Cons(f, s)
<1>1. /\ t \in Seq(S) /\ Len(t) = Len(s) + 1 /\ Len(s) \in Nat
      /\ t[1] = f /\ \A k \in 1..Len(s) : t[k + 1] = s[k]
  BY DEF Cons
<1> HIDE DEF t
<1>2. t # <<>> /\ Head(t) = t[1]
  BY <1>1
<1>3. \A i \in 2..(Len(s) + 1) : t[i] = s[i - 1] /\ i - 1 \in 1..Len(s)
  <2> TAKE i \in 2..(Len(s) + 1)
  <2>1. i - 1 \in 1..Len(s) /\ (i - 1) + 1 = i
    BY <1>1
  <2>2. t[(i - 1) + 1] = s[i - 1]
    BY <1>1, <2>1
  <2> QED BY <2>1, <2>2
<1> QED BY <1>1, <1>2, <1>3 DEF t

(* A call returns. *)
LEMMA TailFrames ==
  ASSUME NEW S, NEW s \in Seq(S), s # <<>>
  PROVE  /\ Tail(s) \in Seq(S) /\ Len(s) \in Nat \ {0} /\ Len(Tail(s)) = Len(s) - 1
         /\ Head(s) = s[1] /\ Head(s) \in S
         /\ \A i \in 1..Len(Tail(s)) : Tail(s)[i] = s[i + 1] /\ i + 1 \in 2..Len(s)
         /\ DOMAIN s = 1..Len(s) /\ DOMAIN Tail(s) = 1..(Len(s) - 1)
OBVIOUS

-----------------------------------------------------------------------------
(* Who has what. *)

HandleType == [entry : Content \cup {NULL}, owner : Content \cup Window \cup {NULL},
               told : {"free", "waiting", "LOADING", "READY", "DONE", "ERROR", "DOWNLOAD"}]
CtxType == [handle : Handle \cup {NULL}, target : BOOLEAN]
LowType == [source : Source \cup {NULL}, told : {"none", "INIT", "HEADERS", "DATA", "DONE"},
            client : Content \cup {"none", "ctx", "download"}]
ContentType == [low : Low \cup {NULL}, status : Statuses, shared : BOOLEAN, locked : BOOLEAN,
                users : Seq(Handle)]

Typed(hd, cx, lw, ct, ls) ==
  /\ hd \in [Handle -> HandleType] /\ cx \in [Low -> CtxType] /\ lw \in [Low -> LowType]
  /\ ct \in [Content -> ContentType]
  /\ ls \in Seq(Content) /\ Injective(ls)

(* The users of a content are the handles that have it as their entry, and *)
(* a content that is in no list is free.  Pages are not shared.            *)
Users(hd, ct, ls) ==
  /\ \A c \in Content :
       /\ Injective(ct[c].users) /\ ToSet(ct[c].users) = {h \in Handle : hd[h].entry = c}
       /\ c \in ToSet(ls) => ct[c].status # "none"
       /\ c \notin ToSet(ls) => ct[c] = NoContent
       /\ ~ct[c].shared => \A g, h \in Handle : hd[g].entry = c /\ hd[h].entry = c => g = h
  /\ \A h \in Handle : hd[h].told = "free" => hd[h].entry = NULL

Waits(cx, l) == cx[l].handle # NULL /\ ~cx[l].target

(* Low-level handles belong to contents, to contexts or to downloads. *)
Lows(hd, cx, lw, ct, ls) ==
  /\ \A c \in ToSet(ls) : ct[c].low \in Low /\ lw[ct[c].low].client = c
  /\ \A l \in Low :
       /\ lw[l].client \in Content => lw[l].client \in ToSet(ls) /\ ct[lw[l].client].low = l
       /\ Waits(cx, l) => /\ lw[l].client = "ctx"
                          /\ hd[cx[l].handle].entry = NULL
                          /\ hd[cx[l].handle].told \notin {"free", "DOWNLOAD"}
       /\ cx[l].target => cx[l].handle # NULL
       /\ lw[l].client = "ctx" => cx[l].handle # NULL
  /\ \A l, m \in Low : Waits(cx, l) /\ Waits(cx, m) /\ cx[l].handle = cx[m].handle => l = m

OfCtx == {"catch_up", "migrated", "refused"}
Deepest == OfCtx \cup {"release", "sweep"}

Bottom(st) == st[Len(st)]
Download(f) == f.at = "client" /\ f.msg = "DOWNLOAD"

(* What is known of a call that has not returned. *)
FrameTied(f, cx, lw, ls) ==
  /\ f.at \in OfContent => f.c \in ToSet(ls)
  /\ f.at \in OfCtx => cx[f.l].target
  /\ f.at = "refused" => lw[f.l].client = "ctx"
  /\ f.at = "catch_up" => lw[f.l].client # "ctx"
  /\ f.at = "sweep" => f.c = NULL \/ f.c \in ToSet(ls)

(* A window that is told of a download gets the low-level handle at once. *)
Gives(st, hd, lw) ==
  /\ Bottom(st).at = "migrated" =>
       lw[Bottom(st).l].client # "ctx" \/ (Len(st) = 2 /\ Download(Head(st)))
  /\ Download(Head(st)) =>
       /\ Len(st) = 2 /\ st[2].at = "migrated" /\ lw[st[2].l].client = "ctx"
       /\ hd[Head(st).h].entry = NULL
       /\ hd[Head(st).h].owner \in Window /\ hd[Head(st).h].told = "DOWNLOAD"

Frames(st, hd, cx, lw, ls) ==
  /\ st \in Seq(Frame)
  /\ \A i \in 1..Len(st) :
       /\ st[i].at \in Deepest => i = Len(st)
       /\ i > 1 => ~Download(st[i])
       /\ FrameTied(st[i], cx, lw, ls)
  /\ \A l \in Low : cx[l].target => st # <<>> /\ Bottom(st).at \in OfCtx /\ Bottom(st).l = l
  /\ st # <<>> => Gives(st, hd, lw)

(* The invariant of the lists and of the ownership. *)
Tied ==
  /\ Typed(handle, ctx, low, content, list)
  /\ Users(handle, content, list)
  /\ Lows(handle, ctx, low, content, list)
  /\ Frames(stack, handle, ctx, low, list)

-----------------------------------------------------------------------------
(* The stack. *)

LEMMA Pushed ==
  ASSUME NEW st, NEW hd, NEW cx, NEW lw, NEW ls, Frames(st, hd, cx, lw, ls),
         st # <<>> => ~Download(Head(st)),
         NEW f \in Frame, f.at \notin Deepest, ~Download(f), FrameTied(f, cx, lw, ls)
  PROVE  Frames(Cons(f, st), hd, cx, lw, ls)
<1> DEFINE t == Cons(f, st)
<1>1. /\ t \in Seq(Frame) /\ t # <<>> /\ Head(t) = f /\ t[1] = f /\ Len(t) = Len(st) + 1
      /\ \A i \in 2..(Len(st) + 1) : t[i] = st[i - 1] /\ i - 1 \in 1..Len(st)
  BY ConsFrames DEF Frames
<1>2. Len(st) \in Nat /\ (st = <<>> => Len(st) = 0) /\ (st # <<>> => Len(st) >= 1 /\ Head(st) = st[1])
  BY DEF Frames
<1> HIDE DEF t
<1>3. ASSUME NEW i \in 1..Len(t)
      PROVE /\ t[i].at \in Deepest => i = Len(t)
            /\ i > 1 => ~Download(t[i])
            /\ FrameTied(t[i], cx, lw, ls)
  <2>1. CASE i = 1
    BY <1>1, <1>2, <2>1
  <2>2. CASE i # 1
    <3>1. i \in 2..(Len(st) + 1) /\ t[i] = st[i - 1] /\ i - 1 \in 1..Len(st)
      BY <1>1, <1>2, <1>3, <2>2
    <3>2. /\ st[i - 1].at \in Deepest => i - 1 = Len(st)
          /\ i - 1 > 1 => ~Download(st[i - 1])
          /\ FrameTied(st[i - 1], cx, lw, ls)
      BY <3>1 DEF Frames
    <3>3. i - 1 = 1 => ~Download(st[i - 1])
      BY <1>2, <3>1
    <3> QED BY <1>1, <1>2, <3>1, <3>2, <3>3
  <2> QED BY <2>1, <2>2
<1>4. st # <<>> => Bottom(t) = Bottom(st)
  BY <1>1, <1>2 DEF Bottom
<1>5. st = <<>> => Bottom(t) = f
  BY <1>1, <1>2 DEF Bottom
<1>6. \A l \in Low : cx[l].target => t # <<>> /\ Bottom(t).at \in OfCtx /\ Bottom(t).l = l
  BY <1>1, <1>4 DEF Frames
<1>8. Gives(t, hd, lw)
  <2>1. CASE st # <<>>
    <3>1. Bottom(st).at = "migrated" => lw[Bottom(st).l].client # "ctx"
      BY <2>1 DEF Frames, Gives
    <3> QED BY <1>1, <1>4, <2>1, <3>1 DEF Gives
  <2>2. CASE st = <<>>
    BY <1>1, <1>5, <2>2 DEF Gives, Deepest, OfCtx
  <2> QED BY <2>1, <2>2
<1> QED BY <1>1, <1>3, <1>6, <1>8 DEF Frames, t

LEMMA Popped ==
  ASSUME NEW st, NEW hd, NEW cx, NEW lw, NEW ls, Frames(st, hd, cx, lw, ls), st # <<>>,
         Head(st).at \notin Deepest, ~Download(Head(st))
  PROVE  /\ Frames(Tail(st), hd, cx, lw, ls)
         /\ Tail(st) # <<>> => ~Download(Head(Tail(st)))
<1> DEFINE t == Tail(st)
<1>1. /\ t \in Seq(Frame) /\ Len(st) \in Nat \ {0} /\ Len(t) = Len(st) - 1 /\ Head(st) = st[1]
      /\ \A i \in 1..Len(t) : t[i] = st[i + 1] /\ i + 1 \in 2..Len(st)
  BY TailFrames DEF Frames
<1>2. (t # <<>> => Len(t) >= 1 /\ Head(t) = t[1]) /\ Len(t) \in Nat /\ (Len(t) = 0 => t = <<>>)
  BY <1>1
<1> HIDE DEF t
<1>9. t = <<>> => Len(t) = 0
  OBVIOUS
<1>3. \A i \in 1..Len(t) : /\ ~Download(t[i]) /\ (t[i].at \in Deepest => i = Len(t))
                            /\ FrameTied(t[i], cx, lw, ls)
  <2> TAKE i \in 1..Len(t)
  <2>1. t[i] = st[i + 1] /\ i + 1 \in 1..Len(st) /\ i + 1 > 1
    BY <1>1
  <2>2. /\ ~Download(st[i + 1]) /\ (st[i + 1].at \in Deepest => i + 1 = Len(st))
        /\ FrameTied(st[i + 1], cx, lw, ls)
    BY <2>1 DEF Frames
  <2> QED BY <1>1, <2>1, <2>2
<1>4. t # <<>> => Bottom(t) = Bottom(st) /\ ~Download(Head(t))
  BY <1>1, <1>2, <1>3 DEF Bottom
<1>10. t = <<>> => Len(st) = 1
  BY <1>1, <1>9
<1>5. t = <<>> => Bottom(st) = Head(st)
  BY <1>1, <1>10 DEF Bottom
<1>6. \A l \in Low : cx[l].target => t # <<>> /\ Bottom(t).at \in OfCtx /\ Bottom(t).l = l
  BY <1>4, <1>5 DEF Frames, Deepest
<1>8. t # <<>> => Gives(t, hd, lw)
  BY <1>4 DEF Frames, Gives
<1> QED BY <1>1, <1>3, <1>4, <1>6, <1>8 DEF Frames, t

(* The rest changes in a way that calls do not depend on. *)
LEMMA FramesKept ==
  ASSUME NEW st, NEW hd, NEW cx, NEW lw, NEW ls, Frames(st, hd, cx, lw, ls),
         NEW hd2, NEW cx2, NEW lw2, NEW ls2,
         \A l \in Low : cx2[l].target = cx[l].target
                        /\ (cx[l].target => lw2[l].client = lw[l].client),
         ToSet(ls) \subseteq ToSet(ls2),
         st # <<>> /\ Download(Head(st)) => hd2[Head(st).h] = hd[Head(st).h]
  PROVE  Frames(st, hd2, cx2, lw2, ls2)
<1>1. ASSUME NEW i \in 1..Len(st), st[i].at \in OfCtx
      PROVE  st[i].l \in Low /\ cx[st[i].l].target
  <2>1. st[i] \in Frame
    BY <1>1 DEF Frames
  <2> QED BY <1>1, <2>1, FrameFields DEF Frames, FrameTied, OfCtx
<1>2. ASSUME NEW i \in 1..Len(st) PROVE FrameTied(st[i], cx2, lw2, ls2)
  <2>1. FrameTied(st[i], cx, lw, ls)
    BY <1>2 DEF Frames
  <2> QED BY <1>1, <1>2, <2>1 DEF FrameTied, OfCtx
<1>3. ASSUME st # <<>> PROVE Gives(st, hd2, lw2)
  <2>1. Len(st) \in 1..Len(st)
    BY <1>3 DEF Frames
  <2> QED BY <1>1, <1>3, <2>1 DEF Frames, Gives, OfCtx, Bottom
<1> QED BY <1>2, <1>3 DEF Frames

(* Calls are made while none is. *)
LEMMA FramesAlone ==
  ASSUME NEW hd, NEW cx, NEW lw, NEW ls, NEW f \in Frame, FrameTied(f, cx, lw, ls), ~Download(f),
         \A l \in Low : cx[l].target => f.at \in OfCtx /\ f.l = l,
         f.at = "migrated" => lw[f.l].client # "ctx"
  PROVE  Frames(<<f>>, hd, cx, lw, ls)
<1> DEFINE t == <<f>>
<1>1. t \in Seq(Frame) /\ Len(t) = 1 /\ t[1] = f /\ Head(t) = f /\ t # <<>>
  OBVIOUS
<1> HIDE DEF t
<1>2. Bottom(t) = f
  BY <1>1 DEF Bottom
<1>3. Gives(t, hd, lw)
  BY <1>1, <1>2 DEF Gives
<1>4. \A i \in 1..Len(t) : i = 1 /\ i = Len(t) /\ t[i] = f
  BY <1>1
<1> QED BY <1>1, <1>2, <1>3, <1>4 DEF Frames, t

-----------------------------------------------------------------------------
(* Handles, contents and their lists. *)

(* Fields of a content change that do not say who has what. *)
Alike(x, y) ==
  /\ x \in ContentType /\ x.users = y.users /\ x.low = y.low /\ x.shared = y.shared
  /\ x.status # "none"

Put(ct, c, x) == [ct EXCEPT ![c] = x]

LEMMA ContentChanges ==
  ASSUME NEW hd, NEW cx, NEW lw, NEW ct, NEW ls, NEW c \in ToSet(ls), NEW x,
         Typed(hd, cx, lw, ct, ls), Users(hd, ct, ls), Lows(hd, cx, lw, ct, ls),
         Alike(x, ct[c])
  PROVE  /\ Typed(hd, cx, lw, Put(ct, c, x), ls)
         /\ Users(hd, Put(ct, c, x), ls)
         /\ Lows(hd, cx, lw, Put(ct, c, x), ls)
<1>1. c \in Content
  BY DEF Typed, ToSet
<1> DEFINE t == Put(ct, c, x)
<1>2. /\ DOMAIN t = Content /\ DOMAIN ct = Content /\ t[c] = x
      /\ \A d \in Content : d # c => t[d] = ct[d]
  BY <1>1 DEF Typed, Put
<1>3. \A d \in Content : /\ t[d].users = ct[d].users /\ t[d].low = ct[d].low
                         /\ t[d].shared = ct[d].shared
                         /\ d = c => t[d].status # "none"
  BY <1>2 DEF Alike
<1>4. Typed(hd, cx, lw, t, ls)
  BY <1>1 DEF Typed, Alike, Put
<1> HIDE DEF t
<1>5. Users(hd, t, ls)
  BY <1>2, <1>3 DEF Users
<1>6. ToSet(ls) \subseteq Content
  BY DEF Typed, ToSet
<1>7. Lows(hd, cx, lw, t, ls)
  BY <1>3, <1>6 DEF Lows
<1> QED BY <1>4, <1>5, <1>7 DEF t

(* Handles are told something. *)
ToldTo(hd, h, msg) == [hd EXCEPT ![h].told = msg]

LEMMA HandleTold ==
  ASSUME NEW hd, NEW cx, NEW lw, NEW ct, NEW ls, NEW h \in Handle, NEW msg \in Messages,
         Typed(hd, cx, lw, ct, ls), Users(hd, ct, ls), Lows(hd, cx, lw, ct, ls),
         msg = "DOWNLOAD" => \A l \in Low : Waits(cx, l) => cx[l].handle # h
  PROVE  /\ Typed(ToldTo(hd, h, msg), cx, lw, ct, ls)
         /\ Users(ToldTo(hd, h, msg), ct, ls)
         /\ Lows(ToldTo(hd, h, msg), cx, lw, ct, ls)
<1> DEFINE t == ToldTo(hd, h, msg)
<1>1. /\ t \in [Handle -> HandleType] /\ t[h].told = msg
      /\ \A g \in Handle : t[g].entry = hd[g].entry /\ (g # h => t[g] = hd[g])
  BY DEF Typed, HandleType, Messages, ToldTo
<1>2. msg # "free"
  BY DEF Messages
<1> HIDE DEF t
<1>3. Typed(hd, cx, lw, ct, ls) => Typed(t, cx, lw, ct, ls)
  BY <1>1 DEF Typed
<1>4. Users(t, ct, ls)
  BY <1>1, <1>2 DEF Users
<1>5. \A l \in Low : cx[l].handle \in Handle \cup {NULL}
  BY DEF Typed, CtxType
<1>6. Lows(t, cx, lw, ct, ls)
  BY <1>1, <1>2, <1>5 DEF Lows, Waits
<1> QED BY <1>3, <1>4, <1>6 DEF t

(* Low-level handles change, but the contents that own them do not.        *)
LEMMA LowChanges ==
  ASSUME NEW hd, NEW cx, NEW lw, NEW ct, NEW ls, NEW lw2 \in [Low -> LowType],
         Typed(hd, cx, lw, ct, ls), Lows(hd, cx, lw, ct, ls),
         \A l \in Low : \/ lw2[l].client = lw[l].client
                       \/ /\ lw[l].client \notin Content /\ ~Waits(cx, l)
                          /\ lw2[l].client \in {"none", "download"}
  PROVE  Typed(hd, cx, lw2, ct, ls) /\ Lows(hd, cx, lw2, ct, ls)
<1>1. \A c \in ToSet(ls) : c \in Content /\ ct[c].low \in Low /\ lw[ct[c].low].client = c
  BY DEF Typed, ToSet, Lows
<1>2. "none" \notin Content /\ "download" \notin Content
  BY HLCacheAssumption
<1>3. \A c \in ToSet(ls) : ct[c].low \in Low /\ lw2[ct[c].low].client = c
  BY <1>1
<1>4. Lows(hd, cx, lw2, ct, ls)
  BY <1>2, <1>3 DEF Lows
<1> QED BY <1>4 DEF Typed

LEMMA LowKept ==
  ASSUME NEW hd, NEW cx, NEW lw, NEW ct, NEW ls, NEW lw2 \in [Low -> LowType],
         Typed(hd, cx, lw, ct, ls), Lows(hd, cx, lw, ct, ls),
         \A l \in Low : lw2[l].client = lw[l].client
  PROVE  Typed(hd, cx, lw2, ct, ls) /\ Lows(hd, cx, lw2, ct, ls)
<1>1. \A l \in Low : \/ lw2[l].client = lw[l].client
                    \/ /\ lw[l].client \notin Content /\ ~Waits(cx, l)
                       /\ lw2[l].client \in {"none", "download"}
  OBVIOUS
<1> QED BY <1>1, LowChanges

-----------------------------------------------------------------------------
(* Handles are released. *)

Freed(H) == [h \in Handle |-> IF h \in H THEN NoHandle ELSE handle[h]]

LEMMA NothingTypes ==
  /\ NoHandle \in HandleType /\ NoCtx \in CtxType /\ NoLow \in LowType /\ NoContent \in ContentType
  /\ NoHandle.entry = NULL /\ NoHandle.told = "free" /\ NoHandle.owner = NULL
  /\ NoCtx.handle = NULL /\ NoCtx.target = FALSE
  /\ NoLow.client = "none" /\ NoContent.users = <<>> /\ NoContent.status = "none"
  /\ NULL \notin Content /\ NULL \notin Handle /\ NULL \notin Low
  /\ "ctx" \notin Content /\ "none" \notin Content /\ "download" \notin Content
  /\ ToSet(<<>>) = {}
<1>1. <<>> \in Seq(Handle)
  OBVIOUS
<1>2. DOMAIN <<>> = {}
  OBVIOUS
<1>3. ToSet(<<>>) = {}
  BY <1>2 DEF ToSet
<1> QED
  BY <1>1, <1>3, HLCacheAssumption
     DEF NoHandle, NoCtx, NoLow, NoContent, HandleType, CtxType, LowType, ContentType, Statuses

LEMMA RemoveUsersProperties ==
  ASSUME content \in [Content -> ContentType], NEW H \in SUBSET Handle,
         \A c \in Content : Injective(content[c].users)
  PROVE  /\ RemoveUsers(H) \in [Content -> ContentType]
         /\ \A c \in Content :
              /\ Injective(RemoveUsers(H)[c].users)
              /\ ToSet(RemoveUsers(H)[c].users) = ToSet(content[c].users) \ H
              /\ RemoveUsers(H)[c].low = content[c].low
              /\ RemoveUsers(H)[c].status = content[c].status
              /\ RemoveUsers(H)[c].shared = content[c].shared
              /\ RemoveUsers(H)[c].locked = content[c].locked
              /\ content[c] = NoContent => RemoveUsers(H)[c] = NoContent
<1> DEFINE t == RemoveUsers(H)
           left(c) == Sublist(content[c].users, Handle \ H)
<1>1. ASSUME NEW c \in Content
      PROVE  /\ left(c) \in Seq(Handle) /\ Injective(left(c))
             /\ ToSet(left(c)) = ToSet(content[c].users) \ H
  <2>1. content[c].users \in Seq(Handle)
    BY DEF ContentType
  <2>2. /\ left(c) \in Seq(Handle) /\ Injective(left(c))
        /\ ToSet(left(c)) = ToSet(content[c].users) \cap (Handle \ H)
    BY <2>1, SublistProperties
  <2>3. ToSet(content[c].users) \subseteq Handle
    BY <2>1 DEF ToSet
  <2> QED BY <2>2, <2>3
<1>2. \A c \in Content : t[c] = [content[c] EXCEPT !.users = left(c)]
  BY DEF RemoveUsers
<1>3. t = [c \in Content |-> t[c]]
  BY DEF RemoveUsers
<1> HIDE DEF t, left
<1>4. ASSUME NEW c \in Content
      PROVE  /\ t[c] \in ContentType /\ t[c].users = left(c) /\ t[c].low = content[c].low
             /\ t[c].status = content[c].status /\ t[c].shared = content[c].shared
             /\ t[c].locked = content[c].locked
             /\ content[c] = NoContent => t[c] = NoContent
  <2>1. content[c] \in ContentType
    OBVIOUS
  <2>2. /\ t[c] \in ContentType /\ t[c].users = left(c) /\ t[c].low = content[c].low
        /\ t[c].status = content[c].status /\ t[c].shared = content[c].shared
        /\ t[c].locked = content[c].locked
    BY <1>1, <1>2, <2>1 DEF ContentType
  <2>3. ASSUME content[c] = NoContent PROVE t[c] = NoContent
    <3>1. ToSet(left(c)) = {} /\ left(c) \in Seq(Handle)
      BY <1>1, <2>3, NothingTypes
    <3>2. DOMAIN left(c) = 1..Len(left(c)) /\ Len(left(c)) \in Nat
      BY <3>1
    <3>3. 1 \notin DOMAIN left(c)
      BY <3>1 DEF ToSet
    <3>4. left(c) = <<>>
      BY <3>1, <3>2, <3>3
    <3>5. t[c].users = <<>> /\ content[c].users = <<>>
      BY <2>2, <2>3, <3>4, NothingTypes
    <3>6. t[c] = [content[c] EXCEPT !.users = content[c].users]
      BY <1>2, <2>2, <3>5
    <3> QED BY <2>1, <2>3, <3>6 DEF ContentType
  <2> QED BY <2>2, <2>3
<1>5. t \in [Content -> ContentType]
  BY <1>3, <1>4
<1> QED BY <1>1, <1>4, <1>5 DEF t

LEMMA Releases ==
  ASSUME Typed(handle, ctx, low, content, list), Users(handle, content, list),
         Lows(handle, ctx, low, content, list), NEW H \in SUBSET Handle
  PROVE  /\ Typed(Freed(H), DropCtx(Nascent(H)), ReleaseLow(Nascent(H)), RemoveUsers(H), list)
         /\ Users(Freed(H), RemoveUsers(H), list)
         /\ Lows(Freed(H), DropCtx(Nascent(H)), ReleaseLow(Nascent(H)), RemoveUsers(H), list)
         /\ \A l \in Low : DropCtx(Nascent(H))[l].target = ctx[l].target
                           /\ (ctx[l].target => ReleaseLow(Nascent(H))[l].client = low[l].client)
<1> DEFINE hd == Freed(H)
           cx == DropCtx(Nascent(H))
           lw == ReleaseLow(Nascent(H))
           ct == RemoveUsers(H)
<1>1. /\ hd \in [Handle -> HandleType] /\ cx \in [Low -> CtxType] /\ lw \in [Low -> LowType]
      /\ \A h \in Handle : hd[h] = IF h \in H THEN NoHandle ELSE handle[h]
      /\ \A l \in Low : /\ cx[l] = IF l \in Nascent(H) THEN NoCtx ELSE ctx[l]
                        /\ lw[l] = IF l \in Nascent(H) THEN NoLow ELSE low[l]
  BY NothingTypes DEF Typed, Freed, DropCtx, ReleaseLow
<1>2. /\ ct \in [Content -> ContentType]
      /\ \A c \in Content :
           /\ Injective(ct[c].users) /\ ToSet(ct[c].users) = ToSet(content[c].users) \ H
           /\ ct[c].low = content[c].low /\ ct[c].status = content[c].status
           /\ ct[c].shared = content[c].shared
           /\ content[c] = NoContent => ct[c] = NoContent
  <2>1. content \in [Content -> ContentType] /\ \A c \in Content : Injective(content[c].users)
    BY DEF Typed, Users
  <2> HIDE DEF ct
  <2> QED BY <2>1, RemoveUsersProperties DEF ct
<1>3. \A l \in Low : l \in Nascent(H) => Waits(ctx, l) /\ low[l].client = "ctx"
  BY NothingTypes DEF Nascent, Waits, Lows
<1>4. \A l \in Low : Waits(ctx, l) /\ l \notin Nascent(H) => ctx[l].handle \in Handle \ H
  BY DEF Nascent, Waits, Lows, Typed, CtxType
<1> HIDE DEF hd, cx, lw, ct
<1>5. Typed(hd, cx, lw, ct, list)
  BY <1>1, <1>2 DEF Typed
<1>6. Users(hd, ct, list)
  <2>1. \A h \in Handle : hd[h].entry = IF h \in H THEN NULL ELSE handle[h].entry
    BY <1>1, NothingTypes
  <2>2. ASSUME NEW c \in Content PROVE ToSet(ct[c].users) = {h \in Handle : hd[h].entry = c}
    BY <1>2, <2>1, <2>2, NothingTypes DEF Users
  <2>3. ASSUME NEW c \in Content PROVE
          ~ct[c].shared => \A g, h \in Handle : hd[g].entry = c /\ hd[h].entry = c => g = h
    BY <1>2, <2>1, <2>3, NothingTypes DEF Users
  <2>4. \A h \in Handle : hd[h].told = "free" => hd[h].entry = NULL
    BY <1>1, NothingTypes DEF Users
  <2>5. ASSUME NEW c \in Content PROVE /\ c \in ToSet(list) => ct[c].status # "none"
                                       /\ c \notin ToSet(list) => ct[c] = NoContent
    BY <1>2 DEF Users
  <2> QED BY <1>2, <2>2, <2>3, <2>4, <2>5 DEF Users
<1>7. Lows(hd, cx, lw, ct, list)
  <2>0. ToSet(list) \subseteq Content
    BY DEF Typed, ToSet
  <2>6. "ctx" \notin Content \/ "ctx" \in Content
    OBVIOUS
  <2>1. ASSUME NEW c \in ToSet(list) PROVE ct[c].low \in Low /\ lw[ct[c].low].client = c
    <3>1. content[c].low \in Low /\ low[content[c].low].client = c /\ c \in Content
      BY <2>0, <2>1 DEF Lows
    <3>2. content[c].low \notin Nascent(H)
      BY <1>3, <3>1, NothingTypes
    <3> QED BY <1>1, <1>2, <3>1, <3>2
  <2>2. ASSUME NEW l \in Low
        PROVE  /\ lw[l].client \in Content =>
                    lw[l].client \in ToSet(list) /\ ct[lw[l].client].low = l
               /\ cx[l].target => cx[l].handle # NULL
               /\ lw[l].client = "ctx" => cx[l].handle # NULL
    <3>1. CASE l \in Nascent(H)
      BY <1>1, <3>1, NothingTypes
    <3>2. CASE l \notin Nascent(H)
      BY <1>1, <1>2, <3>2 DEF Lows
    <3> QED BY <3>1, <3>2
  <2>3. ASSUME NEW l \in Low, Waits(cx, l)
        PROVE  /\ l \notin Nascent(H) /\ Waits(ctx, l) /\ lw[l].client = "ctx"
               /\ cx[l].handle \in Handle /\ cx[l].handle = ctx[l].handle
               /\ hd[cx[l].handle].entry = NULL
               /\ hd[cx[l].handle].told \notin {"free", "DOWNLOAD"}
    <3>1. l \notin Nascent(H) /\ cx[l] = ctx[l] /\ Waits(ctx, l) /\ lw[l] = low[l]
      BY <1>1, <2>3, NothingTypes DEF Waits
    <3>2. ctx[l].handle \in Handle \ H
      BY <1>4, <3>1
    <3> QED BY <1>1, <3>1, <3>2 DEF Lows
  <2>4. \A l, m \in Low : Waits(cx, l) /\ Waits(cx, m) /\ cx[l].handle = cx[m].handle => l = m
    BY <2>3 DEF Lows
  <2> QED BY <2>1, <2>2, <2>3, <2>4 DEF Lows
<1>8. \A l \in Low : cx[l].target = ctx[l].target /\ (ctx[l].target => lw[l].client = low[l].client)
  <2>1. \A l \in Low : l \in Nascent(H) => ~ctx[l].target /\ ctx[l].target \in BOOLEAN
    BY <1>3 DEF Waits, Typed, CtxType
  <2> QED BY <1>1, <2>1, NothingTypes
<1> QED BY <1>5, <1>6, <1>7, <1>8 DEF hd, cx, lw, ct

(* A content that has no users goes, with its low-level handle. *)
Without(lw, l, lw2) ==
  lw2 \in [Low -> LowType] /\ \A m \in Low : lw2[m] = IF m = l THEN NoLow ELSE lw[m]

LEMMA Forgets ==
  ASSUME NEW hd, NEW cx, NEW lw, NEW ct, NEW ls, NEW c \in ToSet(ls), NEW lw2,
         Typed(hd, cx, lw, ct, ls), Users(hd, ct, ls), Lows(hd, cx, lw, ct, ls),
         ToSet(ct[c].users) = {}, Without(lw, ct[c].low, lw2)
  PROVE  /\ Typed(hd, cx, lw2, Put(ct, c, NoContent), RemoveFirst(ls, c))
         /\ Users(hd, Put(ct, c, NoContent), RemoveFirst(ls, c))
         /\ Lows(hd, cx, lw2, Put(ct, c, NoContent), RemoveFirst(ls, c))
         /\ ToSet(RemoveFirst(ls, c)) = ToSet(ls) \ {c}
<1> USE DEF Without
<1> DEFINE t == Put(ct, c, NoContent)
           r == RemoveFirst(ls, c)
<1>1. c \in Content /\ ToSet(ls) \subseteq Content
  BY DEF Typed, ToSet
<1>2. /\ t \in [Content -> ContentType] /\ t[c] = NoContent
      /\ \A d \in Content : d # c => t[d] = ct[d]
  BY <1>1, NothingTypes DEF Typed, Put
<1>3. r \in Seq(Content) /\ Injective(r) /\ ToSet(r) = ToSet(ls) \ {c}
  BY RemoveFirstProperties DEF Typed
<1> HIDE DEF t, r
<1>4. Typed(hd, cx, lw2, t, r)
  BY <1>2, <1>3 DEF Typed
<1>5. Users(hd, t, r)
  <2>1. ASSUME NEW d \in Content
        PROVE  /\ Injective(t[d].users) /\ ToSet(t[d].users) = {h \in Handle : hd[h].entry = d}
               /\ d \in ToSet(r) => t[d].status # "none"
               /\ d \notin ToSet(r) => t[d] = NoContent
               /\ ~t[d].shared => \A g, h \in Handle : hd[g].entry = d /\ hd[h].entry = d => g = h
    <3>1. CASE d = c
      <4>1. {h \in Handle : hd[h].entry = c} = {}
        BY <1>1 DEF Users
      <4>2. Injective(<<>>)
        BY DEF Injective
      <4> QED BY <1>2, <1>3, <3>1, <4>1, <4>2, NothingTypes
    <3>2. CASE d # c
      BY <1>2, <1>3, <3>2 DEF Users
    <3> QED BY <3>1, <3>2
  <2> QED BY <2>1 DEF Users
<1>6. Lows(hd, cx, lw2, t, r)
  <2>1. ASSUME NEW d \in ToSet(r) PROVE t[d].low \in Low /\ lw2[t[d].low].client = d
    <3>1. d \in ToSet(ls) /\ d # c /\ d \in Content
      BY <1>1, <1>3, <2>1
    <3>2. t[d].low = ct[d].low /\ ct[d].low \in Low /\ lw[ct[d].low].client = d
      BY <1>2, <3>1 DEF Lows
    <3>3. lw[ct[c].low].client = c
      BY DEF Lows
    <3> QED BY <3>1, <3>2, <3>3
  <2>2. ASSUME NEW l \in Low
        PROVE  /\ lw2[l].client \in Content =>
                    lw2[l].client \in ToSet(r) /\ t[lw2[l].client].low = l
               /\ Waits(cx, l) => /\ lw2[l].client = "ctx"
                                  /\ hd[cx[l].handle].entry = NULL
                                  /\ hd[cx[l].handle].told \notin {"free", "DOWNLOAD"}
               /\ cx[l].target => cx[l].handle # NULL
               /\ lw2[l].client = "ctx" => cx[l].handle # NULL
    <3>1. CASE l = ct[c].low
      <4>1. lw2[l].client = "none" /\ lw[l].client = c /\ c # "ctx"
        BY <1>1, <3>1, NothingTypes DEF Lows
      <4>2. ~Waits(cx, l)
        BY <4>1 DEF Lows
      <4> QED BY <4>1, <4>2, NothingTypes DEF Lows
    <3>2. CASE l # ct[c].low
      <4>1. lw2[l] = lw[l]
        BY <3>2
      <4>2. lw[l].client \in Content => lw[l].client # c /\ lw[l].client \in ToSet(r)
                                        /\ t[lw[l].client].low = l
        BY <1>2, <1>3, <3>2 DEF Lows
      <4> QED BY <4>1, <4>2 DEF Lows
    <3> QED BY <3>1, <3>2
  <2> QED BY <2>1, <2>2 DEF Lows
<1> QED BY <1>3, <1>4, <1>5, <1>6 DEF t, r

(* A retrieval context is migrated or goes. *)
LEMMA CtxChanges ==
  ASSUME NEW hd, NEW cx, NEW lw, NEW ct, NEW ls, NEW cx2 \in [Low -> CtxType],
         Typed(hd, cx, lw, ct, ls), Lows(hd, cx, lw, ct, ls),
         \A l \in Low : /\ Waits(cx2, l) => cx2[l] = cx[l]
                        /\ cx2[l].target => cx2[l].handle # NULL
                        /\ lw[l].client = "ctx" => cx2[l].handle # NULL
  PROVE  Typed(hd, cx2, lw, ct, ls) /\ Lows(hd, cx2, lw, ct, ls)
<1>1. \A l \in Low : Waits(cx2, l) => Waits(cx, l) /\ cx2[l] = cx[l]
  BY DEF Waits
<1>2. Lows(hd, cx2, lw, ct, ls)
  BY <1>1 DEF Lows
<1> QED BY <1>2 DEF Typed

(* A content is made, for a handle that has none.                          *)
Made(c, x, h, l, hd, cx, lw, ct, hd2, lw2) ==
  /\ x \in ContentType /\ ct[c] = NoContent
  /\ x.low = l /\ x.users = <<h>> /\ x.status # "none"
  /\ hd[h].entry = NULL /\ hd[h].told # "free" /\ \A m \in Low : Waits(cx, m) => cx[m].handle # h
  /\ lw[l].client \notin Content /\ ~Waits(cx, l)
  /\ hd2 \in [Handle -> HandleType] /\ lw2 \in [Low -> LowType]
  /\ hd2[h].entry = c /\ hd2[h].told = hd[h].told /\ \A g \in Handle \ {h} : hd2[g] = hd[g]
  /\ lw2[l].client = c /\ \A m \in Low \ {l} : lw2[m] = lw[m]

LEMMA Makes ==
  ASSUME NEW hd, NEW cx, NEW lw, NEW ct, NEW ls, NEW hd2, NEW lw2, NEW c \in Content, NEW x,
         NEW h \in Handle, NEW l \in Low,
         Typed(hd, cx, lw, ct, ls), Users(hd, ct, ls), Lows(hd, cx, lw, ct, ls),
         Made(c, x, h, l, hd, cx, lw, ct, hd2, lw2)
  PROVE  /\ Typed(hd2, cx, lw2, Put(ct, c, x), Cons(c, ls))
         /\ Users(hd2, Put(ct, c, x), Cons(c, ls))
         /\ Lows(hd2, cx, lw2, Put(ct, c, x), Cons(c, ls))
         /\ ToSet(Cons(c, ls)) = ToSet(ls) \cup {c}
<1> USE DEF Made
<1> DEFINE t == Put(ct, c, x)
           r == Cons(c, ls)
<1>1. c \notin ToSet(ls) /\ ToSet(ls) \subseteq Content
  BY NothingTypes DEF Typed, Users, ToSet
<1>2. t \in [Content -> ContentType] /\ t[c] = x /\ \A d \in Content : d # c => t[d] = ct[d]
  BY DEF Typed, Put
<1>3. r \in Seq(Content) /\ Injective(r) /\ ToSet(r) = ToSet(ls) \cup {c}
  BY <1>1, ConsProperties DEF Typed
<1> HIDE DEF t, r
<1>4. Typed(hd2, cx, lw2, t, r)
  BY <1>2, <1>3 DEF Typed
<1>5. Users(hd2, t, r)
  <2>1. ASSUME NEW d \in Content
        PROVE  /\ Injective(t[d].users) /\ ToSet(t[d].users) = {g \in Handle : hd2[g].entry = d}
               /\ d \in ToSet(r) => t[d].status # "none"
               /\ d \notin ToSet(r) => t[d] = NoContent
               /\ ~t[d].shared => \A g, k \in Handle : hd2[g].entry = d /\ hd2[k].entry = d => g = k
    <3>1. CASE d = c
      <4>1. {g \in Handle : hd[g].entry = c} = {}
        BY NothingTypes DEF Users
      <4>2. {g \in Handle : hd2[g].entry = c} = {h}
        BY <4>1
      <4>3. DOMAIN <<h>> = {1} /\ <<h>>[1] = h
        OBVIOUS
      <4>4. Injective(<<h>>) /\ ToSet(<<h>>) = {h}
        BY <4>3 DEF Injective, ToSet
      <4> QED BY <1>2, <1>3, <3>1, <4>2, <4>4
    <3>2. CASE d # c
      <4>1. \A g \in Handle : hd2[g].entry = d <=> hd[g].entry = d
        BY <3>2, NothingTypes
      <4> QED BY <1>2, <1>3, <3>2, <4>1 DEF Users
    <3> QED BY <3>1, <3>2
  <2>2. \A g \in Handle : hd2[g].told = "free" => hd2[g].entry = NULL
    BY DEF Users
  <2> QED BY <2>1, <2>2 DEF Users
<1>6. Lows(hd2, cx, lw2, t, r)
  <2>1. ASSUME NEW d \in ToSet(r) PROVE t[d].low \in Low /\ lw2[t[d].low].client = d
    <3>1. CASE d = c
      BY <1>2, <3>1
    <3>2. CASE d # c
      <4>1. d \in ToSet(ls) /\ d \in Content
        BY <1>1, <1>3, <2>1, <3>2
      <4>2. t[d].low = ct[d].low /\ ct[d].low \in Low /\ lw[ct[d].low].client = d
        BY <1>2, <3>2, <4>1 DEF Lows
      <4> QED BY <4>1, <4>2
    <3> QED BY <3>1, <3>2
  <2>2. ASSUME NEW m \in Low
        PROVE  /\ lw2[m].client \in Content =>
                    lw2[m].client \in ToSet(r) /\ t[lw2[m].client].low = m
               /\ cx[m].target => cx[m].handle # NULL
               /\ lw2[m].client = "ctx" => cx[m].handle # NULL
    <3>1. CASE m = l
      BY <1>2, <1>3, <3>1, NothingTypes DEF Lows
    <3>2. CASE m # l
      <4>1. lw[m].client \in Content => lw[m].client # c
        BY <1>1 DEF Lows
      <4> QED BY <1>2, <1>3, <3>2, <4>1 DEF Lows
    <3> QED BY <3>1, <3>2
  <2>3. ASSUME NEW m \in Low, Waits(cx, m)
        PROVE  /\ lw2[m].client = "ctx" /\ hd2[cx[m].handle].entry = NULL
               /\ hd2[cx[m].handle].told \notin {"free", "DOWNLOAD"}
    <3>1. m # l /\ cx[m].handle \in Handle \ {h}
      BY <2>3 DEF Typed, CtxType, Waits
    <3> QED BY <2>3, <3>1 DEF Lows
  <2>4. \A m, k \in Low : Waits(cx, m) /\ Waits(cx, k) /\ cx[m].handle = cx[k].handle => m = k
    BY DEF Lows
  <2> QED BY <2>1, <2>2, <2>3, <2>4 DEF Lows
<1> QED BY <1>3, <1>4, <1>5, <1>6 DEF t, r

(* A shared content gets a user. *)
Joined(c, h, hd, cx, hd2) ==
  /\ hd[h].entry = NULL /\ hd[h].told # "free" /\ \A m \in Low : Waits(cx, m) => cx[m].handle # h
  /\ hd2 \in [Handle -> HandleType]
  /\ hd2[h].entry = c /\ hd2[h].told = hd[h].told /\ \A g \in Handle \ {h} : hd2[g] = hd[g]

Added(ct, c, h) == [ct EXCEPT ![c].users = Cons(h, @)]

LEMMA Joins ==
  ASSUME NEW hd, NEW cx, NEW lw, NEW ct, NEW ls, NEW hd2, NEW c \in ToSet(ls), NEW h \in Handle,
         Typed(hd, cx, lw, ct, ls), Users(hd, ct, ls), Lows(hd, cx, lw, ct, ls),
         ct[c].shared,
         Joined(c, h, hd, cx, hd2)
  PROVE  /\ Typed(hd2, cx, lw, Added(ct, c, h), ls)
         /\ Users(hd2, Added(ct, c, h), ls)
         /\ Lows(hd2, cx, lw, Added(ct, c, h), ls)
<1> USE DEF Joined
<1> DEFINE t == Added(ct, c, h)
           u == Cons(h, ct[c].users)
<1>1. c \in Content /\ ToSet(ls) \subseteq Content
  BY DEF Typed, ToSet
<1>2. ct[c] \in ContentType /\ ct[c].users \in Seq(Handle) /\ Injective(ct[c].users)
      /\ ToSet(ct[c].users) = {g \in Handle : hd[g].entry = c}
  BY <1>1 DEF Typed, Users, ContentType
<1>3. h \notin ToSet(ct[c].users)
  BY <1>1, <1>2, NothingTypes
<1>4. u \in Seq(Handle) /\ Injective(u) /\ ToSet(u) = ToSet(ct[c].users) \cup {h}
  BY <1>2, <1>3, ConsProperties
<1>5. t = [ct EXCEPT ![c] = [ct[c] EXCEPT !.users = u]]
  BY <1>1 DEF Typed, Added
<1> HIDE DEF t, u
<1>6. /\ t \in [Content -> ContentType] /\ t[c] \in ContentType /\ t[c].users = u
      /\ t[c].low = ct[c].low /\ t[c].status = ct[c].status /\ t[c].shared
      /\ \A d \in Content : d # c => t[d] = ct[d]
  BY <1>1, <1>2, <1>4, <1>5 DEF Typed, ContentType
<1>7. Typed(hd2, cx, lw, t, ls)
  BY <1>6 DEF Typed
<1>8. Users(hd2, t, ls)
  <2>1. ASSUME NEW d \in Content
        PROVE  /\ Injective(t[d].users) /\ ToSet(t[d].users) = {g \in Handle : hd2[g].entry = d}
               /\ d \in ToSet(ls) => t[d].status # "none"
               /\ d \notin ToSet(ls) => t[d] = NoContent
               /\ ~t[d].shared => \A g, k \in Handle : hd2[g].entry = d /\ hd2[k].entry = d => g = k
    <3>1. CASE d = c
      <4>1. {g \in Handle : hd2[g].entry = c} = {g \in Handle : hd[g].entry = c} \cup {h}
        OBVIOUS
      <4> QED BY <1>1, <1>2, <1>4, <1>6, <3>1, <4>1 DEF Users
    <3>2. CASE d # c
      <4>1. \A g \in Handle : hd2[g].entry = d <=> hd[g].entry = d
        BY <3>2, NothingTypes
      <4> QED BY <1>6, <3>2, <4>1 DEF Users
    <3> QED BY <3>1, <3>2
  <2>2. \A g \in Handle : hd2[g].told = "free" => hd2[g].entry = NULL
    BY DEF Users
  <2> QED BY <2>1, <2>2 DEF Users
<1>9. Lows(hd2, cx, lw, t, ls)
  <2>1. \A d \in Content : t[d].low = ct[d].low
    BY <1>6
  <2>3. ASSUME NEW m \in Low, Waits(cx, m)
        PROVE  /\ lw[m].client = "ctx" /\ hd2[cx[m].handle].entry = NULL
               /\ hd2[cx[m].handle].told \notin {"free", "DOWNLOAD"}
    <3>1. cx[m].handle \in Handle \ {h}
      BY <2>3 DEF Typed, CtxType, Waits
    <3> QED BY <2>3, <3>1 DEF Lows
  <2>4. \A d \in ToSet(ls) : t[d].low \in Low /\ lw[t[d].low].client = d
    BY <1>1, <2>1 DEF Lows
  <2>5. \A m \in Low : lw[m].client \in Content => lw[m].client \in ToSet(ls) /\ t[lw[m].client].low = m
    BY <2>1 DEF Lows
  <2> QED BY <2>3, <2>4, <2>5 DEF Lows
<1> QED BY <1>7, <1>8, <1>9 DEF t

(* A user leaves its content for another one. *)
LEMMA Leaves ==
  ASSUME NEW h \in Handle, NEW hd2 \in [Handle -> HandleType],
         Typed(handle, ctx, low, content, list), Users(handle, content, list),
         Lows(handle, ctx, low, content, list),
         hd2[h].entry = NULL, hd2[h].told = handle[h].told, handle[h].entry # NULL,
         \A g \in Handle \ {h} : hd2[g] = handle[g]
  PROVE  /\ Typed(hd2, ctx, low, RemoveUsers({h}), list)
         /\ Users(hd2, RemoveUsers({h}), list)
         /\ Lows(hd2, ctx, low, RemoveUsers({h}), list)
         /\ \A l \in Low : Waits(ctx, l) => ctx[l].handle # h
<1> DEFINE H == {h}
           ct == RemoveUsers(H)
<1>1. content \in [Content -> ContentType] /\ (\A c \in Content : Injective(content[c].users))
      /\ H \in SUBSET Handle
  BY DEF Typed, Users
<1> HIDE DEF ct, H
<1>2. /\ ct \in [Content -> ContentType]
      /\ \A c \in Content :
           /\ Injective(ct[c].users) /\ ToSet(ct[c].users) = ToSet(content[c].users) \ {h}
           /\ ct[c].low = content[c].low /\ ct[c].status = content[c].status
           /\ ct[c].shared = content[c].shared
           /\ content[c] = NoContent => ct[c] = NoContent
  BY <1>1, RemoveUsersProperties DEF ct, H
<1>3. Typed(hd2, ctx, low, ct, list)
  BY <1>2 DEF Typed
<1>4. Users(hd2, ct, list)
  <2>1. ASSUME NEW c \in Content
        PROVE  /\ ToSet(ct[c].users) = {g \in Handle : hd2[g].entry = c}
               /\ c \in ToSet(list) => ct[c].status # "none"
               /\ c \notin ToSet(list) => ct[c] = NoContent
               /\ ~ct[c].shared => \A g, k \in Handle : hd2[g].entry = c /\ hd2[k].entry = c => g = k
    <3>1. {g \in Handle : hd2[g].entry = c} = {g \in Handle : handle[g].entry = c} \ {h}
      BY NothingTypes
    <3>2. ToSet(ct[c].users) = {g \in Handle : hd2[g].entry = c}
      BY <1>2, <3>1 DEF Users
    <3>3. ASSUME ~ct[c].shared, NEW g \in Handle, NEW k \in Handle, hd2[g].entry = c, hd2[k].entry = c
          PROVE  g = k
      <4>1. handle[g].entry = c /\ handle[k].entry = c /\ ~content[c].shared
        BY <1>2, <3>1, <3>3
      <4> QED BY <4>1 DEF Users
    <3>4. (c \in ToSet(list) => ct[c].status # "none") /\ (c \notin ToSet(list) => ct[c] = NoContent)
      BY <1>2 DEF Users
    <3> QED BY <3>2, <3>3, <3>4
  <2>2. \A g \in Handle : hd2[g].told = "free" => hd2[g].entry = NULL
    BY DEF Users
  <2> QED BY <1>2, <2>1, <2>2 DEF Users
<1>5. \A l \in Low : Waits(ctx, l) => ctx[l].handle \in Handle \ {h}
  BY DEF Typed, CtxType, Waits, Lows
<1>6. Lows(hd2, ctx, low, ct, list)
  <2>1. \A c \in ToSet(list) : c \in Content
    BY DEF Typed, ToSet
  <2> QED BY <1>2, <1>5, <2>1 DEF Lows
<1> QED BY <1>3, <1>4, <1>5, <1>6 DEF ct, H

(* A handle that has no content and waits for none goes. *)
LEMMA Goes ==
  ASSUME NEW hd, NEW cx, NEW lw, NEW ct, NEW ls, NEW h \in Handle, NEW hd2,
         Typed(hd, cx, lw, ct, ls), Users(hd, ct, ls), Lows(hd, cx, lw, ct, ls),
         hd[h].entry = NULL, \A l \in Low : Waits(cx, l) => cx[l].handle # h,
         hd2 \in [Handle -> HandleType], hd2[h].entry = NULL,
         \A g \in Handle \ {h} : hd2[g] = hd[g]
  PROVE  Typed(hd2, cx, lw, ct, ls) /\ Users(hd2, ct, ls) /\ Lows(hd2, cx, lw, ct, ls)
<1>1. \A g \in Handle : hd2[g].entry = hd[g].entry
  OBVIOUS
<1>2. Users(hd2, ct, ls)
  BY <1>1 DEF Users
<1>3. \A l \in Low : Waits(cx, l) => cx[l].handle \in Handle \ {h}
  BY DEF Typed, CtxType, Waits
<1>4. Lows(hd2, cx, lw, ct, ls)
  BY <1>3 DEF Lows
<1> QED BY <1>2, <1>4 DEF Typed

(* A handle gets a retrieval context and a low-level handle. *)
Retrieved(h, l, hd, cx, lw, hd2, cx2, lw2) ==
  /\ hd[h].told = "free" /\ lw[l] = NoLow /\ cx[l] = NoCtx
  /\ hd2 \in [Handle -> HandleType] /\ cx2 \in [Low -> CtxType] /\ lw2 \in [Low -> LowType]
  /\ hd2[h].entry = hd[h].entry /\ hd2[h].told = "waiting" /\ \A g \in Handle \ {h} : hd2[g] = hd[g]
  /\ cx2[l].handle = h /\ ~cx2[l].target /\ \A m \in Low \ {l} : cx2[m] = cx[m]
  /\ lw2[l].client = "ctx" /\ \A m \in Low \ {l} : lw2[m] = lw[m]

LEMMA Retrieves ==
  ASSUME NEW hd, NEW cx, NEW lw, NEW ct, NEW ls, NEW h \in Handle, NEW l \in Low, NEW hd2, NEW cx2, NEW lw2,
         Typed(hd, cx, lw, ct, ls), Users(hd, ct, ls), Lows(hd, cx, lw, ct, ls),
         Retrieved(h, l, hd, cx, lw, hd2, cx2, lw2)
  PROVE  Typed(hd2, cx2, lw2, ct, ls) /\ Users(hd2, ct, ls) /\ Lows(hd2, cx2, lw2, ct, ls)
<1> USE DEF Retrieved
<1>1. (\A g \in Handle : hd2[g].entry = hd[g].entry) /\ hd[h].entry = NULL
  BY DEF Users
<1>2. Users(hd2, ct, ls)
  BY <1>1 DEF Users
<1>3. ASSUME NEW m \in Low \ {l}, Waits(cx2, m)
      PROVE  Waits(cx, m) /\ cx2[m] = cx[m] /\ cx[m].handle \in Handle \ {h}
  BY <1>3 DEF Typed, CtxType, Waits, Lows
<1>4. Lows(hd2, cx2, lw2, ct, ls)
  <2>1. \A c \in ToSet(ls) : ct[c].low \in Low /\ lw2[ct[c].low].client = c
    <3>1. \A c \in ToSet(ls) : c \in Content /\ ct[c].low \in Low /\ lw[ct[c].low].client = c
      BY DEF Typed, ToSet, Lows
    <3> QED BY <3>1, NothingTypes
  <2>2. \A m \in Low : Waits(cx2, m) => /\ lw2[m].client = "ctx"
                                        /\ hd2[cx2[m].handle].entry = NULL
                                        /\ hd2[cx2[m].handle].told \notin {"free", "DOWNLOAD"}
    BY <1>1, <1>3 DEF Lows
  <2>3. \A m \in Low : lw2[m].client \in Content => lw2[m].client \in ToSet(ls)
                                                    /\ ct[lw2[m].client].low = m
    BY NothingTypes DEF Lows
  <2>4. \A m \in Low : (cx2[m].target => cx2[m].handle # NULL)
                       /\ (lw2[m].client = "ctx" => cx2[m].handle # NULL)
    BY NothingTypes DEF Lows
  <2>5. \A m, k \in Low : Waits(cx2, m) /\ Waits(cx2, k) /\ cx2[m].handle = cx2[k].handle => m = k
    BY <1>3 DEF Lows
  <2> QED BY <2>1, <2>2, <2>3, <2>4, <2>5 DEF Lows
<1> QED BY <1>2, <1>4 DEF Typed

-----------------------------------------------------------------------------
(* Steps. *)

LEMMA NoFrames ==
  ASSUME NEW hd, NEW cx, NEW lw, NEW ls, \A l \in Low : ~cx[l].target
  PROVE  Frames(<<>>, hd, cx, lw, ls)
<1>1. <<>> \in Seq(Frame) /\ Len(<<>>) = 0
  OBVIOUS
<1>2. \A i \in 1..Len(<<>>) : FALSE
  BY <1>1
<1> QED BY <1>1, <1>2 DEF Frames

LEMMA Alone ==
  ASSUME NEW st, NEW hd, NEW cx, NEW lw, NEW ls, Frames(st, hd, cx, lw, ls),
         st = <<>> \/ Head(st).at \in {"release", "sweep"}
  PROVE  /\ \A l \in Low : ~cx[l].target
         /\ st # <<>> => Len(st) = 1 /\ Tail(st) = <<>>
<1>1. CASE st = <<>>
  BY <1>1 DEF Frames
<1>2. CASE st # <<>>
  <2>1. Len(st) \in Nat /\ Len(st) >= 1 /\ Head(st) = st[1]
    BY <1>2 DEF Frames
  <2>2. 1 \in 1..Len(st) /\ st[1].at \in Deepest
    BY <1>2, <2>1 DEF Deepest
  <2>3. Len(st) = 1
    BY <2>2 DEF Frames
  <2>4. Bottom(st).at \notin OfCtx
    BY <1>2, <2>1, <2>3 DEF Bottom, OfCtx
  <2>5. st \in Seq(Frame)
    BY DEF Frames
  <2> DEFINE t == Tail(st)
  <2>7. t \in Seq(Frame) /\ Len(t) = 0
    BY <1>2, <2>3, <2>5, TailFrames
  <2> HIDE DEF t
  <2>6. t = <<>>
    BY <2>7
  <2> QED BY <2>3, <2>4, <2>6 DEF Frames, t
<1> QED BY <1>1, <1>2

LEMMA RetrieveStep ==
  ASSUME Tied, NEW h \in Handle, NEW owner \in Content \cup Window, hlcache_handle_retrieve(h, owner)
  PROVE  Tied'
<1>1. PICK l \in UnusedLow, x \in Source :
        /\ low' = [low EXCEPT ![l] = [source |-> x, told |-> "INIT", client |-> "ctx"]]
        /\ ctx' = [ctx EXCEPT ![l].handle = h]
  BY Zenon DEF hlcache_handle_retrieve
<1>2. /\ handle[h].told = "free" /\ UNCHANGED <<content, list, stack>>
      /\ handle' = [handle EXCEPT ![h] = [@ EXCEPT !.owner = owner, !.told = "waiting"]]
      /\ l \in Low /\ low[l] = NoLow /\ ctx[l] = NoCtx
  BY DEF hlcache_handle_retrieve, UnusedLow
<1>3. handle \in [Handle -> HandleType] /\ ctx \in [Low -> CtxType] /\ low \in [Low -> LowType]
  BY DEF Tied, Typed
<1>4. /\ handle' \in [Handle -> HandleType] /\ handle'[h].entry = handle[h].entry
      /\ handle'[h].told = "waiting" /\ \A g \in Handle \ {h} : handle'[g] = handle[g]
  BY <1>2, <1>3 DEF HandleType
<1>5. /\ ctx' \in [Low -> CtxType] /\ ctx'[l].handle = h /\ ctx'[l].target = ctx[l].target
      /\ ~ctx'[l].target
      /\ \A m \in Low \ {l} : ctx'[m] = ctx[m]
  BY <1>1, <1>2, <1>3, NothingTypes DEF CtxType
<1>6. /\ low' \in [Low -> LowType] /\ low'[l].client = "ctx" /\ \A m \in Low \ {l} : low'[m] = low[m]
  BY <1>1, <1>2, <1>3 DEF LowType
<1>7. /\ Typed(handle', ctx', low', content, list) /\ Users(handle', content, list)
      /\ Lows(handle', ctx', low', content, list)
  <2>1. /\ Typed(handle, ctx, low, content, list) /\ Users(handle, content, list)
        /\ Lows(handle, ctx, low, content, list)
    BY DEF Tied
  <2>2. Retrieved(h, l, handle, ctx, low, handle', ctx', low')
    BY <1>2, <1>4, <1>5, <1>6 DEF Retrieved
  <2>3. l \in Low
    BY <1>2
  <2> QED BY <2>1, <2>2, <2>3, Retrieves, Zenon
<1>8. \A m \in Low : ctx'[m].target = ctx[m].target /\ (ctx[m].target => low'[m].client = low[m].client)
  BY <1>5, <1>6, NothingTypes
<1>9. stack # <<>> /\ Download(Head(stack)) => handle'[Head(stack).h] = handle[Head(stack).h]
  <2> SUFFICES ASSUME stack # <<>>, Download(Head(stack)) PROVE handle'[Head(stack).h] = handle[Head(stack).h]
    OBVIOUS
  <2>1. handle[Head(stack).h].told = "DOWNLOAD"
    BY DEF Tied, Frames, Gives
  <2>2. Head(stack) \in Frame
    BY TailFrames DEF Tied, Frames
  <2>3. Head(stack).h \in Handle
    BY <2>2, FrameFields DEF Download
  <2> QED BY <1>2, <1>4, <2>1, <2>3
<1>10. Frames(stack, handle', ctx', low', list)
  BY <1>8, <1>9, FramesKept DEF Tied
<1> QED BY <1>2, <1>7, <1>10 DEF Tied

LEMMA ReleaseStep ==
  ASSUME Tied, NEW h \in Handle, Release(h)
  PROVE  Tied'
<1> DEFINE H == {h}
<1>1. H \in SUBSET Handle /\ hlcache_handle_release(H) /\ UNCHANGED <<list, stack>>
      /\ (stack = <<>> \/ (At("client") /\ h \in MustRelease))
  BY DEF Release, Idle
<1> HIDE DEF H
<1>2. /\ handle' = Freed(H) /\ low' = ReleaseLow(Nascent(H)) /\ ctx' = DropCtx(Nascent(H))
      /\ content' = RemoveUsers(H)
  BY <1>1 DEF hlcache_handle_release, Freed
<1>3. /\ Typed(handle', ctx', low', content', list) /\ Users(handle', content', list)
      /\ Lows(handle', ctx', low', content', list)
      /\ \A l \in Low : ctx'[l].target = ctx[l].target
                        /\ (ctx[l].target => low'[l].client = low[l].client)
  BY <1>1, <1>2, Releases DEF Tied
<1>4. ~(stack # <<>> /\ Download(Head(stack)))
  BY <1>1 DEF At, MustRelease, Download
<1>5. Frames(stack, handle', ctx', low', list)
  BY <1>3, <1>4, FramesKept DEF Tied
<1> QED BY <1>1, <1>3, <1>5 DEF Tied

LEMMA ReleaseAbortedStep ==
  ASSUME Tied, ReleaseAborted
  PROVE  Tied'
<1> DEFINE H == {Head(stack).h}
<1>1. hlcache_handle_release(H) /\ stack' = Tail(stack) /\ UNCHANGED list
      /\ stack # <<>> /\ Head(stack).at = "release"
  BY DEF ReleaseAborted, At
<1>2. Head(stack) \in Frame
  BY <1>1, TailFrames DEF Tied, Frames
<1>3. H \in SUBSET Handle
  BY <1>1, <1>2, FrameFields
<1> HIDE DEF H
<1>4. /\ handle' = Freed(H) /\ low' = ReleaseLow(Nascent(H)) /\ ctx' = DropCtx(Nascent(H))
      /\ content' = RemoveUsers(H)
  BY <1>1 DEF hlcache_handle_release, Freed
<1>5. /\ Typed(handle', ctx', low', content', list) /\ Users(handle', content', list)
      /\ Lows(handle', ctx', low', content', list)
      /\ \A l \in Low : ctx'[l].target = ctx[l].target
  BY <1>3, <1>4, Releases DEF Tied
<1>6. (\A l \in Low : ~ctx[l].target) /\ stack' = <<>>
  BY <1>1, Alone DEF Tied
<1>7. Frames(stack', handle', ctx', low', list')
  BY <1>5, <1>6, NoFrames
<1> QED BY <1>1, <1>5, <1>7 DEF Tied

Entered(hd, h, c) == [hd EXCEPT ![h].entry = c]

LEMMA Enters ==
  ASSUME NEW hd \in [Handle -> HandleType], NEW h \in Handle, NEW c \in Content \cup {NULL}
  PROVE  /\ Entered(hd, h, c) \in [Handle -> HandleType]
         /\ Entered(hd, h, c)[h].entry = c /\ Entered(hd, h, c)[h].told = hd[h].told
         /\ Entered(hd, h, c)[h].owner = hd[h].owner
         /\ \A g \in Handle \ {h} : Entered(hd, h, c)[g] = hd[g]
<1>1. hd[h] \in HandleType
  OBVIOUS
<1>2. [hd[h] EXCEPT !.entry = c] \in HandleType
  BY <1>1 DEF HandleType
<1>3. [hd[h] EXCEPT !.entry = c].entry = c /\ [hd[h] EXCEPT !.entry = c].told = hd[h].told
      /\ [hd[h] EXCEPT !.entry = c].owner = hd[h].owner
  BY <1>1 DEF HandleType
<1>4. Entered(hd, h, c) = [hd EXCEPT ![h] = [hd[h] EXCEPT !.entry = c]]
  BY DEF Entered
<1> DEFINE x == [hd[h] EXCEPT !.entry = c]
<1> HIDE DEF x
<1>5. /\ Entered(hd, h, c) = [hd EXCEPT ![h] = x] /\ x \in HandleType
      /\ x.entry = c /\ x.told = hd[h].told /\ x.owner = hd[h].owner
  BY <1>2, <1>3, <1>4 DEF x
<1> QED BY <1>5

LEMMA CatchUpType ==
  ASSUME NEW status \in {"LOADING", "READY", "DONE"}
  PROVE  CatchUpOf(status) \in Seq({"LOADING", "READY", "DONE"})
<1>1. <<"LOADING">> \in Seq({"LOADING", "READY", "DONE"})
  OBVIOUS
<1>2. <<"LOADING", "READY">> \in Seq({"LOADING", "READY", "DONE"})
  OBVIOUS
<1>3. <<"LOADING", "READY", "DONE">> \in Seq({"LOADING", "READY", "DONE"})
  OBVIOUS
<1>4. CASE status = "LOADING"
  BY <1>1, <1>4, Zenon DEF CatchUpOf
<1>5. CASE status = "READY"
  BY <1>2, <1>5 DEF CatchUpOf
<1>6. CASE status = "DONE"
  BY <1>3, <1>6 DEF CatchUpOf
<1> QED BY <1>4, <1>5, <1>6

(* A context that waits for a type, while no call is made. *)
Targeted(cx2, l) == cx2 = [ctx EXCEPT ![l].target = TRUE]

LEMMA WaitingCtx ==
  ASSUME Tied, Idle, NEW l \in Low, low[l].client = "ctx", NEW cx2, Targeted(cx2, l)
  PROVE  /\ ctx[l].handle \in Handle /\ Waits(ctx, l) /\ \A m \in Low : ~ctx[m].target
         /\ handle[ctx[l].handle].entry = NULL /\ handle[ctx[l].handle].told \notin {"free", "DOWNLOAD"}
         /\ cx2[l].handle = ctx[l].handle /\ \A m \in Low : cx2[m].target = (m = l)
         /\ \A m \in Low : Waits(cx2, m) => cx2[m].handle # ctx[l].handle
         /\ Typed(handle, cx2, low, content, list) /\ Lows(handle, cx2, low, content, list)
<1>1. \A m \in Low : ~ctx[m].target
  BY Alone DEF Tied, Idle
<1>2. ctx \in [Low -> CtxType] /\ \A m \in Low : ctx[m].target \in BOOLEAN
                                                /\ ctx[m].handle \in Handle \cup {NULL}
  BY DEF Tied, Typed, CtxType
<1>3. ctx[l].handle \in Handle /\ Waits(ctx, l)
  BY <1>1, <1>2 DEF Tied, Lows, Waits
<1>4. handle[ctx[l].handle].entry = NULL /\ handle[ctx[l].handle].told \notin {"free", "DOWNLOAD"}
  BY <1>3 DEF Tied, Lows
<1>5. /\ cx2 \in [Low -> CtxType] /\ cx2[l].handle = ctx[l].handle /\ cx2[l].target = TRUE
      /\ \A m \in Low : m # l => cx2[m] = ctx[m]
      /\ \A m \in Low : cx2[m].handle = ctx[m].handle
  BY <1>2 DEF CtxType, Targeted
<1>6. \A m \in Low : cx2[m].target = (m = l)
  BY <1>1, <1>2, <1>5
<1>7. \A m \in Low : Waits(cx2, m) => m # l /\ Waits(ctx, m) /\ cx2[m] = ctx[m]
  BY <1>5 DEF Waits
<1>8. \A m \in Low : Waits(cx2, m) => cx2[m].handle # ctx[l].handle
  BY <1>3, <1>7 DEF Tied, Lows
<1>9. Typed(handle, ctx, low, content, list) /\ Lows(handle, ctx, low, content, list)
  BY DEF Tied
<1>10. \A m \in Low : /\ Waits(cx2, m) => cx2[m] = ctx[m]
                      /\ cx2[m].target => cx2[m].handle # NULL
                      /\ low[m].client = "ctx" => cx2[m].handle # NULL
  <2>1. \A m \in Low : low[m].client = "ctx" => ctx[m].handle # NULL
    BY <1>9 DEF Lows
  <2> QED BY <1>3, <1>5, <1>6, <1>7, <2>1, NothingTypes, ZenonT(40)
<1>11. Typed(handle, cx2, low, content, list) /\ Lows(handle, cx2, low, content, list)
  BY <1>5, <1>9, <1>10, CtxChanges
<1> QED BY <1>1, <1>3, <1>4, <1>5, <1>6, <1>8, <1>11

LEMMA JoinStep ==
  ASSUME Tied, Idle, NEW l \in Low, low[l].client = "ctx", NEW c \in Suitable(l),
         Targeted(ctx', l),
         low' = [low EXCEPT ![l] = NoLow],
         content' = [content EXCEPT ![c].users = Cons(ctx[l].handle, @)],
         handle' = [handle EXCEPT ![ctx[l].handle].entry = c],
         stack' = <<CatchUp(l, CatchUpOf(content[c].status))>>,
         UNCHANGED list
  PROVE  Tied'
<1> DEFINE h == ctx[l].handle
<1>1. /\ h \in Handle /\ handle[h].entry = NULL /\ handle[h].told \notin {"free", "DOWNLOAD"}
      /\ ctx'[l].handle = h /\ \A m \in Low : ctx'[m].target = (m = l)
      /\ \A m \in Low : Waits(ctx', m) => ctx'[m].handle # h
      /\ Typed(handle, ctx', low, content, list) /\ Lows(handle, ctx', low, content, list)
  BY WaitingCtx
<1>2. c \in ToSet(list) /\ c \in Content /\ content[c].shared /\ content[c].status # "ERROR"
  BY DEF Suitable, Tied, Typed, ToSet
<1> HIDE DEF h
<1>3. low' \in [Low -> LowType] /\ low'[l].client = "none" /\ \A m \in Low \ {l} : low'[m] = low[m]
  BY NothingTypes DEF Tied, Typed
<1>4. ~Waits(ctx', l) /\ low[l].client \notin Content
  BY <1>1, NothingTypes DEF Waits
<1>5. Typed(handle, ctx', low', content, list) /\ Lows(handle, ctx', low', content, list)
  <2>1. \A m \in Low : \/ low'[m].client = low[m].client
                       \/ /\ low[m].client \notin Content /\ ~Waits(ctx', m)
                          /\ low'[m].client \in {"none", "download"}
    BY <1>3, <1>4
  <2> QED BY <1>1, <1>3, <2>1, LowChanges
<1>6. Joined(c, h, handle, ctx', handle')
  <2>1. handle \in [Handle -> HandleType] /\ handle' = Entered(handle, h, c)
    BY DEF Tied, Typed, h, Entered
  <2>2. /\ handle' \in [Handle -> HandleType] /\ handle'[h].entry = c /\ handle'[h].told = handle[h].told
        /\ \A g \in Handle \ {h} : handle'[g] = handle[g]
    <3>1. c \in Content \cup {NULL} /\ h \in Handle /\ handle \in [Handle -> HandleType]
      BY <1>1, <1>2, <2>1
    <3>2. /\ Entered(handle, h, c) \in [Handle -> HandleType] /\ Entered(handle, h, c)[h].entry = c
          /\ Entered(handle, h, c)[h].told = handle[h].told
          /\ \A g \in Handle \ {h} : Entered(handle, h, c)[g] = handle[g]
      BY <3>1, Enters, SMT
    <3> QED BY <2>1, <3>2, Zenon
  <2> QED BY <1>1, <2>2 DEF Joined
<1>7. /\ Typed(handle', ctx', low', content', list) /\ Users(handle', content', list)
      /\ Lows(handle', ctx', low', content', list)
  <2>1. content' = Added(content, c, h) /\ Users(handle, content, list)
    BY DEF h, Tied, Added
  <2>2. /\ Typed(handle', ctx', low', Added(content, c, h), list)
        /\ Users(handle', Added(content, c, h), list)
        /\ Lows(handle', ctx', low', Added(content, c, h), list)
    BY <1>1, <1>2, <1>5, <1>6, <2>1, Joins, Zenon
  <2> QED BY <2>1, <2>2
<1> DEFINE f == CatchUp(l, CatchUpOf(content[c].status))
<1>8. f \in Frame /\ f.at = "catch_up" /\ f.l = l
  <2>1. content[c].status \in {"LOADING", "READY", "DONE"}
    BY <1>2 DEF Tied, Typed, ContentType, Statuses, Users
  <2>2. CatchUpOf(content[c].status) \in Seq({"LOADING", "READY", "DONE"})
    BY <2>1, CatchUpType
  <2> QED BY <2>2, FrameTypes DEF CatchUp
<1> HIDE DEF f
<1>9. Frames(<<f>>, handle', ctx', low', list)
  <2>1. FrameTied(f, ctx', low', list) /\ ~Download(f)
    BY <1>1, <1>3, <1>8 DEF FrameTied, Download, OfCtx, OfContent
  <2>2. \A m \in Low : ctx'[m].target => f.at \in OfCtx /\ f.l = m
    BY <1>1, <1>8 DEF OfCtx
  <2> QED BY <1>8, <2>1, <2>2, FramesAlone
<1> QED BY <1>7, <1>9 DEF Tied, f

LEMMA MakeStep ==
  ASSUME Tied, Idle, NEW l \in Low, low[l].client = "ctx", NEW c \in UnusedContent, NEW shared \in BOOLEAN,
         NEW again \in {"HEADERS", "DATA", "DONE"},
         Targeted(ctx', l),
         content' = Put(content, c, [low |-> l, status |-> "LOADING", shared |-> shared,
                                     locked |-> FALSE, users |-> <<ctx[l].handle>>]),
         low' = [low EXCEPT ![l] = [@ EXCEPT !.client = c, !.told = again]],
         handle' = Entered(handle, ctx[l].handle, c),
         list' = Cons(c, list),
         stack' = <<CatchUp(l, CatchUpOf("LOADING"))>>
  PROVE  Tied'
<1> DEFINE h == ctx[l].handle
           x == [low |-> l, status |-> "LOADING", shared |-> shared, locked |-> FALSE, users |-> <<h>>]
<1>1. /\ h \in Handle /\ handle[h].entry = NULL /\ handle[h].told \notin {"free", "DOWNLOAD"}
      /\ ctx'[l].handle = h /\ \A m \in Low : ctx'[m].target = (m = l)
      /\ \A m \in Low : Waits(ctx', m) => ctx'[m].handle # h
      /\ Typed(handle, ctx', low, content, list) /\ Lows(handle, ctx', low, content, list)
  BY WaitingCtx
<1>2. c \in Content /\ content[c] = NoContent
  BY DEF UnusedContent
<1>3. x \in ContentType /\ x.low = l /\ x.users = <<h>> /\ x.status # "none"
  <2>1. <<h>> \in Seq(Handle)
    BY <1>1
  <2> QED BY <2>1 DEF ContentType, Statuses
<1>4. content' = Put(content, c, x) /\ handle' = Entered(handle, h, c)
  OBVIOUS
<1> HIDE DEF h, x
<1>5. low' \in [Low -> LowType] /\ low'[l].client = c /\ \A m \in Low \ {l} : low'[m] = low[m]
  <2>1. low \in [Low -> LowType]
    BY DEF Tied, Typed
  <2>2. low[l] \in LowType
    BY <2>1
  <2>3. [low[l] EXCEPT !.client = c, !.told = again] \in LowType
    BY <1>2, <2>2 DEF LowType
  <2>4. [low[l] EXCEPT !.client = c, !.told = again].client = c
    BY <2>2 DEF LowType
  <2> QED BY <2>1, <2>3, <2>4
<1>6. ~Waits(ctx', l) /\ low[l].client \notin Content
  BY <1>1, NothingTypes DEF Waits
<1>7. /\ handle' \in [Handle -> HandleType] /\ handle'[h].entry = c /\ handle'[h].told = handle[h].told
      /\ \A g \in Handle \ {h} : handle'[g] = handle[g]
  <2>1. c \in Content \cup {NULL} /\ h \in Handle /\ handle \in [Handle -> HandleType]
    BY <1>1, <1>2 DEF Tied, Typed
  <2>2. /\ Entered(handle, h, c) \in [Handle -> HandleType] /\ Entered(handle, h, c)[h].entry = c
        /\ Entered(handle, h, c)[h].told = handle[h].told
        /\ \A g \in Handle \ {h} : Entered(handle, h, c)[g] = handle[g]
    BY <2>1, Enters, SMT
  <2> QED BY <1>4, <2>2, Zenon
<1>8. Made(c, x, h, l, handle, ctx', low, content, handle', low')
  BY <1>1, <1>2, <1>3, <1>5, <1>6, <1>7 DEF Made
<1>9. /\ Typed(handle', ctx', low', content', list') /\ Users(handle', content', list')
      /\ Lows(handle', ctx', low', content', list')
  <2>1. Users(handle, content, list)
    BY DEF Tied
  <2> QED BY <1>1, <1>2, <1>4, <1>8, <2>1, Makes
<1> DEFINE f == CatchUp(l, CatchUpOf("LOADING"))
<1>10. f \in Frame /\ f.at = "catch_up" /\ f.l = l
  BY CatchUpType, FrameTypes DEF CatchUp
<1> HIDE DEF f
<1>11. Frames(<<f>>, handle', ctx', low', list')
  <2>1. FrameTied(f, ctx', low', list') /\ ~Download(f)
    BY <1>1, <1>2, <1>5, <1>10, NothingTypes, ZenonT(40) DEF FrameTied, Download, OfCtx, OfContent
  <2>2. \A m \in Low : ctx'[m].target => f.at \in OfCtx /\ f.l = m
    BY <1>1, <1>10 DEF OfCtx
  <2> QED BY <1>10, <2>1, <2>2, FramesAlone
<1> QED BY <1>9, <1>11 DEF Tied, f

(* A low-level handle gets somewhere. *)
LowTo(lw, l, told) == [lw EXCEPT ![l].told = told]

LEMMA LowTold ==
  ASSUME NEW lw \in [Low -> LowType], NEW l \in Low, NEW told \in {"HEADERS", "DATA", "DONE"}
  PROVE  /\ LowTo(lw, l, told) \in [Low -> LowType]
         /\ \A m \in Low : LowTo(lw, l, told)[m].client = lw[m].client
BY DEF LowType, LowTo

LEMMA RefuseStep ==
  ASSUME Tied, Idle, NEW l \in Low, low[l].client = "ctx", NEW told \in {"HEADERS", "DATA", "DONE"},
         Targeted(ctx', l),
         low' = LowTo(low, l, told),
         stack' = Cons(Client(ctx[l].handle, "ERROR"), <<Migrated(l, "refused")>>),
         handle' = ToldTo(handle, ctx[l].handle, "ERROR"),
         UNCHANGED <<content, list>>
  PROVE  Tied'
<1> DEFINE h == ctx[l].handle
           f == Client(h, "ERROR")
           g == Migrated(l, "refused")
<1>1. /\ h \in Handle /\ ctx'[l].handle = h /\ \A m \in Low : ctx'[m].target = (m = l)
      /\ Typed(handle, ctx', low, content, list) /\ Lows(handle, ctx', low, content, list)
  BY WaitingCtx
<1>2. low' \in [Low -> LowType] /\ \A m \in Low : low'[m].client = low[m].client
  <2>1. low \in [Low -> LowType]
    BY DEF Tied, Typed
  <2> QED BY <2>1, LowTold
<1>3. stack' = Cons(f, <<g>>) /\ handle' = ToldTo(handle, h, "ERROR")
  OBVIOUS
<1>4. f \in Frame /\ f.at = "client" /\ ~Download(f) /\ g \in Frame /\ g.at = "refused" /\ g.l = l
  BY <1>1, FrameTypes DEF Messages, Client, Migrated, Download
<1> HIDE DEF f, g, h
<1>5. Typed(handle, ctx', low', content, list) /\ Lows(handle, ctx', low', content, list)
  BY <1>1, <1>2, LowKept
<1>6. /\ Typed(handle', ctx', low', content, list) /\ Users(handle', content, list)
      /\ Lows(handle', ctx', low', content, list)
  <2>1. Users(handle, content, list) /\ "ERROR" \in Messages
    BY DEF Tied, Messages
  <2> QED BY <1>1, <1>3, <1>5, <2>1, HandleTold
<1>7. Frames(<<g>>, handle', ctx', low', list)
  <2>1. FrameTied(g, ctx', low', list) /\ ~Download(g)
    BY <1>1, <1>2, <1>4 DEF FrameTied, Download, OfCtx, OfContent
  <2>2. \A m \in Low : ctx'[m].target => g.at \in OfCtx /\ g.l = m
    BY <1>1, <1>4 DEF OfCtx
  <2> QED BY <1>4, <2>1, <2>2, FramesAlone
<1>8. Frames(Cons(f, <<g>>), handle', ctx', low', list)
  <2>1. Head(<<g>>) = g
    OBVIOUS
  <2>2. FrameTied(f, ctx', low', list) /\ f.at \notin Deepest
    BY <1>4 DEF FrameTied, OfCtx, OfContent, Deepest
  <2>3. <<g>> # <<>> => ~Download(Head(<<g>>))
    BY <1>4, <2>1 DEF Download
  <2> QED BY <1>4, <1>7, <2>2, <2>3, Pushed
<1> QED BY <1>3, <1>6, <1>8 DEF Tied

LEMMA TwoFrames ==
  ASSUME NEW S, NEW a \in S, NEW b \in S
  PROVE  /\ Cons(a, <<b>>) \in Seq(S) /\ Cons(a, <<b>>) # <<>> /\ Head(Cons(a, <<b>>)) = a
         /\ Cons(a, <<b>>)[1] = a /\ Len(Cons(a, <<b>>)) = 2 /\ Cons(a, <<b>>)[2] = b
<1> DEFINE t == Cons(a, <<b>>)
<1>1. t = <<a>> \o <<b>>
  BY DEF Cons
<1> HIDE DEF t
<1>2. /\ t \in Seq(S) /\ Len(t) = 2 /\ t[1] = a
  BY <1>1
<1>3. t[2] = b
  BY <1>1
<1>4. t # <<>> /\ Head(t) = a
  BY <1>2
<1> QED BY <1>2, <1>3, <1>4 DEF t

LEMMA FramesOfDownload ==
  ASSUME NEW hd, NEW cx, NEW lw, NEW ls, NEW f \in Frame, NEW g \in Frame,
         f.at = "client", f.msg = "DOWNLOAD", g.at = "migrated", FrameTied(g, cx, lw, ls),
         lw[g.l].client = "ctx",
         hd[f.h].entry = NULL /\ hd[f.h].owner \in Window /\ hd[f.h].told = "DOWNLOAD",
         \A l \in Low : cx[l].target => g.at \in OfCtx /\ g.l = l
  PROVE  Frames(Cons(f, <<g>>), hd, cx, lw, ls)
<1> DEFINE t == Cons(f, <<g>>)
<1>2. t \in Seq(Frame) /\ t # <<>> /\ Head(t) = f /\ t[1] = f /\ Len(t) = 2 /\ t[2] = g
  BY TwoFrames
<1> HIDE DEF t
<1>3. Len(t) = 2 /\ t[1] = f
  BY <1>2
<1>4. t[2] = g
  BY <1>2
<1>5. Bottom(t) = g
  BY <1>3, <1>4 DEF Bottom
<1>6. Gives(t, hd, lw)
  BY <1>2, <1>3, <1>4, <1>5 DEF Gives, Download
<1>7. \A i \in 1..Len(t) : /\ t[i].at \in Deepest => i = Len(t)
                           /\ i > 1 => ~Download(t[i])
                           /\ FrameTied(t[i], cx, lw, ls)
  <2> TAKE i \in 1..Len(t)
  <2>1. (i = 1 /\ t[i] = f) \/ (i = 2 /\ t[i] = g)
    <3>1. i \in 1..2
      BY <1>3
    <3> QED BY <1>2, <1>4, <3>1
  <2>2. FrameTied(f, cx, lw, ls) /\ f.at \notin Deepest
    BY DEF FrameTied, OfCtx, OfContent, Deepest
  <2>3. ~Download(g)
    BY DEF Download
  <2> QED BY <1>3, <2>1, <2>2, <2>3
<1>8. Frames(t, hd, cx, lw, ls)
  BY <1>2, <1>5, <1>6, <1>7 DEF Frames
<1> QED BY <1>8 DEF t

LEMMA DownloadStep ==
  ASSUME Tied, Idle, NEW l \in Low, low[l].client = "ctx", NEW again \in {"HEADERS", "DATA", "DONE"},
         handle[ctx[l].handle].owner \in Window,
         Targeted(ctx', l),
         low' = LowTo(low, l, again),
         stack' = Cons(Client(ctx[l].handle, "DOWNLOAD"), <<Migrated(l, "migrated")>>),
         handle' = ToldTo(handle, ctx[l].handle, "DOWNLOAD"),
         UNCHANGED <<content, list>>
  PROVE  Tied'
<1> DEFINE h == ctx[l].handle
           f == Client(h, "DOWNLOAD")
           g == Migrated(l, "migrated")
<1>1. /\ h \in Handle /\ ctx'[l].handle = h /\ \A m \in Low : ctx'[m].target = (m = l)
      /\ handle[h].entry = NULL
      /\ \A m \in Low : Waits(ctx', m) => ctx'[m].handle # h
      /\ Typed(handle, ctx', low, content, list) /\ Lows(handle, ctx', low, content, list)
  BY WaitingCtx
<1>2. low' \in [Low -> LowType] /\ \A m \in Low : low'[m].client = low[m].client
  <2>1. low \in [Low -> LowType]
    BY DEF Tied, Typed
  <2> QED BY <2>1, LowTold
<1>3. stack' = Cons(f, <<g>>) /\ handle' = ToldTo(handle, h, "DOWNLOAD")
      /\ handle[h].owner \in Window
  OBVIOUS
<1>4. f \in Frame /\ f.at = "client" /\ f.msg = "DOWNLOAD" /\ f.h = h
      /\ g \in Frame /\ g.at = "migrated" /\ g.l = l
  BY <1>1, FrameTypes DEF Messages, Client, Migrated
<1> HIDE DEF f, g, h
<1>5. Typed(handle, ctx', low', content, list) /\ Lows(handle, ctx', low', content, list)
  <2>1. Typed(handle, ctx', low, content, list) /\ Lows(handle, ctx', low, content, list)
    BY <1>1
  <2> QED BY <1>2, <2>1, LowKept
<1>6. /\ Typed(handle', ctx', low', content, list) /\ Users(handle', content, list)
      /\ Lows(handle', ctx', low', content, list)
  <2>1. Users(handle, content, list) /\ "DOWNLOAD" \in Messages
    BY DEF Tied, Messages
  <2> QED BY <1>1, <1>3, <1>5, <2>1, HandleTold
<1>7. handle'[h].entry = NULL /\ handle'[h].owner \in Window /\ handle'[h].told = "DOWNLOAD"
  BY <1>1, <1>3 DEF Tied, Typed, HandleType, ToldTo
<1>8. FrameTied(g, ctx', low', list)
  BY <1>1, <1>4 DEF FrameTied, OfCtx, OfContent
<1>9. \A m \in Low : ctx'[m].target => g.at \in OfCtx /\ g.l = m
  BY <1>1, <1>4 DEF OfCtx
<1>10. low'[g.l].client = "ctx"
  BY <1>2, <1>4
<1>12. Frames(Cons(f, <<g>>), handle', ctx', low', list)
  BY <1>4, <1>7, <1>8, <1>9, <1>10, FramesOfDownload
<1> QED BY <1>3, <1>6, <1>12 DEF Tied

LEMMA MigrateStep ==
  ASSUME Tied, Idle, NEW l \in Low, low[l].client = "ctx",
         NEW told \in {"HEADERS", "DATA", "DONE"}, NEW again \in {"HEADERS", "DATA", "DONE"},
         hlcache_migrate_ctx(l, told, again)
  PROVE  Tied'
<1> DEFINE h == ctx[l].handle
<1>1. Targeted(ctx', l)
  BY DEF hlcache_migrate_ctx, Targeted
<1>2. CASE hlcache_find_content(l, told, again)
  <2>1. CASE \E c \in Suitable(l) :
               /\ low' = [low EXCEPT ![l] = NoLow]
               /\ content' = [content EXCEPT ![c].users = Cons(h, @)]
               /\ handle' = [handle EXCEPT ![h].entry = c]
               /\ stack' = <<CatchUp(l, CatchUpOf(content[c].status))>>
               /\ UNCHANGED list
    <3>1. PICK c \in Suitable(l) :
               /\ low' = [low EXCEPT ![l] = NoLow]
               /\ content' = [content EXCEPT ![c].users = Cons(h, @)]
               /\ handle' = [handle EXCEPT ![h].entry = c]
               /\ stack' = <<CatchUp(l, CatchUpOf(content[c].status))>>
               /\ UNCHANGED list
      BY <2>1, Zenon
    <3> QED BY <1>1, <3>1, JoinStep
  <2>2. CASE \E c \in UnusedContent, shared \in BOOLEAN :
               /\ content' = [content EXCEPT ![c] =
                                [low |-> l, status |-> "LOADING", shared |-> shared,
                                 locked |-> FALSE, users |-> <<h>>]]
               /\ low' = [low EXCEPT ![l] = [@ EXCEPT !.client = c, !.told = again]]
               /\ handle' = [handle EXCEPT ![h].entry = c]
               /\ list' = Cons(c, list)
               /\ stack' = <<CatchUp(l, CatchUpOf("LOADING"))>>
    <3>1. PICK c \in UnusedContent, shared \in BOOLEAN :
               /\ content' = [content EXCEPT ![c] =
                                [low |-> l, status |-> "LOADING", shared |-> shared,
                                 locked |-> FALSE, users |-> <<h>>]]
               /\ low' = [low EXCEPT ![l] = [@ EXCEPT !.client = c, !.told = again]]
               /\ handle' = [handle EXCEPT ![h].entry = c]
               /\ list' = Cons(c, list)
               /\ stack' = <<CatchUp(l, CatchUpOf("LOADING"))>>
      BY <2>2, Zenon
    <3>2. content' = Put(content, c, [low |-> l, status |-> "LOADING", shared |-> shared,
                                      locked |-> FALSE, users |-> <<h>>])
          /\ handle' = Entered(handle, h, c)
      BY <3>1, Zenon DEF Put, Entered
    <3> QED BY <1>1, <3>1, <3>2, MakeStep
  <2> QED BY <1>2, <2>1, <2>2, Zenon DEF hlcache_find_content
<1>3. CASE /\ "download" \in Enabled /\ handle[h].owner \in Window
           /\ low' = [low EXCEPT ![l].told = again]
           /\ stack' = Cons(Client(h, "DOWNLOAD"), <<Migrated(l, "migrated")>>)
           /\ handle' = [handle EXCEPT ![h].told = "DOWNLOAD"]
           /\ UNCHANGED <<content, list>>
  <2>1. low' = LowTo(low, l, again) /\ handle' = ToldTo(handle, h, "DOWNLOAD")
    BY <1>3 DEF LowTo, ToldTo
  <2> QED BY <1>1, <1>3, <2>1, DownloadStep
<1>4. CASE /\ "refuse" \in Enabled
           /\ low' = [low EXCEPT ![l].told = told]
           /\ stack' = Cons(Client(h, "ERROR"), <<Migrated(l, "refused")>>)
           /\ handle' = [handle EXCEPT ![h].told = "ERROR"]
           /\ UNCHANGED <<content, list>>
  <2>1. low' = LowTo(low, l, told) /\ handle' = ToldTo(handle, h, "ERROR")
    BY <1>4 DEF LowTo, ToldTo
  <2> QED BY <1>1, <1>4, <2>1, RefuseStep
<1> QED BY <1>2, <1>3, <1>4, Zenon DEF hlcache_migrate_ctx

(* Contents that get somewhere, but keep what they have. *)
Relabelled(ct, c, ct2) == \E x : ct2 = Put(ct, c, x) /\ Alike(x, ct[c])

LEMMA Relabels ==
  ASSUME NEW hd, NEW cx, NEW lw, NEW ct, NEW ls, NEW c \in ToSet(ls), NEW ct2,
         Typed(hd, cx, lw, ct, ls), Users(hd, ct, ls), Lows(hd, cx, lw, ct, ls), Relabelled(ct, c, ct2)
  PROVE  Typed(hd, cx, lw, ct2, ls) /\ Users(hd, ct2, ls) /\ Lows(hd, cx, lw, ct2, ls)
<1>1. PICK x : ct2 = Put(ct, c, x) /\ Alike(x, ct[c])
  BY Zenon DEF Relabelled
<1> QED BY <1>1, ContentChanges

LEMMA RelabelForms ==
  ASSUME NEW ct \in [Content -> ContentType], NEW c \in Content, ct[c].status # "none"
  PROVE  /\ Relabelled(ct, c, [ct EXCEPT ![c].locked = TRUE])
         /\ Relabelled(ct, c, [ct EXCEPT ![c].locked = FALSE, ![c].status = "READY"])
         /\ Relabelled(ct, c, [ct EXCEPT ![c].status = "DONE"])
         /\ Relabelled(ct, c, [ct EXCEPT ![c].status = "ERROR"])
         /\ Relabelled(ct, c, [ct EXCEPT ![c] = [@ EXCEPT !.status = "ERROR", !.locked = FALSE]])
<1>1. ct[c] \in ContentType
  OBVIOUS
<1> DEFINE a == [ct[c] EXCEPT !.locked = TRUE]
           b == [[ct[c] EXCEPT !.locked = FALSE] EXCEPT !.status = "READY"]
           d == [ct[c] EXCEPT !.status = "DONE"]
           e == [ct[c] EXCEPT !.status = "ERROR"]
           f == [ct[c] EXCEPT !.status = "ERROR", !.locked = FALSE]
<1>2. Alike(a, ct[c])
  BY <1>1 DEF Alike, ContentType
<1>3. Alike(b, ct[c])
  BY <1>1 DEF Alike, ContentType, Statuses
<1>4. Alike(d, ct[c])
  BY <1>1 DEF Alike, ContentType, Statuses
<1>5. Alike(e, ct[c])
  BY <1>1 DEF Alike, ContentType, Statuses
<1>6. Alike(f, ct[c])
  BY <1>1 DEF Alike, ContentType, Statuses
<1>7. [ct EXCEPT ![c].locked = TRUE] = Put(ct, c, a)
  BY DEF Put
<1>8. [ct EXCEPT ![c].locked = FALSE, ![c].status = "READY"] = Put(ct, c, b)
  BY DEF Put
<1>9. [ct EXCEPT ![c].status = "DONE"] = Put(ct, c, d)
  BY DEF Put
<1>10. [ct EXCEPT ![c].status = "ERROR"] = Put(ct, c, e)
  BY DEF Put
<1>11. [ct EXCEPT ![c] = [@ EXCEPT !.status = "ERROR", !.locked = FALSE]] = Put(ct, c, f)
  BY DEF Put
<1> HIDE DEF a, b, d, e, f
<1>12. Relabelled(ct, c, [ct EXCEPT ![c].locked = TRUE])
  BY <1>2, <1>7, Zenon DEF Relabelled
<1>13. Relabelled(ct, c, [ct EXCEPT ![c].locked = FALSE, ![c].status = "READY"])
  BY <1>3, <1>8, Zenon DEF Relabelled
<1>14. Relabelled(ct, c, [ct EXCEPT ![c].status = "DONE"])
  BY <1>4, <1>9, Zenon DEF Relabelled
<1>15. Relabelled(ct, c, [ct EXCEPT ![c].status = "ERROR"])
  BY <1>5, <1>10, Zenon DEF Relabelled
<1>16. Relabelled(ct, c, [ct EXCEPT ![c] = [@ EXCEPT !.status = "ERROR", !.locked = FALSE]])
  BY <1>6, <1>11, Zenon DEF Relabelled
<1> QED BY <1>12, <1>13, <1>14, <1>15, <1>16

(* The calls of a content. *)
Open(st) == st # <<>> => ~Download(Head(st))

OwnFrame(f, c) == f \in Frame /\ f.at \in OfContent /\ f.c = c

LEMMA OwnFrames ==
  ASSUME Typed(handle, ctx, low, content, list), NEW c \in Content
  PROVE  /\ \A msg \in {"READY", "DONE", "ERROR"} : OwnFrame(ToAll(c, msg), c)
         /\ \A step \in {"set_done", "set_error", "abort", "data_failed"} : OwnFrame(Then(c, step), c)
<1>1. content[c].users \in Seq(Handle)
  BY DEF Typed, ContentType
<1>2. First(content[c].users) \in Handle \cup {NULL}
  BY <1>1 DEF First
<1>3. \A msg \in {"READY", "DONE", "ERROR"} : Broadcast(c, First(content[c].users), msg) \in Frame
  BY <1>2, FrameTypes
<1>4. \A msg \in {"READY", "DONE", "ERROR"} : OwnFrame(ToAll(c, msg), c)
  BY <1>3 DEF OwnFrame, ToAll, Broadcast, OfContent
<1>5. \A step \in {"set_done", "set_error", "abort", "data_failed"} : OwnFrame(Then(c, step), c)
  BY FrameTypes DEF OwnFrame, Then, OfContent
<1> QED BY <1>4, <1>5

LEMMA PushOwn ==
  ASSUME NEW st, NEW hd, NEW cx, NEW lw, NEW ls, Frames(st, hd, cx, lw, ls), Open(st),
         NEW f, NEW c, OwnFrame(f, c), c \in ToSet(ls)
  PROVE  Frames(Cons(f, st), hd, cx, lw, ls) /\ Open(Cons(f, st))
<1>1. f \in Frame /\ f.at \in OfContent /\ f.c = c
  BY DEF OwnFrame
<1>2. f.at \notin Deepest /\ ~Download(f) /\ FrameTied(f, cx, lw, ls)
  BY <1>1 DEF OfContent, Deepest, OfCtx, Download, FrameTied
<1>3. Frames(Cons(f, st), hd, cx, lw, ls)
  BY <1>1, <1>2, Pushed DEF Open
<1>4. st \in Seq(Frame)
  BY DEF Frames
<1>5. Head(Cons(f, st)) = f
  BY <1>1, <1>4, ConsFrames
<1> QED BY <1>2, <1>3, <1>5 DEF Open

LEMMA OneOwn ==
  ASSUME NEW hd, NEW cx, NEW lw, NEW ls, \A l \in Low : ~cx[l].target,
         NEW f, NEW c, OwnFrame(f, c), c \in ToSet(ls)
  PROVE  Frames(<<f>>, hd, cx, lw, ls) /\ Open(<<f>>)
<1>1. f \in Frame /\ f.at \in OfContent /\ f.c = c
  BY DEF OwnFrame
<1>2. ~Download(f) /\ FrameTied(f, cx, lw, ls) /\ f.at # "migrated"
  BY <1>1 DEF OfContent, OfCtx, Download, FrameTied
<1>3. Frames(<<f>>, hd, cx, lw, ls)
  BY <1>1, <1>2, FramesAlone
<1>4. Head(<<f>>) = f
  OBVIOUS
<1> QED BY <1>2, <1>3, <1>4 DEF Open

(* A message is delivered above the calls there are. *)
LEMMA PushClient ==
  ASSUME NEW st, NEW hd, NEW cx, NEW lw, NEW ls, Frames(st, hd, cx, lw, ls), Open(st),
         NEW h \in Handle, NEW msg \in {"LOADING", "READY", "DONE", "ERROR"}
  PROVE  Frames(Cons(Client(h, msg), st), hd, cx, lw, ls)
<1>1. Client(h, msg) \in Frame
  BY FrameTypes DEF Messages
<1>2. Client(h, msg).at \notin Deepest /\ ~Download(Client(h, msg))
      /\ FrameTied(Client(h, msg), cx, lw, ls)
  BY DEF Client, Deepest, OfCtx, OfContent, Download, FrameTied
<1> QED BY <1>1, <1>2, Pushed DEF Open

(* Steps that change neither lists nor owners. *)
LEMMA QuietStep ==
  ASSUME Tied, UNCHANGED <<handle, ctx, list>>,
         content' = content \/ \E c \in ToSet(list) : Relabelled(content, c, content'),
         low' \in [Low -> LowType], \A l \in Low : low'[l].client = low[l].client,
         Frames(stack', handle, ctx, low, list)
  PROVE  Tied'
<1>1. /\ Typed(handle, ctx, low', content, list) /\ Users(handle, content, list)
      /\ Lows(handle, ctx, low', content, list)
  BY LowKept DEF Tied
<1>2. /\ Typed(handle, ctx, low', content', list) /\ Users(handle, content', list)
      /\ Lows(handle, ctx, low', content', list)
  <2>1. CASE content' = content
    BY <1>1, <2>1
  <2>2. CASE \E c \in ToSet(list) : Relabelled(content, c, content')
    <3>1. PICK c \in ToSet(list) : Relabelled(content, c, content')
      BY <2>2
    <3> QED BY <1>1, <3>1, Relabels
  <2> QED BY <2>1, <2>2
<1>3. Frames(stack', handle, ctx, low', list)
  BY FramesKept
<1> QED BY <1>2, <1>3 DEF Tied

LEMMA InList ==
  ASSUME Tied, NEW c \in Content, content[c].status # "none"
  PROVE  c \in ToSet(list)
BY NothingTypes DEF Tied, Users

LEMMA ListedFacts ==
  ASSUME Tied
  PROVE  \A c \in ToSet(list) : c \in Content /\ content[c].status # "none"
BY DEF Tied, Typed, Users, ToSet

LEMMA PageRunsFacts ==
  ASSUME Tied, NEW c \in Content, PageRuns(c)
  PROVE  c \in ToSet(list) /\ Open(stack)
<1>1. c \in ToSet(list)
  BY InList DEF PageRuns
<1>2. ASSUME stack # <<>>, Download(Head(stack)) PROVE FALSE
  <2>1. handle[Head(stack).h].owner = c
    BY <1>2 DEF PageRuns, Idle
  <2>2. handle[Head(stack).h].owner \in Window
    BY <1>2 DEF Tied, Frames, Gives
  <2> QED BY <2>1, <2>2, HLCacheAssumption
<1> QED BY <1>1, <1>2 DEF Open

LEMMA PageStep ==
  ASSUME Tied, NEW c \in Content, PageReady(c) \/ PageDone(c) \/ PageFails(c)
  PROVE  Tied'
<1>1. PageRuns(c)
  BY DEF PageReady, PageDone, PageFails
<1>2. c \in ToSet(list) /\ Open(stack)
  BY <1>1, PageRunsFacts
<1>3. /\ Frames(stack, handle, ctx, low, list) /\ low \in [Low -> LowType]
      /\ content \in [Content -> ContentType] /\ content[c].status # "none"
      /\ Typed(handle, ctx, low, content, list)
  BY <1>2, ListedFacts DEF Tied, Typed
<1>4. CASE PageReady(c)
  <2>1. /\ content' = [content EXCEPT ![c].locked = FALSE, ![c].status = "READY"]
        /\ stack' = Cons(ToAll(c, "READY"), stack) /\ UNCHANGED <<handle, ctx, low, list>>
    BY <1>4 DEF PageReady, content_set_ready
  <2>2. Relabelled(content, c, content')
    BY <1>3, <2>1, RelabelForms
  <2>3. OwnFrame(ToAll(c, "READY"), c)
    BY <1>3, OwnFrames
  <2>4. Frames(stack', handle, ctx, low, list)
    BY <1>2, <1>3, <2>1, <2>3, PushOwn
  <2> QED BY <1>2, <1>3, <2>1, <2>2, <2>4, QuietStep
<1>5. CASE PageDone(c)
  <2>1. stack' = Cons(Then(c, "set_done"), stack) /\ UNCHANGED <<handle, ctx, low, content, list>>
    BY <1>5 DEF PageDone
  <2>2. OwnFrame(Then(c, "set_done"), c)
    BY <1>3, OwnFrames
  <2>3. Frames(stack', handle, ctx, low, list)
    BY <1>2, <1>3, <2>1, <2>2, PushOwn
  <2> QED BY <1>3, <2>1, <2>3, QuietStep
<1>6. CASE PageFails(c)
  <2>1. stack' = Cons(ToAll(c, "ERROR"), Cons(Then(c, "set_error"), stack))
        /\ UNCHANGED <<handle, ctx, low, content, list>>
    BY <1>6 DEF PageFails, Failing
  <2>2. OwnFrame(Then(c, "set_error"), c) /\ OwnFrame(ToAll(c, "ERROR"), c)
    BY <1>3, OwnFrames
  <2>3. Frames(Cons(Then(c, "set_error"), stack), handle, ctx, low, list)
        /\ Open(Cons(Then(c, "set_error"), stack))
    BY <1>2, <1>3, <2>2, PushOwn
  <2>4. Frames(stack', handle, ctx, low, list)
    BY <1>2, <2>1, <2>2, <2>3, PushOwn
  <2> QED BY <1>3, <2>1, <2>4, QuietStep
<1> QED BY <1>4, <1>5, <1>6

(* An event of the low-level cache comes while no call is made. *)
LEMMA IdleFacts ==
  ASSUME Tied, Idle
  PROVE  /\ stack = <<>> /\ (\A l \in Low : ~ctx[l].target)
         /\ Frames(<<>>, handle, ctx, low, list) /\ Open(<<>>)
         /\ Typed(handle, ctx, low, content, list)
         /\ content \in [Content -> ContentType] /\ low \in [Low -> LowType]
BY Alone DEF Tied, Typed, Idle, Open

LEMMA ConvertStep ==
  ASSUME Tied, Idle, NEW c \in ToSet(list), content_convert(c), UNCHANGED <<handle, ctx, list>>,
         low' \in [Low -> LowType], \A l \in Low : low'[l].client = low[l].client
  PROVE  Tied'
<1>1. /\ stack = <<>> /\ (\A l \in Low : ~ctx[l].target)
      /\ Frames(<<>>, handle, ctx, low, list)
      /\ Typed(handle, ctx, low, content, list) /\ content \in [Content -> ContentType]
  BY IdleFacts
<1>2. c \in Content /\ content[c].status # "none"
  BY ListedFacts
<1>3. CASE UNCHANGED <<content, stack>>
  BY <1>1, <1>3, QuietStep
<1>4. CASE content_set_ready(c, <<Then(c, "set_done")>>)
  <2>1. Relabelled(content, c, content')
    BY <1>1, <1>2, <1>4, RelabelForms DEF content_set_ready
  <2>2. OwnFrame(Then(c, "set_done"), c) /\ OwnFrame(ToAll(c, "READY"), c)
    BY <1>1, <1>2, OwnFrames
  <2>3. Frames(<<Then(c, "set_done")>>, handle, ctx, low, list) /\ Open(<<Then(c, "set_done")>>)
    BY <1>1, <2>2, OneOwn
  <2>4. Frames(stack', handle, ctx, low, list)
    <3>1. stack' = Cons(ToAll(c, "READY"), <<Then(c, "set_done")>>)
      BY <1>4 DEF content_set_ready
    <3> QED BY <2>2, <2>3, <3>1, PushOwn
  <2> QED BY <2>1, <2>4, QuietStep
<1>5. CASE content' = [content EXCEPT ![c].locked = TRUE] /\ UNCHANGED stack
  <2>1. Relabelled(content, c, content')
    BY <1>1, <1>2, <1>5, RelabelForms
  <2> QED BY <1>1, <1>5, <2>1, QuietStep
<1>6. CASE content' = [content EXCEPT ![c].locked = TRUE] /\ Failing(c, "set_error", <<>>)
  <2>1. Relabelled(content, c, content')
    BY <1>1, <1>2, <1>6, RelabelForms
  <2>2. OwnFrame(Then(c, "set_error"), c) /\ OwnFrame(ToAll(c, "ERROR"), c)
    BY <1>1, <1>2, OwnFrames
  <2>3. Frames(Cons(Then(c, "set_error"), <<>>), handle, ctx, low, list)
        /\ Open(Cons(Then(c, "set_error"), <<>>))
    BY <1>1, <2>2, PushOwn, IdleFacts
  <2>4. Frames(stack', handle, ctx, low, list)
    BY <1>6, <2>2, <2>3, PushOwn DEF Failing
  <2> QED BY <2>1, <2>4, QuietStep
<1> QED BY <1>3, <1>4, <1>5, <1>6 DEF content_convert

(* A handle is told something, above the calls there are then. *)
LEMMA TellStep ==
  ASSUME Tied, NEW h \in Handle, NEW msg \in {"LOADING", "READY", "DONE", "ERROR"}, NEW rest,
         Deliver(h, msg, rest), UNCHANGED <<ctx, content, list>>,
         low' \in [Low -> LowType], \A l \in Low : low'[l].client = low[l].client,
         Frames(rest, handle, ctx, low, list), Open(rest)
  PROVE  Tied'
<1>1. stack' = Cons(Client(h, msg), rest) /\ handle' = ToldTo(handle, h, msg)
  BY DEF Deliver, ToldTo
<1>2. Typed(handle, ctx, low', content, list) /\ Lows(handle, ctx, low', content, list)
      /\ Users(handle, content, list)
  BY LowKept DEF Tied
<1>3. msg \in Messages /\ msg # "DOWNLOAD"
  BY DEF Messages
<1>4. /\ Typed(handle', ctx, low', content, list) /\ Users(handle', content, list)
      /\ Lows(handle', ctx, low', content, list)
  BY <1>1, <1>2, <1>3, HandleTold
<1>5. Frames(rest, handle', ctx, low', list)
  BY FramesKept DEF Open
<1>6. Frames(stack', handle', ctx, low', list)
  BY <1>1, <1>5, PushClient
<1> QED BY <1>4, <1>6 DEF Tied

LEMMA CtxHandle ==
  ASSUME Tied, NEW l \in Low, low[l].client = "ctx"
  PROVE  ctx[l].handle \in Handle
BY DEF Tied, Lows, Typed, CtxType

LEMMA LowEvent ==
  ASSUME Tied, NEW l \in Low, NEW told \in {"HEADERS", "DATA", "DONE"}, low' = LowTo(low, l, told)
  PROVE  low' \in [Low -> LowType] /\ \A m \in Low : low'[m].client = low[m].client
<1>1. low \in [Low -> LowType]
  BY DEF Tied, Typed
<1> QED BY <1>1, LowTold

LEMMA HeadersStep ==
  ASSUME Tied, NEW l \in Low, HAD_HEADERS(l)
  PROVE  Tied'
<1>1. Idle /\ low[l].client = "ctx"
  BY DEF HAD_HEADERS
<1>2. CASE hlcache_migrate_ctx(l, "HEADERS", "HEADERS")
  BY <1>1, <1>2, MigrateStep
<1>3. CASE low' = [low EXCEPT ![l].told = "HEADERS"] /\ UNCHANGED <<handle, ctx, content, list, stack>>
  <2>3. low' = LowTo(low, l, "HEADERS")
    BY <1>3 DEF LowTo
  <2>1. low' \in [Low -> LowType] /\ \A m \in Low : low'[m].client = low[m].client
    BY <2>3, LowEvent
  <2>2. Frames(stack', handle, ctx, low, list)
    BY <1>1, <1>3, IdleFacts
  <2> QED BY <1>3, <2>1, <2>2, QuietStep
<1> QED BY <1>2, <1>3 DEF HAD_HEADERS

LEMMA DataStep ==
  ASSUME Tied, NEW l \in Low, HAD_DATA(l)
  PROVE  Tied'
<1> DEFINE c == low[l].client
<1>1. Idle
  BY DEF HAD_DATA
<1>2. CASE c = "ctx" /\ hlcache_migrate_ctx(l, "DATA", "HEADERS")
  BY <1>1, <1>2, MigrateStep
<1>3. CASE /\ low' = [low EXCEPT ![l].told = "DATA"]
           /\ \/ UNCHANGED stack
              \/ c \in Content /\ Failing(c, "data_failed", <<>>)
           /\ UNCHANGED <<handle, ctx, content, list>>
  <2>4. low' = LowTo(low, l, "DATA")
    BY <1>3 DEF LowTo
  <2>1. low' \in [Low -> LowType] /\ \A m \in Low : low'[m].client = low[m].client
    BY <2>4, LowEvent
  <2>2. CASE UNCHANGED stack
    <3>1. Frames(stack', handle, ctx, low, list)
      BY <1>1, <2>2, IdleFacts
    <3> QED BY <1>3, <2>1, <3>1, QuietStep
  <2>3. CASE c \in Content /\ Failing(c, "data_failed", <<>>)
    <3>1. c \in ToSet(list)
      BY <2>3 DEF Tied, Lows
    <3>2. OwnFrame(Then(c, "data_failed"), c) /\ OwnFrame(ToAll(c, "ERROR"), c)
      BY <1>1, <2>3, OwnFrames, IdleFacts
    <3> HIDE DEF c
    <3>3. Frames(Cons(Then(c, "data_failed"), <<>>), handle, ctx, low, list)
          /\ Open(Cons(Then(c, "data_failed"), <<>>))
      BY <1>1, <3>1, <3>2, PushOwn, IdleFacts
    <3>4. Frames(stack', handle, ctx, low, list)
      BY <2>3, <3>1, <3>2, <3>3, PushOwn DEF Failing
    <3> QED BY <1>3, <2>1, <3>4, QuietStep
  <2> QED BY <1>3, <2>2, <2>3
<1> QED BY <1>2, <1>3 DEF HAD_DATA

LEMMA DoneStep ==
  ASSUME Tied, NEW l \in Low, DONE(l)
  PROVE  Tied'
<1> DEFINE c == low[l].client
<1>1. Idle
  BY DEF DONE
<1>2. CASE c = "ctx" /\ hlcache_migrate_ctx(l, "DONE", "DATA")
  BY <1>1, <1>2, MigrateStep
<1>3. ASSUME low' = [low EXCEPT ![l].told = "DONE"]
      PROVE  low' \in [Low -> LowType] /\ \A m \in Low : low'[m].client = low[m].client
  <2>1. low' = LowTo(low, l, "DONE")
    BY <1>3 DEF LowTo
  <2> QED BY <2>1, LowEvent
<1>4. CASE /\ c = "ctx"
           /\ low' = [low EXCEPT ![l].told = "DONE"]
           /\ Deliver(ctx[l].handle, "ERROR", <<>>)
           /\ UNCHANGED <<ctx, content, list>>
  BY <1>1, <1>3, <1>4, CtxHandle, TellStep, IdleFacts
<1>5. CASE /\ c \in Content
           /\ low' = [low EXCEPT ![l].told = "DONE"]
           /\ content_convert(c)
           /\ UNCHANGED <<handle, ctx, list>>
  <2>1. c \in ToSet(list)
    BY <1>5 DEF Tied, Lows
  <2> QED BY <1>1, <1>3, <1>5, <2>1, ConvertStep
<1>6. CASE /\ low' = [low EXCEPT ![l].told = "DONE"]
           /\ UNCHANGED <<handle, ctx, content, list, stack>>
  <2>1. Frames(stack', handle, ctx, low, list)
    BY <1>1, <1>6, IdleFacts
  <2> QED BY <1>3, <1>6, <2>1, QuietStep
<1> QED BY <1>2, <1>4, <1>5, <1>6 DEF DONE

LEMMA ErrorStep ==
  ASSUME Tied, NEW l \in Low, ERROR(l)
  PROVE  Tied'
<1> DEFINE c == low[l].client
<1>1. Idle /\ UNCHANGED <<ctx, list>>
  BY DEF ERROR
<1>2. low' \in [Low -> LowType] /\ \A m \in Low : low'[m].client = low[m].client
  <2>1. low' = LowTo(low, l, "DONE")
    BY DEF ERROR, LowTo
  <2> QED BY <2>1, LowEvent
<1>3. CASE c = "ctx" /\ Deliver(ctx[l].handle, "ERROR", <<>>) /\ UNCHANGED content
  BY <1>1, <1>2, <1>3, CtxHandle, TellStep, IdleFacts
<1>4. CASE /\ c \in Content
           /\ content' = [content EXCEPT ![c].status = "ERROR"]
           /\ stack' = <<ToAll(c, "ERROR")>>
           /\ UNCHANGED handle
  <2>1. c \in ToSet(list)
    BY <1>4 DEF Tied, Lows
  <2>2. content[c].status # "none" /\ content \in [Content -> ContentType]
    BY <1>1, <2>1, ListedFacts, IdleFacts
  <2>3. OwnFrame(ToAll(c, "ERROR"), c)
    BY <1>1, <1>4, OwnFrames, IdleFacts
  <2>4. stack' = <<ToAll(c, "ERROR")>> /\ content' = [content EXCEPT ![c].status = "ERROR"] /\ c \in Content
    BY <1>4
  <2> HIDE DEF c
  <2>5. Relabelled(content, c, content')
    BY <2>2, <2>4, RelabelForms
  <2>6. Frames(stack', handle, ctx, low, list)
    BY <1>1, <2>1, <2>3, <2>4, OneOwn, IdleFacts
  <2> QED BY <1>1, <1>2, <1>4, <2>1, <2>5, <2>6, QuietStep
<1>5. CASE UNCHANGED <<handle, content, stack>>
  <2>1. Frames(stack', handle, ctx, low, list)
    BY <1>1, <1>5, IdleFacts
  <2> QED BY <1>1, <1>2, <1>5, <2>1, QuietStep
<1> QED BY <1>3, <1>4, <1>5 DEF ERROR

(* The calls that only lie below all others. *)
LEMMA Only ==
  ASSUME NEW st, NEW hd, NEW cx, NEW lw, NEW ls, Frames(st, hd, cx, lw, ls), st # <<>>,
         Head(st).at \in Deepest
  PROVE  Tail(st) = <<>> /\ Bottom(st) = Head(st) /\ Head(st) \in Frame /\ FrameTied(Head(st), cx, lw, ls)
         /\ Len(st) = 1
<1>1. /\ st \in Seq(Frame) /\ Len(st) \in Nat \ {0} /\ Head(st) = st[1]
      /\ Tail(st) \in Seq(Frame) /\ Len(Tail(st)) = Len(st) - 1
  BY TailFrames DEF Frames
<1>2. 1 \in 1..Len(st)
  BY <1>1
<1>3. Len(st) = 1 /\ FrameTied(st[1], cx, lw, ls) /\ st[1] \in Frame
  <2>1. st[1].at \in Deepest
    BY <1>1
  <2>2. Len(st) = 1
    BY <1>2, <2>1 DEF Frames
  <2>3. FrameTied(st[1], cx, lw, ls)
    BY <1>2 DEF Frames
  <2>4. st[1] \in Frame
    BY <1>1, <1>2
  <2> QED BY <2>2, <2>3, <2>4
<1> DEFINE t == Tail(st)
<1>4. t \in Seq(Frame) /\ Len(t) = 0
  BY <1>1, <1>3
<1> HIDE DEF t
<1>5. t = <<>>
  BY <1>4
<1> QED BY <1>1, <1>3, <1>5 DEF Bottom, t

LEMMA OneFrame ==
  ASSUME NEW f
  PROVE  Cons(f, <<>>) = <<f>> /\ Head(<<f>>) = f
<1>1. <<f>> \o <<>> = <<f>>
  OBVIOUS
<1> QED BY <1>1 DEF Cons

LEMMA CatchUpStep ==
  ASSUME Tied, CatchUpNext
  PROVE  Tied'
<1> DEFINE f == Head(stack)
           h == ctx[f.l].handle
           g == CatchUp(f.l, Tail(f.msgs))
<1>1. /\ stack # <<>> /\ f.at = "catch_up" /\ f.msgs # <<>>
      /\ Deliver(h, Head(f.msgs), Cons(g, Tail(stack)))
      /\ UNCHANGED <<ctx, low, content, list>>
  BY DEF CatchUpNext, At
<1>2. Tail(stack) = <<>> /\ Bottom(stack) = f /\ f \in Frame /\ FrameTied(f, ctx, low, list)
  BY <1>1, Only DEF Tied, Deepest, OfCtx
<1>3. f.l \in Low /\ f.msgs \in Seq({"LOADING", "READY", "DONE"})
  BY <1>1, <1>2, FrameFields
<1>4. Head(f.msgs) \in {"LOADING", "READY", "DONE"} /\ Tail(f.msgs) \in Seq({"LOADING", "READY", "DONE"})
  BY <1>1, <1>3
<1>5. g \in Frame /\ g.at = "catch_up" /\ g.l = f.l
  BY <1>3, <1>4, FrameTypes DEF CatchUp
<1>6. ctx[f.l].target /\ low[f.l].client # "ctx"
  BY <1>1, <1>2 DEF FrameTied, OfCtx
<1>7. h \in Handle
  BY <1>3, <1>6 DEF Tied, Typed, CtxType, Lows
<1>8. \A m \in Low : ctx[m].target => g.at \in OfCtx /\ g.l = m
  BY <1>1, <1>2, <1>5 DEF Tied, Frames, OfCtx
<1> HIDE DEF f, g, h
<1>9. FrameTied(g, ctx, low, list) /\ ~Download(g)
  BY <1>5, <1>6 DEF FrameTied, OfCtx, OfContent, Download
<1>10. Frames(<<g>>, handle, ctx, low, list) /\ Open(<<g>>)
  BY <1>5, <1>8, <1>9, FramesAlone, OneFrame DEF Open
<1>11. Deliver(h, Head(f.msgs), <<g>>)
  BY <1>1, <1>2, OneFrame
<1>12. low' \in [Low -> LowType] /\ \A l \in Low : low'[l].client = low[l].client
  BY <1>1 DEF Tied, Typed
<1> QED BY <1>1, <1>4, <1>7, <1>10, <1>11, <1>12, TellStep

LEMMA MigrationEndsStep ==
  ASSUME Tied, MigrationEnds
  PROVE  Tied'
<1> DEFINE f == Head(stack)
           l == f.l
<1>1. /\ stack # <<>> /\ f.at \in OfCtx
      /\ f.at # "refused" => UNCHANGED low
      /\ f.at = "refused" => low' = ReleaseLow({l})
      /\ ctx' = DropCtx({l}) /\ stack' = Tail(stack)
      /\ UNCHANGED <<handle, content, list>>
  BY DEF MigrationEnds, At, OfCtx
<1>2. Tail(stack) = <<>> /\ Bottom(stack) = f /\ f \in Frame /\ FrameTied(f, ctx, low, list) /\ Len(stack) = 1
  BY <1>1, Only DEF Tied, Deepest
<1>3. l \in Low
  BY <1>1, <1>2, FrameFields DEF OfCtx
<1>4. f.at # "refused" => low[l].client # "ctx"
  BY <1>1, <1>2 DEF OfCtx, FrameTied, Tied, Frames, Gives
<1>5. ctx[l].target /\ (f.at = "refused" => low[l].client = "ctx")
  BY <1>1, <1>2 DEF FrameTied
<1>6. \A m \in Low : ctx[m].target => m = l
  BY <1>1, <1>2 DEF Tied, Frames
<1> HIDE DEF l, f
<1>7. ctx \in [Low -> CtxType] /\ low \in [Low -> LowType]
  BY DEF Tied, Typed
<1>8. /\ ctx' \in [Low -> CtxType] /\ ctx'[l] = NoCtx /\ \A m \in Low \ {l} : ctx'[m] = ctx[m]
  BY <1>1, <1>3, <1>7, NothingTypes DEF DropCtx
<1>9. /\ low' \in [Low -> LowType]
      /\ \A m \in Low : \/ low'[m].client = low[m].client
                        \/ /\ low[m].client \notin Content /\ ~Waits(ctx, m)
                           /\ low'[m].client \in {"none", "download"}
  <2>1. CASE f.at # "refused"
    BY <1>1, <1>7, <2>1
  <2>2. CASE f.at = "refused"
    <3>1. low' \in [Low -> LowType] /\ low'[l] = NoLow /\ \A m \in Low \ {l} : low'[m] = low[m]
      BY <1>1, <1>3, <1>7, <2>2, NothingTypes DEF ReleaseLow
    <3>2. low[l].client \notin Content /\ ~Waits(ctx, l)
      BY <1>5, <2>2, NothingTypes DEF Waits
    <3> QED BY <3>1, <3>2, NothingTypes
  <2> QED BY <2>1, <2>2
<1>10. Typed(handle, ctx, low', content, list) /\ Lows(handle, ctx, low', content, list)
  BY <1>9, LowChanges DEF Tied
<1>11. low'[l].client # "ctx"
  BY <1>1, <1>3, <1>4, <1>7, NothingTypes DEF ReleaseLow
<1>12. \A m \in Low : /\ Waits(ctx', m) => ctx'[m] = ctx[m]
                      /\ ctx'[m].target => ctx'[m].handle # NULL
                      /\ low'[m].client = "ctx" => ctx'[m].handle # NULL
  <2>1. \A m \in Low : (ctx[m].target => ctx[m].handle # NULL) /\ (low'[m].client = "ctx" => ctx[m].handle # NULL)
    BY <1>10 DEF Lows
  <2> QED BY <1>8, <1>11, <2>1, NothingTypes DEF Waits
<1>13. Typed(handle, ctx', low', content, list) /\ Lows(handle, ctx', low', content, list)
  BY <1>8, <1>10, <1>12, CtxChanges
<1>14. \A m \in Low : ~ctx'[m].target
  BY <1>6, <1>8, NothingTypes
<1>15. Frames(stack', handle, ctx', low', list)
  BY <1>1, <1>2, <1>14, NoFrames
<1> QED BY <1>1, <1>13, <1>15 DEF Tied

LEMMA BroadcastStep ==
  ASSUME Tied, content_broadcast
  PROVE  Tied'
<1> DEFINE f == Head(stack)
           g == Broadcast(f.c, Following(content[f.c].users, f.h), f.msg)
<1>1. /\ stack # <<>> /\ f.at = "broadcast" /\ UNCHANGED <<ctx, low, content, list>>
      /\ \/ f.h = NULL /\ stack' = Tail(stack) /\ UNCHANGED handle
         \/ f.h # NULL /\ Deliver(f.h, f.msg, Cons(g, Tail(stack)))
  BY DEF content_broadcast, At
<1>2. f \in Frame /\ f = stack[1] /\ 1 \in 1..Len(stack)
  BY <1>1, TailFrames DEF Tied, Frames
<1>3. f.c \in Content /\ f.h \in Handle \cup {NULL} /\ f.msg \in {"READY", "DONE", "ERROR"}
  BY <1>1, <1>2, FrameFields
<1>4. FrameTied(f, ctx, low, list)
  BY <1>2 DEF Tied, Frames
<1>5. f.c \in ToSet(list)
  BY <1>1, <1>4 DEF FrameTied, OfContent
<1>6. f.at \notin Deepest /\ ~Download(f)
  BY <1>1 DEF Deepest, OfCtx, Download
<1>7. Frames(Tail(stack), handle, ctx, low, list) /\ Open(Tail(stack))
  BY <1>1, <1>6, Popped DEF Tied, Open
<1>8. low' \in [Low -> LowType] /\ \A l \in Low : low'[l].client = low[l].client
  BY <1>1 DEF Tied, Typed
<1>9. CASE f.h = NULL /\ stack' = Tail(stack) /\ UNCHANGED handle
  BY <1>1, <1>7, <1>8, <1>9, QuietStep
<1>10. CASE f.h # NULL /\ Deliver(f.h, f.msg, Cons(g, Tail(stack)))
  <2>1. content[f.c].users \in Seq(Handle)
    BY <1>3 DEF Tied, Typed, ContentType
  <2>2. Following(content[f.c].users, f.h) \in Handle \cup {NULL}
    <3>1. ToSet(content[f.c].users) \subseteq Handle
      BY <2>1 DEF ToSet
    <3> QED BY <2>1, <3>1, FollowingMember
  <2>3. OwnFrame(g, f.c)
    <3>1. g \in Frame
      BY <1>3, <2>2, FrameTypes
    <3> QED BY <3>1 DEF OwnFrame, Broadcast, OfContent
  <2> HIDE DEF g
  <2>4. Frames(Cons(g, Tail(stack)), handle, ctx, low, list) /\ Open(Cons(g, Tail(stack)))
    BY <1>5, <1>7, <2>3, PushOwn
  <2>5. f.h \in Handle /\ f.msg \in {"LOADING", "READY", "DONE", "ERROR"}
    BY <1>3, <1>10
  <2> QED BY <1>1, <1>8, <1>10, <2>4, <2>5, TellStep
<1> QED BY <1>1, <1>9, <1>10

LEMMA ReturnStep ==
  ASSUME Tied, ClientReturns
  PROVE  Tied'
<1>1. /\ stack # <<>> /\ Head(stack).at = "client" /\ Head(stack).msg # "DOWNLOAD"
      /\ stack' = Tail(stack) /\ UNCHANGED <<handle, ctx, low, content, list>>
  BY DEF ClientReturns, At
<1>2. Head(stack).at \notin Deepest /\ ~Download(Head(stack))
  BY <1>1 DEF Deepest, OfCtx, Download
<1>3. Frames(Tail(stack), handle, ctx, low, list)
  BY <1>1, <1>2, Popped DEF Tied
<1>4. low' \in [Low -> LowType] /\ \A l \in Low : low'[l].client = low[l].client
  BY <1>1 DEF Tied, Typed
<1> QED BY <1>1, <1>3, <1>4, QuietStep

LEMMA TwoTail ==
  ASSUME NEW S, NEW s \in Seq(S), Len(s) = 2
  PROVE  Tail(s) = <<s[2]>>
<1>1. s # <<>>
  OBVIOUS
<1> DEFINE t == Tail(s)
<1>2. t \in Seq(S) /\ Len(t) = 1 /\ t[1] = s[2]
  <2>1. /\ t \in Seq(S) /\ Len(t) = Len(s) - 1
        /\ \A i \in 1..Len(t) : t[i] = s[i + 1]
    BY <1>1, TailFrames
  <2> HIDE DEF t
  <2>2. Len(t) = 1
    BY <2>1
  <2>3. 1 \in 1..Len(t) /\ 1 + 1 = 2
    BY <2>2
  <2>4. t[1] = s[1 + 1]
    BY <2>1, <2>3
  <2> QED BY <2>1, <2>2, <2>3, <2>4
<1> HIDE DEF t
<1>3. t = <<t[1]>>
  BY <1>2
<1> QED BY <1>2, <1>3 DEF t

(* The low-level handle is the download's before the migration ends.       *)
LEMMA ConversionStep ==
  ASSUME Tied, browser_window_convert_to_download
  PROVE  Tied'
<1> DEFINE h == Head(stack).h
           l == stack[2].l
           g == stack[2]
<1>1. /\ stack # <<>> /\ Download(Head(stack)) /\ Head(stack).at = "client"
      /\ handle' = [handle EXCEPT ![h] = NoHandle]
      /\ low' = [low EXCEPT ![l].client = "download"]
      /\ stack' = Tail(stack) /\ UNCHANGED <<ctx, content, list>>
  BY DEF browser_window_convert_to_download, At, Download
<1>2. /\ Len(stack) = 2 /\ g.at = "migrated" /\ handle[h].entry = NULL
      /\ handle[h].told = "DOWNLOAD" /\ low[l].client = "ctx"
  BY <1>1 DEF Tied, Frames, Gives
<1>3. stack \in Seq(Frame) /\ 2 \in 1..Len(stack) /\ Bottom(stack) = g
  BY <1>2 DEF Tied, Frames, Bottom
<1>4. g \in Frame /\ FrameTied(g, ctx, low, list) /\ Head(stack) \in Frame
  BY <1>1, <1>3, TailFrames DEF Tied, Frames
<1>5. l \in Low /\ h \in Handle
  BY <1>1, <1>2, <1>4, FrameFields
<1>6. ctx[l].target /\ \A m \in Low : ctx[m].target => m = l
  BY <1>2, <1>3, <1>4 DEF FrameTied, OfCtx, Tied, Frames
<1>7. Tail(stack) = <<g>>
  BY <1>2, <1>3, TwoTail
<1>8. g.l = l
  OBVIOUS
<1> HIDE DEF h, l, g
<1>9. handle \in [Handle -> HandleType] /\ low \in [Low -> LowType]
  BY DEF Tied, Typed
<1>10. /\ handle' \in [Handle -> HandleType] /\ handle'[h].entry = NULL
       /\ \A k \in Handle \ {h} : handle'[k] = handle[k]
  BY <1>1, <1>5, <1>9, NothingTypes
<1>11. /\ low' \in [Low -> LowType] /\ low'[l].client = "download"
       /\ \A m \in Low \ {l} : low'[m] = low[m]
  BY <1>1, <1>5, <1>9 DEF LowType
<1>12. \A m \in Low : \/ low'[m].client = low[m].client
                     \/ /\ low[m].client \notin Content /\ ~Waits(ctx, m)
                        /\ low'[m].client \in {"none", "download"}
  BY <1>2, <1>6, <1>11, NothingTypes DEF Waits
<1>13. /\ Typed(handle, ctx, low', content, list) /\ Users(handle, content, list)
       /\ Lows(handle, ctx, low', content, list)
  BY <1>11, <1>12, LowChanges DEF Tied
<1>14. \A m \in Low : Waits(ctx, m) => ctx[m].handle # h
  BY <1>2 DEF Tied, Lows
<1>15. /\ Typed(handle', ctx, low', content, list) /\ Users(handle', content, list)
       /\ Lows(handle', ctx, low', content, list)
  BY <1>2, <1>5, <1>10, <1>13, <1>14, Goes
<1>16. FrameTied(g, ctx, low', list) /\ ~Download(g)
  BY <1>2, <1>6, <1>8 DEF FrameTied, OfCtx, OfContent, Download
<1>17. \A m \in Low : ctx[m].target => g.at \in OfCtx /\ g.l = m
  BY <1>2, <1>6, <1>8 DEF OfCtx
<1>18. low'[g.l].client # "ctx"
  BY <1>8, <1>11
<1>19. Frames(<<g>>, handle', ctx, low', list)
  BY <1>4, <1>16, <1>17, <1>18, FramesAlone
<1> QED BY <1>1, <1>7, <1>15, <1>19 DEF Tied

LEMMA SetStep ==
  ASSUME Tied, content_set_done \/ content_set_error \/ ContentAborts
  PROVE  Tied'
<1> DEFINE f == Head(stack)
           c == f.c
<1>1. stack # <<>> /\ f.at \in {"set_done", "set_error", "abort", "data_failed"}
      /\ UNCHANGED <<handle, ctx, list>>
  BY DEF content_set_done, content_set_error, ContentAborts, At
<1>2. f \in Frame /\ f = stack[1] /\ 1 \in 1..Len(stack)
  BY <1>1, TailFrames DEF Tied, Frames
<1>3. c \in Content
  BY <1>1, <1>2, FrameFields
<1>4. FrameTied(f, ctx, low, list)
  BY <1>2 DEF Tied, Frames
<1>5. c \in ToSet(list)
  BY <1>1, <1>4 DEF FrameTied, OfContent
<1>6. f.at \notin Deepest /\ ~Download(f)
  BY <1>1 DEF Deepest, OfCtx, Download
<1>7. Frames(Tail(stack), handle, ctx, low, list) /\ Open(Tail(stack))
  BY <1>1, <1>6, Popped DEF Tied, Open
<1>8. content[c].status # "none" /\ content \in [Content -> ContentType] /\ low \in [Low -> LowType]
      /\ Typed(handle, ctx, low, content, list)
  BY <1>5, ListedFacts DEF Tied, Typed
<1>9. CASE content_set_done
  <2>1. /\ content' = [content EXCEPT ![c].status = "DONE"] /\ UNCHANGED low
        /\ stack' = Cons(ToAll(c, "DONE"), Tail(stack))
    BY <1>9 DEF content_set_done
  <2> HIDE DEF c, f
  <2>2. Relabelled(content, c, content')
    BY <1>3, <1>8, <2>1, RelabelForms
  <2>3. OwnFrame(ToAll(c, "DONE"), c)
    BY <1>3, <1>8, OwnFrames
  <2>4. Frames(stack', handle, ctx, low, list)
    BY <1>5, <1>7, <2>1, <2>3, PushOwn
  <2> QED BY <1>1, <1>5, <1>8, <2>1, <2>2, <2>4, QuietStep
<1>10. CASE content_set_error
  <2>1. /\ content' = [content EXCEPT ![c] = [@ EXCEPT !.status = "ERROR", !.locked = FALSE]]
        /\ UNCHANGED low /\ stack' = Tail(stack)
    BY <1>10 DEF content_set_error
  <2> HIDE DEF c, f
  <2>2. Relabelled(content, c, content')
    BY <1>3, <1>8, <2>1, RelabelForms
  <2> QED BY <1>1, <1>5, <1>7, <1>8, <2>1, <2>2, QuietStep
<1>11. CASE ContentAborts
  <2>1. /\ low' = Abort(low, content[c].low) /\ stack' = Tail(stack)
        /\ content' = content \/ content' = [content EXCEPT ![c].status = "ERROR"]
    BY <1>11 DEF ContentAborts
  <2> HIDE DEF c, f
  <2>2. content' = content \/ Relabelled(content, c, content')
    BY <1>3, <1>8, <2>1, RelabelForms
  <2>3. low' = [low EXCEPT ![content[c].low].source = NULL]
    BY <2>1 DEF Abort
  <2>4. low' \in [Low -> LowType] /\ \A m \in Low : low'[m].client = low[m].client
    BY <1>8, <2>3 DEF LowType
  <2> QED BY <1>1, <1>5, <1>7, <2>1, <2>2, <2>4, QuietStep
<1> QED BY <1>9, <1>10, <1>11

LEMMA DestroyDownloadStep ==
  ASSUME Tied, NEW l \in Low, download_context_destroy(l)
  PROVE  Tied'
<1>1. /\ Idle /\ low[l].client = "download" /\ low' = ReleaseLow({l})
      /\ UNCHANGED <<handle, ctx, content, list, stack>>
  BY DEF download_context_destroy
<1>2. stack = <<>> /\ (\A m \in Low : ~ctx[m].target) /\ low \in [Low -> LowType]
  BY <1>1, IdleFacts
<1>3. low' \in [Low -> LowType] /\ low'[l] = NoLow /\ \A m \in Low \ {l} : low'[m] = low[m]
  BY <1>1, <1>2, NothingTypes DEF ReleaseLow
<1>4. \A m \in Low : \/ low'[m].client = low[m].client
                     \/ /\ low[m].client \notin Content /\ ~Waits(ctx, m)
                        /\ low'[m].client \in {"none", "download"}
  <2> TAKE m \in Low
  <2>1. Waits(ctx, m) => low[m].client = "ctx"
    BY DEF Tied, Lows
  <2>2. low[m].client = "download" => low[m].client \notin Content /\ ~Waits(ctx, m)
    BY <2>1, HLCacheAssumption
  <2>3. CASE m = l
    BY <1>1, <1>3, <2>2, <2>3, NothingTypes
  <2>4. CASE m # l
    BY <1>3, <2>4
  <2> QED BY <2>3, <2>4
<1>5. Typed(handle, ctx, low', content, list) /\ Lows(handle, ctx, low', content, list)
  BY <1>3, <1>4, LowChanges DEF Tied
<1>6. Frames(stack, handle, ctx, low', list)
  BY <1>2, NoFrames
<1> QED BY <1>1, <1>5, <1>6 DEF Tied

LEMMA SweepFrame ==
  ASSUME NEW hd, NEW cx, NEW lw, NEW ls, \A l \in Low : ~cx[l].target,
         NEW c, c = NULL \/ (c \in Content /\ c \in ToSet(ls))
  PROVE  Frames(<<Then(c, "sweep")>>, hd, cx, lw, ls)
<1> DEFINE f == Then(c, "sweep")
<1>1. f \in Frame
  BY FrameTypes
<1>2. f.at = "sweep" /\ f.c = c
  BY DEF Then
<1> HIDE DEF f
<1>3. FrameTied(f, cx, lw, ls) /\ ~Download(f) /\ f.at # "migrated"
  BY <1>2 DEF FrameTied, OfCtx, OfContent, Download
<1>4. Frames(<<f>>, hd, cx, lw, ls)
  BY <1>1, <1>3, FramesAlone
<1> QED BY <1>4 DEF f

LEMMA CleanStep ==
  ASSUME Tied, hlcache_clean
  PROVE  Tied'
<1>1. Idle /\ stack' = <<Then(First(list), "sweep")>> /\ UNCHANGED <<handle, ctx, low, content, list>>
  BY DEF hlcache_clean
<1>2. (\A m \in Low : ~ctx[m].target) /\ low \in [Low -> LowType]
  BY <1>1, IdleFacts
<1>3. list \in Seq(Content) /\ DOMAIN list = 1..Len(list)
  BY DEF Tied, Typed
<1>4. First(list) = NULL \/ (First(list) \in Content /\ First(list) \in ToSet(list))
  <2>1. list # <<>> => 1 \in DOMAIN list /\ Head(list) = list[1] /\ Head(list) \in Content
    BY <1>3
  <2> QED BY <2>1 DEF First, ToSet
<1>5. Frames(stack', handle, ctx, low, list)
  BY <1>1, <1>2, <1>4, SweepFrame
<1> QED BY <1>1, <1>2, <1>5, QuietStep

(* The clean destroys contents that nobody uses, with the handles of pages. *)
LEMMA DestroyStep ==
  ASSUME Tied, NEW c \in ToSet(list), Unwanted(c), content_destroy(c),
         \A l \in Low : ~ctx[l].target,
         stack' = <<Then(Following(list, c), "sweep")>>
  PROVE  Tied'
<1> DEFINE H == {h \in Handle : handle[h].owner = c}
           ct == RemoveUsers(H)
           cx == DropCtx(Nascent(H))
           lw == ReleaseLow(Nascent(H))
<1>1. /\ handle' = Freed(H) /\ ctx' = cx
      /\ low' = ReleaseLow(Nascent(H) \cup {content[c].low})
      /\ content' = Put(ct, c, NoContent) /\ list' = RemoveFirst(list, c)
  BY DEF content_destroy, Freed, Put
<1>2. c \in Content /\ H \in SUBSET Handle /\ content[c].users = <<>>
  BY ListedFacts DEF Unwanted
<1>3. /\ Typed(handle, ctx, low, content, list) /\ Users(handle, content, list)
      /\ Lows(handle, ctx, low, content, list)
      /\ content \in [Content -> ContentType] /\ \A d \in Content : Injective(content[d].users)
      /\ low \in [Low -> LowType]
  BY DEF Tied, Typed, Users
<1> HIDE DEF H
<1>4. ct[c].low = content[c].low /\ ToSet(ct[c].users) = ToSet(content[c].users) \ H
  BY <1>2, <1>3, RemoveUsersProperties
<1>5. /\ Typed(Freed(H), cx, lw, ct, list) /\ Users(Freed(H), ct, list)
      /\ Lows(Freed(H), cx, lw, ct, list) /\ \A l \in Low : cx[l].target = ctx[l].target
  BY <1>2, <1>3, Releases
<1>6. ToSet(ct[c].users) = {}
  BY <1>2, <1>4, NothingTypes
<1>7. /\ low' \in [Low -> LowType]
      /\ \A l \in Low : low'[l] = IF l = ct[c].low THEN NoLow ELSE lw[l]
  BY <1>1, <1>3, <1>4, NothingTypes DEF ReleaseLow
<1> HIDE DEF ct, cx, lw
<1>8. /\ Typed(handle', ctx', low', content', list') /\ Users(handle', content', list')
      /\ Lows(handle', ctx', low', content', list') /\ ToSet(list') = ToSet(list) \ {c}
  <2>1. /\ Typed(Freed(H), cx, low', Put(ct, c, NoContent), RemoveFirst(list, c))
        /\ Users(Freed(H), Put(ct, c, NoContent), RemoveFirst(list, c))
        /\ Lows(Freed(H), cx, low', Put(ct, c, NoContent), RemoveFirst(list, c))
        /\ ToSet(RemoveFirst(list, c)) = ToSet(list) \ {c}
    <3>1. Without(lw, ct[c].low, low')
      BY <1>7 DEF Without
    <3>2. Typed(Freed(H), cx, lw, ct, list) /\ Users(Freed(H), ct, list) /\ Lows(Freed(H), cx, lw, ct, list)
      BY <1>5
    <3> QED BY <1>6, <3>1, <3>2, Forgets, SMTT(60)
  <2> QED BY <1>1, <2>1
<1>9. Following(list, c) = NULL \/ Following(list, c) \in ToSet(list) \ {c}
  BY FollowingProperties DEF Tied, Typed
<1>10. Following(list, c) = NULL
       \/ (Following(list, c) \in Content /\ Following(list, c) \in ToSet(list'))
  BY <1>8, <1>9, ListedFacts
<1>11. \A l \in Low : ~ctx'[l].target
  BY <1>1, <1>5
<1>12. Frames(stack', handle', ctx', low', list')
  BY <1>10, <1>11, SweepFrame
<1> QED BY <1>8, <1>12 DEF Tied

LEMMA SweepStep ==
  ASSUME Tied, Sweep
  PROVE  Tied'
<1> DEFINE c == Head(stack).c
<1>1. stack # <<>> /\ Head(stack).at = "sweep"
  BY DEF Sweep, At
<1>2. FrameTied(Head(stack), ctx, low, list)
  BY <1>1, Only DEF Tied, Deepest
<1>3. \A l \in Low : ~ctx[l].target
  BY <1>1, Alone DEF Tied
<1>4. c = NULL \/ c \in ToSet(list)
  BY <1>1, <1>2 DEF FrameTied
<1>5. low \in [Low -> LowType] /\ list \in Seq(Content)
  BY DEF Tied, Typed
<1>6. CASE c = NULL /\ stack' = <<>> /\ UNCHANGED <<handle, ctx, low, content, list>>
  <2>1. Frames(stack', handle, ctx, low, list)
    BY <1>3, <1>6, NoFrames
  <2> QED BY <1>5, <1>6, <2>1, QuietStep
<1>7. CASE c # NULL /\ stack' = <<Then(Following(list, c), "sweep")>> /\ ~Unwanted(c)
           /\ UNCHANGED <<handle, ctx, low, content, list>>
  <2>1. Following(list, c) = NULL \/ (Following(list, c) \in Content /\ Following(list, c) \in ToSet(list))
    BY <1>5, FollowingMember, ListedFacts
  <2>2. Frames(stack', handle, ctx, low, list)
    BY <1>3, <1>7, <2>1, SweepFrame
  <2> QED BY <1>5, <1>7, <2>2, QuietStep
<1>8. CASE c # NULL /\ stack' = <<Then(Following(list, c), "sweep")>> /\ Unwanted(c) /\ content_destroy(c)
  BY <1>3, <1>4, <1>8, DestroyStep
<1> QED BY <1>6, <1>7, <1>8 DEF Sweep

(* What is left to do of an abort. *)
LEMMA AbortingFrames ==
  ASSUME NEW hd, NEW cx, NEW lw, NEW ls, \A l \in Low : ~cx[l].target,
         NEW h \in Handle, NEW c \in Content, c \in ToSet(ls)
  PROVE  Frames(Aborting(c, h), hd, cx, lw, ls) /\ Open(Aborting(c, h))
<1> DEFINE f == Then(c, "abort")
           g == [at |-> "release", h |-> h]
<1>1. OwnFrame(f, c)
  BY FrameTypes DEF OwnFrame, Then, OfContent
<1>2. g \in Frame /\ g.at = "release"
  BY FrameTypes
<1>3. Aborting(c, h) = <<f>> \/ Aborting(c, h) = Cons(f, <<g>>)
  BY DEF Aborting
<1> HIDE DEF f, g
<1>4. Frames(<<f>>, hd, cx, lw, ls) /\ Open(<<f>>)
  BY <1>1, OneOwn
<1>5. FrameTied(g, cx, lw, ls) /\ ~Download(g) /\ g.at # "migrated"
  BY <1>2 DEF FrameTied, OfCtx, OfContent, Download
<1>6. Frames(<<g>>, hd, cx, lw, ls)
  BY <1>2, <1>5, FramesAlone
<1>7. Open(<<g>>)
  BY <1>5, OneFrame DEF Open
<1>8. Frames(Cons(f, <<g>>), hd, cx, lw, ls) /\ Open(Cons(f, <<g>>))
  BY <1>1, <1>6, <1>7, PushOwn
<1> QED BY <1>3, <1>4, <1>8

LEMMA StopStep ==
  ASSUME Tied, Idle, NEW h \in Handle, NEW c \in ToSet(list), stack' = Stop(c, h),
         UNCHANGED <<handle, ctx, low, content, list>>
  PROVE  Tied'
<1>1. c \in Content /\ low \in [Low -> LowType] /\ (\A l \in Low : ~ctx[l].target)
  BY ListedFacts, IdleFacts
<1>2. Frames(Aborting(c, h), handle, ctx, low, list) /\ Open(Aborting(c, h))
  BY <1>1, AbortingFrames
<1>3. OwnFrame(Then(c, "set_done"), c)
  BY <1>1, OwnFrames DEF Tied
<1>4. Frames(Cons(Then(c, "set_done"), Aborting(c, h)), handle, ctx, low, list)
  BY <1>2, <1>3, PushOwn
<1>5. stack' = Aborting(c, h) \/ stack' = Cons(Then(c, "set_done"), Aborting(c, h))
  BY DEF Stop
<1>6. Frames(stack', handle, ctx, low, list)
  BY <1>2, <1>4, <1>5
<1> QED BY <1>1, <1>6, QuietStep

(* The clone of a content that has other users is the user's own. *)
LEMMA CloneStep ==
  ASSUME Tied, Idle, NEW h \in Handle, NEW c \in ToSet(list), handle[h].entry = c,
         NEW n \in UnusedContent, NEW l \in UnusedLow,
         low' = [low EXCEPT ![l] = [low[content[c].low] EXCEPT !.client = n]],
         content' = [RemoveUsers({h}) EXCEPT ![n] = [content[c] EXCEPT !.low = l, !.users = <<h>>]],
         handle' = [handle EXCEPT ![h].entry = n], list' = Cons(n, list), stack' = Aborting(n, h),
         UNCHANGED ctx
  PROVE  Tied'
<1> DEFINE ct == RemoveUsers({h})
           x == [content[c] EXCEPT !.low = l, !.users = <<h>>]
           hd == Entered(handle, h, NULL)
<1>1. /\ c \in Content /\ n \in Content /\ content[n] = NoContent /\ l \in Low /\ low[l] = NoLow
      /\ ctx[l] = NoCtx /\ content[c].status # "none" /\ (\A m \in Low : ~ctx[m].target)
  BY ListedFacts, IdleFacts DEF UnusedContent, UnusedLow
<1>2. /\ Typed(handle, ctx, low, content, list) /\ Users(handle, content, list)
      /\ Lows(handle, ctx, low, content, list)
      /\ handle \in [Handle -> HandleType] /\ low \in [Low -> LowType]
      /\ content \in [Content -> ContentType] /\ \A d \in Content : Injective(content[d].users)
  BY DEF Tied, Typed, Users
<1>3. content[c].low \in Low /\ low[content[c].low] \in LowType /\ content[c] \in ContentType
  BY <1>1, <1>2 DEF Lows
<1>4. handle' = Entered(handle, h, n) /\ content' = Put(ct, n, x)
  BY DEF Entered, Put
<1>5. x \in ContentType /\ x.low = l /\ x.users = <<h>> /\ x.status # "none"
  <2>1. <<h>> \in Seq(Handle)
    OBVIOUS
  <2> QED BY <1>1, <1>3, <2>1 DEF ContentType
<1> HIDE DEF x
<1>6. ct[n] = NoContent
  <2>1. {h} \in SUBSET Handle
    OBVIOUS
  <2> QED BY <1>1, <1>2, <2>1, RemoveUsersProperties
<1> HIDE DEF ct
<1>7. /\ hd \in [Handle -> HandleType] /\ hd[h].entry = NULL /\ hd[h].told = handle[h].told
      /\ \A g \in Handle \ {h} : hd[g] = handle[g]
  BY <1>2, Enters
<1> HIDE DEF hd
<1>8. handle[h].entry # NULL /\ handle[h].told # "free"
  BY <1>1, <1>2, HLCacheAssumption DEF Users
<1>9. /\ Typed(hd, ctx, low, ct, list) /\ Users(hd, ct, list) /\ Lows(hd, ctx, low, ct, list)
      /\ \A m \in Low : Waits(ctx, m) => ctx[m].handle # h
  BY <1>2, <1>7, <1>8, Leaves DEF ct
<1>10. /\ low' \in [Low -> LowType] /\ low'[l].client = n /\ \A m \in Low \ {l} : low'[m] = low[m]
  <2>1. [low[content[c].low] EXCEPT !.client = n] \in LowType
        /\ [low[content[c].low] EXCEPT !.client = n].client = n
    BY <1>1, <1>3 DEF LowType
  <2> DEFINE y == [low[content[c].low] EXCEPT !.client = n]
  <2>2. low' = [low EXCEPT ![l] = y] /\ y \in LowType /\ y.client = n
    BY <2>1
  <2> HIDE DEF y
  <2> QED BY <1>1, <1>2, <2>2
<1>11. ~Waits(ctx, l) /\ low[l].client \notin Content
  BY <1>1, NothingTypes DEF Waits
<1>12. /\ handle' \in [Handle -> HandleType] /\ handle'[h].entry = n
       /\ handle'[h].told = handle[h].told /\ \A g \in Handle \ {h} : handle'[g] = handle[g]
  <2>1. n \in Content \cup {NULL}
    BY <1>1
  <2>2. /\ Entered(handle, h, n) \in [Handle -> HandleType] /\ Entered(handle, h, n)[h].entry = n
        /\ Entered(handle, h, n)[h].told = handle[h].told
        /\ \A g \in Handle \ {h} : Entered(handle, h, n)[g] = handle[g]
    BY <1>2, <2>1, Enters, ZenonT(40)
  <2> QED BY <1>4, <2>2, Zenon
<1>13. Made(n, x, h, l, hd, ctx, low, ct, handle', low')
  BY <1>5, <1>6, <1>7, <1>8, <1>9, <1>10, <1>11, <1>12 DEF Made
<1>14. /\ Typed(handle', ctx, low', content', list') /\ Users(handle', content', list')
       /\ Lows(handle', ctx, low', content', list') /\ ToSet(list') = ToSet(list) \cup {n}
  <2>1. /\ Typed(handle', ctx, low', Put(ct, n, x), Cons(n, list))
        /\ Users(handle', Put(ct, n, x), Cons(n, list))
        /\ Lows(handle', ctx, low', Put(ct, n, x), Cons(n, list))
        /\ ToSet(Cons(n, list)) = ToSet(list) \cup {n}
    <3>1. n \in Content /\ l \in Low
      BY <1>1
    <3>2. Typed(hd, ctx, low, ct, list) /\ Users(hd, ct, list) /\ Lows(hd, ctx, low, ct, list)
      BY <1>9
    <3> QED BY <1>13, <3>1, <3>2, Makes
  <2> QED BY <1>4, <2>1
<1>15. Frames(stack', handle', ctx, low', list')
  BY <1>1, <1>14, AbortingFrames
<1> QED BY <1>14, <1>15 DEF Tied

LEMMA AbortStep ==
  ASSUME Tied, NEW h \in Handle, hlcache_handle_abort(h)
  PROVE  Tied'
<1> DEFINE c == handle[h].entry
<1>1. Idle /\ c # NULL
  BY DEF hlcache_handle_abort
<1>2. c \in Content /\ h \in ToSet(content[c].users)
  BY <1>1 DEF Tied, Typed, HandleType, Users
<1>3. c \in ToSet(list)
  BY <1>2, NothingTypes DEF Tied, Users
<1>4. CASE stack' = Stop(c, h) /\ UNCHANGED <<handle, ctx, low, content, list>>
  BY <1>1, <1>3, <1>4, StopStep
<1>5. CASE /\ \E n \in UnusedContent, l \in UnusedLow :
                /\ low' = [low EXCEPT ![l] = [low[content[c].low] EXCEPT !.client = n]]
                /\ content' = [RemoveUsers({h}) EXCEPT
                                 ![n] = [content[c] EXCEPT !.low = l, !.users = <<h>>]]
                /\ handle' = [handle EXCEPT ![h].entry = n]
                /\ list' = Cons(n, list) /\ stack' = Aborting(n, h)
           /\ UNCHANGED ctx
  BY <1>1, <1>3, <1>5, CloneStep
<1> QED BY <1>4, <1>5, Zenon DEF hlcache_handle_abort

LEMMA InitTied == Init => Tied
<1> SUFFICES ASSUME Init PROVE Tied
  OBVIOUS
<1> USE DEF Init
<1>1. Typed(handle, ctx, low, content, list)
  <2>1. <<>> \in Seq(Content) /\ Injective(<<>>)
    BY DEF Injective
  <2> QED BY <2>1, NothingTypes DEF Typed
<1>2. ToSet(list) = {}
  BY NothingTypes
<1>3. Users(handle, content, list)
  <2>1. \A h \in Handle : handle[h].entry = NULL
    BY NothingTypes
  <2>2. \A c \in Content : /\ content[c] = NoContent /\ content[c].users = <<>> /\ c # NULL
                           /\ ToSet(content[c].users) = {}
    BY NothingTypes, HLCacheAssumption
  <2>3. Injective(<<>>)
    BY DEF Injective
  <2> QED BY <1>2, <2>1, <2>2, <2>3 DEF Users
<1>4. Lows(handle, ctx, low, content, list)
  BY <1>2, NothingTypes DEF Lows, Waits
<1>5. \A l \in Low : ~ctx[l].target
  BY NothingTypes
<1>6. Frames(stack, handle, ctx, low, list)
  BY <1>5, NoFrames
<1> QED BY <1>1, <1>3, <1>4, <1>6 DEF Tied

LEMMA NextTied == Tied /\ [Next]_vars => Tied'
<1> SUFFICES ASSUME Tied, [Next]_vars PROVE Tied'
  OBVIOUS
<1>1. CASE Clients
  <2>1. PICK h \in Handle :
          \/ \E owner \in Content \cup Window : hlcache_handle_retrieve(h, owner)
          \/ Release(h)
          \/ hlcache_handle_abort(h)
    BY <1>1, Zenon DEF Clients
  <2> QED BY <2>1, RetrieveStep, ReleaseStep, AbortStep
<1>2. CASE hlcache_poll
  BY <1>2, HeadersStep, DataStep, DoneStep, ErrorStep DEF hlcache_poll
<1>3. CASE Pages
  BY <1>3, PageStep DEF Pages
<1>4. CASE Calls
  BY <1>4, CatchUpStep, MigrationEndsStep, BroadcastStep, ReturnStep, ConversionStep, SetStep,
     ReleaseAbortedStep, SweepStep DEF Calls
<1>5. CASE hlcache_clean
  BY <1>5, CleanStep
<1>6. CASE \E l \in Low : download_context_destroy(l)
  BY <1>6, DestroyDownloadStep
<1>7. CASE UNCHANGED vars
  BY <1>7 DEF vars, Tied
<1> QED BY <1>1, <1>2, <1>3, <1>4, <1>5, <1>6, <1>7 DEF Next

(* The lists, the users and the owners fit together, whatever the order of *)
(* calls, events and releases (hlcache.c, content.c).                      *)
THEOREM TiedHolds == Spec => []Tied
<1>1. Init => Tied
  BY InitTied
<1>2. Tied /\ [Next]_vars => Tied'
  BY NextTied
<1> QED BY <1>1, <1>2, PTL DEF Spec

(* How often a member occurs in a list without repetition. *)
LEMMA OnceOrNot ==
  ASSUME NEW S, NEW s \in Seq(S), Injective(s), NEW x
  PROVE  Cardinality({i \in DOMAIN s : s[i] = x}) = IF x \in ToSet(s) THEN 1 ELSE 0
<1> DEFINE D == {i \in DOMAIN s : s[i] = x}
<1>1. CASE x \in ToSet(s)
  <2>1. PICK i \in DOMAIN s : s[i] = x
    BY <1>1 DEF ToSet
  <2>2. D = {i}
    BY <2>1 DEF Injective
  <2>3. Cardinality({i}) = 1
    BY FS_Singleton
  <2> QED BY <1>1, <2>2, <2>3
<1>2. CASE x \notin ToSet(s)
  <2>1. D = {}
    BY <1>2 DEF ToSet
  <2>2. Cardinality({}) = 0
    BY FS_EmptySet
  <2> QED BY <1>2, <2>1, <2>2
<1> QED BY <1>1, <1>2

LEMMA TiedUsers == Tied => UsersConsistent
<1> SUFFICES ASSUME Tied PROVE UsersConsistent
  OBVIOUS
<1>1. TypeOK
  <2>1. IsInjective(list)
    BY DEF Tied, Typed, Injective, IsInjective
  <2> QED BY <2>1 DEF TypeOK, Tied, Typed, HandleType, CtxType, LowType, ContentType
<1>2. ASSUME NEW c \in Content, NEW h \in Handle
      PROVE  Cardinality({i \in DOMAIN content[c].users : content[c].users[i] = h})
             = IF handle[h].entry = c THEN 1 ELSE 0
  <2>1. content[c].users \in Seq(Handle) /\ Injective(content[c].users)
        /\ (h \in ToSet(content[c].users) <=> handle[h].entry = c)
    BY DEF Tied, Typed, Users, ContentType
  <2>2. Cardinality({i \in DOMAIN content[c].users : content[c].users[i] = h})
        = IF h \in ToSet(content[c].users) THEN 1 ELSE 0
    BY <2>1, OnceOrNot
  <2> QED BY <2>1, <2>2
<1>3. ASSUME NEW c \in Content PROVE content[c] # NoContent <=> c \in ToSet(list)
  BY NothingTypes DEF Tied, Users
<1> QED BY <1>1, <1>2, <1>3 DEF UsersConsistent

(* content_remove_user finds what it removes (content.c:617), and a user   *)
(* never outlives its handle.                                              *)
THEOREM UsersConsistentHolds == Spec => []UsersConsistent
BY TiedHolds, TiedUsers, PTL

LEMMA TiedOwners == Tied => OneOwner
<1> SUFFICES ASSUME Tied PROVE OneOwner
  OBVIOUS
<1>1. ASSUME NEW l \in Low
      PROVE  /\ low[l].client \in Content <=> {c \in ToSet(list) : content[c].low = l} # {}
             /\ {c \in ToSet(list) : content[c].low = l} \subseteq {low[l].client}
             /\ ctx[l].handle # NULL /\ ~ctx[l].target => low[l].client = "ctx"
             /\ low[l].client = "ctx" => ctx[l].handle # NULL
  <2>1. \A c \in ToSet(list) : content[c].low = l => low[l].client = c /\ c \in Content
    BY ListedFacts DEF Tied, Lows
  <2>2. low[l].client \in Content => low[l].client \in ToSet(list) /\ content[low[l].client].low = l
    BY DEF Tied, Lows
  <2>3. /\ ctx[l].handle # NULL /\ ~ctx[l].target => low[l].client = "ctx"
        /\ low[l].client = "ctx" => ctx[l].handle # NULL
    BY DEF Tied, Lows, Waits
  <2> QED BY <2>1, <2>2, <2>3
<1>2. ASSUME NEW i \in DOMAIN stack, stack[i].at \in {"catch_up", "migrated", "refused"}
      PROVE  ctx[stack[i].l].target /\ (stack[i].at = "refused" => low[stack[i].l].client = "ctx")
  <2>1. i \in 1..Len(stack)
    BY DEF Tied, Frames
  <2>2. FrameTied(stack[i], ctx, low, list)
    BY <2>1 DEF Tied, Frames
  <2> QED BY <1>2, <2>2 DEF FrameTied, OfCtx
<1> QED BY <1>1, <1>2 DEF OneOwner

(* No migration, refusal, release, abort or clone leaves a low-level handle *)
(* without an owner, or its events with another one.                       *)
THEOREM OneOwnerHolds == Spec => []OneOwner
BY TiedHolds, TiedOwners, PTL

-----------------------------------------------------------------------------
(* What the cache tells its clients: the messages of HandleProtocol, in their *)
(* order.                                                                     *)


(* The members of a list from x on. *)
Rest(s, x) == {y \in ToSet(s) : \E i, j \in DOMAIN s : i <= j /\ s[i] = x /\ s[j] = y}

(* What a user was told before it is told msg by a broadcast. *)
Prior(msg) == IF msg = "DONE" THEN "READY" ELSE "LOADING"

(* A broadcast has yet to come to h. *)
Behind(st, ct, h) ==
  \E i \in DOMAIN st : st[i].at = "broadcast" /\ h \in Rest(ct[st[i].c].users, st[i].h)

(* A migration has yet to bring h up to the state of its content. *)
Late(st, cx, h) == st # <<>> /\ Bottom(st).at = "catch_up" /\ cx[Bottom(st).l].handle = h

(* The users of c have been told ERROR or will be, but for those that are gone. *)
Fails(st, ct, c) ==
  \/ ct[c].status = "ERROR"
  \/ \E i \in DOMAIN st : st[i].at \in {"set_error", "data_failed"} /\ st[i].c = c

(* Call i tells h ERROR, which has no content or is told by a broadcast of it. *)
Refused(st, i, h, c) ==
  /\ st[i] = Client(h, "ERROR")
  /\ c # NULL => i < Len(st) /\ st[i + 1].at = "broadcast" /\ st[i + 1].c = c

(* A window loads one content at a time. *)
Loading(hd, h) == hd[h].owner \in Window /\ hd[h].told \in {"waiting", "LOADING"}

(* A handle has been told the state of its content, or will be. *)
HandlesAgree(st, hd, cx, ct) ==
  /\ \A h \in Handle :
       /\ hd[h].told = "ERROR" => \E i \in DOMAIN st : Refused(st, i, h, hd[h].entry)
       /\ hd[h].entry # NULL =>
            \/ hd[h].told = "ERROR" \/ Behind(st, ct, h) \/ Late(st, cx, h)
            \/ hd[h].told = ct[hd[h].entry].status /\ ~Fails(st, ct, hd[h].entry)
  /\ \A l \in Low : Waits(cx, l) => hd[cx[l].handle].told \in {"waiting", "ERROR"}
  /\ \A g, h \in Handle :
       Loading(hd, g) /\ Loading(hd, h) /\ hd[g].owner = hd[h].owner => g = h

(* A content has come as far as its low-level handle lets it. *)
ContentsAgree(lw, ct) ==
  \A c \in Content :
    /\ ct[c].locked => ct[c].status = "LOADING" /\ lw[ct[c].low].told = "DONE"
    /\ ct[c].status \in {"READY", "DONE"} => lw[ct[c].low].told = "DONE"

(* No window of a user of c has just begun to show another content. *)
Apart(hd, ct, c) ==
  \A u \in ToSet(ct[c].users), g \in Handle :
    u # g /\ hd[g].owner = hd[u].owner /\ hd[g].owner \in Window => hd[g].told # "LOADING"

(* What a handle was told, the status of its content, and what it is told yet. *)
Steps == {<<"waiting", "LOADING", <<"LOADING">>>>, <<"LOADING", "LOADING", <<>>>>,
          <<"waiting", "READY", <<"LOADING", "READY">>>>, <<"LOADING", "READY", <<"READY">>>>,
          <<"READY", "READY", <<>>>>,
          <<"waiting", "DONE", <<"LOADING", "READY", "DONE">>>>,
          <<"LOADING", "DONE", <<"READY", "DONE">>>>,
          <<"READY", "DONE", <<"DONE">>>>, <<"DONE", "DONE", <<>>>>}

Broadcasts(f, hd, x) ==
  /\ f.h # NULL => f.h \in ToSet(x.users)
  /\ x.status = f.msg \/ (f.msg = "ERROR" /\ x.status = "LOADING")
  /\ \A u \in Rest(x.users, f.h) : hd[u].told = Prior(f.msg)

CatchesUp(h, msgs, hd, ct) ==
  LET c == hd[h].entry IN
  /\ c # NULL
  /\ <<hd[h].told, ct[c].status, msgs>> \in Steps
  /\ ct[c].shared \/ (ct[c].status = "LOADING" /\ ~ct[c].locked)
  /\ \A g \in Handle \ {h} :
       hd[g].owner = hd[h].owner /\ hd[g].owner \in Window => hd[g].told # "LOADING"

CallAgrees(f, hd, cx, ct) ==
  /\ f.at = "broadcast" => Broadcasts(f, hd, ct[f.c])
  /\ f.at = "set_done" => ct[f.c].status = "READY"
  /\ f.at \in {"broadcast", "set_done"} /\ ct[f.c].shared => Apart(hd, ct, f.c)
  /\ f.at = "set_error" => ct[f.c].status = "LOADING"
  /\ f.at = "data_failed" => ct[f.c].status \in {"LOADING", "ERROR"} /\ ~ct[f.c].locked
  /\ f.at = "catch_up" => CatchesUp(cx[f.l].handle, f.msgs, hd, ct)
  /\ f.at = "client" /\ f.msg = "READY" => hd[f.h].told \in {"READY", "DONE"}

(* A call that is not the innermost. *)
Deep(f, hd, ct) ==
  /\ f.at = "broadcast" /\ ~ct[f.c].shared => f.h = NULL
  /\ f.at = "client" /\ f.msg = "READY" => hd[f.h].owner \notin Window

(* Calls of the same content: f inside g. *)
Inside(f, g) ==
  f.at \in OfContent /\ g.at \in OfContent /\ f.c = g.c =>
    /\ g.at # "broadcast"
    /\ f.at = "broadcast" \/ (f.at = "set_done" /\ g.at = "abort")

(* No call of a shared content is made during a migration, and none of the *)
(* content whose user is brought up to date.                               *)
Above(f, b, hd, cx, ct) ==
  f.at \in OfContent =>
    /\ ct[f.c].shared => b.at \notin OfCtx
    /\ b.at = "catch_up" => hd[cx[b.l].handle].entry # f.c

CallsAgree(st, hd, cx, ct) ==
  \A i \in DOMAIN st :
    /\ CallAgrees(st[i], hd, cx, ct)
    /\ i > 1 => Deep(st[i], hd, ct)
    /\ Above(st[i], Bottom(st), hd, cx, ct)
    /\ \A j \in DOMAIN st : i < j => Inside(st[i], st[j])

(* What a window releases when its new content is READY is not to be told *)
(* anything yet.                                                           *)
Spared(st, hd, cx, ct) ==
  st # <<>> /\ Head(st).at = "client" /\ Head(st).msg = "READY"
            /\ hd[Head(st).h].owner \in Window =>
    \A u \in Handle \ {Head(st).h} :
      hd[u].owner = hd[Head(st).h].owner /\ (Behind(st, ct, u) \/ Late(st, cx, u))
        => hd[u].told \notin {"READY", "DONE"}

Agreed ==
  /\ HandlesAgree(stack, handle, ctx, content)
  /\ ContentsAgree(low, content)
  /\ CallsAgree(stack, handle, ctx, content)
  /\ Spared(stack, handle, ctx, content)

-----------------------------------------------------------------------------
(* Lists of users. *)

LEMMA RestFacts ==
  ASSUME NEW S, NEW s \in Seq(S), NEW x
  PROVE  /\ Rest(s, x) \subseteq ToSet(s)
         /\ x \in ToSet(s) => x \in Rest(s, x)
         /\ x \notin ToSet(s) => Rest(s, x) = {}
         /\ Rest(s, First(s)) = ToSet(s)
<1>1. DOMAIN s = 1..Len(s) /\ Len(s) \in Nat
  OBVIOUS
<1>2. Rest(s, x) \subseteq ToSet(s)
  BY DEF Rest
<1>3. ASSUME x \in ToSet(s) PROVE x \in Rest(s, x)
  <2>1. PICK i \in DOMAIN s : s[i] = x
    BY <1>3 DEF ToSet
  <2>2. i <= i
    BY <1>1
  <2> QED BY <1>3, <2>1, <2>2 DEF Rest
<1>4. x \notin ToSet(s) => Rest(s, x) = {}
  BY DEF Rest, ToSet
<1>5. Rest(s, First(s)) = ToSet(s)
  <2>1. CASE s = <<>>
    BY <2>1 DEF Rest, ToSet
  <2>2. CASE s # <<>>
    <3>1. 1 \in DOMAIN s /\ First(s) = s[1]
      BY <2>2 DEF First
    <3>2. \A j \in DOMAIN s : 1 <= j
      BY <1>1
    <3>3. \A y \in ToSet(s) : \E j \in DOMAIN s : s[j] = y
      BY DEF ToSet
    <3> QED BY <3>1, <3>2, <3>3 DEF Rest
  <2> QED BY <2>1, <2>2
<1> QED BY <1>2, <1>3, <1>4, <1>5

LEMMA RestFollowing ==
  ASSUME NEW S, NEW s \in Seq(S), Injective(s), NULL \notin S, NEW x \in ToSet(s)
  PROVE  Rest(s, Following(s, x)) = Rest(s, x) \ {x}
<1>1. DOMAIN s = 1..Len(s) /\ Len(s) \in Nat
  OBVIOUS
<1>2. PICK i \in DOMAIN s : s[i] = x
  BY DEF ToSet
<1> DEFINE after == {k \in DOMAIN s : k > 1 /\ s[k - 1] = x}
<1>3. \A k \in DOMAIN s : k > 1 /\ s[k - 1] = x => k = i + 1
  <2> TAKE k \in DOMAIN s
  <2>1. k > 1 => k - 1 \in DOMAIN s
    BY <1>1
  <2>2. k > 1 /\ s[k - 1] = x => k - 1 = i
    BY <1>2, <2>1 DEF Injective
  <2> QED BY <1>1, <2>2
<1>4. Rest(s, x) = {y \in ToSet(s) : \E j \in DOMAIN s : i <= j /\ s[j] = y}
  BY <1>2 DEF Rest, Injective
<1>5. CASE i = Len(s)
  <2>1. after = {}
    BY <1>1, <1>3, <1>5
  <2>2. Following(s, x) = NULL
    BY <2>1 DEF Following
  <2>3. NULL \notin ToSet(s)
    BY DEF ToSet
  <2>4. Rest(s, NULL) = {}
    BY <2>3, RestFacts
  <2>5. \A j \in DOMAIN s : i <= j => j = i
    BY <1>1, <1>5
  <2> QED BY <1>2, <1>4, <2>2, <2>4, <2>5
<1>6. CASE i # Len(s)
  <2>1. i + 1 \in DOMAIN s /\ i + 1 > 1 /\ (i + 1) - 1 = i
    BY <1>1, <1>6
  <2>2. after = {i + 1}
    BY <1>2, <1>3, <2>1
  <2>3. Following(s, x) = s[i + 1]
    <3>1. Following(s, x) = IF after = {} THEN NULL ELSE s[CHOOSE k \in after : TRUE]
      BY DEF Following
    <3> HIDE DEF after
    <3> QED BY <2>2, <3>1
  <2>4. Rest(s, s[i + 1]) = {y \in ToSet(s) : \E j \in DOMAIN s : i + 1 <= j /\ s[j] = y}
    BY <2>1 DEF Rest, Injective
  <2>5. \A j \in DOMAIN s : i <= j <=> (i = j \/ i + 1 <= j)
    BY <1>1
  <2>6. \A j \in DOMAIN s : i + 1 <= j => s[j] # x
    <3> TAKE j \in DOMAIN s
    <3>1. i + 1 <= j => i # j
      BY <1>1
    <3> QED BY <1>2, <3>1 DEF Injective
  <2> QED BY <1>2, <1>4, <2>3, <2>4, <2>5, <2>6
<1> QED BY <1>5, <1>6

(* The members that stay keep their order. *)
LEMMA SublistOrder ==
  ASSUME NEW T, NEW s \in Seq(T), NEW S
  PROVE  \E p : /\ \A k \in DOMAIN Sublist(s, S) : p[k] \in DOMAIN s /\ Sublist(s, S)[k] = s[p[k]]
                /\ \A i \in DOMAIN s : s[i] \in S => \E k \in DOMAIN Sublist(s, S) : p[k] = i
                /\ \A k, l \in DOMAIN Sublist(s, S) : k <= l => p[k] <= p[l]
                /\ \A k, l \in DOMAIN Sublist(s, S) : p[k] <= p[l] => k <= l
<1> DEFINE at == {i \in DOMAIN s : s[i] \in S}
           n == Cardinality(at)
           upto(i) == {j \in at : j <= i}
           rank(i) == Cardinality(upto(i))
           pos(k) == CHOOSE i \in at : rank(i) = k
           t == Sublist(s, S)
<1>1. DOMAIN s = 1..Len(s) /\ Len(s) \in Nat /\ at \in SUBSET Nat
  OBVIOUS
<1>2. IsFiniteSet(at) /\ n \in Nat
  <2>1. IsFiniteSet(1..Len(s)) /\ at \in SUBSET (1..Len(s))
    BY <1>1, FS_Interval
  <2> HIDE DEF at
  <2> QED BY <2>1, FS_Subset, FS_CardinalityType
<1>3. /\ \A k \in 1..n : \E i \in at : rank(i) = k
      /\ \A i \in at : rank(i) \in 1..n
      /\ \A i, j \in at : rank(i) = rank(j) => i = j
  <2> HIDE DEF at
  <2> QED BY <1>1, <1>2, Ranks
<1>4. \A k \in 1..n : pos(k) \in at /\ rank(pos(k)) = k
  <2> HIDE DEF at, n, rank
  <2> QED BY <1>3
<1>5. t = [k \in 1..n |-> s[pos(k)]]
  BY DEF Sublist
<1>6. \A i, j \in at : i <= j => rank(i) <= rank(j)
  <2> TAKE i, j \in at
  <2> HAVE i <= j
  <2>1. upto(i) \in SUBSET upto(j) /\ upto(j) \in SUBSET at
    <3>1. i \in Nat /\ j \in Nat /\ \A m \in at : m \in Nat
      BY <1>1
    <3>2. \A m \in at : m <= i => m <= j
      BY <3>1
    <3> QED BY <3>2
  <2> HIDE DEF at, upto
  <2> QED BY <1>2, <2>1, FS_Subset
<1>7. at \subseteq Nat /\ at \subseteq DOMAIN s /\ \A i \in DOMAIN s : s[i] \in S => i \in at
  BY <1>1
<1> DEFINE p == [k \in 1..n |-> pos(k)]
<1> HIDE DEF at, upto, rank, pos, t
<1>8. DOMAIN t = 1..n /\ \A k \in DOMAIN t : p[k] \in DOMAIN s /\ t[k] = s[p[k]]
  BY <1>4, <1>5, <1>7
<1>9. \A i \in DOMAIN s : s[i] \in S => \E k \in DOMAIN t : p[k] = i
  <2> TAKE i \in DOMAIN s
  <2> HAVE s[i] \in S
  <2>1. i \in at /\ rank(i) \in 1..n
    BY <1>3, <1>7
  <2>2. pos(rank(i)) = i
    BY <1>3, <1>4, <2>1
  <2> QED BY <1>8, <2>1, <2>2
<1>10. \A k, l \in 1..n : p[k] <= p[l] => k <= l
  BY <1>4, <1>6
<1>11. \A k, l \in 1..n : k <= l => p[k] <= p[l]
  <2> TAKE k, l \in 1..n
  <2>1. p[k] \in Nat /\ p[l] \in Nat
    BY <1>4, <1>7
  <2>2. p[k] <= p[l] \/ p[l] <= p[k]
    BY <2>1
  <2>3. k \in Int /\ l \in Int
    BY <1>2
  <2>4. p[l] <= p[k] => l <= k
    BY <1>10
  <2>5. k = l => p[k] <= p[l]
    BY <2>1
  <2> HIDE DEF p
  <2> QED BY <2>2, <2>3, <2>4, <2>5
<1> HIDE DEF p
<1>12. /\ \A k \in DOMAIN t : p[k] \in DOMAIN s /\ t[k] = s[p[k]]
       /\ \A i \in DOMAIN s : s[i] \in S => \E k \in DOMAIN t : p[k] = i
       /\ \A k, l \in DOMAIN t : k <= l => p[k] <= p[l]
       /\ \A k, l \in DOMAIN t : p[k] <= p[l] => k <= l
  BY <1>8, <1>9, <1>10, <1>11, Zenon
<1> QED BY <1>12, Zenon DEF t

LEMMA RestSublist ==
  ASSUME NEW T, NEW s \in Seq(T), NEW S, NEW x \in S
  PROVE  Rest(Sublist(s, S), x) = Rest(s, x) \cap S
<1> DEFINE t == Sublist(s, S)
<1>1. PICK p : /\ \A k \in DOMAIN t : p[k] \in DOMAIN s /\ t[k] = s[p[k]]
               /\ \A i \in DOMAIN s : s[i] \in S => \E k \in DOMAIN t : p[k] = i
               /\ \A k, l \in DOMAIN t : k <= l => p[k] <= p[l]
               /\ \A k, l \in DOMAIN t : p[k] <= p[l] => k <= l
  BY SublistOrder
<1>2. t \in Seq(T) /\ ToSet(t) = ToSet(s) \cap S
  BY SublistProperties
<1> HIDE DEF t
<1>3. Rest(t, x) \subseteq Rest(s, x) \cap S
  BY <1>1, <1>2 DEF Rest
<1>4. ASSUME NEW y \in Rest(s, x), y \in S PROVE y \in Rest(t, x)
  <2>1. PICK i \in DOMAIN s, j \in DOMAIN s : i <= j /\ s[i] = x /\ s[j] = y
    BY DEF Rest
  <2>2. PICK k \in DOMAIN t : p[k] = i
    BY <1>1, <2>1
  <2>3. PICK l \in DOMAIN t : p[l] = j
    BY <1>1, <1>4, <2>1
  <2>4. k <= l /\ t[k] = x /\ t[l] = y
    BY <1>1, <2>1, <2>2, <2>3
  <2>5. y \in ToSet(t)
    BY <1>2, <1>4 DEF Rest
  <2> QED BY <2>4, <2>5 DEF Rest
<1> QED BY <1>3, <1>4 DEF t

LEMMA AgreedAgain ==
  ASSUME HandlesAgree(stack', handle', ctx', content'), CallsAgree(stack', handle', ctx', content'),
         Spared(stack', handle', ctx', content'), ContentsAgree(low', content')
  PROVE  Agreed'
BY DEF Agreed

-----------------------------------------------------------------------------
(* The stack: the innermost call, and those it is made from. *)

LEMMA PushedCall ==
  ASSUME NEW st \in Seq(Frame), NEW f \in Frame
  PROVE  /\ Cons(f, st) \in Seq(Frame) /\ Cons(f, st) # <<>>
         /\ Head(Cons(f, st)) = f /\ Tail(Cons(f, st)) = st
<1> DEFINE t == Cons(f, st)
<1>1. t \in Seq(Frame) /\ t # <<>> /\ Head(t) = f
  BY ConsFrames
<1>2. Tail(t) = st
  BY DEF Cons
<1> QED BY <1>1, <1>2

(* Where the calls of the tail stand. *)
LEMMA TailPlaces ==
  ASSUME NEW st \in Seq(Frame), st # <<>>
  PROVE  /\ 1 \in DOMAIN st /\ st[1] = Head(st) /\ Head(st) \in Frame /\ Tail(st) \in Seq(Frame)
         /\ \A i \in DOMAIN Tail(st) : /\ i + 1 \in DOMAIN st /\ i + 1 > 1 /\ i >= 1
                                       /\ Tail(st)[i] = st[i + 1]
         /\ \A i \in DOMAIN st : /\ i >= 1
                                 /\ i # 1 => i - 1 \in DOMAIN Tail(st) /\ (i - 1) + 1 = i
         /\ Len(Tail(st)) = Len(st) - 1 /\ DOMAIN Tail(st) = 1..Len(Tail(st)) /\ Len(st) \in Nat
         /\ DOMAIN st = 1..Len(st)
         /\ Tail(st) # <<>> => Bottom(Tail(st)) = Bottom(st) /\ Len(Tail(st)) >= 1
         /\ Tail(st) = <<>> => Bottom(st) = Head(st) /\ Len(st) = 1
<1> DEFINE t == Tail(st)
<1>1. /\ t \in Seq(Frame) /\ Len(st) \in Nat \ {0} /\ Len(t) = Len(st) - 1 /\ Head(st) = st[1]
      /\ Head(st) \in Frame /\ \A i \in 1..Len(t) : t[i] = st[i + 1] /\ i + 1 \in 2..Len(st)
      /\ DOMAIN st = 1..Len(st) /\ DOMAIN t = 1..Len(t)
  BY TailFrames
<1> HIDE DEF t
<1>2. t # <<>> => Len(t) \in 1..Len(t) /\ Len(t) >= 1
  BY <1>1
<1>3. t = <<>> => Len(t) = 0
  OBVIOUS
<1>4. t # <<>> => Bottom(t) = Bottom(st)
  BY <1>1, <1>2 DEF Bottom
<1>5. t = <<>> => Len(st) = 1 /\ Bottom(st) = Head(st)
  BY <1>1, <1>3 DEF Bottom
<1>6. \A i \in DOMAIN t : i + 1 \in DOMAIN st /\ i + 1 > 1 /\ i >= 1 /\ t[i] = st[i + 1]
  BY <1>1
<1>7. \A i \in DOMAIN st : /\ i >= 1 /\ (i # 1 => i - 1 \in DOMAIN t /\ (i - 1) + 1 = i)
  BY <1>1
<1> QED BY <1>1, <1>2, <1>4, <1>5, <1>6, <1>7 DEF t

LEMMA SplitBehind ==
  ASSUME NEW st \in Seq(Frame), st # <<>>, NEW ct, NEW h
  PROVE  Behind(st, ct, h) <=>
           \/ Head(st).at = "broadcast" /\ h \in Rest(ct[Head(st).c].users, Head(st).h)
           \/ Behind(Tail(st), ct, h)
<1>1. /\ 1 \in DOMAIN st /\ st[1] = Head(st)
      /\ \A i \in DOMAIN Tail(st) : i + 1 \in DOMAIN st /\ Tail(st)[i] = st[i + 1]
      /\ \A i \in DOMAIN st : i # 1 => i - 1 \in DOMAIN Tail(st) /\ (i - 1) + 1 = i
  BY TailPlaces
<1> DEFINE P(f) == f.at = "broadcast" /\ h \in Rest(ct[f.c].users, f.h)
<1> HIDE DEF P
<1>2. (\E i \in DOMAIN st : P(st[i])) <=> P(Head(st)) \/ \E i \in DOMAIN Tail(st) : P(Tail(st)[i])
  BY <1>1
<1> QED BY <1>2 DEF P, Behind

LEMMA SplitFails ==
  ASSUME NEW st \in Seq(Frame), st # <<>>, NEW ct, NEW c
  PROVE  Fails(st, ct, c) <=>
           \/ Head(st).at \in {"set_error", "data_failed"} /\ Head(st).c = c
           \/ Fails(Tail(st), ct, c)
<1>1. /\ 1 \in DOMAIN st /\ st[1] = Head(st)
      /\ \A i \in DOMAIN Tail(st) : i + 1 \in DOMAIN st /\ Tail(st)[i] = st[i + 1]
      /\ \A i \in DOMAIN st : i # 1 => i - 1 \in DOMAIN Tail(st) /\ (i - 1) + 1 = i
  BY TailPlaces
<1> DEFINE P(f) == f.at \in {"set_error", "data_failed"} /\ f.c = c
<1> HIDE DEF P
<1>2. (\E i \in DOMAIN st : P(st[i])) <=> P(Head(st)) \/ \E i \in DOMAIN Tail(st) : P(Tail(st)[i])
  BY <1>1
<1> QED BY <1>2 DEF P, Fails

LEMMA SplitRefused ==
  ASSUME NEW st \in Seq(Frame), st # <<>>, NEW h, NEW c
  PROVE  (\E i \in DOMAIN st : Refused(st, i, h, c)) <=>
           \/ /\ Head(st) = Client(h, "ERROR")
              /\ c # NULL => /\ Tail(st) # <<>> /\ Head(Tail(st)).at = "broadcast"
                             /\ Head(Tail(st)).c = c
           \/ \E i \in DOMAIN Tail(st) : Refused(Tail(st), i, h, c)
<1> DEFINE t == Tail(st)
<1>1. /\ 1 \in DOMAIN st /\ st[1] = Head(st) /\ t \in Seq(Frame)
      /\ \A i \in DOMAIN t : i + 1 \in DOMAIN st /\ t[i] = st[i + 1]
      /\ \A i \in DOMAIN st : i >= 1 /\ (i # 1 => i - 1 \in DOMAIN t /\ (i - 1) + 1 = i)
      /\ Len(t) = Len(st) - 1 /\ DOMAIN t = 1..Len(t) /\ Len(st) \in Nat /\ DOMAIN st = 1..Len(st)
  BY TailPlaces
<1>2. t # <<>> <=> 1 < Len(st)
  BY <1>1, TailPlaces
<1>3. t # <<>> => Head(t) = st[2]
  <2> HAVE t # <<>>
  <2>1. 1 \in DOMAIN t /\ Head(t) = t[1]
    BY <1>1
  <2> QED BY <1>1, <2>1
<1> HIDE DEF t
<1>4. Refused(st, 1, h, c) <=>
        /\ Head(st) = Client(h, "ERROR")
        /\ c # NULL => t # <<>> /\ Head(t).at = "broadcast" /\ Head(t).c = c
  BY <1>1, <1>2, <1>3 DEF Refused
<1>5. ASSUME NEW i \in DOMAIN t
      PROVE  Refused(st, i + 1, h, c) <=> Refused(t, i, h, c)
  <2>1. i < Len(t) <=> i + 1 < Len(st)
    BY <1>1
  <2>2. i < Len(t) => t[i + 1] = st[(i + 1) + 1]
    BY <1>1
  <2> QED BY <1>1, <2>1, <2>2 DEF Refused
<1>6. ASSUME NEW i \in DOMAIN st, Refused(st, i, h, c), i # 1
      PROVE  \E j \in DOMAIN t : Refused(t, j, h, c)
  <2>1. i - 1 \in DOMAIN t /\ (i - 1) + 1 = i
    BY <1>1, <1>6
  <2> QED BY <1>5, <1>6, <2>1
<1>7. \A i \in DOMAIN t : i + 1 \in DOMAIN st
  BY <1>1
<1> QED BY <1>1, <1>4, <1>5, <1>6, <1>7 DEF t

(* What a call may be made from. *)
Over(f, st, hd, cx, ct) ==
  /\ CallAgrees(f, hd, cx, ct)
  /\ \A j \in DOMAIN st : Inside(f, st[j])
  /\ st # <<>> => Deep(Head(st), hd, ct) /\ Above(f, Bottom(st), hd, cx, ct)

LEMMA SplitCalls ==
  ASSUME NEW st \in Seq(Frame), st # <<>>, NEW hd, NEW cx, NEW ct
  PROVE  CallsAgree(st, hd, cx, ct) <=>
           Over(Head(st), Tail(st), hd, cx, ct) /\ CallsAgree(Tail(st), hd, cx, ct)
<1> DEFINE t == Tail(st)
           f == Head(st)
           b == Bottom(st)
<1>1. /\ 1 \in DOMAIN st /\ st[1] = f /\ t \in Seq(Frame)
      /\ \A i \in DOMAIN t : i + 1 \in DOMAIN st /\ i + 1 > 1 /\ i >= 1 /\ t[i] = st[i + 1]
      /\ \A i \in DOMAIN st : i >= 1 /\ (i # 1 => i - 1 \in DOMAIN t /\ (i - 1) + 1 = i)
      /\ Len(t) = Len(st) - 1 /\ DOMAIN t = 1..Len(t) /\ Len(st) \in Nat /\ DOMAIN st = 1..Len(st)
      /\ t # <<>> => Bottom(t) = b /\ Len(t) >= 1
      /\ t = <<>> => b = f /\ Len(st) = 1
  BY TailPlaces
<1>2. (t # <<>> <=> 1 \in DOMAIN t) /\ (t # <<>> => Head(t) = t[1])
  BY <1>1
<1>3. Above(f, f, hd, cx, ct)
  BY DEF Above, OfContent, OfCtx
<1> HIDE DEF t, f, b
<1>4. ASSUME CallsAgree(st, hd, cx, ct)
      PROVE  Over(f, t, hd, cx, ct) /\ CallsAgree(t, hd, cx, ct)
  <2>1. CallAgrees(f, hd, cx, ct) /\ Above(f, b, hd, cx, ct)
    BY <1>1, <1>4 DEF CallsAgree, b
  <2>2. ASSUME NEW i \in DOMAIN t
        PROVE  /\ CallAgrees(t[i], hd, cx, ct) /\ Deep(t[i], hd, ct) /\ Above(t[i], b, hd, cx, ct)
               /\ Inside(f, t[i])
               /\ \A j \in DOMAIN t : i < j => Inside(t[i], t[j])
    <3>1. /\ CallAgrees(st[i + 1], hd, cx, ct) /\ Deep(st[i + 1], hd, ct)
          /\ Above(st[i + 1], b, hd, cx, ct) /\ Inside(st[1], st[i + 1])
      BY <1>1, <1>4 DEF CallsAgree, b
    <3>2. ASSUME NEW j \in DOMAIN t, i < j PROVE Inside(t[i], t[j])
      <4>1. i + 1 < j + 1
        BY <1>1, <3>2
      <4>2. Inside(st[i + 1], st[j + 1])
        BY <1>1, <1>4, <4>1 DEF CallsAgree
      <4> QED BY <1>1, <4>2
    <3> QED BY <1>1, <3>1, <3>2
  <2>3. DOMAIN t # {} => t # <<>>
    BY <1>1
  <2> QED BY <1>1, <1>2, <2>1, <2>2, <2>3 DEF CallsAgree, Over
<1>5. ASSUME Over(f, t, hd, cx, ct), CallsAgree(t, hd, cx, ct)
      PROVE  CallsAgree(st, hd, cx, ct)
  <2>1. Above(f, b, hd, cx, ct)
    BY <1>1, <1>3, <1>5 DEF Over
  <2>2. ASSUME NEW i \in DOMAIN t
        PROVE  /\ CallAgrees(t[i], hd, cx, ct) /\ Deep(t[i], hd, ct) /\ Above(t[i], b, hd, cx, ct)
               /\ Inside(f, t[i])
               /\ \A j \in DOMAIN t : i < j => Inside(t[i], t[j])
    <3>1. t # <<>>
      BY <1>1, <2>2
    <3>2. i = 1 \/ i > 1
      BY <1>1
    <3> QED BY <1>1, <1>2, <1>5, <3>1, <3>2 DEF CallsAgree, Over
  <2>3. ASSUME NEW i \in DOMAIN st
        PROVE  /\ CallAgrees(st[i], hd, cx, ct)
               /\ i > 1 => Deep(st[i], hd, ct)
               /\ Above(st[i], b, hd, cx, ct)
               /\ \A j \in DOMAIN st : i < j => Inside(st[i], st[j])
    <3>1. CASE i = 1
      <4>1. ASSUME NEW j \in DOMAIN st, i < j PROVE Inside(st[i], st[j])
        <5>1. j - 1 \in DOMAIN t /\ (j - 1) + 1 = j
          BY <1>1, <3>1, <4>1
        <5>2. t[j - 1] = st[j]
          BY <1>1, <5>1
        <5> QED BY <1>1, <2>2, <3>1, <5>1, <5>2
      <4> QED BY <1>1, <1>5, <2>1, <3>1, <4>1 DEF Over
    <3>2. CASE i # 1
      <4>1. i - 1 \in DOMAIN t /\ t[i - 1] = st[i]
        BY <1>1, <3>2
      <4>2. ASSUME NEW j \in DOMAIN st, i < j PROVE Inside(st[i], st[j])
        <5>1. j - 1 \in DOMAIN t /\ t[j - 1] = st[j] /\ i - 1 < j - 1
          BY <1>1, <3>2, <4>2
        <5> QED BY <2>2, <4>1, <5>1
      <4> QED BY <2>2, <4>1, <4>2
    <3> QED BY <3>1, <3>2
  <2> QED BY <2>3 DEF CallsAgree, b
<1> QED BY <1>4, <1>5 DEF t, f

-----------------------------------------------------------------------------
(* What the invariant of the structure says of lists and calls. *)

LEMMA StateFacts ==
  ASSUME Tied
  PROVE  /\ stack \in Seq(Frame) /\ handle \in [Handle -> HandleType] /\ ctx \in [Low -> CtxType]
         /\ low \in [Low -> LowType] /\ content \in [Content -> ContentType]
         /\ \A c \in Content :
              /\ content[c].users \in Seq(Handle) /\ Injective(content[c].users)
              /\ ToSet(content[c].users) = {h \in Handle : handle[h].entry = c}
         /\ NULL \notin Handle /\ NULL \notin Content /\ Window \cap Content = {} /\ NULL \notin Window
BY HLCacheAssumption DEF Tied, Typed, Users, Frames, ContentType

LEMMA CallFacts ==
  ASSUME Tied, NEW i \in DOMAIN stack
  PROVE  /\ stack[i] \in Frame
         /\ stack[i].at \in OfContent => stack[i].c \in Content /\ stack[i].c \in ToSet(list)
         /\ stack[i].at = "broadcast" => stack[i].h \in Handle \cup {NULL}
                                         /\ stack[i].msg \in {"READY", "DONE", "ERROR"}
         /\ stack[i].at = "client" => stack[i].h \in Handle
         /\ stack[i].at = "catch_up" =>
              /\ i = Len(stack) /\ stack[i] = Bottom(stack) /\ stack[i].l \in Low
              /\ ctx[stack[i].l].target /\ ctx[stack[i].l].handle \in Handle
<1>1. i \in 1..Len(stack) /\ stack[i] \in Frame /\ FrameTied(stack[i], ctx, low, list)
      /\ (stack[i].at \in Deepest => i = Len(stack))
  BY DEF Tied, Frames
<1>2. stack[i].at \in OfContent => stack[i].c \in Content /\ stack[i].c \in ToSet(list)
  BY <1>1, ListedFacts DEF FrameTied
<1>3. /\ stack[i].at = "broadcast" => stack[i].h \in Handle \cup {NULL}
                                     /\ stack[i].msg \in {"READY", "DONE", "ERROR"}
      /\ stack[i].at = "client" => stack[i].h \in Handle
      /\ stack[i].at = "catch_up" => stack[i].l \in Low
  BY <1>1, FrameFields
<1>4. stack[i].at = "catch_up" => ctx[stack[i].l].target /\ i = Len(stack)
  BY <1>1 DEF FrameTied, OfCtx, Deepest
<1>5. stack[i].at = "catch_up" => ctx[stack[i].l].handle \in Handle
  BY <1>3, <1>4 DEF Tied, Lows, Typed, CtxType
<1> QED BY <1>1, <1>2, <1>3, <1>4, <1>5 DEF Bottom

LEMMA BottomFacts ==
  ASSUME Tied, stack # <<>>
  PROVE  /\ Len(stack) \in DOMAIN stack /\ Bottom(stack) = stack[Len(stack)] /\ Bottom(stack) \in Frame
         /\ Bottom(stack).at = "catch_up" =>
              /\ Bottom(stack).l \in Low /\ ctx[Bottom(stack).l].target
              /\ ctx[Bottom(stack).l].handle \in Handle
<1>1. Len(stack) \in DOMAIN stack
  BY StateFacts
<1> QED BY <1>1, CallFacts DEF Bottom

(* The calls that still concern a handle are those of its content. *)
LEMMA BehindIs ==
  ASSUME Tied, Agreed, NEW h \in Handle, Behind(stack, content, h)
  PROVE  \E i \in DOMAIN stack :
           /\ stack[i].at = "broadcast" /\ stack[i].c = handle[h].entry /\ stack[i].c \in Content
           /\ h \in Rest(content[stack[i].c].users, stack[i].h)
           /\ handle[h].told = Prior(stack[i].msg) /\ stack[i].h # NULL
<1>1. PICK i \in DOMAIN stack :
        stack[i].at = "broadcast" /\ h \in Rest(content[stack[i].c].users, stack[i].h)
  BY DEF Behind
<1>2. stack[i].c \in Content
  BY <1>1, CallFacts DEF OfContent
<1>3. h \in ToSet(content[stack[i].c].users)
  BY <1>1, <1>2, StateFacts, RestFacts
<1>4. stack[i].c = handle[h].entry
  BY <1>2, <1>3, StateFacts
<1>5. stack[i].h # NULL
  <2>1. NULL \notin ToSet(content[stack[i].c].users)
    BY <1>2, StateFacts
  <2> QED BY <1>1, <1>2, <2>1, StateFacts, RestFacts
<1>6. handle[h].told = Prior(stack[i].msg)
  BY <1>1 DEF Agreed, CallsAgree, CallAgrees, Broadcasts
<1> QED BY <1>1, <1>2, <1>4, <1>5, <1>6

LEMMA LateIs ==
  ASSUME Tied, Agreed, NEW h \in Handle, Late(stack, ctx, h)
  PROVE  /\ stack # <<>> /\ Bottom(stack).at = "catch_up" /\ ctx[Bottom(stack).l].handle = h
         /\ CatchesUp(h, Bottom(stack).msgs, handle, content)
<1>1. stack # <<>> /\ Bottom(stack).at = "catch_up" /\ ctx[Bottom(stack).l].handle = h
  BY DEF Late
<1>2. CallAgrees(Bottom(stack), handle, ctx, content)
  BY <1>1, BottomFacts DEF Agreed, CallsAgree
<1> QED BY <1>1, <1>2 DEF CallAgrees

(* Between its broadcasts the users of a content know its status. *)
LEMMA UsersToldStatus ==
  ASSUME Tied, Agreed, NEW c \in Content,
         \A i \in DOMAIN stack : stack[i].at = "broadcast" => stack[i].c # c,
         \A h \in Handle : handle[h].entry = c => ~Late(stack, ctx, h)
  PROVE  \A h \in Handle : handle[h].entry = c =>
           handle[h].told = content[c].status /\ ~Fails(stack, content, c)
<1> TAKE h \in Handle
<1> HAVE handle[h].entry = c
<1>1. c # NULL
  BY StateFacts
<1>2. handle[h].told # "ERROR"
  <2>1. ASSUME NEW i \in DOMAIN stack, Refused(stack, i, h, c) PROVE FALSE
    <3>1. i < Len(stack) /\ stack[i + 1].at = "broadcast" /\ stack[i + 1].c = c
      BY <1>1, <2>1 DEF Refused
    <3>2. i + 1 \in DOMAIN stack
      BY <3>1, StateFacts
    <3> QED BY <3>1, <3>2
  <2> QED BY <2>1 DEF Agreed, HandlesAgree
<1>3. ~Behind(stack, content, h)
  BY BehindIs
<1>4. ~Late(stack, ctx, h)
  OBVIOUS
<1> QED BY <1>1, <1>2, <1>3, <1>4 DEF Agreed, HandlesAgree

-----------------------------------------------------------------------------
(* A call returns. *)

Returns(f) ==
  \/ f.at = "client" /\ (f.msg = "ERROR" => handle[f.h].told # "ERROR")
  \/ f.at = "broadcast" /\ f.h = NULL
  \/ f.at \in {"abort", "migrated", "refused", "release", "sweep"}

LEMMA ReturnAgrees ==
  ASSUME Tied, Agreed, stack # <<>>, Returns(Head(stack))
  PROVE  /\ HandlesAgree(Tail(stack), handle, ctx, content)
         /\ CallsAgree(Tail(stack), handle, ctx, content)
         /\ Spared(Tail(stack), handle, ctx, content)
<1> DEFINE f == Head(stack)
           t == Tail(stack)
<1>1. /\ stack \in Seq(Frame) /\ t \in Seq(Frame) /\ f \in Frame
      /\ 1 \in DOMAIN stack /\ stack[1] = f
      /\ t # <<>> => Bottom(t) = Bottom(stack)
      /\ t = <<>> => Bottom(stack) = f
  BY StateFacts, TailPlaces
<1>2. Over(f, t, handle, ctx, content) /\ CallsAgree(t, handle, ctx, content)
  BY <1>1, SplitCalls DEF Agreed
<1>3. \A h \in Handle : Late(stack, ctx, h) => Late(t, ctx, h)
  <2>1. f.at # "catch_up"
    BY DEF Returns
  <2> HIDE DEF f, t
  <2> QED BY <1>1, <2>1 DEF Late
<1>4. \A h \in Handle : Behind(stack, content, h) => Behind(t, content, h)
  <2> TAKE h \in Handle
  <2> HAVE Behind(stack, content, h)
  <2>1. (f.at = "broadcast" /\ h \in Rest(content[f.c].users, f.h)) \/ Behind(t, content, h)
    BY <1>1, SplitBehind
  <2>2. ASSUME f.at = "broadcast" PROVE Rest(content[f.c].users, f.h) = {}
    <3>1. f.h = NULL /\ f.c \in Content
      BY <1>1, <2>2, CallFacts DEF Returns, OfContent
    <3>2. NULL \notin ToSet(content[f.c].users)
      BY <3>1, StateFacts
    <3> QED BY <3>1, <3>2, StateFacts, RestFacts
  <2> QED BY <2>1, <2>2
<1>5. \A c \in Content : Fails(t, content, c) => Fails(stack, content, c)
  BY <1>1, SplitFails
<1>6. \A h \in Handle, c \in Content \cup {NULL} :
        handle[h].told = "ERROR" /\ (\E i \in DOMAIN stack : Refused(stack, i, h, c))
          => \E i \in DOMAIN t : Refused(t, i, h, c)
  <2> TAKE h \in Handle, c \in Content \cup {NULL}
  <2>1. handle[h].told = "ERROR" => f # Client(h, "ERROR")
    BY DEF Returns, Client
  <2> QED BY <1>1, <2>1, SplitRefused
<1>7. \A h \in Handle : handle[h].entry \in Content \cup {NULL}
  BY StateFacts DEF HandleType
<1> HIDE DEF f, t
<1>8. HandlesAgree(t, handle, ctx, content)
  <2>1. HandlesAgree(stack, handle, ctx, content)
    BY DEF Agreed
  <2>2. ASSUME NEW h \in Handle
        PROVE  /\ handle[h].told = "ERROR" => \E i \in DOMAIN t : Refused(t, i, h, handle[h].entry)
               /\ handle[h].entry # NULL =>
                    \/ handle[h].told = "ERROR" \/ Behind(t, content, h) \/ Late(t, ctx, h)
                    \/ handle[h].told = content[handle[h].entry].status
                       /\ ~Fails(t, content, handle[h].entry)
    <3>1. handle[h].told = "ERROR" => \E i \in DOMAIN stack : Refused(stack, i, h, handle[h].entry)
      BY <2>1 DEF HandlesAgree
    <3>2. handle[h].entry # NULL =>
             \/ handle[h].told = "ERROR" \/ Behind(stack, content, h) \/ Late(stack, ctx, h)
             \/ handle[h].told = content[handle[h].entry].status
                /\ ~Fails(stack, content, handle[h].entry)
      BY <2>1 DEF HandlesAgree
    <3> QED BY <1>3, <1>4, <1>5, <1>6, <1>7, <3>1, <3>2
  <2> QED BY <2>1, <2>2 DEF HandlesAgree
<1>9. Spared(t, handle, ctx, content)
  BY <1>2 DEF Spared, Over, Deep
<1> QED BY <1>2, <1>8, <1>9 DEF t

-----------------------------------------------------------------------------
(* A handle is told something. *)

LEMMA ToldFacts ==
  ASSUME NEW hd \in [Handle -> HandleType], NEW h \in Handle, NEW msg \in Messages
  PROVE  /\ ToldTo(hd, h, msg) \in [Handle -> HandleType]
         /\ ToldTo(hd, h, msg)[h].told = msg
         /\ \A g \in Handle : /\ ToldTo(hd, h, msg)[g].entry = hd[g].entry
                              /\ ToldTo(hd, h, msg)[g].owner = hd[g].owner
                              /\ g # h => ToldTo(hd, h, msg)[g] = hd[g]
<1> DEFINE t == ToldTo(hd, h, msg)
<1>1. hd[h] \in HandleType
  OBVIOUS
<1>2. [hd[h] EXCEPT !.told = msg] \in HandleType
  BY <1>1 DEF HandleType, Messages
<1>3. t = [hd EXCEPT ![h] = [hd[h] EXCEPT !.told = msg]]
  BY DEF ToldTo
<1> DEFINE x == [hd[h] EXCEPT !.told = msg]
<1>4. x.told = msg /\ x.entry = hd[h].entry /\ x.owner = hd[h].owner
  BY <1>1 DEF HandleType
<1> HIDE DEF x, t
<1>5. t[h] = x /\ \A g \in Handle : g # h => t[g] = hd[g]
  BY <1>3 DEF x
<1>6. t \in [Handle -> HandleType]
  BY <1>2, <1>3 DEF x
<1> QED BY <1>4, <1>5, <1>6 DEF t

(* A call does not depend on h. *)
Ignores(f, h, msg, cx, ct) ==
  /\ f.at = "broadcast" => h \notin Rest(ct[f.c].users, f.h)
  /\ f.at = "catch_up" => cx[f.l].handle # h
  /\ f.at = "client" /\ f.msg = "READY" /\ f.h = h => msg \in {"READY", "DONE"}

LEMMA TellKeeps ==
  ASSUME Tied, NEW h \in Handle, NEW msg \in {"READY", "DONE", "ERROR"},
         NEW i \in DOMAIN stack, Ignores(stack[i], h, msg, ctx, content)
  PROVE  /\ CallAgrees(stack[i], handle, ctx, content)
              => CallAgrees(stack[i], ToldTo(handle, h, msg), ctx, content)
         /\ Deep(stack[i], handle, content) => Deep(stack[i], ToldTo(handle, h, msg), content)
<1> DEFINE hd == ToldTo(handle, h, msg)
           f == stack[i]
<1>1. /\ hd[h].told = msg /\ msg # "LOADING"
      /\ \A g \in Handle : /\ hd[g].entry = handle[g].entry /\ hd[g].owner = handle[g].owner
                           /\ g # h => hd[g] = handle[g]
  BY StateFacts, ToldFacts DEF Messages
<1> HIDE DEF hd
<1>2. /\ f.at = "broadcast" => f.c \in Content
      /\ f.at = "set_done" => f.c \in Content
      /\ f.at = "client" => f.h \in Handle
      /\ f.at = "catch_up" => ctx[f.l].handle \in Handle
  BY CallFacts DEF OfContent
<1>3. ASSUME NEW c \in Content, Apart(handle, content, c) PROVE Apart(hd, content, c)
  <2>1. ToSet(content[c].users) \subseteq Handle
    BY StateFacts
  <2> QED BY <1>1, <1>3, <2>1 DEF Apart
<1>4. ASSUME f.at = "broadcast", Broadcasts(f, handle, content[f.c])
      PROVE  Broadcasts(f, hd, content[f.c])
  <2>1. Rest(content[f.c].users, f.h) \subseteq Handle \ {h}
    BY <1>2, <1>4, StateFacts, RestFacts DEF Ignores
  <2> QED BY <1>1, <1>4, <2>1 DEF Broadcasts
<1>5. ASSUME f.at = "catch_up", CatchesUp(ctx[f.l].handle, f.msgs, handle, content)
      PROVE  CatchesUp(ctx[f.l].handle, f.msgs, hd, content)
  <2> DEFINE hh == ctx[f.l].handle
  <2>1. hh \in Handle /\ hh # h
    BY <1>2, <1>5 DEF Ignores
  <2> HIDE DEF hh
  <2>2. CatchesUp(hh, f.msgs, handle, content)
    BY <1>5 DEF hh
  <2>3. hd[hh] = handle[hh]
    BY <1>1, <2>1
  <2>4. ASSUME NEW g \in Handle \ {hh}, hd[g].owner = hd[hh].owner, hd[g].owner \in Window
        PROVE  hd[g].told # "LOADING"
    BY <1>1, <2>2, <2>3, <2>4 DEF CatchesUp
  <2>5. CatchesUp(hh, f.msgs, hd, content)
    BY <2>2, <2>3, <2>4 DEF CatchesUp
  <2> QED BY <2>5 DEF hh
<1>6. CallAgrees(f, handle, ctx, content) => CallAgrees(f, hd, ctx, content)
  BY <1>1, <1>2, <1>3, <1>4, <1>5 DEF CallAgrees, Ignores
<1>7. Deep(f, handle, content) => Deep(f, hd, content)
  BY <1>1, <1>2 DEF Deep
<1> QED BY <1>6, <1>7 DEF hd

LEMMA BroadcastAgrees ==
  ASSUME Tied, Agreed, content_broadcast, Head(stack).h # NULL
  PROVE  Agreed'
<1> DEFINE f == Head(stack)
           t == Tail(stack)
           h == f.h
           c == f.c
           msg == f.msg
           n == Following(content[c].users, h)
           g == Broadcast(c, n, msg)
           k == Client(h, msg)
           s1 == Cons(g, t)
           st == Cons(k, s1)
           hd == ToldTo(handle, h, msg)
<1>0. /\ stack # <<>> /\ f.at = "broadcast"
      /\ stack' = st /\ handle' = hd /\ UNCHANGED <<ctx, low, content>>
  BY DEF content_broadcast, At, Deliver, ToldTo
<1>1. /\ stack # <<>> /\ stack \in Seq(Frame) /\ t \in Seq(Frame) /\ f \in Frame
      /\ 1 \in DOMAIN stack /\ stack[1] = f
      /\ \A i \in DOMAIN t : i + 1 \in DOMAIN stack /\ i + 1 > 1 /\ t[i] = stack[i + 1]
      /\ \A i \in DOMAIN stack : i # 1 => i - 1 \in DOMAIN t /\ (i - 1) + 1 = i
      /\ t # <<>> => Bottom(t) = Bottom(stack)
      /\ t = <<>> => Bottom(stack) = f
  BY <1>0, StateFacts, TailPlaces
<1>2. Over(f, t, handle, ctx, content) /\ CallsAgree(t, handle, ctx, content)
  BY <1>0, <1>1, SplitCalls DEF Agreed
<1>3. f.at = "broadcast" /\ c \in Content /\ h \in Handle /\ msg \in {"READY", "DONE", "ERROR"}
  BY <1>0, <1>1, CallFacts DEF OfContent
<1>4. Broadcasts(f, handle, content[c])
  BY <1>2, <1>3 DEF Over, CallAgrees
<1>5. /\ h \in ToSet(content[c].users) /\ handle[h].entry = c /\ handle[h].told = Prior(msg)
      /\ h \in Rest(content[c].users, h)
  <2>1. h \in ToSet(content[c].users)
    BY <1>3, <1>4 DEF Broadcasts
  <2>2. h \in Rest(content[c].users, h)
    BY <1>3, <2>1, StateFacts, RestFacts
  <2> QED BY <1>3, <1>4, <2>1, <2>2, StateFacts DEF Broadcasts
<1>6. /\ n = NULL \/ n \in ToSet(content[c].users) \ {h}
      /\ Rest(content[c].users, n) = Rest(content[c].users, h) \ {h}
  BY <1>3, <1>5, StateFacts, FollowingProperties, RestFollowing
<1>7. /\ g \in Frame /\ k \in Frame
      /\ g.at = "broadcast" /\ g.c = c /\ g.h = n /\ g.msg = msg
      /\ k.at = "client" /\ k.h = h /\ k.msg = msg
  <2>1. n \in Handle \cup {NULL}
    BY <1>3, <1>6, StateFacts
  <2> QED BY <1>3, <2>1, FrameTypes DEF Messages, Broadcast, Client
<1>8. /\ s1 \in Seq(Frame) /\ s1 # <<>> /\ Head(s1) = g /\ Tail(s1) = t
      /\ st \in Seq(Frame) /\ st # <<>> /\ Head(st) = k /\ Tail(st) = s1
  BY <1>1, <1>7, PushedCall
<1>9. /\ hd[h].told = msg /\ hd \in [Handle -> HandleType]
      /\ \A v \in Handle : /\ hd[v].entry = handle[v].entry /\ hd[v].owner = handle[v].owner
                           /\ v # h => hd[v] = handle[v]
  BY <1>3, StateFacts, ToldFacts DEF Messages
<1>10. \A i \in DOMAIN t : t[i].at = "broadcast" => t[i].c # c
  BY <1>2, <1>3 DEF Over, Inside, OfContent
<1>11. ASSUME NEW v \in Handle, handle[v].entry = c PROVE ~Late(stack, ctx, v)
  <2>1. t # <<>> => Above(f, Bottom(stack), handle, ctx, content)
    BY <1>1, <1>2 DEF Over
  <2> QED BY <1>1, <1>3, <1>11, <2>1 DEF Late, Above, OfContent
<1> HIDE DEF f, t, n, g, k, s1, st, hd
<1>12. CallsAgree(t, hd, ctx, content) /\ (t # <<>> => Deep(Head(t), hd, content))
  <2>1. ASSUME NEW i \in DOMAIN t
        PROVE  /\ CallAgrees(t[i], hd, ctx, content)
               /\ Deep(t[i], handle, content) => Deep(t[i], hd, content)
    <3>1. i + 1 \in DOMAIN stack /\ t[i] = stack[i + 1]
      BY <1>1
    <3>2. Ignores(t[i], h, msg, ctx, content)
      <4>1. t[i].at = "broadcast" => h \notin Rest(content[t[i].c].users, t[i].h)
        <5> HAVE t[i].at = "broadcast"
        <5>1. t[i].c \in Content /\ t[i].c # c
          BY <1>10, <3>1, CallFacts DEF OfContent
        <5>2. h \notin ToSet(content[t[i].c].users)
          BY <1>3, <1>5, <5>1, StateFacts
        <5> QED BY <5>1, <5>2, StateFacts, RestFacts
      <4>2. t[i].at = "catch_up" => ctx[t[i].l].handle # h
        <5> HAVE t[i].at = "catch_up"
        <5>1. t[i] = Bottom(stack) /\ ctx[t[i].l].handle \in Handle /\ stack # <<>>
          BY <3>1, CallFacts
        <5> QED BY <1>3, <1>5, <1>11, <5>1 DEF Late
      <4>3. t[i].at = "client" /\ t[i].msg = "READY" /\ t[i].h = h => msg \in {"READY", "DONE"}
        <5>1. CallAgrees(t[i], handle, ctx, content)
          BY <1>2 DEF CallsAgree
        <5> QED BY <1>3, <1>5, <5>1 DEF CallAgrees, Prior
      <4> QED BY <4>1, <4>2, <4>3 DEF Ignores
    <3>3. CallAgrees(t[i], handle, ctx, content)
      BY <1>2 DEF CallsAgree
    <3> QED BY <1>3, <3>1, <3>2, <3>3, TellKeeps DEF hd
  <2>2. \A i \in DOMAIN t : Deep(t[i], handle, content) => Deep(t[i], hd, content)
    BY <2>1
  <2>3. t # <<>> => 1 \in DOMAIN t /\ Head(t) = t[1]
    BY <1>1
  <2>4. ASSUME t # <<>> PROVE Deep(Head(t), hd, content)
    BY <1>2, <2>2, <2>3, <2>4 DEF Over
  <2>5. ASSUME NEW i \in DOMAIN t
        PROVE  Above(t[i], Bottom(t), handle, ctx, content) => Above(t[i], Bottom(t), hd, ctx, content)
    <3>1. Bottom(t).at = "catch_up" => ctx[Bottom(t).l].handle \in Handle
      <4>1. t # <<>> /\ stack # <<>>
        BY <1>1, <2>5
      <4> QED BY <1>1, <4>1, BottomFacts
    <3> QED BY <1>9, <3>1 DEF Above
  <2> QED BY <1>2, <2>1, <2>4, <2>5 DEF CallsAgree
<1>14. Over(g, t, hd, ctx, content)
  <2>1. Broadcasts(g, hd, content[c])
    <3>1. Rest(content[c].users, n) \subseteq Handle \ {h}
      BY <1>3, <1>6, StateFacts, RestFacts
    <3> QED BY <1>4, <1>6, <1>7, <1>9, <3>1 DEF Broadcasts
  <2>2. content[c].shared => Apart(hd, content, c)
    <3>1. content[c].shared => Apart(handle, content, c)
      BY <1>2, <1>3 DEF Over, CallAgrees
    <3>2. ToSet(content[c].users) \subseteq Handle
      BY <1>3, StateFacts
    <3> QED BY <1>3, <1>9, <3>1, <3>2 DEF Apart
  <2>3. CallAgrees(g, hd, ctx, content)
    BY <1>7, <2>1, <2>2 DEF CallAgrees
  <2>4. \A j \in DOMAIN t : Inside(g, t[j])
    BY <1>2, <1>3, <1>7 DEF Over, Inside
  <2>5. t # <<>> => Above(g, Bottom(t), hd, ctx, content)
    <3> HAVE t # <<>>
    <3>1. Above(f, Bottom(t), handle, ctx, content)
      BY <1>2 DEF Over
    <3>2. Bottom(t).at = "catch_up" => ctx[Bottom(t).l].handle \in Handle
      <4>1. stack # <<>>
        BY <1>1
      <4> QED BY <1>1, <4>1, BottomFacts
    <3> QED BY <1>3, <1>7, <1>9, <3>1, <3>2 DEF Above
  <2> QED BY <1>12, <2>3, <2>4, <2>5 DEF Over
<1>15. CallsAgree(s1, hd, ctx, content)
  BY <1>8, <1>12, <1>14, SplitCalls
<1>16. Over(k, s1, hd, ctx, content)
  <2>1. CallAgrees(k, hd, ctx, content)
    BY <1>3, <1>7, <1>9 DEF CallAgrees
  <2>2. k.at \notin OfContent
    BY <1>7 DEF OfContent
  <2>3. Deep(g, hd, content)
    <3>1. ~content[c].shared => n = NULL
      <4>1. ~content[c].shared => \A u, v \in Handle : handle[u].entry = c /\ handle[v].entry = c => u = v
        BY <1>3 DEF Tied, Users
      <4>2. ToSet(content[c].users) = {u \in Handle : handle[u].entry = c}
        BY <1>3, StateFacts
      <4>3. ~content[c].shared => ToSet(content[c].users) \subseteq {h}
        BY <1>3, <1>5, <4>1, <4>2
      <4> QED BY <1>6, <4>3
    <3> QED BY <1>7, <3>1 DEF Deep
  <2> QED BY <1>8, <2>1, <2>2, <2>3 DEF Over, Inside, Above
<1>17. CallsAgree(st, hd, ctx, content)
  BY <1>8, <1>15, <1>16, SplitCalls
<1>18. ASSUME NEW v \in Handle
       PROVE  /\ Late(st, ctx, v) <=> Late(stack, ctx, v)
              /\ Behind(st, content, v) <=> v \in Rest(content[c].users, h) \ {h} \/ Behind(t, content, v)
              /\ Behind(stack, content, v) <=> v \in Rest(content[c].users, h) \/ Behind(t, content, v)
  <2>1. Bottom(st) = Bottom(s1) /\ (t # <<>> => Bottom(s1) = Bottom(t)) /\ (t = <<>> => Bottom(s1) = g)
    BY <1>8, TailPlaces
  <2>2. Late(st, ctx, v) <=> Late(stack, ctx, v)
    <3>1. CASE t = <<>>
      BY <1>1, <1>3, <1>7, <1>8, <2>1, <3>1 DEF Late
    <3>2. CASE t # <<>>
      BY <1>1, <1>8, <2>1, <3>2 DEF Late
    <3> QED BY <3>1, <3>2
  <2>3. Behind(st, content, v) <=> Behind(s1, content, v)
    BY <1>7, <1>8, SplitBehind
  <2>4. Behind(s1, content, v) <=> v \in Rest(content[c].users, n) \/ Behind(t, content, v)
    BY <1>7, <1>8, SplitBehind
  <2>5. Behind(stack, content, v) <=> v \in Rest(content[c].users, h) \/ Behind(t, content, v)
    BY <1>1, <1>3, SplitBehind DEF f, t
  <2> QED BY <1>6, <2>2, <2>3, <2>4, <2>5
<1>19. \A d \in Content : Fails(st, content, d) => Fails(stack, content, d)
  <2> TAKE d \in Content
  <2>1. Fails(st, content, d) <=> Fails(s1, content, d)
    BY <1>7, <1>8, SplitFails
  <2>2. Fails(s1, content, d) <=> Fails(t, content, d)
    BY <1>7, <1>8, SplitFails
  <2>3. Fails(t, content, d) => Fails(stack, content, d)
    BY <1>1, SplitFails DEF t
  <2> QED BY <2>1, <2>2, <2>3
<1>20. HandlesAgree(st, hd, ctx, content)
  <2>1. HandlesAgree(stack, handle, ctx, content)
    BY DEF Agreed
  <2>2. ASSUME NEW v \in Handle, hd[v].told = "ERROR"
        PROVE  \E i \in DOMAIN st : Refused(st, i, v, hd[v].entry)
    <3>1. CASE v = h
      <4>1. msg = "ERROR" /\ hd[v].entry = c
        BY <1>5, <1>9, <2>2, <3>1
      <4>2. k = Client(v, "ERROR")
        BY <3>1, <4>1 DEF k
      <4> QED BY <1>7, <1>8, <4>1, <4>2, SplitRefused
    <3>2. CASE v # h
      <4>1. hd[v] = handle[v]
        BY <1>9, <3>2
      <4>2. \E i \in DOMAIN stack : Refused(stack, i, v, handle[v].entry)
        BY <2>1, <2>2, <4>1 DEF HandlesAgree
      <4>3. \E i \in DOMAIN t : Refused(t, i, v, handle[v].entry)
        <5>1. f # Client(v, "ERROR")
          BY <1>3 DEF Client
        <5> QED BY <1>1, <4>2, <5>1, SplitRefused DEF f, t
      <4>4. \E i \in DOMAIN s1 : Refused(s1, i, v, handle[v].entry)
        BY <1>8, <4>3, SplitRefused
      <4> QED BY <1>8, <4>1, <4>4, SplitRefused
    <3> QED BY <3>1, <3>2
  <2>3. ASSUME NEW v \in Handle, hd[v].entry # NULL
        PROVE  \/ hd[v].told = "ERROR" \/ Behind(st, content, v) \/ Late(st, ctx, v)
               \/ hd[v].told = content[hd[v].entry].status /\ ~Fails(st, content, hd[v].entry)
    <3>1. CASE v = h /\ msg # "ERROR"
      <4>1. hd[v].told = content[c].status /\ hd[v].entry = c
        BY <1>3, <1>4, <1>5, <1>9, <3>1 DEF Broadcasts
      <4>2. ASSUME NEW i \in DOMAIN stack, stack[i].at \in {"set_error", "data_failed"}, stack[i].c = c
            PROVE  FALSE
        <5>1. CallAgrees(stack[i], handle, ctx, content)
          BY DEF Agreed, CallsAgree
        <5> QED BY <1>3, <1>9, <3>1, <4>1, <4>2, <5>1 DEF CallAgrees
      <4>3. ~Fails(stack, content, c)
        BY <1>3, <1>9, <3>1, <4>1, <4>2 DEF Fails
      <4> QED BY <1>3, <1>19, <4>1, <4>3
    <3>2. CASE v = h /\ msg = "ERROR"
      BY <1>9, <3>2
    <3>3. CASE v # h
      <4>1. \/ handle[v].told = "ERROR" \/ Behind(stack, content, v) \/ Late(stack, ctx, v)
            \/ handle[v].told = content[handle[v].entry].status
               /\ ~Fails(stack, content, handle[v].entry)
        BY <1>9, <2>1, <2>3, <3>3 DEF HandlesAgree
      <4>2. hd[v] = handle[v] /\ handle[v].entry \in Content
        BY <1>9, <2>3, <3>3, StateFacts DEF HandleType
      <4> QED BY <1>18, <1>19, <3>3, <4>1, <4>2
    <3> QED BY <3>1, <3>2, <3>3
  <2>4. ASSUME NEW l \in Low, Waits(ctx, l) PROVE hd[ctx[l].handle].told \in {"waiting", "ERROR"}
    <3>1. handle[ctx[l].handle].entry = NULL /\ ctx[l].handle \in Handle
      BY <2>4, StateFacts DEF Tied, Lows, Waits, CtxType
    <3>2. ctx[l].handle # h
      BY <1>3, <1>5, <3>1, StateFacts
    <3> QED BY <1>9, <2>1, <2>4, <3>1, <3>2 DEF HandlesAgree
  <2>5. ASSUME NEW v \in Handle, NEW w \in Handle, Loading(hd, v), Loading(hd, w),
               hd[v].owner = hd[w].owner
        PROVE  v = w
    <3>1. v # h /\ w # h
      BY <1>3, <1>9, <2>5 DEF Loading
    <3> QED BY <1>9, <2>1, <2>5, <3>1 DEF HandlesAgree, Loading
  <2> QED BY <2>2, <2>3, <2>4, <2>5 DEF HandlesAgree
<1>21. Spared(st, hd, ctx, content)
  <2> SUFFICES ASSUME msg = "READY", hd[h].owner \in Window, NEW u \in Handle \ {h},
                      hd[u].owner = hd[h].owner, Behind(st, content, u) \/ Late(st, ctx, u)
               PROVE  hd[u].told \notin {"READY", "DONE"}
    BY <1>7, <1>8 DEF Spared
  <2>1. /\ hd[u] = handle[u] /\ handle[u].owner = handle[h].owner /\ handle[u].owner \in Window
        /\ handle[h].told = "LOADING"
    BY <1>3, <1>5, <1>9 DEF Prior
  <2>2. CASE Late(st, ctx, u)
    <3>1. CatchesUp(u, Bottom(stack).msgs, handle, content)
      BY <1>18, <2>2, LateIs
    <3> QED BY <1>3, <2>1, <3>1 DEF CatchesUp
  <2>3. CASE Behind(st, content, u)
    <3>1. Behind(stack, content, u)
      BY <1>18, <2>3
    <3>2. PICK i \in DOMAIN stack :
            /\ stack[i].at = "broadcast" /\ stack[i].c = handle[u].entry /\ stack[i].c \in Content
            /\ handle[u].told = Prior(stack[i].msg) /\ stack[i].h # NULL
      BY <3>1, BehindIs
    <3>3. CASE i = 1
      BY <1>1, <2>1, <3>2, <3>3 DEF Prior
    <3>4. CASE i # 1
      <4>1. /\ CallAgrees(stack[i], handle, ctx, content)
            /\ i > 1 => Deep(stack[i], handle, content)
        BY DEF Agreed, CallsAgree
      <4>2. i > 1
        BY <1>1, <3>4
      <4>3. content[stack[i].c].shared
        BY <3>2, <4>1, <4>2 DEF Deep
      <4>4. Apart(handle, content, stack[i].c)
        BY <3>2, <4>1, <4>3 DEF CallAgrees
      <4>5. u \in ToSet(content[stack[i].c].users)
        BY <3>2, StateFacts
      <4> QED BY <1>3, <2>1, <4>4, <4>5 DEF Apart
    <3> QED BY <3>3, <3>4
  <2> QED BY <2>2, <2>3
<1>22. ContentsAgree(low', content')
  BY <1>0 DEF Agreed
<1> QED BY <1>0, <1>17, <1>20, <1>21, <1>22, AgreedAgain

-----------------------------------------------------------------------------
(* The status of a content changes, and its users are to be told. *)

(* Only what c says of itself changes. *)
Restated(ct, c) ==
  \A d \in Content : /\ ct[d].users = content[d].users /\ ct[d].shared = content[d].shared
                     /\ ct[d].low = content[d].low
                     /\ d # c => ct[d] = content[d]

(* A call that does not depend on the state of c. *)
Elsewhere(f, c) ==
  /\ f.at \in OfContent \ {"abort"} => f.c # c
  /\ f.at = "catch_up" => ctx[f.l].handle \in Handle /\ handle[ctx[f.l].handle].entry # c

LEMMA RestatedBehind ==
  ASSUME NEW st \in Seq(Frame), NEW ct, NEW c, Restated(ct, c), NEW h
  PROVE  Behind(st, ct, h) <=> Behind(st, content, h)
<1>1. \A i \in DOMAIN st : st[i].at = "broadcast" => st[i].c \in Content
  BY FrameFields
<1> QED BY <1>1 DEF Behind, Restated

LEMMA RestatedCall ==
  ASSUME Tied, NEW c \in Content, NEW ct, Restated(ct, c), NEW f \in Frame, Elsewhere(f, c),
         CallAgrees(f, handle, ctx, content)
  PROVE  CallAgrees(f, handle, ctx, ct)
<1>1. f.at \in OfContent => f.c \in Content
  BY FrameFields DEF OfContent
<1>2. f.at \in OfContent \ {"abort"} => ct[f.c] = content[f.c]
  BY <1>1 DEF Restated, Elsewhere
<1>3. ASSUME f.at = "catch_up" PROVE CatchesUp(ctx[f.l].handle, f.msgs, handle, ct)
  <2> DEFINE h == ctx[f.l].handle
  <2>1. CatchesUp(h, f.msgs, handle, content)
    BY <1>3 DEF CallAgrees
  <2>2. h \in Handle /\ handle[h].entry # c
    BY <1>3 DEF Elsewhere
  <2> HIDE DEF h
  <2>3. handle[h].entry \in Content
    BY <2>1, <2>2, StateFacts DEF CatchesUp, HandleType
  <2>4. ct[handle[h].entry] = content[handle[h].entry]
    BY <2>2, <2>3 DEF Restated
  <2>5. CatchesUp(h, f.msgs, handle, ct)
    BY <2>1, <2>4 DEF CatchesUp
  <2> QED BY <2>5 DEF h
<1>4. f.at = "broadcast" => Broadcasts(f, handle, ct[f.c])
  BY <1>2 DEF CallAgrees, OfContent
<1>5. f.at \in {"broadcast", "set_done"} /\ ct[f.c].shared => Apart(handle, ct, f.c)
  BY <1>2 DEF CallAgrees, Apart, OfContent
<1> QED BY <1>2, <1>3, <1>4, <1>5 DEF CallAgrees, OfContent

LEMMA RestatedCalls ==
  ASSUME Tied, NEW c \in Content, NEW ct, Restated(ct, c), NEW st \in Seq(Frame),
         CallsAgree(st, handle, ctx, content), \A i \in DOMAIN st : Elsewhere(st[i], c)
  PROVE  CallsAgree(st, handle, ctx, ct)
<1> SUFFICES ASSUME NEW i \in DOMAIN st
             PROVE  /\ CallAgrees(st[i], handle, ctx, ct)
                    /\ i > 1 => Deep(st[i], handle, ct)
                    /\ Above(st[i], Bottom(st), handle, ctx, ct)
                    /\ \A j \in DOMAIN st : i < j => Inside(st[i], st[j])
  BY DEF CallsAgree
<1>1. st[i] \in Frame
  OBVIOUS
<1>2. /\ CallAgrees(st[i], handle, ctx, content)
      /\ i > 1 => Deep(st[i], handle, content)
      /\ Above(st[i], Bottom(st), handle, ctx, content)
      /\ \A j \in DOMAIN st : i < j => Inside(st[i], st[j])
  BY DEF CallsAgree
<1>3. CallAgrees(st[i], handle, ctx, ct)
  BY <1>1, <1>2, RestatedCall
<1>4. st[i].at \in OfContent => ct[st[i].c].shared = content[st[i].c].shared
  BY <1>1, FrameFields DEF OfContent, Restated
<1> QED BY <1>2, <1>3, <1>4 DEF Deep, Above, OfContent

(* What rest has of the calls that do not concern c is that of the stack.  *)
Beside(rest, c) ==
  /\ \A h \in Handle : handle[h].entry # c =>
       /\ Behind(stack, content, h) => Behind(rest, content, h)
       /\ Late(stack, ctx, h) => Late(rest, ctx, h)
       /\ (\E i \in DOMAIN stack : Refused(stack, i, h, handle[h].entry))
            => \E i \in DOMAIN rest : Refused(rest, i, h, handle[h].entry)
  /\ \A d \in Content \ {c} : Fails(rest, content, d) => Fails(stack, content, d)

LEMMA BesidePush ==
  ASSUME Tied, NEW c \in Content, NEW f \in Frame, f.at \in OfContent, f.c = c
  PROVE  Beside(Cons(f, stack), c)
<1> DEFINE st == Cons(f, stack)
<1>1. st \in Seq(Frame) /\ st # <<>> /\ Head(st) = f /\ Tail(st) = stack
  BY StateFacts, PushedCall
<1>2. stack # <<>> => Bottom(st) = Bottom(stack)
  <2> HIDE DEF st
  <2> QED BY <1>1, TailPlaces
<1> HIDE DEF st
<1>3. \A h \in Handle : Behind(stack, content, h) => Behind(st, content, h)
  BY <1>1, SplitBehind
<1>4. \A h \in Handle : Late(stack, ctx, h) => Late(st, ctx, h)
  BY <1>1, <1>2 DEF Late
<1>5. \A h \in Handle : \A d : (\E i \in DOMAIN stack : Refused(stack, i, h, d))
                              => \E i \in DOMAIN st : Refused(st, i, h, d)
  BY <1>1, SplitRefused
<1>6. \A d \in Content \ {c} : Fails(st, content, d) => Fails(stack, content, d)
  BY <1>1, SplitFails
<1> QED BY <1>3, <1>4, <1>5, <1>6 DEF Beside, st

LEMMA BesidePop ==
  ASSUME Tied, stack # <<>>, Head(stack).at \in {"set_done", "set_error", "data_failed"}
  PROVE  Beside(Tail(stack), Head(stack).c)
<1> DEFINE t == Tail(stack)
<1>1. stack \in Seq(Frame) /\ t \in Seq(Frame)
  BY StateFacts, TailPlaces
<1>2. t # <<>> => Bottom(t) = Bottom(stack)
  BY <1>1, TailPlaces
<1>3. t = <<>> => Bottom(stack) = Head(stack)
  BY <1>1, TailPlaces
<1>4. \A h \in Handle : Behind(stack, content, h) => Behind(t, content, h)
  BY <1>1, SplitBehind
<1>5. \A h \in Handle : \A d : (\E i \in DOMAIN stack : Refused(stack, i, h, d))
                              => \E i \in DOMAIN t : Refused(t, i, h, d)
  <2>1. \A h \in Handle : Head(stack) # Client(h, "ERROR")
    BY DEF Client
  <2> QED BY <1>1, <2>1, SplitRefused
<1>6. \A d \in Content : Fails(t, content, d) => Fails(stack, content, d)
  BY <1>1, SplitFails
<1> HIDE DEF t
<1>7. \A h \in Handle : Late(stack, ctx, h) => Late(t, ctx, h)
  BY <1>2, <1>3 DEF Late
<1> QED BY <1>4, <1>5, <1>6, <1>7 DEF Beside, t

(* A content tells all its users. *)
LEMMA AnnounceAgrees ==
  ASSUME Tied, Agreed, NEW c \in Content, NEW msg \in {"READY", "DONE", "ERROR"},
         NEW ct, Restated(ct, c), NEW rest \in Seq(Frame), Beside(rest, c),
         CallsAgree(rest, handle, ctx, ct),
         \A h \in Handle : handle[h].entry = c => handle[h].told = Prior(msg),
         ct[c].status = msg \/ (msg = "ERROR" /\ ct[c].status = "LOADING"),
         content[c].shared => Apart(handle, content, c),
         \A j \in DOMAIN rest : Inside(ToAll(c, msg), rest[j]),
         rest # <<>> => /\ Deep(Head(rest), handle, content)
                        /\ Above(ToAll(c, msg), Bottom(rest), handle, ctx, content)
  PROVE  /\ HandlesAgree(Cons(ToAll(c, msg), rest), handle, ctx, ct)
         /\ CallsAgree(Cons(ToAll(c, msg), rest), handle, ctx, ct)
         /\ Spared(Cons(ToAll(c, msg), rest), handle, ctx, ct)
<1> DEFINE f == ToAll(c, msg)
           st == Cons(f, rest)
<1>1. f \in Frame /\ f.at = "broadcast" /\ f.c = c /\ f.h = First(content[c].users) /\ f.msg = msg
  <2>1. f \in Frame
    BY OwnFrames DEF Tied, OwnFrame
  <2> QED BY <2>1 DEF ToAll, Broadcast
<1>2. st \in Seq(Frame) /\ st # <<>> /\ Head(st) = f /\ Tail(st) = rest
  <2> HIDE DEF f
  <2> QED BY <1>1, PushedCall
<1>3. rest # <<>> => Bottom(st) = Bottom(rest)
  <2> HIDE DEF st
  <2> QED BY <1>2, TailPlaces
<1>4. /\ ct[c].users = content[c].users /\ ct[c].shared = content[c].shared
      /\ content[c].users \in Seq(Handle)
      /\ ToSet(content[c].users) = {h \in Handle : handle[h].entry = c}
      /\ Rest(ct[c].users, f.h) = {h \in Handle : handle[h].entry = c}
  <2>1. /\ ct[c].users = content[c].users /\ ct[c].shared = content[c].shared
        /\ content[c].users \in Seq(Handle)
        /\ ToSet(content[c].users) = {h \in Handle : handle[h].entry = c}
    BY StateFacts DEF Restated
  <2> HIDE DEF f
  <2> QED BY <1>1, <2>1, RestFacts
<1> HIDE DEF f, st
<1>5. CallAgrees(f, handle, ctx, ct)
  <2>1. Broadcasts(f, handle, ct[c])
    <3>1. f.h # NULL => f.h \in ToSet(ct[c].users)
      <4>1. content[c].users # <<>> => content[c].users[1] \in ToSet(content[c].users)
        BY <1>4, TailFrames DEF ToSet
      <4> QED BY <1>1, <1>4, <4>1 DEF First
    <3> QED BY <1>1, <1>4, <3>1 DEF Broadcasts
  <2>2. ct[c].shared => Apart(handle, ct, c)
    BY <1>4 DEF Apart
  <2> QED BY <1>1, <2>1, <2>2 DEF CallAgrees
<1>6. Over(f, rest, handle, ctx, ct)
  <2>1. rest # <<>> => Deep(Head(rest), handle, ct)
    <3> HAVE rest # <<>>
    <3>1. Head(rest) \in Frame
      BY TailFrames
    <3>2. Head(rest).at = "broadcast" => Head(rest).c \in Content
      BY <3>1, FrameFields
    <3> QED BY <3>2 DEF Deep, Restated
  <2>2. rest # <<>> => Above(f, Bottom(rest), handle, ctx, ct)
    BY <1>1, <1>4 DEF Above, f
  <2> QED BY <1>5, <2>1, <2>2 DEF Over, f
<1>7. CallsAgree(st, handle, ctx, ct)
  BY <1>2, <1>6, SplitCalls
<1>8. HandlesAgree(st, handle, ctx, ct)
  <2>1. HandlesAgree(stack, handle, ctx, content)
    BY DEF Agreed
  <2>2. ASSUME NEW h \in Handle, handle[h].told = "ERROR"
        PROVE  \E i \in DOMAIN st : Refused(st, i, h, handle[h].entry)
    <3>1. handle[h].entry # c
      BY <2>2 DEF Prior
    <3>2. \E i \in DOMAIN rest : Refused(rest, i, h, handle[h].entry)
      BY <2>1, <2>2, <3>1 DEF HandlesAgree, Beside
    <3> QED BY <1>2, <3>2, SplitRefused
  <2>3. ASSUME NEW h \in Handle, handle[h].entry # NULL
        PROVE  \/ handle[h].told = "ERROR" \/ Behind(st, ct, h) \/ Late(st, ctx, h)
               \/ handle[h].told = ct[handle[h].entry].status /\ ~Fails(st, ct, handle[h].entry)
    <3> DEFINE d == handle[h].entry
    <3>1. CASE d = c
      <4>1. Behind(st, ct, h)
        BY <1>1, <1>2, <1>4, <3>1, SplitBehind
      <4> QED BY <4>1
    <3>2. CASE d # c
      <4>1. d \in Content /\ ct[d] = content[d]
        BY <2>3, <3>2, StateFacts DEF HandleType, Restated
      <4>2. \/ handle[h].told = "ERROR" \/ Behind(stack, content, h) \/ Late(stack, ctx, h)
            \/ handle[h].told = content[d].status /\ ~Fails(stack, content, d)
        BY <2>1, <2>3 DEF HandlesAgree
      <4>3. Behind(stack, content, h) => Behind(st, ct, h)
        <5>1. Behind(rest, content, h) => Behind(rest, ct, h)
          BY RestatedBehind
        <5> QED BY <1>2, <3>2, <5>1, SplitBehind DEF Beside
      <4>4. Late(stack, ctx, h) => Late(st, ctx, h)
        BY <1>2, <1>3, <3>2 DEF Beside, Late
      <4>5. Fails(st, ct, d) => Fails(stack, content, d)
        <5>1. Fails(st, ct, d) => Fails(rest, ct, d)
          BY <1>1, <1>2, SplitFails
        <5>2. Fails(rest, ct, d) => Fails(rest, content, d)
          BY <4>1 DEF Fails
        <5> QED BY <3>2, <4>1, <5>1, <5>2 DEF Beside
      <4> QED BY <4>1, <4>2, <4>3, <4>4, <4>5
    <3> QED BY <3>1, <3>2
  <2> QED BY <2>1, <2>2, <2>3 DEF HandlesAgree
<1>9. Spared(st, handle, ctx, ct)
  BY <1>1, <1>2 DEF Spared
<1> QED BY <1>7, <1>8, <1>9 DEF st, f

(* A step that a content has yet to make, which concerns no user. *)
LEMMA StepAgrees ==
  ASSUME Tied, Agreed, NEW f \in Frame, f.at \in {"set_done", "abort"},
         Over(f, stack, handle, ctx, content)
  PROVE  /\ HandlesAgree(Cons(f, stack), handle, ctx, content)
         /\ CallsAgree(Cons(f, stack), handle, ctx, content)
         /\ Spared(Cons(f, stack), handle, ctx, content)
<1> DEFINE st == Cons(f, stack)
<1>1. st \in Seq(Frame) /\ st # <<>> /\ Head(st) = f /\ Tail(st) = stack
  BY StateFacts, PushedCall
<1>2. stack # <<>> => Bottom(st) = Bottom(stack)
  <2> HIDE DEF st
  <2> QED BY <1>1, TailPlaces
<1> HIDE DEF st
<1>3. CallsAgree(st, handle, ctx, content)
  BY <1>1, SplitCalls DEF Agreed
<1>4. \A h \in Handle : Behind(stack, content, h) => Behind(st, content, h)
  BY <1>1, SplitBehind
<1>5. \A h \in Handle : Late(stack, ctx, h) => Late(st, ctx, h)
  BY <1>1, <1>2 DEF Late
<1>6. \A h \in Handle : \A d : (\E i \in DOMAIN stack : Refused(stack, i, h, d))
                              => \E i \in DOMAIN st : Refused(st, i, h, d)
  BY <1>1, SplitRefused
<1>7. \A d : Fails(st, content, d) => Fails(stack, content, d)
  BY <1>1, SplitFails
<1>8. HandlesAgree(st, handle, ctx, content)
  BY <1>4, <1>5, <1>6, <1>7 DEF Agreed, HandlesAgree
<1>9. Spared(st, handle, ctx, content)
  BY <1>1 DEF Spared
<1> QED BY <1>3, <1>8, <1>9 DEF st

(* A page runs. *)
LEMMA PageFree ==
  ASSUME Tied, Agreed, NEW c \in Content, PageRuns(c),
         content[c].locked \/ content[c].status = "READY"
  PROVE  /\ \A i \in DOMAIN stack : Elsewhere(stack[i], c)
         /\ \A i \in DOMAIN stack : stack[i].at \in OfContent => stack[i].c # c
         /\ \A h \in Handle : handle[h].entry = c => handle[h].told = content[c].status
         /\ ~content[c].shared
         /\ stack # <<>> =>
              /\ Deep(Head(stack), handle, content)
              /\ \A f : f.c = c => Above(f, Bottom(stack), handle, ctx, content)
<1>1. \A i \in DOMAIN stack : stack[i].at \in OfContent => stack[i].c # c
  BY DEF PageRuns
<1>2. ~content[c].shared
  BY DEF PageRuns
<1>3. content[c].locked => content[c].status = "LOADING"
  BY DEF Agreed, ContentsAgree
<1>4. ASSUME NEW h \in Handle, NEW msgs, CatchesUp(h, msgs, handle, content) PROVE handle[h].entry # c
  BY <1>2, <1>3, <1>4 DEF CatchesUp
<1>5. ASSUME NEW i \in DOMAIN stack, stack[i].at = "catch_up"
      PROVE  ctx[stack[i].l].handle \in Handle /\ handle[ctx[stack[i].l].handle].entry # c
  <2>1. CatchesUp(ctx[stack[i].l].handle, stack[i].msgs, handle, content)
    BY <1>5 DEF Agreed, CallsAgree, CallAgrees
  <2>2. ctx[stack[i].l].handle \in Handle
    BY <1>5, CallFacts
  <2> QED BY <1>4, <2>1, <2>2
<1>6. \A i \in DOMAIN stack : Elsewhere(stack[i], c)
  BY <1>1, <1>5 DEF Elsewhere
<1>7. \A h \in Handle : handle[h].entry = c => handle[h].told = content[c].status
  <2>1. \A h \in Handle : handle[h].entry = c => ~Late(stack, ctx, h)
    BY <1>4, LateIs
  <2>2. \A i \in DOMAIN stack : stack[i].at = "broadcast" => stack[i].c # c
    BY <1>1 DEF OfContent
  <2> QED BY <2>1, <2>2, UsersToldStatus
<1>8. ASSUME stack # <<>>
      PROVE  /\ Deep(Head(stack), handle, content)
             /\ \A f : f.c = c => Above(f, Bottom(stack), handle, ctx, content)
  <2>1. Head(stack).at = "client" /\ handle[Head(stack).h].owner = c
    BY <1>8 DEF PageRuns, Idle, At
  <2>2. c \notin Window
    BY StateFacts
  <2>3. Deep(Head(stack), handle, content)
    BY <2>1, <2>2 DEF Deep
  <2>4. Bottom(stack).at = "catch_up" => handle[ctx[Bottom(stack).l].handle].entry # c
    BY <1>5, <1>8, BottomFacts
  <2> QED BY <1>2, <2>3, <2>4 DEF Above
<1> QED BY <1>1, <1>2, <1>6, <1>7, <1>8

(* The status of one content. *)
LEMMA RestatedContents ==
  ASSUME Tied, Agreed, NEW c \in Content, NEW ct, Restated(ct, c),
         ct[c].locked => ct[c].status = "LOADING" /\ low[ct[c].low].told = "DONE",
         ct[c].status \in {"READY", "DONE"} => low[ct[c].low].told = "DONE"
  PROVE  ContentsAgree(low, ct)
<1> SUFFICES ASSUME NEW d \in Content
             PROVE  /\ ct[d].locked => ct[d].status = "LOADING" /\ low[ct[d].low].told = "DONE"
                    /\ ct[d].status \in {"READY", "DONE"} => low[ct[d].low].told = "DONE"
  BY DEF ContentsAgree
<1>1. d # c => ct[d] = content[d]
  BY DEF Restated
<1> QED BY <1>1 DEF Agreed, ContentsAgree

LEMMA PutFacts ==
  ASSUME NEW ct \in [Content -> ContentType], NEW c \in Content, NEW x
  PROVE  /\ Put(ct, c, x)[c] = x
         /\ \A d \in Content : d # c => Put(ct, c, x)[d] = ct[d]
BY DEF Put

(* What the status and the lock of c become. *)
Becomes(c, status, locked) ==
  Restated(content', c) /\ content'[c].status = status /\ content'[c].locked = locked

(* The steps of a content that change them. *)
Locks(c)   == content' = [content EXCEPT ![c].locked = TRUE]
Readies(c) == content' = [content EXCEPT ![c].locked = FALSE, ![c].status = "READY"]
Ends(c)    == content' = [content EXCEPT ![c].status = "DONE"]
Spoils(c)  == content' = [content EXCEPT ![c].status = "ERROR"]
Unlocks(c) == content' = [content EXCEPT ![c] = [@ EXCEPT !.status = "ERROR", !.locked = FALSE]]

LEMMA BecomesForms ==
  ASSUME Tied, NEW c \in Content
  PROVE  /\ UNCHANGED content => Becomes(c, content[c].status, content[c].locked)
         /\ Locks(c) => Becomes(c, content[c].status, TRUE)
         /\ Readies(c) => Becomes(c, "READY", FALSE)
         /\ Ends(c) => Becomes(c, "DONE", content[c].locked)
         /\ Spoils(c) => Becomes(c, "ERROR", content[c].locked)
         /\ Unlocks(c) => Becomes(c, "ERROR", FALSE)
<1>1. content \in [Content -> ContentType] /\ content[c] \in ContentType
  BY StateFacts
<1> DEFINE a == [content[c] EXCEPT !.locked = TRUE]
           b == [[content[c] EXCEPT !.locked = FALSE] EXCEPT !.status = "READY"]
           d == [content[c] EXCEPT !.status = "DONE"]
           e == [content[c] EXCEPT !.status = "ERROR"]
           f == [content[c] EXCEPT !.status = "ERROR", !.locked = FALSE]
<1>2. /\ a.users = content[c].users /\ a.shared = content[c].shared /\ a.low = content[c].low
      /\ a.status = content[c].status /\ a.locked = TRUE
  BY <1>1 DEF ContentType
<1>3. /\ b.users = content[c].users /\ b.shared = content[c].shared /\ b.low = content[c].low
      /\ b.status = "READY" /\ b.locked = FALSE
  BY <1>1 DEF ContentType
<1>4. /\ d.users = content[c].users /\ d.shared = content[c].shared /\ d.low = content[c].low
      /\ d.status = "DONE" /\ d.locked = content[c].locked
  BY <1>1 DEF ContentType
<1>5. /\ e.users = content[c].users /\ e.shared = content[c].shared /\ e.low = content[c].low
      /\ e.status = "ERROR" /\ e.locked = content[c].locked
  BY <1>1 DEF ContentType
<1>6. /\ f.users = content[c].users /\ f.shared = content[c].shared /\ f.low = content[c].low
      /\ f.status = "ERROR" /\ f.locked = FALSE
  BY <1>1 DEF ContentType
<1>7. Locks(c) => content' = Put(content, c, a)
  BY DEF Put, Locks
<1>8. Readies(c) => content' = Put(content, c, b)
  BY DEF Put, Readies
<1>9. Ends(c) => content' = Put(content, c, d)
  BY DEF Put, Ends
<1>10. Spoils(c) => content' = Put(content, c, e)
  BY DEF Put, Spoils
<1>11. Unlocks(c) => content' = Put(content, c, f)
  BY DEF Put, Unlocks
<1> HIDE DEF a, b, d, e, f
<1>12. ASSUME NEW x, x.users = content[c].users, x.shared = content[c].shared, x.low = content[c].low,
              content' = Put(content, c, x)
       PROVE  Becomes(c, x.status, x.locked)
  <2>1. /\ content'[c] = x /\ \A g \in Content : g # c => content'[g] = content[g]
    BY <1>1, <1>12, PutFacts
  <2> QED BY <1>12, <2>1 DEF Becomes, Restated
<1>13. UNCHANGED content => Becomes(c, content[c].status, content[c].locked)
  BY DEF Becomes, Restated
<1>14. content' = Put(content, c, a) => Becomes(c, content[c].status, TRUE)
  BY <1>2, <1>12
<1>15. content' = Put(content, c, b) => Becomes(c, "READY", FALSE)
  BY <1>3, <1>12
<1>16. content' = Put(content, c, d) => Becomes(c, "DONE", content[c].locked)
  BY <1>4, <1>12
<1>17. content' = Put(content, c, e) => Becomes(c, "ERROR", content[c].locked)
  BY <1>5, <1>12
<1>18. content' = Put(content, c, f) => Becomes(c, "ERROR", FALSE)
  BY <1>6, <1>12
<1> QED BY <1>7, <1>8, <1>9, <1>10, <1>11, <1>13, <1>14, <1>15, <1>16, <1>17, <1>18

LEMMA PageAgrees ==
  ASSUME Tied, Agreed, NEW c \in Content, PageReady(c) \/ PageDone(c) \/ PageFails(c)
  PROVE  Agreed'
<1>1. PageRuns(c) /\ (content[c].locked \/ content[c].status = "READY")
  BY DEF PageReady, PageDone, PageFails
<1>2. /\ \A i \in DOMAIN stack : Elsewhere(stack[i], c)
      /\ \A i \in DOMAIN stack : stack[i].at \in OfContent => stack[i].c # c
      /\ \A h \in Handle : handle[h].entry = c => handle[h].told = content[c].status
      /\ ~content[c].shared
      /\ stack # <<>> =>
           /\ Deep(Head(stack), handle, content)
           /\ \A f : f.c = c => Above(f, Bottom(stack), handle, ctx, content)
  BY <1>1, PageFree
<1>3. content[c].locked => content[c].status = "LOADING" /\ low[content[c].low].told = "DONE"
  BY DEF Agreed, ContentsAgree
<1>4. /\ \A msg \in {"READY", "DONE", "ERROR"} :
           /\ ToAll(c, msg) \in Frame /\ ToAll(c, msg).at = "broadcast" /\ ToAll(c, msg).c = c
      /\ \A step \in {"set_done", "set_error"} :
           /\ Then(c, step) \in Frame /\ Then(c, step).at = step /\ Then(c, step).c = c
  BY OwnFrames DEF Tied, OwnFrame, ToAll, Broadcast, Then
<1>5. stack \in Seq(Frame) /\ CallsAgree(stack, handle, ctx, content)
  BY StateFacts DEF Agreed
<1>6. CASE PageReady(c)
  <2>1. /\ content' = [content EXCEPT ![c].locked = FALSE, ![c].status = "READY"]
        /\ stack' = Cons(ToAll(c, "READY"), stack)
        /\ UNCHANGED <<handle, ctx, low>> /\ content[c].locked
    BY <1>6, Zenon DEF PageReady, content_set_ready
  <2>2. Becomes(c, "READY", FALSE)
    <3>1. Readies(c)
      BY <2>1 DEF Readies
    <3> QED BY <3>1, BecomesForms
  <2>3. Restated(content', c) /\ content'[c].status = "READY" /\ content'[c].locked = FALSE
        /\ content'[c].low = content[c].low
    BY <2>2 DEF Becomes, Restated
  <2>4. ContentsAgree(low', content')
    <3>1. ContentsAgree(low, content')
      BY <1>3, <2>1, <2>3, RestatedContents
    <3> QED BY <2>1, <3>1
  <2>5. CallsAgree(stack, handle, ctx, content')
    BY <1>2, <1>5, <2>3, RestatedCalls
  <2>6. Beside(stack, c)
    BY DEF Beside
  <2>7. \A h \in Handle : handle[h].entry = c => handle[h].told = Prior("READY")
    BY <1>2, <1>3, <2>1 DEF Prior
  <2>8. \A j \in DOMAIN stack : Inside(ToAll(c, "READY"), stack[j])
    BY <1>2, <1>4 DEF Inside
  <2>9. stack # <<>> => /\ Deep(Head(stack), handle, content)
                        /\ Above(ToAll(c, "READY"), Bottom(stack), handle, ctx, content)
    BY <1>2, <1>4
  <2>10. /\ HandlesAgree(Cons(ToAll(c, "READY"), stack), handle, ctx, content')
         /\ CallsAgree(Cons(ToAll(c, "READY"), stack), handle, ctx, content')
         /\ Spared(Cons(ToAll(c, "READY"), stack), handle, ctx, content')
    BY <1>2, <1>5, <2>3, <2>5, <2>6, <2>7, <2>8, <2>9, AnnounceAgrees
  <2> QED BY <2>1, <2>4, <2>10, AgreedAgain
<1>7. CASE PageDone(c)
  <2>1. stack' = Cons(Then(c, "set_done"), stack) /\ UNCHANGED <<handle, ctx, low, content>>
        /\ content[c].status = "READY"
    BY <1>7, Zenon DEF PageDone
  <2> DEFINE f == Then(c, "set_done")
  <2>2. f \in Frame /\ f.at = "set_done" /\ f.c = c
    BY <1>4
  <2> HIDE DEF f
  <2>3. Over(f, stack, handle, ctx, content)
    <3>1. CallAgrees(f, handle, ctx, content)
      BY <1>2, <2>1, <2>2 DEF CallAgrees
    <3>2. \A j \in DOMAIN stack : Inside(f, stack[j])
      BY <1>2, <2>2 DEF Inside
    <3> QED BY <1>2, <2>2, <3>1, <3>2 DEF Over
  <2>4. /\ HandlesAgree(Cons(f, stack), handle, ctx, content)
        /\ CallsAgree(Cons(f, stack), handle, ctx, content)
        /\ Spared(Cons(f, stack), handle, ctx, content)
    BY <2>2, <2>3, StepAgrees
  <2>5. /\ HandlesAgree(stack', handle', ctx', content') /\ CallsAgree(stack', handle', ctx', content')
        /\ Spared(stack', handle', ctx', content') /\ ContentsAgree(low', content')
    BY <2>1, <2>4 DEF f, Agreed
  <2> QED BY <2>5, AgreedAgain
<1>8. CASE PageFails(c)
  <2> DEFINE f == Then(c, "set_error")
             rest == Cons(f, stack)
  <2>1. stack' = Cons(ToAll(c, "ERROR"), rest) /\ UNCHANGED <<handle, ctx, low, content>>
        /\ content[c].locked
    BY <1>8, Zenon DEF PageFails, Failing
  <2>2. f \in Frame /\ f.at = "set_error" /\ f.c = c
    BY <1>4
  <2> HIDE DEF f
  <2>3. rest \in Seq(Frame) /\ rest # <<>> /\ Head(rest) = f /\ Tail(rest) = stack
    BY <1>5, <2>2, PushedCall
  <2>4. Over(f, stack, handle, ctx, content)
    <3>1. CallAgrees(f, handle, ctx, content)
      BY <1>3, <2>1, <2>2 DEF CallAgrees
    <3>2. \A j \in DOMAIN stack : Inside(f, stack[j])
      BY <1>2, <2>2 DEF Inside
    <3> QED BY <1>2, <2>2, <3>1, <3>2 DEF Over
  <2>5. Beside(rest, c)
    BY <2>2, BesidePush DEF OfContent
  <2>6. stack # <<>> => Bottom(rest) = Bottom(stack)
    <3> HIDE DEF rest
    <3> QED BY <2>3, TailPlaces
  <2>7. stack = <<>> => Bottom(rest) = f
    <3> HIDE DEF rest
    <3> QED BY <2>3, TailPlaces
  <2> HIDE DEF rest
  <2>8. CallsAgree(rest, handle, ctx, content)
    BY <1>5, <2>3, <2>4, SplitCalls
  <2>9. \A h \in Handle : handle[h].entry = c => handle[h].told = Prior("ERROR")
    BY <1>2, <1>3, <2>1 DEF Prior
  <2>10. \A j \in DOMAIN rest : Inside(ToAll(c, "ERROR"), rest[j])
    <3> TAKE j \in DOMAIN rest
    <3>1. CASE j = 1
      <4>1. rest[j] = f
        BY <2>3, <3>1, TailPlaces
      <4> QED BY <1>4, <2>2, <4>1 DEF Inside
    <3>2. CASE j # 1
      <4>1. j - 1 \in DOMAIN stack /\ rest[j] = stack[j - 1]
        BY <2>3, <3>2, TailPlaces
      <4> QED BY <1>2, <1>4, <4>1 DEF Inside
    <3> QED BY <3>1, <3>2
  <2>11. /\ Deep(Head(rest), handle, content)
         /\ Above(ToAll(c, "ERROR"), Bottom(rest), handle, ctx, content)
    <3>1. Deep(Head(rest), handle, content)
      BY <2>2, <2>3 DEF Deep
    <3>2. Above(ToAll(c, "ERROR"), f, handle, ctx, content)
      BY <1>2, <1>4, <2>2 DEF Above, OfCtx
    <3> QED BY <1>2, <1>4, <2>6, <2>7, <3>1, <3>2
  <2>12. Restated(content, c)
    BY DEF Restated
  <2>13. content[c].status = "LOADING"
    BY <1>3, <2>1
  <2>14. /\ HandlesAgree(Cons(ToAll(c, "ERROR"), rest), handle, ctx, content)
         /\ CallsAgree(Cons(ToAll(c, "ERROR"), rest), handle, ctx, content)
         /\ Spared(Cons(ToAll(c, "ERROR"), rest), handle, ctx, content)
    BY <1>2, <2>3, <2>5, <2>8, <2>9, <2>10, <2>11, <2>12, <2>13, AnnounceAgrees
  <2>15. /\ HandlesAgree(stack', handle', ctx', content') /\ CallsAgree(stack', handle', ctx', content')
         /\ Spared(stack', handle', ctx', content') /\ ContentsAgree(low', content')
    BY <2>1, <2>14 DEF Agreed
  <2> QED BY <2>15, AgreedAgain
<1> QED BY <1>6, <1>7, <1>8

(* Low-level handles of contents that are not concerned. *)
LEMMA EventContents ==
  ASSUME Tied, Agreed, NEW c \in Content, Restated(content', c),
         \A d \in ToSet(list) : d # c => low'[content[d].low].told = low[content[d].low].told,
         content'[c].locked
           => content'[c].status = "LOADING" /\ low'[content[c].low].told = "DONE",
         content'[c].status \in {"READY", "DONE"} => low'[content[c].low].told = "DONE"
  PROVE  ContentsAgree(low', content')
<1> SUFFICES ASSUME NEW d \in Content
             PROVE  /\ content'[d].locked => /\ content'[d].status = "LOADING"
                                             /\ low'[content'[d].low].told = "DONE"
                    /\ content'[d].status \in {"READY", "DONE"} => low'[content'[d].low].told = "DONE"
  BY DEF ContentsAgree
<1>1. CASE d = c
  BY <1>1 DEF Restated
<1>2. CASE d # c /\ d \in ToSet(list)
  <2>1. content'[d] = content[d]
    BY <1>2 DEF Restated
  <2> QED BY <1>2, <2>1 DEF Agreed, ContentsAgree
<1>3. CASE d # c /\ d \notin ToSet(list)
  <2>1. content'[d] = NoContent
    BY <1>3 DEF Restated, Tied, Users
  <2> QED BY <2>1 DEF NoContent
<1> QED BY <1>1, <1>2, <1>3

LEMMA EventElsewhere ==
  ASSUME Tied, Agreed, UNCHANGED content,
         \A d \in ToSet(list) : low'[content[d].low].told = low[content[d].low].told
  PROVE  ContentsAgree(low', content')
<1> SUFFICES ASSUME NEW d \in Content
             PROVE  /\ content[d].locked => /\ content[d].status = "LOADING"
                                            /\ low'[content[d].low].told = "DONE"
                    /\ content[d].status \in {"READY", "DONE"} => low'[content[d].low].told = "DONE"
  BY DEF ContentsAgree
<1>1. CASE d \in ToSet(list)
  BY <1>1 DEF Agreed, ContentsAgree
<1>2. CASE d \notin ToSet(list)
  <2>1. content[d] = NoContent
    BY <1>2 DEF Tied, Users
  <2> QED BY <2>1 DEF NoContent
<1> QED BY <1>1, <1>2

LEMMA LowToldFacts ==
  ASSUME NEW lw \in [Low -> LowType], NEW l \in Low, NEW told
  PROVE  /\ LowTo(lw, l, told)[l].told = told
         /\ \A m \in Low : m # l => LowTo(lw, l, told)[m] = lw[m]
<1>1. [lw[l] EXCEPT !.told = told].told = told
  BY DEF LowType
<1>2. LowTo(lw, l, told) = [lw EXCEPT ![l] = [lw[l] EXCEPT !.told = told]]
  BY DEF LowTo
<1> DEFINE x == [lw[l] EXCEPT !.told = told]
<1> HIDE DEF x
<1>3. LowTo(lw, l, told)[l] = x /\ \A m \in Low : m # l => LowTo(lw, l, told)[m] = lw[m]
  BY <1>2 DEF x
<1> QED BY <1>1, <1>3 DEF x

(* The low-level handles of other contents than c are not l. *)
LEMMA OwnLow ==
  ASSUME Tied, NEW l \in Low, NEW told, low' = LowTo(low, l, told)
  PROVE  /\ low'[l].told = told
         /\ \A d \in ToSet(list) : d # low[l].client =>
              low'[content[d].low].told = low[content[d].low].told
         /\ low[l].client \in Content => content[low[l].client].low = l
<1>1. low'[l].told = told /\ \A m \in Low : m # l => low'[m] = low[m]
  BY StateFacts, LowToldFacts
<1>2. \A d \in ToSet(list) : content[d].low \in Low /\ low[content[d].low].client = d
  BY DEF Tied, Lows
<1>3. low[l].client \in Content => content[low[l].client].low = l
  BY DEF Tied, Lows
<1> QED BY <1>1, <1>2, <1>3

LEMMA SetDoneAgrees ==
  ASSUME Tied, Agreed, content_set_done
  PROVE  Agreed'
<1> DEFINE f == Head(stack)
           t == Tail(stack)
           c == f.c
<1>1. stack # <<>> /\ f.at = "set_done" /\ Ends(c) /\ stack' = Cons(ToAll(c, "DONE"), t)
      /\ UNCHANGED <<handle, ctx, low>>
  BY DEF content_set_done, At, Ends
<1>2. stack \in Seq(Frame) /\ t \in Seq(Frame) /\ 1 \in DOMAIN stack /\ stack[1] = f
      /\ (\A i \in DOMAIN t : i + 1 \in DOMAIN stack /\ t[i] = stack[i + 1])
      /\ (\A i \in DOMAIN stack : i # 1 => i - 1 \in DOMAIN t /\ (i - 1) + 1 = i)
      /\ (t # <<>> => Bottom(t) = Bottom(stack)) /\ (t = <<>> => Bottom(stack) = f)
  BY <1>1, StateFacts, TailPlaces
<1>3. Over(f, t, handle, ctx, content) /\ CallsAgree(t, handle, ctx, content)
  BY <1>1, StateFacts, SplitCalls DEF Agreed
<1>4. c \in Content
  BY <1>1, <1>2, CallFacts DEF OfContent
<1>5. Beside(t, c)
  BY <1>1, BesidePop
<1> HIDE DEF f, t, c
<1>6. content[c].status = "READY" /\ (content[c].shared => Apart(handle, content, c))
  BY <1>1, <1>3 DEF Over, CallAgrees, c
<1>7. ~content[c].locked /\ low[content[c].low].told = "DONE"
  BY <1>4, <1>6 DEF Agreed, ContentsAgree
<1>8. \A i \in DOMAIN t : t[i].at \in OfContent /\ t[i].c = c => t[i].at = "abort"
  BY <1>1, <1>3 DEF Over, Inside, OfContent, c
<1>9. t # <<>> /\ Bottom(t).at = "catch_up" => handle[ctx[Bottom(t).l].handle].entry # c
  BY <1>1, <1>3 DEF Over, Above, OfContent, c
<1>10. \A i \in DOMAIN t : Elsewhere(t[i], c)
  <2> TAKE i \in DOMAIN t
  <2>1. t[i].at = "catch_up" => /\ t[i] = Bottom(stack) /\ ctx[t[i].l].handle \in Handle
    BY <1>2, CallFacts
  <2>2. t # <<>>
    BY <1>2
  <2> QED BY <1>2, <1>8, <1>9, <2>1, <2>2 DEF Elsewhere
<1>11. \A h \in Handle : handle[h].entry = c => handle[h].told = "READY"
  <2>1. \A h \in Handle : handle[h].entry = c => ~Late(stack, ctx, h)
    BY <1>1, <1>2, <1>9 DEF Late
  <2>2. \A i \in DOMAIN stack : stack[i].at = "broadcast" => stack[i].c # c
    <3> TAKE i \in DOMAIN stack
    <3>1. CASE i = 1
      BY <1>1, <1>2, <3>1
    <3>2. CASE i # 1
      BY <1>2, <1>8, <3>2 DEF OfContent
    <3> QED BY <3>1, <3>2
  <2> QED BY <1>4, <1>6, <2>1, <2>2, UsersToldStatus
<1>12. Becomes(c, "DONE", content[c].locked)
  BY <1>1, <1>4, BecomesForms
<1>13. Restated(content', c) /\ content'[c].status = "DONE" /\ ~content'[c].locked
       /\ content'[c].low = content[c].low
  <2>1. Restated(content', c) /\ content'[c].status = "DONE" /\ content'[c].locked = content[c].locked
    BY <1>12 DEF Becomes
  <2>2. content'[c].low = content[c].low
    BY <1>4, <2>1 DEF Restated
  <2> QED BY <1>7, <2>1, <2>2
<1>14. ContentsAgree(low', content')
  <2>1. ContentsAgree(low, content')
    BY <1>4, <1>7, <1>13, RestatedContents
  <2> QED BY <1>1, <2>1
<1>15. CallsAgree(t, handle, ctx, content')
  BY <1>2, <1>3, <1>4, <1>10, <1>13, RestatedCalls
<1>16. ToAll(c, "DONE").at = "broadcast" /\ ToAll(c, "DONE").c = c
  BY DEF ToAll, Broadcast
<1>17. \A j \in DOMAIN t : Inside(ToAll(c, "DONE"), t[j])
  BY <1>8, <1>16 DEF Inside
<1>18. t # <<>> => /\ Deep(Head(t), handle, content)
                   /\ Above(ToAll(c, "DONE"), Bottom(t), handle, ctx, content)
  BY <1>1, <1>3, <1>16 DEF Over, Above, OfContent, c
<1>19. \A h \in Handle : handle[h].entry = c => handle[h].told = Prior("DONE")
  BY <1>11 DEF Prior
<1>20. /\ HandlesAgree(Cons(ToAll(c, "DONE"), t), handle, ctx, content')
       /\ CallsAgree(Cons(ToAll(c, "DONE"), t), handle, ctx, content')
       /\ Spared(Cons(ToAll(c, "DONE"), t), handle, ctx, content')
  BY <1>2, <1>4, <1>5, <1>6, <1>13, <1>15, <1>17, <1>18, <1>19, AnnounceAgrees
<1> QED BY <1>1, <1>14, <1>20, AgreedAgain

(* A content that failed has no users when its status says so. *)
LEMMA FailedAgrees ==
  ASSUME Tied, Agreed, stack # <<>>, Head(stack).at \in {"set_error", "data_failed"},
         Restated(content', Head(stack).c), content'[Head(stack).c].status = "ERROR",
         ~content'[Head(stack).c].locked,
         stack' = Tail(stack), UNCHANGED <<handle, ctx>>,
         \A l \in Low : low'[l].told = low[l].told
  PROVE  Agreed'
<1> DEFINE f == Head(stack)
           t == Tail(stack)
           c == f.c
<1>1. stack \in Seq(Frame) /\ t \in Seq(Frame) /\ 1 \in DOMAIN stack /\ stack[1] = f
      /\ (\A i \in DOMAIN t : i + 1 \in DOMAIN stack /\ t[i] = stack[i + 1])
      /\ (\A i \in DOMAIN stack : i # 1 => i - 1 \in DOMAIN t /\ (i - 1) + 1 = i)
      /\ (t # <<>> => Bottom(t) = Bottom(stack)) /\ (t = <<>> => Bottom(stack) = f)
  BY StateFacts, TailPlaces
<1>2. Over(f, t, handle, ctx, content) /\ CallsAgree(t, handle, ctx, content)
  BY StateFacts, SplitCalls DEF Agreed
<1>3. c \in Content
  BY <1>1, CallFacts DEF OfContent
<1>4. Beside(t, c)
  BY BesidePop
<1>5. /\ f.at \in {"set_error", "data_failed"} /\ Restated(content', c) /\ content'[c].status = "ERROR"
      /\ ~content'[c].locked
  OBVIOUS
<1>6. stack' = t
  OBVIOUS
<1> HIDE DEF f, t, c
<1>7. \A i \in DOMAIN t : t[i].at \in OfContent => t[i].c # c
  BY <1>2, <1>5 DEF Over, Inside, OfContent, c
<1>8. t # <<>> /\ Bottom(t).at = "catch_up" => handle[ctx[Bottom(t).l].handle].entry # c
  BY <1>2, <1>5 DEF Over, Above, OfContent, c
<1>9. \A i \in DOMAIN t : Elsewhere(t[i], c)
  <2> TAKE i \in DOMAIN t
  <2>1. t[i].at = "catch_up" => /\ t[i] = Bottom(stack) /\ ctx[t[i].l].handle \in Handle
    BY <1>1, CallFacts
  <2>2. t # <<>>
    BY <1>1
  <2> QED BY <1>1, <1>7, <1>8, <2>1, <2>2 DEF Elsewhere
<1>10. \A h \in Handle : handle[h].entry # c
  <2>1. \A h \in Handle : handle[h].entry = c => ~Late(stack, ctx, h)
    BY <1>1, <1>5, <1>8 DEF Late
  <2>2. \A i \in DOMAIN stack : stack[i].at = "broadcast" => stack[i].c # c
    <3> TAKE i \in DOMAIN stack
    <3>1. CASE i = 1
      BY <1>1, <1>5, <3>1
    <3>2. CASE i # 1
      BY <1>1, <1>7, <3>2 DEF OfContent
    <3> QED BY <3>1, <3>2
  <2>3. Fails(stack, content, c)
    BY <1>1, <1>5 DEF Fails, c
  <2> QED BY <1>3, <2>1, <2>2, <2>3, UsersToldStatus
<1>11. CallsAgree(t, handle, ctx, content')
  BY <1>1, <1>2, <1>3, <1>5, <1>9, RestatedCalls
<1>12. HandlesAgree(t, handle, ctx, content')
  <2>1. HandlesAgree(stack, handle, ctx, content)
    BY DEF Agreed
  <2>2. ASSUME NEW h \in Handle, handle[h].entry # NULL
        PROVE  \/ handle[h].told = "ERROR" \/ Behind(t, content', h) \/ Late(t, ctx, h)
               \/ handle[h].told = content'[handle[h].entry].status
                  /\ ~Fails(t, content', handle[h].entry)
    <3> DEFINE d == handle[h].entry
    <3>1. d \in Content /\ d # c /\ content'[d] = content[d]
      BY <1>5, <1>10, <2>2, StateFacts DEF HandleType, Restated
    <3>2. \/ handle[h].told = "ERROR" \/ Behind(stack, content, h) \/ Late(stack, ctx, h)
          \/ handle[h].told = content[d].status /\ ~Fails(stack, content, d)
      BY <2>1, <2>2 DEF HandlesAgree
    <3>3. Behind(stack, content, h) => Behind(t, content', h)
      <4>1. Behind(t, content, h) => Behind(t, content', h)
        BY <1>1, <1>5, RestatedBehind
      <4> QED BY <1>4, <1>10, <4>1 DEF Beside
    <3>4. Fails(t, content', d) => Fails(stack, content, d)
      BY <1>4, <3>1 DEF Beside, Fails
    <3> QED BY <1>4, <3>1, <3>2, <3>3, <3>4 DEF Beside
  <2>3. ASSUME NEW h \in Handle, handle[h].told = "ERROR"
        PROVE  \E i \in DOMAIN t : Refused(t, i, h, handle[h].entry)
    BY <1>4, <1>10, <2>1, <2>3 DEF Beside, HandlesAgree
  <2> QED BY <2>1, <2>2, <2>3 DEF HandlesAgree
<1>13. Spared(t, handle, ctx, content')
  BY <1>2 DEF Spared, Over, Deep
<1>14. ContentsAgree(low', content')
  <2>1. content'[c].low = content[c].low
    BY <1>3, <1>5 DEF Restated
  <2>2. \A d \in ToSet(list) : low'[content[d].low].told = low[content[d].low].told
    BY DEF Tied, Lows
  <2> QED BY <1>3, <1>5, <2>2, EventContents
<1>15. UNCHANGED <<handle, ctx>>
  OBVIOUS
<1> QED BY <1>6, <1>11, <1>12, <1>13, <1>14, <1>15, AgreedAgain

LEMMA ReturnContents ==
  ASSUME Tied, Agreed, UNCHANGED <<handle, ctx, content>>, stack # <<>>, Returns(Head(stack)),
         stack' = Tail(stack),
         \A d \in ToSet(list) : low'[content[d].low].told = low[content[d].low].told
  PROVE  Agreed'
<1>1. /\ HandlesAgree(Tail(stack), handle, ctx, content)
      /\ CallsAgree(Tail(stack), handle, ctx, content)
      /\ Spared(Tail(stack), handle, ctx, content)
  BY ReturnAgrees
<1>2. ContentsAgree(low', content')
  BY EventElsewhere
<1> QED BY <1>1, <1>2, AgreedAgain

LEMMA AbortToldFacts ==
  ASSUME NEW lw \in [Low -> LowType], NEW l \in Low
  PROVE  \A m \in Low : Abort(lw, l)[m].told = lw[m].told
<1> DEFINE x == [lw[l] EXCEPT !.source = NULL]
<1>1. x.told = lw[l].told
  BY DEF LowType
<1>2. Abort(lw, l) = [lw EXCEPT ![l] = x]
  BY DEF Abort
<1> HIDE DEF x
<1>3. Abort(lw, l)[l] = x /\ \A m \in Low : m # l => Abort(lw, l)[m] = lw[m]
  BY <1>2
<1> QED BY <1>1, <1>3

LEMMA EndsAgree ==
  ASSUME Tied, Agreed, content_set_error \/ ContentAborts \/ ClientReturns
                       \/ (content_broadcast /\ Head(stack).h = NULL)
  PROVE  Agreed'
<1> DEFINE f == Head(stack)
<1>1. stack # <<>> /\ 1 \in DOMAIN stack /\ stack[1] = f
  <2>1. stack # <<>>
    BY DEF content_set_error, ContentAborts, ClientReturns, content_broadcast, At
  <2> QED BY <2>1, StateFacts, TailPlaces
<1>2. CASE content_set_error
  <2>1. f.at = "set_error" /\ Unlocks(f.c) /\ stack' = Tail(stack) /\ UNCHANGED <<handle, ctx, low>>
    BY <1>2 DEF content_set_error, At, Unlocks
  <2>2. f.c \in Content
    BY <1>1, <2>1, CallFacts DEF OfContent
  <2>3. Becomes(f.c, "ERROR", FALSE)
    BY <2>1, <2>2, BecomesForms
  <2> QED BY <1>1, <2>1, <2>3, FailedAgrees DEF Becomes
<1>3. CASE ContentAborts
  <2>1. /\ f.at \in {"abort", "data_failed"} /\ low' = Abort(low, content[f.c].low)
        /\ f.at = "abort" => UNCHANGED content
        /\ f.at # "abort" => Spoils(f.c)
        /\ stack' = Tail(stack) /\ UNCHANGED <<handle, ctx>>
    BY <1>3 DEF ContentAborts, At, Spoils
  <2>2. f.c \in Content /\ f.c \in ToSet(list)
    BY <1>1, <2>1, CallFacts DEF OfContent
  <2>3. content[f.c].low \in Low /\ \A d \in ToSet(list) : content[d].low \in Low
    BY <2>2 DEF Tied, Lows
  <2>4. \A m \in Low : low'[m].told = low[m].told
    BY <2>1, <2>3, StateFacts, AbortToldFacts
  <2>5. CASE f.at = "abort"
    BY <1>1, <2>1, <2>3, <2>4, <2>5, ReturnContents DEF Returns
  <2>6. CASE f.at = "data_failed"
    <3>1. Becomes(f.c, "ERROR", content[f.c].locked)
      BY <2>1, <2>2, <2>6, BecomesForms
    <3>2. ~content[f.c].locked
      BY <1>1, <2>6 DEF Agreed, CallsAgree, CallAgrees
    <3>3. /\ Restated(content', f.c) /\ content'[f.c].status = "ERROR"
          /\ content'[f.c].locked = content[f.c].locked
      BY <3>1 DEF Becomes
    <3>4. ~content'[f.c].locked
      BY <3>2, <3>3
    <3> QED BY <1>1, <2>1, <2>4, <2>6, <3>3, <3>4, FailedAgrees
  <2> QED BY <2>1, <2>5, <2>6
<1>4. CASE ClientReturns
  <2>1. f.at = "client" /\ MustRelease = {} /\ stack' = Tail(stack)
        /\ UNCHANGED <<handle, ctx, low, content>>
    BY <1>4 DEF ClientReturns, At
  <2>2. f.h \in Handle
    BY <1>1, <2>1, CallFacts
  <2>3. f.msg = "ERROR" => handle[f.h].told # "ERROR"
    BY <2>1, <2>2 DEF MustRelease, Of
  <2> QED BY <1>1, <2>1, <2>3, ReturnContents DEF Returns
<1>5. CASE content_broadcast /\ f.h = NULL
  <2>1. f.at = "broadcast" /\ stack' = Tail(stack) /\ UNCHANGED <<handle, ctx, low, content>>
    BY <1>5 DEF content_broadcast, At
  <2> QED BY <1>1, <1>5, <2>1, ReturnContents DEF Returns
<1> QED BY <1>2, <1>3, <1>4, <1>5

-----------------------------------------------------------------------------
(* While no call is made, handles have been told all. *)
Settled(hd, cx, ct) ==
  /\ \A h \in Handle :
       hd[h].told # "ERROR" /\ (hd[h].entry # NULL => hd[h].told = ct[hd[h].entry].status)
  /\ \A l \in Low : Waits(cx, l) => hd[cx[l].handle].told = "waiting"
  /\ \A g, h \in Handle :
       Loading(hd, g) /\ Loading(hd, h) /\ hd[g].owner = hd[h].owner => g = h

LEMMA SettledAgrees ==
  ASSUME NEW st, NEW hd, NEW cx, NEW ct, Settled(hd, cx, ct),
         \A i \in DOMAIN st : st[i].at \notin {"set_error", "data_failed"}
  PROVE  HandlesAgree(st, hd, cx, ct)
BY DEF Settled, HandlesAgree, Fails

LEMMA IdleSettled ==
  ASSUME Tied, Agreed, Idle
  PROVE  Settled(handle, ctx, content) /\ stack = <<>>
<1>1. stack = <<>> /\ DOMAIN stack = {}
  BY DEF Idle
<1>2. \A h \in Handle : handle[h].told # "ERROR"
  BY <1>1 DEF Agreed, HandlesAgree
<1>3. \A h \in Handle : handle[h].entry # NULL => handle[h].told = content[handle[h].entry].status
  BY <1>1, <1>2 DEF Agreed, HandlesAgree, Behind, Late
<1>4. ASSUME NEW l \in Low, Waits(ctx, l) PROVE handle[ctx[l].handle].told = "waiting"
  <2>1. ctx[l].handle \in Handle
    BY <1>4, StateFacts DEF Waits, CtxType
  <2> QED BY <1>2, <1>4, <2>1 DEF Agreed, HandlesAgree
<1> QED BY <1>1, <1>2, <1>3, <1>4 DEF Settled, Agreed, HandlesAgree

(* One call, and none. *)
LEMMA OneCall ==
  ASSUME NEW f \in Frame
  PROVE  /\ <<f>> \in Seq(Frame) /\ <<f>> # <<>> /\ Head(<<f>>) = f /\ Tail(<<f>>) = <<>>
         /\ Bottom(<<f>>) = f /\ Cons(f, <<>>) = <<f>>
         /\ DOMAIN <<f>> = {1} /\ <<f>>[1] = f
         /\ \A hd, cx, ct : CallAgrees(f, hd, cx, ct) => CallsAgree(<<f>>, hd, cx, ct)
<1> DEFINE st == <<f>>
<1>1. st \in Seq(Frame) /\ st # <<>> /\ Head(st) = f /\ DOMAIN st = {1} /\ st[1] = f /\ Len(st) = 1
  OBVIOUS
<1>2. Cons(f, <<>>) = st
  BY OneFrame
<1> HIDE DEF st
<1>3. <<>> \in Seq(Frame)
  OBVIOUS
<1>4. Tail(st) = <<>>
  BY <1>2, <1>3, PushedCall
<1>5. Bottom(st) = f
  BY <1>1 DEF Bottom
<1>6. ASSUME NEW hd, NEW cx, NEW ct, CallAgrees(f, hd, cx, ct) PROVE CallsAgree(st, hd, cx, ct)
  <2>1. CallsAgree(<<>>, hd, cx, ct)
    BY DEF CallsAgree
  <2>2. Over(f, <<>>, hd, cx, ct)
    BY <1>6 DEF Over
  <2> QED BY <1>1, <1>4, <2>1, <2>2, SplitCalls
<1> QED BY <1>1, <1>2, <1>4, <1>5, <1>6 DEF st

LEMMA NoCalls ==
  ASSUME NEW hd, NEW cx, NEW ct
  PROVE  CallsAgree(<<>>, hd, cx, ct) /\ Spared(<<>>, hd, cx, ct)
BY DEF CallsAgree, Spared

LEMMA IdleAnnounces ==
  ASSUME Tied, Agreed, Idle, NEW c \in Content, NEW msg \in {"READY", "DONE", "ERROR"}, NEW rest,
         rest = <<>> \/ \E step \in {"set_done", "set_error", "data_failed"} :
                          /\ rest = <<Then(c, step)>>
                          /\ CallAgrees(Then(c, step), handle, ctx, content'),
         Restated(content', c),
         \A h \in Handle : handle[h].entry = c => handle[h].told = Prior(msg),
         content'[c].status = msg \/ (msg = "ERROR" /\ content'[c].status = "LOADING"),
         content[c].shared => Apart(handle, content, c),
         stack' = Cons(ToAll(c, msg), rest), UNCHANGED <<handle, ctx>>,
         ContentsAgree(low', content')
  PROVE  Agreed'
<1>1. stack = <<>>
  BY DEF Idle
<1>2. \A h \in Handle : ~Behind(stack, content, h) /\ ~Late(stack, ctx, h)
  BY <1>1 DEF Behind, Late
<1>3. \A i \in DOMAIN stack : FALSE
  BY <1>1
<1>4. ToAll(c, msg).at = "broadcast" /\ ToAll(c, msg).c = c
  BY DEF ToAll, Broadcast
<1>5. /\ rest \in Seq(Frame) /\ CallsAgree(rest, handle, ctx, content') /\ Beside(rest, c)
      /\ \A j \in DOMAIN rest : Inside(ToAll(c, msg), rest[j])
      /\ rest # <<>> => /\ Deep(Head(rest), handle, content)
                        /\ Above(ToAll(c, msg), Bottom(rest), handle, ctx, content)
  <2>1. CASE rest = <<>>
    BY <1>2, <1>3, <2>1, NoCalls DEF Beside, Fails
  <2>2. ASSUME NEW step \in {"set_done", "set_error", "data_failed"}, rest = <<Then(c, step)>>,
               CallAgrees(Then(c, step), handle, ctx, content')
        PROVE  /\ rest \in Seq(Frame) /\ CallsAgree(rest, handle, ctx, content') /\ Beside(rest, c)
               /\ \A j \in DOMAIN rest : Inside(ToAll(c, msg), rest[j])
               /\ rest # <<>> => /\ Deep(Head(rest), handle, content)
                                 /\ Above(ToAll(c, msg), Bottom(rest), handle, ctx, content)
    <3> DEFINE f == Then(c, step)
    <3>1. f \in Frame /\ f.at = step /\ f.c = c
      BY OwnFrames DEF Tied, OwnFrame, Then
    <3>2. CallAgrees(f, handle, ctx, content') /\ rest = <<f>>
      BY <2>2
    <3> HIDE DEF f
    <3>3. /\ rest \in Seq(Frame) /\ Head(rest) = f /\ Bottom(rest) = f
          /\ DOMAIN rest = {1} /\ rest[1] = f /\ CallsAgree(rest, handle, ctx, content')
      BY <3>1, <3>2, OneCall
    <3>4. Beside(rest, c)
      BY <1>2, <1>3, <3>1, <3>3 DEF Beside, Fails
    <3>5. \A j \in DOMAIN rest : Inside(ToAll(c, msg), rest[j])
      BY <1>4, <3>1, <3>3 DEF Inside
    <3>6. Deep(f, handle, content) /\ Above(ToAll(c, msg), f, handle, ctx, content)
      BY <3>1 DEF Deep, Above, OfCtx
    <3> QED BY <3>3, <3>4, <3>5, <3>6
  <2> QED BY <2>1, <2>2
<1>6. /\ HandlesAgree(Cons(ToAll(c, msg), rest), handle, ctx, content')
      /\ CallsAgree(Cons(ToAll(c, msg), rest), handle, ctx, content')
      /\ Spared(Cons(ToAll(c, msg), rest), handle, ctx, content')
  BY <1>5, AnnounceAgrees
<1> QED BY <1>6, AgreedAgain

LEMMA ConvertAgrees ==
  ASSUME Tied, Agreed, Idle, NEW l \in Low, NEW c \in Content, low[l].client = c,
         low' = LowTo(low, l, "DONE"), content_convert(c), UNCHANGED <<handle, ctx>>
  PROVE  Agreed'
<1>1. Settled(handle, ctx, content) /\ stack = <<>>
  BY IdleSettled
<1>2. /\ low'[l].told = "DONE" /\ content[c].low = l
      /\ \A d \in ToSet(list) : d # c => low'[content[d].low].told = low[content[d].low].told
  BY OwnLow
<1>3. c # NULL
  BY StateFacts
<1>4. \A h \in Handle : handle[h].entry = c => handle[h].told = content[c].status
  BY <1>1, <1>3 DEF Settled
<1>5. ASSUME Restated(content', c), content'[c].locked => content'[c].status = "LOADING"
      PROVE  ContentsAgree(low', content')
    BY <1>2, <1>5, EventContents
<1>6. content[c].locked => content[c].status = "LOADING"
  BY DEF Agreed, ContentsAgree
<1>11. content[c].status = "LOADING" => Apart(handle, content, c)
  <2> SUFFICES ASSUME content[c].status = "LOADING",
                      NEW u \in ToSet(content[c].users), NEW g \in Handle, u # g,
                      handle[g].owner = handle[u].owner, handle[g].owner \in Window,
                      handle[g].told = "LOADING"
               PROVE  FALSE
    BY DEF Apart
  <2>1. u \in Handle /\ handle[u].told = "LOADING"
    BY <1>4, StateFacts
  <2> QED BY <1>1, <2>1 DEF Settled, Loading
<1>7. CASE UNCHANGED <<content, stack>>
  <2>1. ContentsAgree(low', content')
    BY <1>5, <1>6, <1>7 DEF Restated
  <2> QED BY <1>7, <2>1, AgreedAgain DEF Agreed
<1>8. CASE content[c].status = "LOADING" /\ content[c].shared /\ content_set_ready(c, <<Then(c, "set_done")>>)
  <2>1. Readies(c) /\ stack' = Cons(ToAll(c, "READY"), <<Then(c, "set_done")>>)
    BY <1>8 DEF content_set_ready, Readies
  <2>2. Restated(content', c) /\ content'[c].status = "READY" /\ content'[c].locked = FALSE
    BY <2>1, BecomesForms DEF Becomes
  <2>3. Apart(handle, content, c)
    BY <1>8, <1>11
  <2>4. CallAgrees(Then(c, "set_done"), handle, ctx, content')
    <3> DEFINE f == Then(c, "set_done")
    <3>1. f.at = "set_done" /\ f.c = c
      BY DEF Then
    <3> HIDE DEF f
    <3>2. Apart(handle, content', c)
      BY <2>2, <2>3 DEF Apart, Restated
    <3>3. CallAgrees(f, handle, ctx, content')
      BY <2>2, <3>1, <3>2 DEF CallAgrees
    <3> QED BY <3>3 DEF f
  <2>5. \A h \in Handle : handle[h].entry = c => handle[h].told = Prior("READY")
    BY <1>4, <1>8 DEF Prior
  <2> QED BY <1>5, <2>1, <2>2, <2>3, <2>4, <2>5, IdleAnnounces
<1>9. CASE Locks(c) /\ content[c].status = "LOADING" /\ UNCHANGED stack
  <2>1. Restated(content', c) /\ content'[c].status = "LOADING"
    BY <1>9, BecomesForms DEF Becomes
  <2>2. Settled(handle, ctx, content')
    <3>1. \A h \in Handle : handle[h].entry # NULL =>
            content'[handle[h].entry].status = content[handle[h].entry].status
      BY <1>9, <2>1, StateFacts DEF Restated, HandleType
    <3> QED BY <1>1, <3>1 DEF Settled
  <2>3. HandlesAgree(<<>>, handle, ctx, content')
    BY <2>2, SettledAgrees
  <2> QED BY <1>1, <1>5, <1>9, <2>1, <2>3, NoCalls, AgreedAgain
<1>10. CASE Locks(c) /\ content[c].status = "LOADING" /\ ~content[c].locked /\ Failing(c, "set_error", <<>>)
  <2>1. Restated(content', c) /\ content'[c].status = "LOADING"
    BY <1>10, BecomesForms DEF Becomes
  <2> DEFINE f == Then(c, "set_error")
  <2>2. f \in Frame /\ f.at = "set_error" /\ f.c = c
    BY OwnFrames DEF Tied, OwnFrame, Then
  <2>3. Cons(f, <<>>) = <<f>>
    BY OneFrame
  <2> HIDE DEF f
  <2>4. CallAgrees(f, handle, ctx, content')
    BY <2>1, <2>2 DEF CallAgrees
  <2>5. stack' = Cons(ToAll(c, "ERROR"), <<Then(c, "set_error")>>)
    BY <1>10, <2>3 DEF Failing, f
  <2>6. \A h \in Handle : handle[h].entry = c => handle[h].told = Prior("ERROR")
    BY <1>4, <1>10 DEF Prior
  <2>7. content[c].shared => Apart(handle, content, c)
    BY <1>10, <1>11
  <2>8. ContentsAgree(low', content')
    BY <1>5, <2>1
  <2>9. CallAgrees(Then(c, "set_error"), handle, ctx, content')
    BY <2>4 DEF f
  <2> QED BY <2>1, <2>5, <2>6, <2>7, <2>8, <2>9, IdleAnnounces
<1> QED BY <1>7, <1>8, <1>9, <1>10 DEF content_convert, Locks

(* A handle without a content is told how its retrieval ends. *)
LEMMA RefusalAgrees ==
  ASSUME Tied, Agreed, Idle, NEW l \in Low, Waits(ctx, l), NEW msg \in {"ERROR", "DOWNLOAD"}, NEW rest,
         rest = <<>> \/ \E how \in {"migrated", "refused"} : rest = <<Migrated(l, how)>>,
         \A m \in Low : Waits(ctx', m) => Waits(ctx, m) /\ ctx'[m].handle = ctx[m].handle,
         msg = "ERROR" \/ \A m \in Low : Waits(ctx', m) => ctx'[m].handle # ctx[l].handle,
         handle' = ToldTo(handle, ctx[l].handle, msg),
         stack' = Cons(Client(ctx[l].handle, msg), rest), UNCHANGED content,
         \A m \in Low : low[m].client # "ctx" => low'[m].told = low[m].told
  PROVE  Agreed'
<1> DEFINE h == ctx[l].handle
           f == Client(h, msg)
<1>1. Settled(handle, ctx, content) /\ stack = <<>>
  BY IdleSettled
<1>2. h \in Handle /\ handle[h].entry = NULL
  BY StateFacts DEF Waits, CtxType, Tied, Lows
<1>3. /\ handle'[h].told = msg
      /\ \A g \in Handle : /\ handle'[g].entry = handle[g].entry /\ handle'[g].owner = handle[g].owner
                           /\ g # h => handle'[g] = handle[g]
  BY <1>2, StateFacts, ToldFacts DEF Messages
<1>4. f \in Frame /\ f.at = "client" /\ f.msg = msg /\ f.h = h
  BY <1>2, FrameTypes DEF Client, Messages
<1>5. /\ rest \in Seq(Frame)
      /\ \A i \in DOMAIN rest : rest[i].at \in {"migrated", "refused"}
      /\ CallsAgree(rest, handle', ctx', content)
      /\ rest # <<>> => Deep(Head(rest), handle', content)
  <2>1. CASE rest = <<>>
    BY <2>1, NoCalls
  <2>2. ASSUME NEW how \in {"migrated", "refused"}, rest = <<Migrated(l, how)>>
        PROVE  /\ rest \in Seq(Frame)
               /\ \A i \in DOMAIN rest : rest[i].at \in {"migrated", "refused"}
               /\ CallsAgree(rest, handle', ctx', content)
               /\ rest # <<>> => Deep(Head(rest), handle', content)
    <3> DEFINE g == Migrated(l, how)
    <3>1. g \in Frame /\ g.at = how /\ rest = <<g>>
      BY <2>2, FrameTypes DEF Migrated
    <3> HIDE DEF g
    <3>2. CallAgrees(g, handle', ctx', content) /\ Deep(g, handle', content)
      BY <3>1 DEF CallAgrees, Deep
    <3> QED BY <3>1, <3>2, OneCall
  <2> QED BY <2>1, <2>2
<1>6. stack' = Cons(f, rest) /\ content' = content
  OBVIOUS
<1> HIDE DEF f
<1>7. stack' \in Seq(Frame) /\ stack' # <<>> /\ Head(stack') = f /\ Tail(stack') = rest
  BY <1>4, <1>5, <1>6, PushedCall
<1>8. Over(f, rest, handle', ctx', content)
  BY <1>4, <1>5 DEF Over, CallAgrees, Inside, Above, OfContent
<1>9. CallsAgree(stack', handle', ctx', content')
  BY <1>5, <1>6, <1>7, <1>8, SplitCalls
<1>10. Spared(stack', handle', ctx', content')
  BY <1>4, <1>7 DEF Spared
<1>11. \A i \in DOMAIN stack' : stack'[i].at \notin {"set_error", "data_failed"}
  <2> TAKE i \in DOMAIN stack'
  <2>1. i = 1 => stack'[i] = f
    BY <1>7, TailPlaces
  <2>2. i # 1 => i - 1 \in DOMAIN rest /\ stack'[i] = rest[i - 1]
    BY <1>7, TailPlaces
  <2> QED BY <1>4, <1>5, <2>1, <2>2
<1>12. HandlesAgree(stack', handle', ctx', content')
  <2>1. ASSUME NEW g \in Handle, handle'[g].told = "ERROR"
        PROVE  \E i \in DOMAIN stack' : Refused(stack', i, g, handle'[g].entry)
    <3>1. g = h
      BY <1>1, <1>3, <2>1 DEF Settled
    <3>2. Head(stack') = Client(g, "ERROR") /\ handle'[g].entry = NULL
      BY <1>2, <1>3, <1>7, <2>1, <3>1 DEF f
    <3> QED BY <1>7, <3>2, SplitRefused
  <2>2. ASSUME NEW g \in Handle, handle'[g].entry # NULL
        PROVE  handle'[g].told = content[handle'[g].entry].status /\ ~Fails(stack', content, handle'[g].entry)
    <3>1. g # h /\ handle'[g] = handle[g]
      BY <1>2, <1>3, <2>2
    <3>2. handle[g].told # "ERROR" /\ handle[g].told = content[handle[g].entry].status
      BY <1>1, <2>2, <3>1 DEF Settled
    <3> QED BY <1>11, <3>1, <3>2 DEF Fails
  <2>3. ASSUME NEW m \in Low, Waits(ctx', m) PROVE handle'[ctx'[m].handle].told \in {"waiting", "ERROR"}
    <3>1. Waits(ctx, m) /\ ctx'[m].handle = ctx[m].handle /\ ctx[m].handle \in Handle
      BY <2>3, StateFacts DEF Waits, CtxType
    <3>2. ctx[m].handle = h => msg = "ERROR"
      BY <2>3, <3>1
    <3> QED BY <1>1, <1>3, <3>1, <3>2 DEF Settled
  <2>4. ASSUME NEW g \in Handle, NEW k \in Handle, Loading(handle', g), Loading(handle', k),
               handle'[g].owner = handle'[k].owner
        PROVE  g = k
    <3>1. g # h /\ k # h
      BY <1>3, <2>4 DEF Loading
    <3>2. Loading(handle, g) /\ Loading(handle, k) /\ handle[g].owner = handle[k].owner
      BY <1>3, <2>4, <3>1 DEF Loading
    <3> QED BY <1>1, <3>2 DEF Settled
  <2> QED BY <1>6, <2>1, <2>2, <2>3, <2>4 DEF HandlesAgree
<1>13. ContentsAgree(low', content')
  <2>1. \A d \in ToSet(list) : low'[content[d].low].told = low[content[d].low].told
    <3> TAKE d \in ToSet(list)
    <3>1. content[d].low \in Low /\ low[content[d].low].client = d /\ d \in Content
      BY ListedFacts DEF Tied, Lows
    <3> QED BY <3>1, NothingTypes
  <2> QED BY <1>6, <2>1, EventElsewhere
<1> QED BY <1>9, <1>10, <1>12, <1>13, AgreedAgain

(* A low-level handle that has told all stays so. *)
LEMMA EventsOn ==
  ASSUME Tied, Agreed, UNCHANGED content,
         \A d \in ToSet(list) : low[content[d].low].told = "DONE" => low'[content[d].low].told = "DONE"
  PROVE  ContentsAgree(low', content')
<1>1. ContentsAgree(low, content)
  BY DEF Agreed
<1> SUFFICES ASSUME NEW d \in Content
             PROVE  /\ content[d].locked => /\ content[d].status = "LOADING"
                                            /\ low'[content[d].low].told = "DONE"
                    /\ content[d].status \in {"READY", "DONE"} => low'[content[d].low].told = "DONE"
  BY DEF ContentsAgree
<1>2. CASE d \in ToSet(list)
  BY <1>1, <1>2 DEF ContentsAgree
<1>3. CASE d \notin ToSet(list)
  <2>1. content[d].status = "none"
    BY <1>3, InList
  <2> QED BY <1>1, <2>1 DEF ContentsAgree
<1> QED BY <1>2, <1>3

LEMMA QuietAgrees ==
  ASSUME Tied, Agreed, UNCHANGED <<handle, ctx, content, stack>>,
         \A d \in ToSet(list) : low[content[d].low].told = "DONE" => low'[content[d].low].told = "DONE"
  PROVE  Agreed'
<1>1. ContentsAgree(low', content')
  BY EventsOn
<1> QED BY <1>1, AgreedAgain DEF Agreed

(* Nobody is being told anything. *)
Calm == \A i \in DOMAIN stack :
          stack[i].at \in {"release", "sweep", "migrated", "refused"} \/ Download(stack[i])

LEMMA CalmSettled ==
  ASSUME Tied, Agreed, Calm
  PROVE  Settled(handle, ctx, content)
<1>1. \A h \in Handle : ~Behind(stack, content, h)
  BY DEF Behind, Calm, Download
<1>2. \A h \in Handle : ~Late(stack, ctx, h)
  BY BottomFacts DEF Late, Calm, Download
<1>3. \A h \in Handle : handle[h].told # "ERROR"
  BY DEF Agreed, HandlesAgree, Refused, Client, Calm, Download
<1>4. \A h \in Handle : handle[h].entry # NULL => handle[h].told = content[handle[h].entry].status
  BY <1>1, <1>2, <1>3 DEF Agreed, HandlesAgree
<1>5. ASSUME NEW l \in Low, Waits(ctx, l) PROVE handle[ctx[l].handle].told = "waiting"
  <2>1. ctx[l].handle \in Handle
    BY <1>5, StateFacts DEF Waits, CtxType
  <2> QED BY <1>3, <1>5, <2>1 DEF Agreed, HandlesAgree
<1> QED BY <1>3, <1>4, <1>5 DEF Settled, Agreed, HandlesAgree

LEMMA CalmStack ==
  ASSUME Tied, Idle \/ At("release") \/ At("sweep")
  PROVE  /\ Calm /\ (\A l \in Low : ~ctx[l].target)
         /\ stack # <<>> => Tail(stack) = <<>> /\ Head(stack) \in Frame
                            /\ 1 \in DOMAIN stack /\ stack[1] = Head(stack)
<1>1. /\ \A l \in Low : ~ctx[l].target
      /\ stack # <<>> => Len(stack) = 1 /\ Tail(stack) = <<>>
  BY Alone DEF Tied, Idle, At
<1>2. CASE stack = <<>>
  BY <1>1, <1>2 DEF Calm
<1>3. CASE stack # <<>>
  <2>1. 1 \in DOMAIN stack /\ stack[1] = Head(stack) /\ Head(stack) \in Frame /\ DOMAIN stack = 1..Len(stack)
    BY <1>3, StateFacts, TailPlaces
  <2>2. Head(stack).at \in {"release", "sweep"}
    BY <1>3 DEF Idle, At
  <2>3. \A i \in DOMAIN stack : i = 1
    BY <1>1, <1>3, <2>1
  <2> QED BY <1>1, <2>1, <2>2, <2>3 DEF Calm
<1> QED BY <1>2, <1>3

(* A frame of the kind that tells nobody anything. *)
LEMMA CalmFrame ==
  ASSUME NEW f \in Frame, f.at \in {"release", "sweep", "abort", "migrated"}, NEW hd, NEW cx, NEW ct
  PROVE  /\ CallsAgree(<<f>>, hd, cx, ct) /\ Spared(<<f>>, hd, cx, ct)
         /\ \A i \in DOMAIN <<f>> : <<f>>[i].at \notin {"set_error", "data_failed"}
<1> DEFINE st == <<f>>
<1>1. /\ st \in Seq(Frame) /\ st # <<>> /\ Head(st) = f /\ DOMAIN st = {1} /\ st[1] = f
      /\ CallAgrees(f, hd, cx, ct) => CallsAgree(st, hd, cx, ct)
  BY OneCall
<1> HIDE DEF st
<1>2. CallAgrees(f, hd, cx, ct)
  BY DEF CallAgrees
<1>3. Spared(st, hd, cx, ct)
  BY <1>1 DEF Spared
<1> QED BY <1>1, <1>2, <1>3 DEF st

LEMMA SettledStep ==
  ASSUME Settled(handle', ctx', content'), ContentsAgree(low', content'),
         \/ stack' = <<>>
         \/ \E f \in Frame : f.at \in {"release", "sweep", "abort", "migrated"} /\ stack' = <<f>>
  PROVE  Agreed'
<1>1. /\ \A i \in DOMAIN stack' : stack'[i].at \notin {"set_error", "data_failed"}
      /\ CallsAgree(stack', handle', ctx', content') /\ Spared(stack', handle', ctx', content')
  <2>1. CASE stack' = <<>>
    BY <2>1, NoCalls
  <2>2. CASE \E f \in Frame : f.at \in {"release", "sweep", "abort", "migrated"} /\ stack' = <<f>>
    <3>1. PICK f \in Frame : f.at \in {"release", "sweep", "abort", "migrated"} /\ stack' = <<f>>
      BY <2>2
    <3>2. /\ CallsAgree(<<f>>, handle', ctx', content') /\ Spared(<<f>>, handle', ctx', content')
          /\ \A i \in DOMAIN <<f>> : <<f>>[i].at \notin {"set_error", "data_failed"}
      BY <3>1, CalmFrame
    <3> QED BY <3>1, <3>2
  <2> QED BY <2>1, <2>2
<1>2. HandlesAgree(stack', handle', ctx', content')
  BY <1>1, SettledAgrees
<1> QED BY <1>1, <1>2, AgreedAgain

LEMMA CalmStep ==
  ASSUME Tied, Agreed, Calm, UNCHANGED <<handle, ctx, low, content>>,
         stack' = <<>> \/ \E f \in Frame : f.at = "sweep" /\ stack' = <<f>>
  PROVE  Agreed'
<1>1. Settled(handle', ctx', content')
  BY CalmSettled
<1>2. ContentsAgree(low', content')
  BY EventsOn
<1> QED BY <1>1, <1>2, SettledStep

LEMMA CleanAgrees ==
  ASSUME Tied, Agreed, hlcache_clean
  PROVE  Agreed'
<1>1. Idle /\ stack' = <<Then(First(list), "sweep")>> /\ UNCHANGED <<handle, ctx, low, content>>
  BY DEF hlcache_clean
<1>2. Then(First(list), "sweep") \in Frame /\ Then(First(list), "sweep").at = "sweep"
  <2>1. First(list) \in Content \cup {NULL}
    BY DEF First, Tied, Typed
  <2> QED BY <2>1, FrameTypes DEF Then
<1> QED BY <1>1, <1>2, CalmStack, CalmStep

LEMMA DestroyDownloadAgrees ==
  ASSUME Tied, Agreed, NEW l \in Low, download_context_destroy(l)
  PROVE  Agreed'
<1>1. low[l].client = "download" /\ low' = ReleaseLow({l}) /\ UNCHANGED <<handle, ctx, content, stack>>
  BY DEF download_context_destroy
<1>2. ASSUME NEW d \in ToSet(list) PROVE low'[content[d].low] = low[content[d].low]
  <2>1. content[d].low \in Low /\ low[content[d].low].client = d /\ d \in Content
    BY ListedFacts DEF Tied, Lows
  <2>2. content[d].low # l
    BY <1>1, <2>1, NothingTypes
  <2> QED BY <1>1, <2>1, <2>2 DEF ReleaseLow
<1> QED BY <1>1, <1>2, QuietAgrees

-----------------------------------------------------------------------------
(* A context is migrated. *)

(* Contents that are new, loading or as they were. *)
LEMMA ContentsKept ==
  ASSUME Tied, Agreed,
         \A d \in Content :
           \/ content'[d].status \notin {"READY", "DONE"} /\ ~content'[d].locked
           \/ /\ content'[d].low = content[d].low /\ content'[d].status = content[d].status
              /\ (content'[d].locked => content[d].locked)
              /\ d \in ToSet(list) =>
                   (low[content[d].low].told = "DONE" => low'[content[d].low].told = "DONE")
  PROVE  ContentsAgree(low', content')
<1>1. ContentsAgree(low, content)
  BY DEF Agreed
<1> SUFFICES ASSUME NEW d \in Content
             PROVE  /\ content'[d].locked => /\ content'[d].status = "LOADING"
                                             /\ low'[content'[d].low].told = "DONE"
                    /\ content'[d].status \in {"READY", "DONE"} => low'[content'[d].low].told = "DONE"
  BY DEF ContentsAgree
<1>2. CASE content'[d].status \notin {"READY", "DONE"} /\ ~content'[d].locked
  BY <1>2
<1>3. CASE /\ content'[d].low = content[d].low /\ content'[d].status = content[d].status
           /\ (content'[d].locked => content[d].locked)
           /\ d \in ToSet(list) =>
                (low[content[d].low].told = "DONE" => low'[content[d].low].told = "DONE")
  <2>1. CASE d \in ToSet(list)
    BY <1>1, <1>3, <2>1 DEF ContentsAgree
  <2>2. CASE d \notin ToSet(list)
    <3>1. content[d].status = "none"
      BY <2>2, InList
    <3> QED BY <1>1, <1>3, <3>1 DEF ContentsAgree
  <2> QED BY <2>1, <2>2
<1> QED BY <1>2, <1>3

(* A client that waited has a content now, and is to be told of its state. *)
LEMMA MigratesAgree ==
  ASSUME Tied, Agreed, Idle, NEW l \in Low, low[l].client = "ctx", Targeted(ctx', l),
         NEW c \in Content, handle' = Entered(handle, ctx[l].handle, c),
         content'[c].status \in {"LOADING", "READY", "DONE"},
         content'[c].shared \/ (content'[c].status = "LOADING" /\ ~content'[c].locked),
         \A g \in Handle : handle[g].entry # NULL =>
           content'[handle[g].entry].status = content[handle[g].entry].status,
         stack' = <<CatchUp(l, CatchUpOf(content'[c].status))>>,
         ContentsAgree(low', content')
  PROVE  Agreed'
<1> DEFINE h == ctx[l].handle
           status == content'[c].status
           f == CatchUp(l, CatchUpOf(status))
<1>1. Settled(handle, ctx, content) /\ stack = <<>>
  BY IdleSettled
<1>2. /\ h \in Handle /\ Waits(ctx, l) /\ handle[h].entry = NULL
      /\ ctx'[l].handle = h /\ \A m \in Low : ctx'[m].target = (m = l)
      /\ \A m \in Low : Waits(ctx', m) => ctx'[m].handle # h
      /\ \A m \in Low : ~ctx[m].target
  BY WaitingCtx
<1>3. \A m \in Low : Waits(ctx', m) => Waits(ctx, m) /\ ctx'[m].handle = ctx[m].handle
                                      /\ ctx[m].handle \in Handle
  <2> TAKE m \in Low
  <2> HAVE Waits(ctx', m)
  <2>1. m # l
    BY <1>2 DEF Waits
  <2>2. ctx'[m] = ctx[m]
    BY <2>1, StateFacts DEF Targeted
  <2> QED BY <2>2, StateFacts DEF Waits, CtxType
<1>4. handle[h].told = "waiting"
  BY <1>1, <1>2 DEF Settled
<1>5. /\ handle'[h].entry = c /\ handle'[h].told = "waiting" /\ handle'[h].owner = handle[h].owner
      /\ \A g \in Handle \ {h} : handle'[g] = handle[g]
  <2>1. /\ Entered(handle, h, c)[h].entry = c /\ Entered(handle, h, c)[h].told = handle[h].told
        /\ Entered(handle, h, c)[h].owner = handle[h].owner
        /\ \A g \in Handle \ {h} : Entered(handle, h, c)[g] = handle[g]
    BY <1>2, StateFacts, Enters
  <2> QED BY <1>4, <2>1
<1>6. \A g \in Handle : handle'[g].told = handle[g].told /\ handle'[g].owner = handle[g].owner
  BY <1>4, <1>5
<1>7. f \in Frame /\ f.at = "catch_up" /\ f.l = l /\ f.msgs = CatchUpOf(status)
  <2>1. CatchUpOf(status) \in Seq({"LOADING", "READY", "DONE"})
    BY CatchUpType
  <2> HIDE DEF status
  <2> QED BY <2>1, FrameTypes DEF CatchUp
<1>8. <<"waiting", status, CatchUpOf(status)>> \in Steps
  <2>1. CatchUpOf("LOADING") = <<"LOADING">> /\ CatchUpOf("READY") = <<"LOADING", "READY">>
        /\ CatchUpOf("DONE") = <<"LOADING", "READY", "DONE">>
    BY DEF CatchUpOf
  <2>2. status = "LOADING" \/ status = "READY" \/ status = "DONE"
    OBVIOUS
  <2> HIDE DEF status
  <2>3. CASE status = "LOADING"
    BY <2>1, <2>3 DEF Steps
  <2>4. CASE status = "READY"
    BY <2>1, <2>4 DEF Steps
  <2>5. CASE status = "DONE"
    BY <2>1, <2>5 DEF Steps
  <2> QED BY <2>2, <2>3, <2>4, <2>5
<1>9. c # NULL
  BY StateFacts
<1>10. \A g \in Handle \ {h} : handle'[g].owner = handle'[h].owner /\ handle'[g].owner \in Window
                                 => handle'[g].told # "LOADING"
  BY <1>1, <1>2, <1>4, <1>6 DEF Settled, Loading
<1>11. content'[c].status = status
  OBVIOUS
<1>12. stack' = <<f>>
  OBVIOUS
<1> HIDE DEF h, status, f
<1>13. CatchesUp(h, f.msgs, handle', content')
  BY <1>5, <1>7, <1>8, <1>9, <1>10, <1>11 DEF CatchesUp
<1>14. CallAgrees(f, handle', ctx', content')
  BY <1>2, <1>7, <1>13 DEF CallAgrees
<1>15. /\ stack' # <<>> /\ Head(stack') = f /\ Bottom(stack') = f /\ DOMAIN stack' = {1} /\ stack'[1] = f
       /\ CallsAgree(stack', handle', ctx', content')
  <2>1. /\ <<f>> # <<>> /\ Head(<<f>>) = f /\ Bottom(<<f>>) = f /\ DOMAIN <<f>> = {1} /\ <<f>>[1] = f
        /\ \A hd, cx, ct : CallAgrees(f, hd, cx, ct) => CallsAgree(<<f>>, hd, cx, ct)
    BY <1>7, OneCall
  <2> QED BY <1>12, <1>14, <2>1
<1>16. Spared(stack', handle', ctx', content')
  BY <1>7, <1>15 DEF Spared
<1>17. HandlesAgree(stack', handle', ctx', content')
  <2>1. \A g \in Handle : handle'[g].told # "ERROR"
    BY <1>1, <1>6 DEF Settled
  <2>2. Late(stack', ctx', h)
    BY <1>2, <1>7, <1>15 DEF Late
  <2>3. ASSUME NEW g \in Handle, g # h, handle'[g].entry # NULL
        PROVE  handle'[g].told = content'[handle'[g].entry].status
               /\ ~Fails(stack', content', handle'[g].entry)
    <3>1. handle'[g] = handle[g]
      BY <1>5, <2>3
    <3>2. handle'[g].told = content'[handle'[g].entry].status
      BY <1>1, <2>3, <3>1 DEF Settled
    <3> QED BY <1>7, <1>15, <2>1, <3>2 DEF Fails
  <2>4. ASSUME NEW m \in Low, Waits(ctx', m) PROVE handle'[ctx'[m].handle].told \in {"waiting", "ERROR"}
    BY <1>1, <1>3, <1>6, <2>4 DEF Settled
  <2>5. ASSUME NEW g \in Handle, NEW k \in Handle, Loading(handle', g), Loading(handle', k),
               handle'[g].owner = handle'[k].owner
        PROVE  g = k
    BY <1>1, <1>6, <2>5 DEF Settled, Loading
  <2> QED BY <2>1, <2>2, <2>3, <2>4, <2>5 DEF HandlesAgree
<1> QED BY <1>15, <1>16, <1>17, AgreedAgain

LEMMA AddedFacts ==
  ASSUME NEW ct \in [Content -> ContentType], NEW c \in Content, NEW h \in Handle
  PROVE  \A d \in Content :
           /\ Added(ct, c, h)[d].low = ct[d].low /\ Added(ct, c, h)[d].status = ct[d].status
           /\ Added(ct, c, h)[d].shared = ct[d].shared
           /\ (Added(ct, c, h)[d].locked <=> ct[d].locked)
<1> DEFINE x == [ct[c] EXCEPT !.users = Cons(h, @)]
           t == Added(ct, c, h)
<1>1. ct[c] \in ContentType
  OBVIOUS
<1>2. x.low = ct[c].low /\ x.status = ct[c].status /\ x.shared = ct[c].shared
  BY <1>1 DEF ContentType
<1>3. x.locked = ct[c].locked
  BY <1>1 DEF ContentType
<1>4. t = [ct EXCEPT ![c] = x]
  BY DEF Added
<1> HIDE DEF x, t
<1>5. t[c] = x /\ \A d \in Content : d # c => t[d] = ct[d]
  BY <1>4
<1> QED BY <1>2, <1>3, <1>5 DEF t

(* A low-level handle that waits is not that of a content. *)
LEMMA OtherLow ==
  ASSUME Tied, NEW l \in Low, low[l].client \notin Content, NEW d \in ToSet(list)
  PROVE  content[d].low \in Low /\ content[d].low # l
BY ListedFacts DEF Tied, Lows

LEMMA JoinAgrees ==
  ASSUME Tied, Agreed, Idle, NEW l \in Low, low[l].client = "ctx", NEW c \in Suitable(l),
         Targeted(ctx', l), low' = [low EXCEPT ![l] = NoLow],
         content' = Added(content, c, ctx[l].handle),
         handle' = Entered(handle, ctx[l].handle, c),
         stack' = <<CatchUp(l, CatchUpOf(content[c].status))>>
  PROVE  Agreed'
<1>1. ctx[l].handle \in Handle
  BY WaitingCtx
<1>2. /\ c \in Content /\ c \in ToSet(list) /\ content[c].shared
      /\ content[c].status \in {"LOADING", "READY", "DONE"}
  <2>1. c \in ToSet(list) /\ content[c].shared /\ content[c].status # "ERROR"
    BY DEF Suitable
  <2>2. c \in Content /\ content[c].status # "none"
    BY <2>1, ListedFacts
  <2>3. content[c].status \in Statuses
    BY <2>2, StateFacts DEF ContentType
  <2> QED BY <2>1, <2>2, <2>3 DEF Statuses
<1>3. \A d \in Content :
        /\ content'[d].low = content[d].low /\ content'[d].status = content[d].status
        /\ content'[d].shared = content[d].shared /\ (content'[d].locked <=> content[d].locked)
  BY <1>1, <1>2, StateFacts, AddedFacts
<1>4. \A d \in ToSet(list) : low'[content[d].low] = low[content[d].low]
  <2> TAKE d \in ToSet(list)
  <2>1. content[d].low \in Low /\ content[d].low # l
    BY NothingTypes, OtherLow
  <2> QED BY <2>1, StateFacts
<1>5. ContentsAgree(low', content')
  BY <1>3, <1>4, ContentsKept
<1>6. \A g \in Handle : handle[g].entry # NULL =>
        content'[handle[g].entry].status = content[handle[g].entry].status
  BY <1>3, StateFacts DEF HandleType
<1>7. /\ content'[c].status \in {"LOADING", "READY", "DONE"} /\ content'[c].shared
      /\ stack' = <<CatchUp(l, CatchUpOf(content'[c].status))>>
  BY <1>2, <1>3
<1> QED BY <1>2, <1>5, <1>6, <1>7, MigratesAgree

LEMMA MakeAgrees ==
  ASSUME Tied, Agreed, Idle, NEW l \in Low, low[l].client = "ctx", NEW c \in UnusedContent,
         NEW x, x.status = "LOADING", ~x.locked, Targeted(ctx', l),
         content' = Put(content, c, x),
         \A m \in Low : m # l => low'[m] = low[m],
         handle' = Entered(handle, ctx[l].handle, c),
         stack' = <<CatchUp(l, CatchUpOf("LOADING"))>>
  PROVE  Agreed'
<1>1. c \in Content /\ content[c] = NoContent
  BY DEF UnusedContent
<1>2. content'[c] = x /\ \A d \in Content : d # c => content'[d] = content[d]
  BY <1>1, StateFacts, PutFacts
<1>3. \A d \in ToSet(list) : low'[content[d].low] = low[content[d].low]
  BY NothingTypes, OtherLow
<1>4. ContentsAgree(low', content')
  BY <1>2, <1>3, ContentsKept
<1>5. \A g \in Handle : handle[g].entry # NULL => handle[g].entry \in Content /\ handle[g].entry # c
  <2> TAKE g \in Handle
  <2>1. handle[g].entry # c
    <3>1. ToSet(content[c].users) = {}
      BY <1>1, NothingTypes
    <3> QED BY <1>1, <3>1, StateFacts
  <2> QED BY <2>1, StateFacts DEF HandleType
<1>6. \A g \in Handle : handle[g].entry # NULL =>
        content'[handle[g].entry].status = content[handle[g].entry].status
  BY <1>2, <1>5
<1>7. /\ content'[c].status = "LOADING" /\ ~content'[c].locked
      /\ stack' = <<CatchUp(l, CatchUpOf(content'[c].status))>>
  BY <1>2
<1>8. content'[c].status \in {"LOADING", "READY", "DONE"}
      /\ (content'[c].shared \/ (content'[c].status = "LOADING" /\ ~content'[c].locked))
  BY <1>7
<1> QED BY <1>1, <1>4, <1>6, <1>7, <1>8, MigratesAgree

LEMMA MigrateAgrees ==
  ASSUME Tied, Agreed, Idle, NEW l \in Low, low[l].client = "ctx",
         NEW told \in {"HEADERS", "DATA", "DONE"}, NEW again \in {"HEADERS", "DATA", "DONE"},
         hlcache_migrate_ctx(l, told, again)
  PROVE  Agreed'
<1> DEFINE h == ctx[l].handle
<1>1. Targeted(ctx', l)
  BY DEF hlcache_migrate_ctx, Targeted
<1>2. /\ Waits(ctx, l) /\ \A m \in Low : Waits(ctx', m) => ctx'[m].handle # h
      /\ \A m \in Low : Waits(ctx', m) => Waits(ctx, m) /\ ctx'[m].handle = ctx[m].handle
  <2>1. /\ Waits(ctx, l) /\ \A m \in Low : Waits(ctx', m) => ctx'[m].handle # h
        /\ \A m \in Low : ctx'[m].target = (m = l)
    BY <1>1, WaitingCtx
  <2>2. ASSUME NEW m \in Low, Waits(ctx', m)
        PROVE  Waits(ctx, m) /\ ctx'[m].handle = ctx[m].handle
    <3>1. m # l
      BY <2>1, <2>2 DEF Waits
    <3>2. ctx'[m] = ctx[m]
      BY <1>1, <3>1, StateFacts DEF Targeted
    <3> QED BY <2>2, <3>2 DEF Waits
  <2> QED BY <2>1, <2>2
<1>3. CASE hlcache_find_content(l, told, again)
  <2>1. CASE \E c \in Suitable(l) :
               /\ low' = [low EXCEPT ![l] = NoLow]
               /\ content' = [content EXCEPT ![c].users = Cons(h, @)]
               /\ handle' = [handle EXCEPT ![h].entry = c]
               /\ stack' = <<CatchUp(l, CatchUpOf(content[c].status))>>
               /\ UNCHANGED list
    <3>1. PICK c \in Suitable(l) :
               /\ low' = [low EXCEPT ![l] = NoLow]
               /\ content' = [content EXCEPT ![c].users = Cons(h, @)]
               /\ handle' = [handle EXCEPT ![h].entry = c]
               /\ stack' = <<CatchUp(l, CatchUpOf(content[c].status))>>
               /\ UNCHANGED list
      BY <2>1, Zenon
    <3>2. content' = Added(content, c, h) /\ handle' = Entered(handle, h, c)
      BY <3>1, Zenon DEF Added, Entered
    <3> QED BY <1>1, <3>1, <3>2, JoinAgrees
  <2>2. CASE \E c \in UnusedContent, shared \in BOOLEAN :
               /\ content' = [content EXCEPT ![c] =
                                [low |-> l, status |-> "LOADING", shared |-> shared,
                                 locked |-> FALSE, users |-> <<h>>]]
               /\ low' = [low EXCEPT ![l] = [@ EXCEPT !.client = c, !.told = again]]
               /\ handle' = [handle EXCEPT ![h].entry = c]
               /\ list' = Cons(c, list)
               /\ stack' = <<CatchUp(l, CatchUpOf("LOADING"))>>
    <3>1. PICK c \in UnusedContent, shared \in BOOLEAN :
               /\ content' = [content EXCEPT ![c] =
                                [low |-> l, status |-> "LOADING", shared |-> shared,
                                 locked |-> FALSE, users |-> <<h>>]]
               /\ low' = [low EXCEPT ![l] = [@ EXCEPT !.client = c, !.told = again]]
               /\ handle' = [handle EXCEPT ![h].entry = c]
               /\ list' = Cons(c, list)
               /\ stack' = <<CatchUp(l, CatchUpOf("LOADING"))>>
      BY <2>2, Zenon
    <3> DEFINE x == [low |-> l, status |-> "LOADING", shared |-> shared,
                     locked |-> FALSE, users |-> <<h>>]
    <3>2. content' = Put(content, c, x) /\ handle' = Entered(handle, h, c)
      BY <3>1, Zenon DEF Put, Entered
    <3>3. x.status = "LOADING" /\ ~x.locked
      OBVIOUS
    <3>4. \A m \in Low : m # l => low'[m] = low[m]
      BY <3>1, StateFacts
    <3> HIDE DEF x
    <3> QED BY <1>1, <3>1, <3>2, <3>3, <3>4, MakeAgrees
  <2> QED BY <1>3, <2>1, <2>2, Zenon DEF hlcache_find_content
<1>4. CASE /\ low' = [low EXCEPT ![l].told = again]
           /\ stack' = Cons(Client(h, "DOWNLOAD"), <<Migrated(l, "migrated")>>)
           /\ handle' = [handle EXCEPT ![h].told = "DOWNLOAD"]
           /\ UNCHANGED <<content, list>>
  <2>1. handle' = ToldTo(handle, h, "DOWNLOAD")
    BY <1>4 DEF ToldTo
  <2>2. \A m \in Low : low[m].client # "ctx" => low'[m].told = low[m].told
    BY <1>4, StateFacts
  <2>3. \E how \in {"migrated", "refused"} : <<Migrated(l, "migrated")>> = <<Migrated(l, how)>>
    OBVIOUS
  <2> QED BY <1>2, <1>4, <2>1, <2>2, <2>3, RefusalAgrees
<1>5. CASE /\ low' = [low EXCEPT ![l].told = told]
           /\ stack' = Cons(Client(h, "ERROR"), <<Migrated(l, "refused")>>)
           /\ handle' = [handle EXCEPT ![h].told = "ERROR"]
           /\ UNCHANGED <<content, list>>
  <2>1. handle' = ToldTo(handle, h, "ERROR")
    BY <1>5 DEF ToldTo
  <2>2. \A m \in Low : low[m].client # "ctx" => low'[m].told = low[m].told
    BY <1>5, StateFacts
  <2>3. \E how \in {"migrated", "refused"} : <<Migrated(l, "refused")>> = <<Migrated(l, how)>>
    OBVIOUS
  <2> QED BY <1>2, <1>5, <2>1, <2>2, <2>3, RefusalAgrees
<1> QED BY <1>3, <1>4, <1>5, Zenon DEF hlcache_migrate_ctx

-----------------------------------------------------------------------------
(* Events of the low-level cache. *)

(* A content whose data are still to come. *)
LEMMA Unfinished ==
  ASSUME Tied, Agreed, Idle, NEW l \in Low, NEW c \in Content, low[l].client = c, low[l].told # "DONE"
  PROVE  /\ content[c].low = l /\ c \in ToSet(list)
         /\ content[c].status \in {"LOADING", "ERROR"} /\ ~content[c].locked
         /\ \A h \in Handle : handle[h].entry = c => handle[h].told = "LOADING"
         /\ Apart(handle, content, c)
<1>1. Settled(handle, ctx, content) /\ stack = <<>>
  BY IdleSettled
<1>2. content[c].low = l /\ c \in ToSet(list)
  BY DEF Tied, Lows
<1>3. content[c].status \in {"LOADING", "ERROR"} /\ ~content[c].locked
  <2>1. content[c].status # "none" /\ content[c].status \in Statuses
    BY <1>2, ListedFacts, StateFacts DEF ContentType
  <2> QED BY <1>2, <2>1 DEF Agreed, ContentsAgree, Statuses
<1>4. \A h \in Handle : handle[h].entry = c => handle[h].told = "LOADING"
  <2>1. c # NULL
    BY StateFacts
  <2> QED BY <1>1, <1>3, <2>1 DEF Settled
<1>5. Apart(handle, content, c)
  <2> SUFFICES ASSUME NEW u \in ToSet(content[c].users), NEW g \in Handle, u # g,
                      handle[g].owner = handle[u].owner, handle[g].owner \in Window,
                      handle[g].told = "LOADING"
               PROVE  FALSE
    BY DEF Apart
  <2>1. u \in Handle /\ handle[u].told = "LOADING"
    BY <1>4, StateFacts
  <2> QED BY <1>1, <2>1 DEF Settled, Loading
<1> QED BY <1>2, <1>3, <1>4, <1>5

(* The state of a low-level handle is only that of its own content. *)
LEMMA OneLow ==
  ASSUME Tied, NEW l \in Low, NEW told, low' = LowTo(low, l, told), low[l].told # "DONE" \/ told = "DONE"
  PROVE  /\ \A d \in ToSet(list) :
              low[content[d].low].told = "DONE" => low'[content[d].low].told = "DONE"
         /\ \A m \in Low : m # l => low'[m].told = low[m].told
<1>1. low'[l].told = told /\ \A m \in Low : m # l => low'[m] = low[m]
  BY StateFacts, LowToldFacts
<1>2. \A d \in ToSet(list) : content[d].low \in Low
  BY DEF Tied, Lows
<1> QED BY <1>1, <1>2

LEMMA HeadersAgrees ==
  ASSUME Tied, Agreed, NEW l \in Low, HAD_HEADERS(l)
  PROVE  Agreed'
<1>1. Idle /\ low[l].client = "ctx" /\ low[l].told = "INIT"
  BY DEF HAD_HEADERS
<1>2. CASE hlcache_migrate_ctx(l, "HEADERS", "HEADERS")
  BY <1>1, <1>2, MigrateAgrees
<1>3. CASE low' = [low EXCEPT ![l].told = "HEADERS"] /\ UNCHANGED <<handle, ctx, content, list, stack>>
  <2>1. low' = LowTo(low, l, "HEADERS")
    BY <1>3 DEF LowTo
  <2>2. low[l].told # "DONE"
    BY <1>1
  <2>3. \A d \in ToSet(list) : low[content[d].low].told = "DONE" => low'[content[d].low].told = "DONE"
    BY <2>1, <2>2, OneLow
  <2> QED BY <1>3, <2>3, QuietAgrees
<1> QED BY <1>2, <1>3 DEF HAD_HEADERS

LEMMA DataAgrees ==
  ASSUME Tied, Agreed, NEW l \in Low, HAD_DATA(l)
  PROVE  Agreed'
<1> DEFINE c == low[l].client
<1>1. Idle /\ low[l].told = "HEADERS"
  BY DEF HAD_DATA
<1>2. CASE c = "ctx" /\ hlcache_migrate_ctx(l, "DATA", "HEADERS")
  BY <1>1, <1>2, MigrateAgrees
<1>3. CASE /\ low' = [low EXCEPT ![l].told = "DATA"]
           /\ \/ UNCHANGED stack
              \/ c \in Content /\ Failing(c, "data_failed", <<>>)
           /\ UNCHANGED <<handle, ctx, content, list>>
  <2>1. low' = LowTo(low, l, "DATA")
    BY <1>3 DEF LowTo
  <2>2. low[l].told # "DONE"
    BY <1>1
  <2>3. \A d \in ToSet(list) : low[content[d].low].told = "DONE" => low'[content[d].low].told = "DONE"
    BY <2>1, <2>2, OneLow
  <2>4. CASE UNCHANGED stack
    BY <1>3, <2>3, <2>4, QuietAgrees
  <2>5. CASE c \in Content /\ Failing(c, "data_failed", <<>>)
    <3>1. /\ c \in Content /\ Failing(c, "data_failed", <<>>) /\ low[l].client = c
          /\ UNCHANGED <<handle, ctx, content>>
      BY <1>3, <2>5
    <3> HIDE DEF c
    <3>2. /\ content[c].status \in {"LOADING", "ERROR"} /\ ~content[c].locked
          /\ \A h \in Handle : handle[h].entry = c => handle[h].told = "LOADING"
          /\ Apart(handle, content, c)
      BY <1>1, <2>2, <3>1, Unfinished
    <3> DEFINE f == Then(c, "data_failed")
    <3>3. f.at = "data_failed" /\ f.c = c
      BY DEF Then
    <3>4. Cons(f, <<>>) = <<f>>
      BY OneFrame
    <3> HIDE DEF f
    <3>5. CallAgrees(f, handle, ctx, content')
      BY <3>1, <3>2, <3>3 DEF CallAgrees
    <3>6. stack' = Cons(ToAll(c, "ERROR"), <<Then(c, "data_failed")>>)
      BY <3>1, <3>4 DEF Failing, f
    <3>7. Restated(content', c)
      BY <3>1 DEF Restated
    <3>8. \A h \in Handle : handle[h].entry = c => handle[h].told = Prior("ERROR")
      BY <3>2 DEF Prior
    <3>9. ContentsAgree(low', content')
      BY <2>3, <3>1, EventsOn
    <3>10. content'[c].status = "ERROR" \/ content'[c].status = "LOADING"
      BY <3>1, <3>2
    <3>11. CallAgrees(Then(c, "data_failed"), handle, ctx, content')
      BY <3>5 DEF f
    <3> QED BY <1>1, <3>1, <3>2, <3>6, <3>7, <3>8, <3>9, <3>10, <3>11, IdleAnnounces
  <2> QED BY <1>3, <2>4, <2>5
<1> QED BY <1>2, <1>3 DEF HAD_DATA

(* The client of a context is told that the retrieval failed. *)
LEMMA CtxFailsAgrees ==
  ASSUME Tied, Agreed, Idle, NEW l \in Low, low[l].client = "ctx", low' = LowTo(low, l, "DONE"),
         Deliver(ctx[l].handle, "ERROR", <<>>), UNCHANGED <<ctx, content>>
  PROVE  Agreed'
<1>1. Waits(ctx, l)
  <2>1. \E cx2 : Targeted(cx2, l)
    BY DEF Targeted
  <2> QED BY <2>1, WaitingCtx
<1>2. handle' = ToldTo(handle, ctx[l].handle, "ERROR") /\ stack' = Cons(Client(ctx[l].handle, "ERROR"), <<>>)
  BY DEF Deliver, ToldTo
<1>3. \A m \in Low : low[m].client # "ctx" => low'[m].told = low[m].told
  <2>1. \A m \in Low : m # l => low'[m] = low[m]
    BY StateFacts, LowToldFacts
  <2> QED BY <2>1
<1>4. \A m \in Low : Waits(ctx', m) => Waits(ctx, m) /\ ctx'[m].handle = ctx[m].handle
  OBVIOUS
<1>5. UNCHANGED content
  OBVIOUS
<1> QED BY <1>1, <1>2, <1>3, <1>4, <1>5, RefusalAgrees

LEMMA DoneAgrees ==
  ASSUME Tied, Agreed, NEW l \in Low, DONE(l)
  PROVE  Agreed'
<1> DEFINE c == low[l].client
<1>1. Idle /\ low[l].told \in {"HEADERS", "DATA"}
  BY DEF DONE
<1>2. CASE c = "ctx" /\ hlcache_migrate_ctx(l, "DONE", "DATA")
  BY <1>1, <1>2, MigrateAgrees
<1>3. CASE /\ c = "ctx"
           /\ low' = [low EXCEPT ![l].told = "DONE"]
           /\ Deliver(ctx[l].handle, "ERROR", <<>>)
           /\ UNCHANGED <<ctx, content, list>>
  <2>1. low' = LowTo(low, l, "DONE")
    BY <1>3 DEF LowTo
  <2> QED BY <1>1, <1>3, <2>1, CtxFailsAgrees
<1>4. CASE /\ c \in Content
           /\ low' = [low EXCEPT ![l].told = "DONE"]
           /\ content_convert(c)
           /\ UNCHANGED <<handle, ctx, list>>
  <2>1. low' = LowTo(low, l, "DONE")
    BY <1>4 DEF LowTo
  <2> QED BY <1>1, <1>4, <2>1, ConvertAgrees
<1>5. CASE /\ low' = [low EXCEPT ![l].told = "DONE"]
           /\ UNCHANGED <<handle, ctx, content, list, stack>>
  <2>1. low' = LowTo(low, l, "DONE")
    BY <1>5 DEF LowTo
  <2>2. \A d \in ToSet(list) : low[content[d].low].told = "DONE" => low'[content[d].low].told = "DONE"
    BY <2>1, OneLow
  <2> QED BY <1>5, <2>2, QuietAgrees
<1> QED BY <1>2, <1>3, <1>4, <1>5 DEF DONE

LEMMA ErrorAgrees ==
  ASSUME Tied, Agreed, NEW l \in Low, ERROR(l)
  PROVE  Agreed'
<1> DEFINE c == low[l].client
<1>1. Idle /\ low[l].told \in {"INIT", "HEADERS", "DATA"} /\ UNCHANGED <<ctx, list>>
  BY DEF ERROR
<1>2. low' = LowTo(low, l, "DONE")
  BY DEF ERROR, LowTo
<1>3. CASE c = "ctx" /\ Deliver(ctx[l].handle, "ERROR", <<>>) /\ UNCHANGED content
  BY <1>1, <1>2, <1>3, CtxFailsAgrees
<1>4. CASE c \in Content /\ Spoils(c) /\ stack' = <<ToAll(c, "ERROR")>> /\ UNCHANGED handle
  <2>1. c \in Content /\ Spoils(c) /\ stack' = <<ToAll(c, "ERROR")>> /\ low[l].client = c
        /\ UNCHANGED <<handle, ctx>>
    BY <1>1, <1>4
  <2> HIDE DEF c
  <2>2. low[l].told # "DONE"
    BY <1>1
  <2>3. /\ content[c].low = l /\ c \in ToSet(list) /\ ~content[c].locked
        /\ \A h \in Handle : handle[h].entry = c => handle[h].told = "LOADING"
        /\ Apart(handle, content, c)
    BY <1>1, <2>1, <2>2, Unfinished
  <2>4. Becomes(c, "ERROR", content[c].locked)
    BY <2>1, BecomesForms
  <2>5. Restated(content', c) /\ content'[c].status = "ERROR" /\ ~content'[c].locked
    BY <2>3, <2>4 DEF Becomes
  <2>6. /\ low'[l].told = "DONE"
        /\ \A d \in ToSet(list) : d # low[l].client => low'[content[d].low].told = low[content[d].low].told
    BY <1>2, OwnLow
  <2>7. ContentsAgree(low', content')
    BY <2>1, <2>5, <2>6, EventContents
  <2>8. stack' = Cons(ToAll(c, "ERROR"), <<>>)
    <3>1. Cons(ToAll(c, "ERROR"), <<>>) = <<ToAll(c, "ERROR")>>
      BY OneFrame
    <3> QED BY <2>1, <3>1
  <2>9. \A h \in Handle : handle[h].entry = c => handle[h].told = Prior("ERROR")
    BY <2>3 DEF Prior
  <2> QED BY <1>1, <2>1, <2>3, <2>5, <2>7, <2>8, <2>9, IdleAnnounces
<1>5. CASE UNCHANGED <<handle, content, stack>>
  <2>1. \A d \in ToSet(list) : low[content[d].low].told = "DONE" => low'[content[d].low].told = "DONE"
    BY <1>2, OneLow
  <2> QED BY <1>1, <1>5, <2>1, QuietAgrees
<1> QED BY <1>3, <1>4, <1>5 DEF ERROR, Spoils

-----------------------------------------------------------------------------
(* A client catches up. *)

LEMMA TailOfOne ==
  ASSUME NEW x
  PROVE  Head(<<x>>) = x /\ Tail(<<x>>) = <<>>
OBVIOUS

LEMMA TailOfTwo ==
  ASSUME NEW x, NEW y
  PROVE  Head(<<x, y>>) = x /\ Tail(<<x, y>>) = <<y>>
OBVIOUS

LEMMA TailOfThree ==
  ASSUME NEW x, NEW y, NEW z
  PROVE  Head(<<x, y, z>>) = x /\ Tail(<<x, y, z>>) = <<y, z>>
OBVIOUS

(* Of the messages that are left the next one is in order. *)
LEMMA StepsNext ==
  ASSUME NEW told, NEW status, NEW msgs, <<told, status, msgs>> \in Steps
  PROVE  /\ msgs = <<>> => told = status
         /\ msgs # <<>> =>
              /\ <<Head(msgs), status, Tail(msgs)>> \in Steps
              /\ \/ told = "waiting" /\ Head(msgs) = "LOADING"
                 \/ told = "LOADING" /\ Head(msgs) = "READY"
                 \/ told = "READY" /\ Head(msgs) = "DONE"
<1>1. /\ Head(<<"LOADING">>) = "LOADING" /\ Tail(<<"LOADING">>) = <<>>
      /\ Head(<<"READY">>) = "READY" /\ Tail(<<"READY">>) = <<>>
      /\ Head(<<"DONE">>) = "DONE" /\ Tail(<<"DONE">>) = <<>>
  BY TailOfOne
<1>2. /\ Head(<<"LOADING", "READY">>) = "LOADING" /\ Tail(<<"LOADING", "READY">>) = <<"READY">>
      /\ Head(<<"READY", "DONE">>) = "READY" /\ Tail(<<"READY", "DONE">>) = <<"DONE">>
  BY TailOfTwo
<1>3. /\ Head(<<"LOADING", "READY", "DONE">>) = "LOADING"
      /\ Tail(<<"LOADING", "READY", "DONE">>) = <<"READY", "DONE">>
  BY TailOfThree
<1>4. <<"LOADING">> # <<>> /\ <<"READY">> # <<>> /\ <<"DONE">> # <<>> /\ <<"LOADING", "READY">> # <<>>
      /\ <<"READY", "DONE">> # <<>> /\ <<"LOADING", "READY", "DONE">> # <<>>
  OBVIOUS
<1>5. CASE told = "waiting" /\ status = "LOADING" /\ msgs = <<"LOADING">>
  BY <1>1, <1>2, <1>3, <1>4, <1>5 DEF Steps
<1>6. CASE told = "LOADING" /\ status = "LOADING" /\ msgs = <<>>
  BY <1>1, <1>2, <1>3, <1>4, <1>6 DEF Steps
<1>7. CASE told = "waiting" /\ status = "READY" /\ msgs = <<"LOADING", "READY">>
  BY <1>1, <1>2, <1>3, <1>4, <1>7 DEF Steps
<1>8. CASE told = "LOADING" /\ status = "READY" /\ msgs = <<"READY">>
  BY <1>1, <1>2, <1>3, <1>4, <1>8 DEF Steps
<1>9. CASE told = "READY" /\ status = "READY" /\ msgs = <<>>
  BY <1>1, <1>2, <1>3, <1>4, <1>9 DEF Steps
<1>10. CASE told = "waiting" /\ status = "DONE" /\ msgs = <<"LOADING", "READY", "DONE">>
  BY <1>1, <1>2, <1>3, <1>4, <1>10 DEF Steps
<1>11. CASE told = "LOADING" /\ status = "DONE" /\ msgs = <<"READY", "DONE">>
  BY <1>1, <1>2, <1>3, <1>4, <1>11 DEF Steps
<1>12. CASE told = "READY" /\ status = "DONE" /\ msgs = <<"DONE">>
  BY <1>1, <1>2, <1>3, <1>4, <1>12 DEF Steps
<1>13. CASE told = "DONE" /\ status = "DONE" /\ msgs = <<>>
  BY <1>1, <1>2, <1>3, <1>4, <1>13 DEF Steps
<1> QED BY <1>5, <1>6, <1>7, <1>8, <1>9, <1>10, <1>11, <1>12, <1>13 DEF Steps

(* The messages of a migration that are left. *)
LEMMA CatchUpFacts ==
  ASSUME Tied, Agreed, At("catch_up")
  PROVE  /\ stack # <<>> /\ Tail(stack) = <<>> /\ Bottom(stack) = Head(stack) /\ Head(stack).at = "catch_up"
         /\ Head(stack).l \in Low /\ ctx[Head(stack).l].handle \in Handle
         /\ Head(stack).msgs \in Seq({"LOADING", "READY", "DONE"})
         /\ handle[ctx[Head(stack).l].handle].entry \in Content
         /\ CatchesUp(ctx[Head(stack).l].handle, Head(stack).msgs, handle, content)
         /\ \A h \in Handle : handle[h].told # "ERROR"
         /\ \A h \in Handle : h # ctx[Head(stack).l].handle /\ handle[h].entry # NULL =>
              handle[h].told = content[handle[h].entry].status
         /\ \A l \in Low : Waits(ctx, l) => handle[ctx[l].handle].told = "waiting"
<1> DEFINE f == Head(stack)
           h == ctx[f.l].handle
<1>1. stack # <<>> /\ f.at = "catch_up"
  BY DEF At
<1>2. Tail(stack) = <<>> /\ Bottom(stack) = f /\ f \in Frame /\ Len(stack) = 1
  BY <1>1, Only DEF Tied, Deepest, OfCtx
<1>3. 1 \in DOMAIN stack /\ stack[1] = f /\ \A i \in DOMAIN stack : i = 1
  <2>1. 1 \in DOMAIN stack /\ stack[1] = f /\ DOMAIN stack = 1..Len(stack)
    BY <1>1, StateFacts, TailPlaces
  <2> QED BY <1>2, <2>1
<1>4. f.l \in Low /\ h \in Handle /\ f.msgs \in Seq({"LOADING", "READY", "DONE"})
  BY <1>1, <1>2, <1>3, CallFacts, FrameFields
<1>5. CatchesUp(h, f.msgs, handle, content)
  BY <1>1, <1>3 DEF Agreed, CallsAgree, CallAgrees
<1>6. handle[h].entry \in Content
  <2> HIDE DEF f, h
  <2>1. handle[h].entry # NULL
    BY <1>5, Zenon DEF CatchesUp
  <2> QED BY <1>4, <2>1, StateFacts DEF HandleType
<1>7. \A g \in Handle : handle[g].told # "ERROR"
  BY <1>1, <1>3 DEF Agreed, HandlesAgree, Refused, Client
<1>8. \A g \in Handle : g # h /\ handle[g].entry # NULL => handle[g].told = content[handle[g].entry].status
  <2>1. \A g \in Handle : ~Behind(stack, content, g)
    BY <1>1, <1>3 DEF Behind
  <2>2. \A g \in Handle : g # h => ~Late(stack, ctx, g)
    BY <1>2 DEF Late
  <2> QED BY <1>7, <2>1, <2>2 DEF Agreed, HandlesAgree
<1>9. \A l \in Low : Waits(ctx, l) => handle[ctx[l].handle].told = "waiting"
  <2> TAKE l \in Low
  <2> HAVE Waits(ctx, l)
  <2>1. ctx[l].handle \in Handle
    BY StateFacts DEF Waits, CtxType
  <2> QED BY <1>7, <2>1 DEF Agreed, HandlesAgree
<1> QED BY <1>1, <1>2, <1>4, <1>5, <1>6, <1>7, <1>8, <1>9

LEMMA CatchUpAgrees ==
  ASSUME Tied, Agreed, CatchUpNext
  PROVE  Agreed'
<1> DEFINE f == Head(stack)
           h == ctx[f.l].handle
           c == handle[h].entry
           msg == Head(f.msgs)
           k == Client(h, msg)
           g == CatchUp(f.l, Tail(f.msgs))
<1>1. At("catch_up") /\ f.msgs # <<>> /\ UNCHANGED <<ctx, low, content>>
      /\ handle' = ToldTo(handle, h, msg) /\ stack' = Cons(k, Cons(g, Tail(stack)))
  BY DEF CatchUpNext, Deliver, ToldTo
<1>2. /\ Tail(stack) = <<>> /\ f.l \in Low /\ h \in Handle /\ c \in Content
      /\ f.msgs \in Seq({"LOADING", "READY", "DONE"})
      /\ CatchesUp(h, f.msgs, handle, content)
      /\ \A x \in Handle : handle[x].told # "ERROR"
      /\ \A x \in Handle : x # h /\ handle[x].entry # NULL =>
           handle[x].told = content[handle[x].entry].status
      /\ \A l \in Low : Waits(ctx, l) => handle[ctx[l].handle].told = "waiting"
  BY <1>1, CatchUpFacts
<1>3. msg \in {"LOADING", "READY", "DONE"} /\ Tail(f.msgs) \in Seq({"LOADING", "READY", "DONE"})
  BY <1>1, <1>2, TailFrames
<1>4. /\ <<msg, content[c].status, Tail(f.msgs)>> \in Steps
      /\ msg = "LOADING" => handle[h].told = "waiting"
  <2> HIDE DEF h
  <2>1. <<handle[h].told, content[c].status, f.msgs>> \in Steps
    BY <1>2, Zenon DEF CatchesUp
  <2> DEFINE told == handle[h].told
             status == content[c].status
             msgs == f.msgs
  <2>2. <<told, status, msgs>> \in Steps /\ msgs # <<>>
    BY <1>1, <2>1
  <2> HIDE DEF told, status, msgs
  <2>3. /\ <<Head(msgs), status, Tail(msgs)>> \in Steps
        /\ \/ told = "waiting" /\ Head(msgs) = "LOADING"
           \/ told = "LOADING" /\ Head(msgs) = "READY"
           \/ told = "READY" /\ Head(msgs) = "DONE"
    BY <2>2, StepsNext
  <2> QED BY <2>3 DEF told, status, msgs
<1>5. /\ handle'[h].told = msg
      /\ \A x \in Handle : /\ handle'[x].entry = handle[x].entry /\ handle'[x].owner = handle[x].owner
                           /\ x # h => handle'[x] = handle[x]
  <2>1. msg \in Messages
    BY <1>3 DEF Messages
  <2> HIDE DEF msg, h
  <2> QED BY <1>1, <1>2, <2>1, StateFacts, ToldFacts
<1>6. /\ k \in Frame /\ k.at = "client" /\ k.h = h /\ k.msg = msg
      /\ g \in Frame /\ g.at = "catch_up" /\ g.l = f.l /\ g.msgs = Tail(f.msgs)
  <2>1. msg \in Messages
    BY <1>3 DEF Messages
  <2> QED BY <1>2, <1>3, <2>1, FrameTypes DEF Client, CatchUp
<1>7. stack' = Cons(k, <<g>>)
  BY <1>1, <1>2, OneFrame
<1>8. content' = content /\ ctx' = ctx /\ c = handle[h].entry
  BY <1>1
<1> HIDE DEF f, h, c, msg, k, g
<1>9. CatchesUp(h, g.msgs, handle', content')
  <2>1. /\ c # NULL /\ (content[c].shared \/ (content[c].status = "LOADING" /\ ~content[c].locked))
        /\ \A x \in Handle \ {h} :
             handle[x].owner = handle[h].owner /\ handle[x].owner \in Window => handle[x].told # "LOADING"
    BY <1>2, Zenon DEF CatchesUp, c
  <2>2. handle'[h].entry = c
    BY <1>2, <1>5, <1>8
  <2>3. <<handle'[h].told, content'[c].status, g.msgs>> \in Steps
    BY <1>4, <1>5, <1>6, <1>8
  <2>4. \A x \in Handle \ {h} :
          handle'[x].owner = handle'[h].owner /\ handle'[x].owner \in Window => handle'[x].told # "LOADING"
    BY <1>2, <1>5, <2>1
  <2> QED BY <1>8, <2>1, <2>2, <2>3, <2>4, Zenon DEF CatchesUp
<1>10. CallAgrees(g, handle', ctx', content') /\ Deep(g, handle', content')
  <2>1. ctx'[g.l].handle = h
    BY <1>6, <1>8 DEF h
  <2> QED BY <1>6, <1>9, <2>1 DEF CallAgrees, Deep
<1>11. <<g>> \in Seq(Frame) /\ <<g>> # <<>> /\ Head(<<g>>) = g /\ Bottom(<<g>>) = g
       /\ DOMAIN <<g>> = {1} /\ <<g>>[1] = g /\ CallsAgree(<<g>>, handle', ctx', content')
  BY <1>6, <1>10, OneCall
<1>12. stack' \in Seq(Frame) /\ stack' # <<>> /\ Head(stack') = k /\ Tail(stack') = <<g>>
  BY <1>6, <1>7, <1>11, PushedCall
<1>13. Bottom(stack') = g
  BY <1>11, <1>12, TailPlaces
<1>14. Over(k, <<g>>, handle', ctx', content')
  <2>1. CallAgrees(k, handle', ctx', content')
    BY <1>5, <1>6 DEF CallAgrees
  <2> QED BY <1>6, <1>10, <1>11, <2>1 DEF Over, Inside, Above, OfContent
<1>15. CallsAgree(stack', handle', ctx', content')
  BY <1>11, <1>12, <1>14, SplitCalls
<1>16. \A i \in DOMAIN stack' : stack'[i] \in {k, g}
  <2> TAKE i \in DOMAIN stack'
  <2>1. i = 1 => stack'[i] = k
    BY <1>12, TailPlaces
  <2>2. i # 1 => /\ i - 1 \in DOMAIN Tail(stack') /\ (i - 1) + 1 = i
                 /\ Tail(stack')[i - 1] = stack'[(i - 1) + 1]
    BY <1>12, TailPlaces
  <2> QED BY <1>11, <1>12, <2>1, <2>2
<1>17. Late(stack', ctx', h) /\ \A x \in Handle : x # h => ~Late(stack', ctx', x)
  <2>1. ctx'[g.l].handle = h
    BY <1>6, <1>8 DEF h
  <2> QED BY <1>6, <1>12, <1>13, <2>1 DEF Late
<1>18. \A x \in Handle : ~Behind(stack', content', x)
  BY <1>6, <1>16 DEF Behind
<1>19. Spared(stack', handle', ctx', content')
  BY <1>6, <1>12, <1>17, <1>18 DEF Spared
<1>20. HandlesAgree(stack', handle', ctx', content')
  <2>1. \A x \in Handle : handle'[x].told # "ERROR"
    BY <1>2, <1>3, <1>5
  <2>2. ASSUME NEW x \in Handle, x # h, handle'[x].entry # NULL
        PROVE  handle'[x].told = content'[handle'[x].entry].status
               /\ ~Fails(stack', content', handle'[x].entry)
    <3>1. handle'[x] = handle[x]
      BY <1>5, <2>2
    <3>2. handle'[x].told = content'[handle'[x].entry].status
      BY <1>2, <1>8, <2>2, <3>1
    <3> QED BY <1>6, <1>16, <2>1, <3>2 DEF Fails
  <2>3. ASSUME NEW m \in Low, Waits(ctx', m) PROVE handle'[ctx'[m].handle].told \in {"waiting", "ERROR"}
    <3>1. Waits(ctx, m) /\ ctx[m].handle \in Handle /\ handle[ctx[m].handle].entry = NULL
      BY <1>8, <2>3, StateFacts DEF Waits, CtxType, Tied, Lows
    <3>2. ctx[m].handle # h
      BY <1>2, <1>8, <3>1, StateFacts
    <3> QED BY <1>2, <1>5, <1>8, <3>1, <3>2
  <2>4. \A x \in Handle : Loading(handle', x) => Loading(handle, x)
    BY <1>3, <1>4, <1>5 DEF Loading
  <2>5. ASSUME NEW x \in Handle, NEW y \in Handle, Loading(handle', x), Loading(handle', y),
               handle'[x].owner = handle'[y].owner
        PROVE  x = y
    BY <1>5, <2>4, <2>5 DEF Agreed, HandlesAgree
  <2> QED BY <1>17, <2>1, <2>2, <2>3, <2>5 DEF HandlesAgree
<1>21. ContentsAgree(low', content')
  BY <1>1, EventsOn
<1> QED BY <1>15, <1>19, <1>20, <1>21, AgreedAgain

-----------------------------------------------------------------------------
(* A migration ends. *)

LEMMA MigrationEndsAgrees ==
  ASSUME Tied, Agreed, MigrationEnds
  PROVE  Agreed'
<1> DEFINE f == Head(stack)
<1>1. /\ stack # <<>> /\ f.at \in OfCtx /\ stack' = Tail(stack) /\ ctx' = DropCtx({f.l})
      /\ f.at = "catch_up" => f.msgs = <<>>
      /\ f.at = "refused" \/ UNCHANGED low
      /\ f.at = "refused" => low' = ReleaseLow({f.l})
      /\ UNCHANGED <<handle, content>>
  BY DEF MigrationEnds, At, OfCtx
<1>2. Tail(stack) = <<>> /\ f \in Frame /\ FrameTied(f, ctx, low, list) /\ Len(stack) = 1
  BY <1>1, Only DEF Tied, Deepest
<1>3. f.l \in Low
  BY <1>1, <1>2, FrameFields DEF OfCtx
<1>4. Settled(handle, ctx, content)
  <2>1. CASE f.at = "catch_up"
    <3> DEFINE h == ctx[f.l].handle
               c == handle[h].entry
    <3>1. /\ At("catch_up") /\ f.msgs = <<>>
      BY <1>1, <2>1 DEF At
    <3>2. /\ h \in Handle /\ CatchesUp(h, f.msgs, handle, content)
          /\ \A x \in Handle : handle[x].told # "ERROR"
          /\ \A x \in Handle : x # h /\ handle[x].entry # NULL =>
               handle[x].told = content[handle[x].entry].status
          /\ \A l \in Low : Waits(ctx, l) => handle[ctx[l].handle].told = "waiting"
      BY <3>1, CatchUpFacts
    <3> HIDE DEF h
    <3>3. <<handle[h].told, content[c].status, f.msgs>> \in Steps
      BY <3>2, Zenon DEF CatchesUp
    <3>4. handle[h].told = content[c].status
      <4> DEFINE told == handle[h].told
                 status == content[c].status
                 msgs == f.msgs
      <4>1. <<told, status, msgs>> \in Steps /\ msgs = <<>>
        BY <3>1, <3>3
      <4> HIDE DEF told, status, msgs
      <4>2. told = status
        BY <4>1, StepsNext
      <4> QED BY <4>2 DEF told, status
    <3> QED BY <3>2, <3>4 DEF Settled, Agreed, HandlesAgree, c
  <2>2. CASE f.at # "catch_up"
    <3>1. DOMAIN stack = 1..Len(stack) /\ stack[1] = f
      BY <1>1, StateFacts, TailPlaces
    <3>2. \A i \in DOMAIN stack : stack[i].at \in {"migrated", "refused"}
      BY <1>1, <1>2, <2>2, <3>1 DEF OfCtx
    <3> QED BY <3>2, CalmSettled DEF Calm
  <2> QED BY <2>1, <2>2
<1>5. \A m \in Low : Waits(ctx', m) => Waits(ctx, m) /\ ctx'[m] = ctx[m]
  BY <1>1, NothingTypes DEF Waits, DropCtx
<1>6. Settled(handle', ctx', content')
  BY <1>1, <1>4, <1>5 DEF Settled
<1>7. ASSUME NEW d \in ToSet(list) PROVE low'[content[d].low] = low[content[d].low]
  <2>1. CASE f.at # "refused"
    BY <1>1, <2>1
  <2>2. CASE f.at = "refused"
    <3>1. low[f.l].client = "ctx"
      BY <1>2, <2>2 DEF FrameTied
    <3>2. content[d].low \in Low /\ content[d].low # f.l
      BY <1>3, <3>1, NothingTypes, OtherLow
    <3> QED BY <1>1, <2>2, <3>2 DEF ReleaseLow
  <2> QED BY <2>1, <2>2
<1>8. ContentsAgree(low', content')
  BY <1>1, <1>7, EventsOn
<1> QED BY <1>1, <1>2, <1>6, <1>8, SettledStep

LEMMA ConversionAgrees ==
  ASSUME Tied, Agreed, browser_window_convert_to_download
  PROVE  Agreed'
<1> DEFINE h == Head(stack).h
           l == stack[2].l
<1>1. /\ stack # <<>> /\ Download(Head(stack)) /\ handle' = [handle EXCEPT ![h] = NoHandle]
      /\ low' = [low EXCEPT ![l].client = "download"] /\ stack' = Tail(stack) /\ UNCHANGED <<ctx, content>>
  BY DEF browser_window_convert_to_download, At, Download
<1>2. /\ Len(stack) = 2 /\ stack[2].at = "migrated" /\ low[l].client = "ctx"
      /\ handle[h].entry = NULL /\ handle[h].told = "DOWNLOAD"
  BY <1>1 DEF Tied, Frames, Gives
<1>3. /\ DOMAIN stack = 1..2 /\ stack[1] = Head(stack) /\ stack[2] \in Frame /\ h \in Handle
      /\ Tail(stack) = <<stack[2]>>
  <2>1. DOMAIN stack = 1..Len(stack) /\ stack[1] = Head(stack) /\ stack \in Seq(Frame)
    BY <1>1, StateFacts, TailPlaces
  <2>2. Tail(stack) = <<stack[2]>>
    BY <1>2, <2>1, TwoTail
  <2>3. Head(stack) \in Frame
    BY <1>1, StateFacts, TailPlaces
  <2> QED BY <1>1, <1>2, <2>1, <2>2, <2>3, FrameFields DEF Download
<1>4. l \in Low
  BY <1>2, <1>3, FrameFields
<1>5. Calm
  BY <1>1, <1>2, <1>3 DEF Calm
<1>6. Settled(handle, ctx, content)
  BY <1>5, CalmSettled
<1> HIDE DEF h, l
<1>7. handle'[h] = NoHandle /\ \A x \in Handle : x # h => handle'[x] = handle[x]
  BY <1>1, <1>3, StateFacts
<1>8. \A m \in Low : Waits(ctx, m) => ctx[m].handle \in Handle /\ ctx[m].handle # h
  <2> TAKE m \in Low
  <2> HAVE Waits(ctx, m)
  <2>1. ctx[m].handle \in Handle /\ handle[ctx[m].handle].told # "DOWNLOAD"
    BY StateFacts DEF Waits, CtxType, Tied, Lows
  <2> QED BY <1>2, <2>1
<1>9. Settled(handle', ctx', content')
  <2>1. \A x \in Handle : /\ handle'[x].told # "ERROR"
                          /\ handle'[x].entry # NULL => handle'[x].told = content'[handle'[x].entry].status
    BY <1>1, <1>6, <1>7, NothingTypes DEF Settled
  <2>2. \A m \in Low : Waits(ctx', m) => handle'[ctx'[m].handle].told = "waiting"
    BY <1>1, <1>6, <1>7, <1>8 DEF Settled
  <2>3. \A x, y \in Handle : Loading(handle', x) /\ Loading(handle', y)
                             /\ handle'[x].owner = handle'[y].owner => x = y
    <3>1. ~Loading(handle', h)
      BY <1>7, NothingTypes DEF Loading
    <3> QED BY <1>6, <1>7, <3>1 DEF Settled, Loading
  <2> QED BY <2>1, <2>2, <2>3 DEF Settled
<1>10. ContentsAgree(low', content')
  <2>1. ASSUME NEW d \in ToSet(list) PROVE low'[content[d].low] = low[content[d].low]
    <3>1. content[d].low \in Low /\ content[d].low # l
      BY <1>2, <1>4, NothingTypes, OtherLow
    <3> QED BY <1>1, <3>1, StateFacts
  <2> QED BY <1>1, <2>1, EventsOn
<1> QED BY <1>1, <1>2, <1>3, <1>9, <1>10, SettledStep

-----------------------------------------------------------------------------
(* A handle that nobody is to tell anything comes or goes. *)

Uninvolved(h) ==
  /\ ~Behind(stack, content, h) /\ ~Late(stack, ctx, h)
  /\ \A i \in DOMAIN stack : stack[i].at = "client" /\ stack[i].msg = "READY" => stack[i].h # h

(* The users of x but for h are those of y, in the same order. *)
FewerUsers(x, y, h) ==
  /\ ToSet(x.users) = ToSet(y.users) \ {h} /\ x.status = y.status
  /\ x.shared = y.shared /\ (x.locked => y.locked)
  /\ \A g \in Handle \ {h} : Rest(x.users, g) = Rest(y.users, g) \ {h}
  /\ Rest(x.users, NULL) = {}

LEMMA ComesOrGoes ==
  ASSUME Tied, Agreed, NEW h \in Handle, Uninvolved(h),
         \A x \in Handle \ {h} : handle'[x] = handle[x],
         handle'[h].told \in {"free", "waiting"}, handle'[h].entry = NULL,
         Loading(handle', h) =>
           \A x \in Handle \ {h} : Loading(handle, x) => handle[x].owner # handle'[h].owner,
         \A c \in Content : FewerUsers(content'[c], content[c], h),
         \A m \in Low : Waits(ctx', m) => handle'[ctx'[m].handle].told \in {"waiting", "ERROR"},
         \A m \in Low : ctx[m].target => ctx'[m] = ctx[m],
         ContentsAgree(low', content'), stack' = stack
  PROVE  Agreed'
<1>1. ASSUME NEW i \in DOMAIN stack, stack[i].at = "broadcast"
      PROVE  /\ stack[i].c \in Content /\ stack[i].h # h
             /\ Rest(content'[stack[i].c].users, stack[i].h)
                  = Rest(content[stack[i].c].users, stack[i].h) \ {h}
  <2> DEFINE f == stack[i]
  <2>1. f.c \in Content /\ f.h \in Handle \cup {NULL}
    BY <1>1, CallFacts DEF OfContent
  <2>2. f.h # NULL => f.h \in ToSet(content[f.c].users)
    BY <1>1 DEF Agreed, CallsAgree, CallAgrees, Broadcasts
  <2>3. h \notin Rest(content[f.c].users, f.h)
    BY <1>1 DEF Uninvolved, Behind
  <2>4. f.h # h
    <3>1. f.h = h => h # NULL
      BY StateFacts
    <3> HIDE DEF f
    <3> QED BY <2>1, <2>2, <2>3, <3>1, StateFacts, RestFacts
  <2>5. FewerUsers(content'[f.c], content[f.c], h)
    BY <2>1
  <2>6. CASE f.h = NULL
    <3>1. NULL \notin ToSet(content[f.c].users)
      BY <2>1, StateFacts
    <3>2. Rest(content[f.c].users, NULL) = {}
      BY <2>1, <3>1, StateFacts, RestFacts
    <3> QED BY <2>1, <2>4, <2>5, <2>6, <3>2 DEF FewerUsers
  <2>7. CASE f.h # NULL
    BY <2>1, <2>4, <2>5, <2>7 DEF FewerUsers
  <2> QED BY <2>6, <2>7
<1>2. \A x \in Handle \ {h} : Behind(stack, content', x) <=> Behind(stack, content, x)
  BY <1>1 DEF Behind
<1>3. stack # <<>> /\ Bottom(stack).at = "catch_up" =>
        ctx'[Bottom(stack).l] = ctx[Bottom(stack).l] /\ ctx[Bottom(stack).l].handle \in Handle \ {h}
  BY BottomFacts DEF Uninvolved, Late
<1>4. \A x \in Handle : Late(stack, ctx', x) <=> Late(stack, ctx, x)
  BY <1>3 DEF Late
<1>5. \A c \in Content : /\ content'[c].status = content[c].status /\ content'[c].shared = content[c].shared
                         /\ ToSet(content'[c].users) = ToSet(content[c].users) \ {h}
                         /\ (content'[c].locked => content[c].locked)
  BY DEF FewerUsers
<1>6. \A c \in Content : Fails(stack, content', c) => Fails(stack, content, c)
  BY <1>5 DEF Fails
<1>7. HandlesAgree(stack', handle', ctx', content')
  <2>1. ASSUME NEW x \in Handle, handle'[x].told = "ERROR"
        PROVE  \E i \in DOMAIN stack : Refused(stack, i, x, handle'[x].entry)
    <3>1. x # h /\ handle'[x] = handle[x]
      BY <2>1
    <3> QED BY <2>1, <3>1 DEF Agreed, HandlesAgree
  <2>2. ASSUME NEW x \in Handle, handle'[x].entry # NULL
        PROVE  \/ handle'[x].told = "ERROR" \/ Behind(stack, content', x) \/ Late(stack, ctx', x)
               \/ handle'[x].told = content'[handle'[x].entry].status
                  /\ ~Fails(stack, content', handle'[x].entry)
    <3>1. x # h /\ handle'[x] = handle[x]
      BY <2>2
    <3>2. handle[x].entry \in Content
      BY <2>2, <3>1, StateFacts DEF HandleType
    <3>3. \/ handle[x].told = "ERROR" \/ Behind(stack, content, x) \/ Late(stack, ctx, x)
          \/ handle[x].told = content[handle[x].entry].status /\ ~Fails(stack, content, handle[x].entry)
      BY <2>2, <3>1 DEF Agreed, HandlesAgree
    <3> QED BY <1>2, <1>4, <1>5, <1>6, <3>1, <3>2, <3>3
  <2>3. ASSUME NEW x \in Handle, NEW y \in Handle, Loading(handle', x), Loading(handle', y),
               handle'[x].owner = handle'[y].owner
        PROVE  x = y
    <3>1. \A z \in Handle \ {h} : Loading(handle', z) => Loading(handle, z)
      BY DEF Loading
    <3>2. Loading(handle, x) /\ Loading(handle, y) /\ handle[x].owner = handle[y].owner => x = y
      BY DEF Agreed, HandlesAgree
    <3>3. CASE x # h /\ y # h
      BY <2>3, <3>1, <3>2, <3>3
    <3>4. CASE x = h \/ y = h
      BY <2>3, <3>1, <3>4
    <3> QED BY <3>3, <3>4
  <2> QED BY <2>1, <2>2, <2>3 DEF HandlesAgree
<1>8. ASSUME NEW c \in Content, Apart(handle, content, c) PROVE Apart(handle', content', c)
  <2> SUFFICES ASSUME NEW u \in ToSet(content'[c].users), NEW g \in Handle, u # g,
                      handle'[g].owner = handle'[u].owner, handle'[g].owner \in Window
               PROVE  handle'[g].told # "LOADING"
    BY DEF Apart
  <2>1. u \in ToSet(content[c].users) /\ u \in Handle \ {h}
    BY <1>5, StateFacts
  <2>2. CASE g = h
    BY <2>2
  <2>3. CASE g # h
    <3>1. handle'[g] = handle[g] /\ handle'[u] = handle[u]
      BY <2>1, <2>3
    <3> QED BY <1>8, <2>1, <3>1 DEF Apart
  <2> QED BY <2>2, <2>3
<1>9. ASSUME NEW i \in DOMAIN stack
      PROVE  /\ CallAgrees(stack[i], handle', ctx', content')
             /\ Deep(stack[i], handle, content) => Deep(stack[i], handle', content')
             /\ Above(stack[i], Bottom(stack), handle', ctx', content')
  <2> DEFINE f == stack[i]
             b == Bottom(stack)
  <2>1. /\ f.at \in OfContent => f.c \in Content
        /\ f.at = "client" => f.h \in Handle
        /\ f.at = "catch_up" => f = b
    BY CallFacts
  <2>2. f.at = "client" /\ f.msg = "READY" => f.h \in Handle \ {h} /\ handle'[f.h] = handle[f.h]
    BY <2>1 DEF Uninvolved
  <2>3. stack # <<>>
    OBVIOUS
  <2>4. CallAgrees(f, handle, ctx, content) /\ Above(f, b, handle, ctx, content)
    BY DEF Agreed, CallsAgree
  <2>5. ASSUME f.at = "broadcast" PROVE Broadcasts(f, handle', content'[f.c])
    <3>1. f.c \in Content /\ f.h # h /\ Rest(content'[f.c].users, f.h) = Rest(content[f.c].users, f.h) \ {h}
      BY <1>1, <2>5
    <3>2. Broadcasts(f, handle, content[f.c])
      BY <2>4, <2>5 DEF CallAgrees
    <3>3. Rest(content[f.c].users, f.h) \subseteq Handle
      BY <3>1, StateFacts, RestFacts
    <3> HIDE DEF f
    <3> QED BY <1>5, <3>1, <3>2, <3>3 DEF Broadcasts
  <2>6. ASSUME f.at = "catch_up" PROVE CatchesUp(ctx'[f.l].handle, f.msgs, handle', content')
    <3> DEFINE hh == ctx[f.l].handle
               c == handle[hh].entry
    <3>1. CatchesUp(hh, f.msgs, handle, content) /\ hh \in Handle \ {h} /\ ctx'[f.l].handle = hh
      BY <1>3, <2>1, <2>3, <2>4, <2>6 DEF CallAgrees
    <3> HIDE DEF hh, f
    <3>2. handle'[hh] = handle[hh]
      BY <3>1
    <3>3. /\ c # NULL /\ <<handle[hh].told, content[c].status, f.msgs>> \in Steps
          /\ content[c].shared \/ (content[c].status = "LOADING" /\ ~content[c].locked)
          /\ \A g \in Handle \ {hh} :
               handle[g].owner = handle[hh].owner /\ handle[g].owner \in Window => handle[g].told # "LOADING"
      BY <3>1, Zenon DEF CatchesUp
    <3>4. c \in Content
      BY <3>1, <3>3, StateFacts DEF HandleType
    <3>5. \A g \in Handle \ {hh} :
            handle'[g].owner = handle'[hh].owner /\ handle'[g].owner \in Window => handle'[g].told # "LOADING"
      <4> TAKE g \in Handle \ {hh}
      <4>1. g = h => handle'[g].told # "LOADING"
        OBVIOUS
      <4>2. g # h => handle'[g] = handle[g]
        OBVIOUS
      <4> QED BY <3>2, <3>3, <4>1, <4>2
    <3>6. handle'[hh].entry = c /\ content'[c].status = content[c].status
          /\ content'[c].shared = content[c].shared /\ (content'[c].locked => content[c].locked)
      BY <1>5, <3>2, <3>4
    <3> HIDE DEF c
    <3>7. content'[c].shared \/ (content'[c].status = "LOADING" /\ ~content'[c].locked)
      BY <3>3, <3>6
    <3>8. <<handle'[hh].told, content'[c].status, f.msgs>> \in Steps
      BY <3>2, <3>3, <3>6
    <3>9. CatchesUp(hh, f.msgs, handle', content')
      BY <3>3, <3>5, <3>6, <3>7, <3>8, Zenon DEF CatchesUp
    <3> QED BY <3>1, <3>9
  <2> HIDE DEF f, b
  <2>7. CallAgrees(f, handle', ctx', content')
    BY <1>5, <1>8, <2>1, <2>2, <2>4, <2>5, <2>6 DEF CallAgrees, OfContent
  <2>8. Deep(f, handle, content) => Deep(f, handle', content')
    BY <1>5, <2>1, <2>2 DEF Deep, OfContent
  <2>9. Above(f, b, handle', ctx', content')
    <3>1. b.at = "catch_up" => ctx'[b.l] = ctx[b.l] /\ ctx[b.l].handle \in Handle \ {h}
      BY <1>3, <2>3 DEF b
    <3> QED BY <1>5, <2>1, <2>4, <3>1 DEF Above
  <2> QED BY <2>7, <2>8, <2>9 DEF f, b
<1>10. CallsAgree(stack', handle', ctx', content')
  BY <1>9 DEF Agreed, CallsAgree
<1>11. Spared(stack', handle', ctx', content')
  <2> DEFINE f == Head(stack)
  <2> SUFFICES ASSUME stack # <<>>, f.at = "client", f.msg = "READY", handle'[f.h].owner \in Window,
                      NEW u \in Handle \ {f.h}, handle'[u].owner = handle'[f.h].owner,
                      Behind(stack, content', u) \/ Late(stack, ctx', u)
               PROVE  handle'[u].told \notin {"READY", "DONE"}
    BY DEF Spared
  <2>1. 1 \in DOMAIN stack /\ stack[1] = f
    BY StateFacts, TailPlaces
  <2>2. f.h \in Handle \ {h} /\ handle'[f.h] = handle[f.h]
    BY <2>1, CallFacts DEF Uninvolved
  <2>3. CASE u = h
    BY <2>3
  <2>4. CASE u # h
    <3>1. handle'[u] = handle[u] /\ (Behind(stack, content, u) \/ Late(stack, ctx, u))
      BY <1>2, <1>4, <2>4
    <3> QED BY <2>2, <3>1 DEF Agreed, Spared
  <2> QED BY <2>3, <2>4
<1> QED BY <1>7, <1>10, <1>11, AgreedAgain

LEMMA RetrieveAgrees ==
  ASSUME Tied, Agreed, NEW h \in Handle, NEW owner \in Content \cup Window,
         hlcache_handle_retrieve(h, owner)
  PROVE  Agreed'
<1>1. PICK l \in UnusedLow, x \in Source :
        /\ low' = [low EXCEPT ![l] = [source |-> x, told |-> "INIT", client |-> "ctx"]]
        /\ ctx' = [ctx EXCEPT ![l].handle = h]
  BY DEF hlcache_handle_retrieve
<1>2. /\ handle[h].told = "free" /\ handle' = [handle EXCEPT ![h] = [@ EXCEPT !.owner = owner, !.told = "waiting"]]
      /\ owner \in Window => Of(owner, {"waiting", "LOADING"}) = {}
      /\ UNCHANGED <<content, stack>>
  BY DEF hlcache_handle_retrieve
<1>3. l \in Low /\ low[l] = NoLow /\ ctx[l] = NoCtx
  BY DEF UnusedLow
<1>4. handle[h].entry = NULL
  BY <1>2 DEF Tied, Users
<1>5. /\ handle'[h].told = "waiting" /\ handle'[h].entry = NULL /\ handle'[h].owner = owner
      /\ \A g \in Handle \ {h} : handle'[g] = handle[g]
  <2> DEFINE y == [handle[h] EXCEPT !.owner = owner, !.told = "waiting"]
  <2>1. y.told = "waiting" /\ y.entry = handle[h].entry /\ y.owner = owner
    BY StateFacts DEF HandleType
  <2>2. handle' = [handle EXCEPT ![h] = y]
    BY <1>2
  <2> HIDE DEF y
  <2>3. handle'[h] = y /\ \A g \in Handle \ {h} : handle'[g] = handle[g]
    BY <2>2, StateFacts
  <2> QED BY <1>4, <2>1, <2>3
<1>6. ctx'[l].handle = h /\ (\A m \in Low : m # l => ctx'[m] = ctx[m])
  <2>1. ctx[l] \in CtxType
    BY <1>3, StateFacts
  <2> QED BY <1>1, <1>3, <2>1, StateFacts DEF CtxType
<1>7. \A c \in Content : h \notin ToSet(content[c].users)
  BY <1>4, StateFacts
<1>8. Uninvolved(h)
  <2>1. ~Behind(stack, content, h)
    <3> SUFFICES ASSUME Behind(stack, content, h) PROVE FALSE
      OBVIOUS
    <3>1. \E i \in DOMAIN stack : stack[i].c = handle[h].entry /\ stack[i].c \in Content
      BY BehindIs
    <3> QED BY <1>4, <3>1, StateFacts
  <2>2. ~Late(stack, ctx, h)
    <3> SUFFICES ASSUME Late(stack, ctx, h) PROVE FALSE
      OBVIOUS
    <3>1. CatchesUp(h, Bottom(stack).msgs, handle, content)
      BY LateIs
    <3>2. handle[h].entry # NULL
      BY <3>1, Zenon DEF CatchesUp
    <3> QED BY <1>4, <3>2
  <2>3. \A i \in DOMAIN stack : stack[i].at = "client" /\ stack[i].msg = "READY" => stack[i].h # h
    BY <1>2 DEF Agreed, CallsAgree, CallAgrees
  <2> QED BY <2>1, <2>2, <2>3 DEF Uninvolved
<1>9. \A c \in Content : FewerUsers(content'[c], content[c], h)
  <2> TAKE c \in Content
  <2>1. content[c].users \in Seq(Handle) /\ ToSet(content[c].users) \subseteq Handle \ {h}
        /\ NULL \notin ToSet(content[c].users)
    BY <1>7, StateFacts
  <2>2. Rest(content[c].users, NULL) = {} /\ \A g \in Handle : h \notin Rest(content[c].users, g)
    BY <2>1, RestFacts
  <2>3. content'[c] = content[c]
    BY <1>2
  <2>4. ToSet(content[c].users) = ToSet(content[c].users) \ {h}
    BY <2>1
  <2> QED BY <2>2, <2>3, <2>4 DEF FewerUsers
<1>10. \A m \in Low : ctx[m].target => ctx'[m] = ctx[m]
  BY <1>3, <1>6, NothingTypes
<1>11. \A m \in Low : Waits(ctx', m) => handle'[ctx'[m].handle].told \in {"waiting", "ERROR"}
  <2> TAKE m \in Low
  <2> HAVE Waits(ctx', m)
  <2>1. CASE m = l
    BY <1>5, <1>6, <2>1
  <2>2. CASE m # l
    <3>1. ctx'[m] = ctx[m] /\ Waits(ctx, m)
      BY <1>6, <2>2 DEF Waits
    <3>2. ctx[m].handle \in Handle /\ handle[ctx[m].handle].told # "free"
      BY <3>1, StateFacts DEF Waits, CtxType, Tied, Lows
    <3>3. handle'[ctx[m].handle] = handle[ctx[m].handle]
      BY <1>2, <1>5, <3>2
    <3> QED BY <3>1, <3>3 DEF Agreed, HandlesAgree
  <2> QED BY <2>1, <2>2
<1>12. Loading(handle', h) =>
         \A y \in Handle \ {h} : Loading(handle, y) => handle[y].owner # handle'[h].owner
  BY <1>2, <1>5 DEF Loading, Of
<1>13. ContentsAgree(low', content')
  <2>1. ASSUME NEW d \in ToSet(list) PROVE low'[content[d].low] = low[content[d].low]
    <3>1. content[d].low \in Low /\ content[d].low # l
      BY <1>3, NothingTypes, OtherLow
    <3> QED BY <1>1, <3>1, StateFacts
  <2> QED BY <1>2, <2>1, EventsOn
<1>14. stack' = stack /\ handle'[h].told \in {"free", "waiting"} /\ handle'[h].entry = NULL
  BY <1>2, <1>5
<1> QED BY <1>5, <1>8, <1>9, <1>10, <1>11, <1>12, <1>13, <1>14, ComesOrGoes

-----------------------------------------------------------------------------
(* Handles are released. *)

(* The contexts that go with them wait. *)
LEMMA NascentFacts ==
  ASSUME Tied, NEW H \in SUBSET Handle
  PROVE  /\ \A l \in Nascent(H) : l \in Low /\ Waits(ctx, l) /\ low[l].client = "ctx" /\ ctx[l].handle \in H
         /\ \A m \in Low : Waits(DropCtx(Nascent(H)), m) =>
              /\ DropCtx(Nascent(H))[m] = ctx[m] /\ Waits(ctx, m)
              /\ ctx[m].handle \in Handle \ H
         /\ \A m \in Low : ctx[m].target => DropCtx(Nascent(H))[m] = ctx[m]
<1>1. ASSUME NEW l \in Nascent(H)
      PROVE  l \in Low /\ Waits(ctx, l) /\ low[l].client = "ctx" /\ ctx[l].handle \in H
  BY StateFacts DEF Nascent, Waits, Tied, Lows
<1>2. ASSUME NEW m \in Low, Waits(DropCtx(Nascent(H)), m)
      PROVE  /\ DropCtx(Nascent(H))[m] = ctx[m] /\ Waits(ctx, m) /\ ctx[m].handle \in Handle \ H
  <2>1. m \notin Nascent(H) /\ DropCtx(Nascent(H))[m] = ctx[m]
    BY <1>2, NothingTypes DEF DropCtx, Waits
  <2>2. Waits(ctx, m)
    BY <1>2, <2>1 DEF Waits
  <2>3. ctx[m].handle \in Handle /\ handle[ctx[m].handle].entry = NULL
    BY <2>2, StateFacts DEF Waits, CtxType, Tied, Lows
  <2> QED BY <2>1, <2>2, <2>3 DEF Nascent, Waits
<1>3. \A m \in Low : ctx[m].target => DropCtx(Nascent(H))[m] = ctx[m]
  BY DEF DropCtx, Nascent
<1> QED BY <1>1, <1>2, <1>3

LEMMA ReleaseContents ==
  ASSUME Tied, Agreed, NEW H \in SUBSET Handle, NEW L \in SUBSET Low,
         low' = ReleaseLow(Nascent(H) \cup L),
         \A d \in ToSet(list) : content[d].low \in L => content'[d] = NoContent,
         \A d \in Content : content'[d] = NoContent \/ content'[d] = RemoveUsers(H)[d]
  PROVE  ContentsAgree(low', content')
<1>1. \A d \in Content : /\ RemoveUsers(H)[d].low = content[d].low
                         /\ RemoveUsers(H)[d].status = content[d].status
                         /\ RemoveUsers(H)[d].locked = content[d].locked
  BY StateFacts, RemoveUsersProperties
<1>2. NoContent.status = "none" /\ NoContent.locked = FALSE
  BY DEF NoContent
<1>3. ASSUME NEW d \in ToSet(list), content'[d] # NoContent PROVE low'[content[d].low] = low[content[d].low]
  <2>1. content[d].low \in Low /\ content[d].low \notin L
    BY <1>3 DEF Tied, Lows
  <2>2. content[d].low \notin Nascent(H)
    <3>1. \A l \in Nascent(H) : l \in Low /\ low[l].client = "ctx"
      BY NascentFacts
    <3>2. \A l \in Nascent(H) : content[d].low # l
      BY <3>1, NothingTypes, OtherLow
    <3> QED BY <3>2
  <2> QED BY <2>1, <2>2 DEF ReleaseLow
<1>4. ASSUME NEW d \in Content
      PROVE \/ content'[d].status \notin {"READY", "DONE"} /\ ~content'[d].locked
            \/ /\ content'[d].low = content[d].low /\ content'[d].status = content[d].status
               /\ (content'[d].locked => content[d].locked)
               /\ d \in ToSet(list) =>
                    (low[content[d].low].told = "DONE" => low'[content[d].low].told = "DONE")
  <2>1. CASE content'[d] = NoContent
    BY <1>2, <2>1
  <2>2. CASE content'[d] # NoContent
    <3>1. content'[d] = RemoveUsers(H)[d]
      BY <2>2
    <3> QED BY <1>1, <1>3, <2>2, <3>1
  <2> QED BY <2>1, <2>2
<1> QED BY <1>4, ContentsKept

(* While nobody is told anything, any handles may go. *)
LEMMA CalmReleases ==
  ASSUME Tied, Agreed, Calm, NEW H \in SUBSET Handle,
         handle' = Freed(H), ctx' = DropCtx(Nascent(H)), ContentsAgree(low', content'),
         \A x \in Handle \ H : handle[x].entry # NULL =>
           content'[handle[x].entry].status = content[handle[x].entry].status,
         \/ stack' = <<>>
         \/ \E f \in Frame : f.at \in {"release", "sweep", "abort", "migrated"} /\ stack' = <<f>>
  PROVE  Agreed'
<1>1. Settled(handle, ctx, content)
  BY CalmSettled
<1>2. \A x \in Handle : IF x \in H THEN handle'[x] = NoHandle ELSE handle'[x] = handle[x]
  BY DEF Freed
<1>3. \A m \in Low : Waits(ctx', m) => ctx'[m] = ctx[m] /\ Waits(ctx, m) /\ ctx[m].handle \in Handle \ H
  BY NascentFacts
<1>4. Settled(handle', ctx', content')
  <2>1. \A x \in Handle : /\ handle'[x].told # "ERROR"
                          /\ handle'[x].entry # NULL => handle'[x].told = content'[handle'[x].entry].status
    <3> TAKE x \in Handle
    <3>1. CASE x \in H
      BY <1>2, <3>1, NothingTypes
    <3>2. CASE x \notin H
      BY <1>1, <1>2, <3>2 DEF Settled
    <3> QED BY <3>1, <3>2
  <2>2. \A m \in Low : Waits(ctx', m) => handle'[ctx'[m].handle].told = "waiting"
    BY <1>1, <1>2, <1>3 DEF Settled
  <2>3. \A x, y \in Handle : Loading(handle', x) /\ Loading(handle', y)
                             /\ handle'[x].owner = handle'[y].owner => x = y
    <3>1. \A x \in Handle : Loading(handle', x) => x \notin H /\ handle'[x] = handle[x]
      BY <1>2, NothingTypes DEF Loading
    <3> QED BY <1>1, <3>1 DEF Settled, Loading
  <2> QED BY <2>1, <2>2, <2>3 DEF Settled
<1> QED BY <1>4, SettledStep

LEMMA FewerAfterRelease ==
  ASSUME Tied, NEW h \in Handle
  PROVE  \A c \in Content : FewerUsers(RemoveUsers({h})[c], content[c], h)
<1> TAKE c \in Content
<1> DEFINE H == {h}
           t == RemoveUsers(H)
<1>1. /\ t \in [Content -> ContentType]
      /\ ToSet(t[c].users) = ToSet(content[c].users) \ {h} /\ t[c].status = content[c].status
      /\ t[c].shared = content[c].shared /\ t[c].locked = content[c].locked
  <2>1. H \in SUBSET Handle /\ H = {h}
    OBVIOUS
  <2> HIDE DEF H
  <2>2. content \in [Content -> ContentType] /\ \A d \in Content : Injective(content[d].users)
    BY StateFacts
  <2> QED BY <2>1, <2>2, RemoveUsersProperties
<1>2. t[c].users = Sublist(content[c].users, Handle \ {h})
  BY StateFacts DEF RemoveUsers, ContentType
<1> HIDE DEF t
<1>3. /\ content[c].users \in Seq(Handle) /\ ToSet(content[c].users) \subseteq Handle
      /\ NULL \notin ToSet(t[c].users) /\ t[c].users \in Seq(Handle)
  BY <1>1, StateFacts DEF ContentType
<1>4. Rest(t[c].users, NULL) = {}
  BY <1>3, RestFacts
<1>5. ASSUME NEW g \in Handle \ {h}
      PROVE  Rest(t[c].users, g) = Rest(content[c].users, g) \ {h}
  <2>1. Rest(t[c].users, g) = Rest(content[c].users, g) \cap (Handle \ {h})
    BY <1>2, <1>3, RestSublist
  <2>2. Rest(content[c].users, g) \subseteq Handle
    BY <1>3, RestFacts
  <2> QED BY <2>1, <2>2
<1> QED BY <1>1, <1>4, <1>5 DEF FewerUsers, t

(* What a client releases in a callback is not involved in any other call. *)
LEMMA MayRelease ==
  ASSUME Tied, Agreed, At("client"), NEW h \in MustRelease
  PROVE  h \in Handle /\ Uninvolved(h)
<1> DEFINE f == Head(stack)
<1>1. stack # <<>> /\ f.at = "client" /\ 1 \in DOMAIN stack /\ stack[1] = f
  <2>1. stack # <<>> /\ f.at = "client"
    BY DEF At
  <2> QED BY <2>1, StateFacts, TailPlaces
<1>2. CASE f.msg = "ERROR" /\ handle[h].told = "ERROR" /\ h \in Handle
  <2>1. ~Behind(stack, content, h)
    <3> SUFFICES ASSUME Behind(stack, content, h) PROVE FALSE
      OBVIOUS
    <3>1. \E i \in DOMAIN stack : handle[h].told = Prior(stack[i].msg)
      BY <1>2, BehindIs
    <3> QED BY <1>2, <3>1 DEF Prior
  <2>2. ~Late(stack, ctx, h)
    <3> SUFFICES ASSUME Late(stack, ctx, h) PROVE FALSE
      OBVIOUS
    <3>1. CatchesUp(h, Bottom(stack).msgs, handle, content)
      BY <1>2, LateIs
    <3>2. \E status, msgs : <<handle[h].told, status, msgs>> \in Steps
      BY <3>1, Zenon DEF CatchesUp
    <3> QED BY <1>2, <3>2 DEF Steps
  <2>3. \A i \in DOMAIN stack : stack[i].at = "client" /\ stack[i].msg = "READY" => stack[i].h # h
    BY <1>2 DEF Agreed, CallsAgree, CallAgrees
  <2> QED BY <1>2, <2>1, <2>2, <2>3 DEF Uninvolved
<1>3. CASE /\ f.msg = "READY" /\ handle[f.h].owner \in Window /\ h \in Handle /\ h # f.h
           /\ handle[h].owner = handle[f.h].owner /\ handle[h].told \in {"READY", "DONE"}
  <2>1. ~Behind(stack, content, h) /\ ~Late(stack, ctx, h)
    BY <1>1, <1>3 DEF Agreed, Spared
  <2>2. ASSUME NEW i \in DOMAIN stack, stack[i].at = "client", stack[i].msg = "READY" PROVE stack[i].h # h
    <3>1. CASE i = 1
      BY <1>1, <1>3, <3>1
    <3>2. CASE i # 1
      <4>1. i > 1
        BY <3>2, StateFacts, TailPlaces
      <4>2. handle[stack[i].h].owner \notin Window
        BY <2>2, <4>1 DEF Agreed, CallsAgree, Deep
      <4> QED BY <1>3, <4>2
    <3> QED BY <3>1, <3>2
  <2> QED BY <1>3, <2>1, <2>2 DEF Uninvolved
<1> QED BY <1>2, <1>3 DEF MustRelease, Of

LEMMA ReleaseAgrees ==
  ASSUME Tied, Agreed, NEW h \in Handle, Release(h)
  PROVE  Agreed'
<1> DEFINE H == {h}
<1>1. /\ handle' = Freed(H) /\ low' = ReleaseLow(Nascent(H)) /\ ctx' = DropCtx(Nascent(H))
      /\ content' = RemoveUsers(H) /\ stack' = stack
      /\ Idle \/ (At("client") /\ h \in MustRelease)
  BY DEF Release, hlcache_handle_release, Freed
<1>2. H \in SUBSET Handle
  OBVIOUS
<1>3. ContentsAgree(low', content')
  <2>1. low' = ReleaseLow(Nascent(H) \cup {}) /\ {} \in SUBSET Low
    BY <1>1
  <2> HIDE DEF H
  <2> QED BY <1>1, <1>2, <2>1, ReleaseContents
<1>4. \A c \in Content : FewerUsers(content'[c], content[c], h)
  BY <1>1, FewerAfterRelease
<1>5. CASE Idle
  <2>1. Calm /\ stack' = <<>>
    BY <1>1, <1>5, CalmStack DEF Idle
  <2>2. \A x \in Handle \ H : handle[x].entry # NULL =>
          content'[handle[x].entry].status = content[handle[x].entry].status
    BY <1>4, StateFacts DEF HandleType, FewerUsers
  <2> HIDE DEF H
  <2> QED BY <1>1, <1>2, <1>3, <2>1, <2>2, CalmReleases
<1>6. CASE At("client") /\ h \in MustRelease
  <2>1. Uninvolved(h)
    BY <1>6, MayRelease
  <2>2. handle'[h] = NoHandle /\ \A x \in Handle \ {h} : handle'[x] = handle[x]
    BY <1>1 DEF Freed
  <2>3. handle'[h].told \in {"free", "waiting"} /\ handle'[h].entry = NULL /\ ~Loading(handle', h)
    BY <2>2, NothingTypes DEF Loading
  <2>4. /\ \A m \in Low : Waits(ctx', m) => ctx'[m] = ctx[m] /\ Waits(ctx, m) /\ ctx[m].handle \in Handle \ H
        /\ \A m \in Low : ctx[m].target => ctx'[m] = ctx[m]
    <3> HIDE DEF H
    <3> QED BY <1>1, <1>2, NascentFacts
  <2>5. \A m \in Low : Waits(ctx', m) => handle'[ctx'[m].handle].told \in {"waiting", "ERROR"}
    BY <2>2, <2>4 DEF Agreed, HandlesAgree
  <2> QED BY <1>1, <1>3, <1>4, <2>1, <2>2, <2>3, <2>4, <2>5, ComesOrGoes
<1> QED BY <1>1, <1>5, <1>6

LEMMA ReleaseAbortedAgrees ==
  ASSUME Tied, Agreed, ReleaseAborted
  PROVE  Agreed'
<1> DEFINE H == {Head(stack).h}
           L == {}
<1>1. /\ handle' = Freed(H) /\ low' = ReleaseLow(Nascent(H)) /\ ctx' = DropCtx(Nascent(H))
      /\ content' = RemoveUsers(H) /\ stack' = Tail(stack) /\ At("release")
  BY DEF ReleaseAborted, hlcache_handle_release, Freed
<1>2. Calm /\ stack # <<>> /\ Head(stack).at = "release" /\ Head(stack) \in Frame /\ stack' = <<>>
  BY <1>1, CalmStack DEF At
<1>3. H \in SUBSET Handle
  BY <1>2, FrameFields
<1>4. low' = ReleaseLow(Nascent(H) \cup L) /\ L \in SUBSET Low /\ \A d \in ToSet(list) : content[d].low \notin L
  BY <1>1
<1> HIDE DEF H, L
<1>5. ContentsAgree(low', content')
  BY <1>1, <1>3, <1>4, ReleaseContents
<1>6. \A d \in Content : RemoveUsers(H)[d].status = content[d].status
  <2>1. content \in [Content -> ContentType] /\ \A d \in Content : Injective(content[d].users)
    BY StateFacts
  <2> QED BY <1>3, <2>1, RemoveUsersProperties
<1>7. \A x \in Handle \ H : handle[x].entry # NULL =>
        content'[handle[x].entry].status = content[handle[x].entry].status
  BY <1>1, <1>6, StateFacts DEF HandleType
<1> QED BY <1>1, <1>2, <1>3, <1>5, <1>7, CalmReleases

(* The clean. *)
LEMMA SweepFrameType ==
  ASSUME Tied, NEW c \in ToSet(list)
  PROVE  \E f \in Frame : f.at = "sweep" /\ <<Then(Following(list, c), "sweep")>> = <<f>>
<1>1. Following(list, c) = NULL \/ Following(list, c) \in ToSet(list) \ {c}
  BY FollowingProperties DEF Tied, Typed
<1>2. Following(list, c) \in Content \cup {NULL}
  BY <1>1, ListedFacts
<1>3. Then(Following(list, c), "sweep") \in Frame /\ Then(Following(list, c), "sweep").at = "sweep"
  BY <1>2, FrameTypes DEF Then
<1> QED BY <1>3

LEMMA DestroyAgrees ==
  ASSUME Tied, Agreed, Calm, NEW c \in ToSet(list), Unwanted(c), content_destroy(c),
         stack' = <<Then(Following(list, c), "sweep")>>
  PROVE  Agreed'
<1> DEFINE H == {h \in Handle : handle[h].owner = c}
           L == {content[c].low}
           ct == RemoveUsers(H)
<1>1. /\ handle' = Freed(H) /\ ctx' = DropCtx(Nascent(H)) /\ low' = ReleaseLow(Nascent(H) \cup L)
      /\ content' = Put(ct, c, NoContent)
  BY DEF content_destroy, Freed, Put
<1>2. c \in Content /\ H \in SUBSET Handle /\ content[c].users = <<>> /\ content[c].low \in Low
      /\ L \in SUBSET Low
  BY ListedFacts DEF Unwanted, Tied, Lows
<1> HIDE DEF H
<1>3. ct \in [Content -> ContentType] /\ \A d \in Content : ct[d].status = content[d].status
  <2>1. content \in [Content -> ContentType] /\ \A d \in Content : Injective(content[d].users)
    BY StateFacts
  <2> QED BY <1>2, <2>1, RemoveUsersProperties
<1>4. content'[c] = NoContent /\ \A d \in Content \ {c} : content'[d] = RemoveUsers(H)[d]
  BY <1>1, <1>2, <1>3 DEF Put
<1>5. \A d \in ToSet(list) : content[d].low \in L => content'[d] = NoContent
  <2>1. \A d \in ToSet(list) : content[d].low = content[c].low => d = c
    BY DEF Tied, Lows
  <2> QED BY <1>4, <2>1
<1>6. \A d \in Content : content'[d] = NoContent \/ content'[d] = RemoveUsers(H)[d]
  BY <1>4
<1> HIDE DEF L
<1>7. ContentsAgree(low', content')
  BY <1>1, <1>2, <1>5, <1>6, ReleaseContents
<1>8. \A x \in Handle \ H : handle[x].entry # NULL =>
        content'[handle[x].entry].status = content[handle[x].entry].status
  <2> SUFFICES ASSUME NEW x \in Handle, handle[x].entry # NULL
               PROVE  content'[handle[x].entry].status = content[handle[x].entry].status
    OBVIOUS
  <2>1. handle[x].entry \in Content /\ x \in ToSet(content[handle[x].entry].users)
    BY StateFacts DEF HandleType
  <2>2. handle[x].entry # c
    BY <1>2, <2>1, NothingTypes
  <2> QED BY <1>3, <1>4, <2>1, <2>2
<1>9. \E f \in Frame : f.at \in {"release", "sweep", "abort", "migrated"} /\ stack' = <<f>>
  <2>1. PICK f \in Frame : f.at = "sweep" /\ <<Then(Following(list, c), "sweep")>> = <<f>>
    BY SweepFrameType
  <2> QED BY <2>1
<1> QED BY <1>1, <1>2, <1>7, <1>8, <1>9, CalmReleases

LEMMA SweepAgrees ==
  ASSUME Tied, Agreed, Sweep
  PROVE  Agreed'
<1> DEFINE c == Head(stack).c
<1>1. stack # <<>> /\ Head(stack).at = "sweep" /\ Calm
  BY CalmStack DEF Sweep, At
<1>2. FrameTied(Head(stack), ctx, low, list)
  BY <1>1, Only DEF Tied, Deepest
<1>3. c = NULL \/ c \in ToSet(list)
  BY <1>1, <1>2 DEF FrameTied
<1>4. CASE stack' = <<>> /\ UNCHANGED <<handle, ctx, low, content, list>>
  BY <1>1, <1>4, CalmStep
<1>5. CASE c # NULL /\ stack' = <<Then(Following(list, c), "sweep")>>
           /\ UNCHANGED <<handle, ctx, low, content, list>>
  <2>1. PICK f \in Frame : f.at = "sweep" /\ <<Then(Following(list, c), "sweep")>> = <<f>>
    BY <1>3, <1>5, SweepFrameType
  <2> QED BY <1>1, <1>5, <2>1, CalmStep
<1>6. CASE c # NULL /\ stack' = <<Then(Following(list, c), "sweep")>> /\ Unwanted(c) /\ content_destroy(c)
  BY <1>1, <1>3, <1>6, DestroyAgrees
<1> QED BY <1>4, <1>5, <1>6 DEF Sweep

-----------------------------------------------------------------------------
(* A content is stopped. *)

(* Calls that an abort makes, before those that are left to it. *)
LEMMA AbortCalls ==
  ASSUME NEW st \in Seq(Frame), NEW f \in Frame, NEW hd, NEW cx, NEW ct,
         CallsAgree(st, hd, cx, ct), \A j \in DOMAIN st : st[j].at \in {"abort", "release"},
         f.at \in {"abort", "set_done"},
         f.at = "abort" => \A j \in DOMAIN st : st[j].at = "release",
         f.at = "set_done" => ct[f.c].status = "READY" /\ ~ct[f.c].shared
  PROVE  /\ Cons(f, st) \in Seq(Frame) /\ CallsAgree(Cons(f, st), hd, cx, ct)
         /\ \A j \in DOMAIN Cons(f, st) : Cons(f, st)[j].at \in {"abort", "release", f.at}
         /\ Cons(f, st) # <<>> /\ Head(Cons(f, st)) = f
<1> DEFINE t == Cons(f, st)
<1>1. t \in Seq(Frame) /\ t # <<>> /\ Head(t) = f /\ Tail(t) = st
  BY PushedCall
<1> HIDE DEF t
<1>2. CallAgrees(f, hd, cx, ct)
  BY DEF CallAgrees
<1>3. \A j \in DOMAIN st : Inside(f, st[j])
  BY DEF Inside, OfContent
<1>4. st # <<>> => Deep(Head(st), hd, ct) /\ Above(f, Bottom(st), hd, cx, ct)
  <2> SUFFICES ASSUME st # <<>> PROVE Deep(Head(st), hd, ct) /\ Above(f, Bottom(st), hd, cx, ct)
    OBVIOUS
  <2>1. Head(st) = st[1] /\ 1 \in DOMAIN st /\ Bottom(st) = st[Len(st)] /\ Len(st) \in DOMAIN st
    BY DEF Bottom
  <2>2. Head(st).at \in {"abort", "release"} /\ Bottom(st).at \in {"abort", "release"}
    BY <2>1
  <2> QED BY <2>2 DEF Deep, Above, OfCtx
<1>5. CallsAgree(t, hd, cx, ct)
  BY <1>1, <1>2, <1>3, <1>4, SplitCalls DEF Over
<1>6. \A j \in DOMAIN t : t[j].at \in {"abort", "release", f.at}
  <2> TAKE j \in DOMAIN t
  <2>1. CASE j = 1
    BY <1>1, <2>1
  <2>2. CASE j # 1
    <3>1. /\ \A i \in DOMAIN Tail(t) : Tail(t)[i] = t[i + 1]
          /\ j - 1 \in DOMAIN Tail(t) /\ (j - 1) + 1 = j
      BY <1>1, <2>2, TailPlaces
    <3>2. t[j] = st[j - 1] /\ j - 1 \in DOMAIN st
      BY <1>1, <3>1
    <3> QED BY <3>2
  <2> QED BY <2>1, <2>2
<1> QED BY <1>1, <1>5, <1>6 DEF t

LEMMA AbortingCalls ==
  ASSUME NEW c \in Content, NEW h \in Handle, NEW hd, NEW cx, NEW ct
  PROVE  /\ Aborting(c, h) \in Seq(Frame) /\ CallsAgree(Aborting(c, h), hd, cx, ct)
         /\ \A j \in DOMAIN Aborting(c, h) : Aborting(c, h)[j].at \in {"abort", "release"}
         /\ Aborting(c, h) # <<>> /\ Head(Aborting(c, h)).at = "abort"
<1> DEFINE f == Then(c, "abort")
           g == [at |-> "release", h |-> h]
<1>1. f \in Frame /\ f.at = "abort" /\ g \in Frame /\ g.at = "release"
  BY FrameTypes DEF Then
<1>2. Aborting(c, h) = <<f>> \/ Aborting(c, h) = Cons(f, <<g>>)
  BY DEF Aborting
<1> HIDE DEF f, g
<1>3. /\ <<f>> \in Seq(Frame) /\ CallsAgree(<<f>>, hd, cx, ct) /\ <<f>> # <<>> /\ Head(<<f>>) = f
      /\ \A j \in DOMAIN <<f>> : <<f>>[j].at = "abort"
  BY <1>1, CalmFrame, OneCall
<1>4. /\ <<g>> \in Seq(Frame) /\ CallsAgree(<<g>>, hd, cx, ct)
      /\ \A j \in DOMAIN <<g>> : <<g>>[j].at = "release"
  BY <1>1, CalmFrame, OneCall
<1> DEFINE s == <<g>>
<1>5. /\ s \in Seq(Frame) /\ CallsAgree(s, hd, cx, ct) /\ \A j \in DOMAIN s : s[j].at = "release"
  BY <1>4
<1> HIDE DEF s
<1>6. /\ Cons(f, s) \in Seq(Frame) /\ CallsAgree(Cons(f, s), hd, cx, ct)
      /\ \A j \in DOMAIN Cons(f, s) : Cons(f, s)[j].at \in {"abort", "release", f.at}
      /\ Cons(f, s) # <<>> /\ Head(Cons(f, s)) = f
  BY <1>1, <1>5, AbortCalls
<1>7. CASE Aborting(c, h) = <<f>>
  BY <1>1, <1>3, <1>7
<1>8. CASE Aborting(c, h) = Cons(f, <<g>>)
  BY <1>1, <1>6, <1>8 DEF s
<1> QED BY <1>2, <1>7, <1>8

LEMMA StopAgrees ==
  ASSUME Tied, Agreed, Idle, NEW h \in Handle, NEW c \in Content, stack' = Stop(c, h),
         UNCHANGED <<handle, ctx, low, content>>
  PROVE  Agreed'
<1> DEFINE s == Aborting(c, h)
           f == Then(c, "set_done")
<1>1. /\ s \in Seq(Frame) /\ CallsAgree(s, handle, ctx, content) /\ s # <<>> /\ Head(s).at = "abort"
      /\ \A j \in DOMAIN s : s[j].at \in {"abort", "release"}
  BY AbortingCalls
<1>2. f \in Frame /\ f.at = "set_done" /\ f.c = c
  BY FrameTypes DEF Then
<1>3. stack' = s \/ (stack' = Cons(f, s) /\ content[c].status = "READY" /\ ~content[c].shared)
  BY DEF Stop
<1> HIDE DEF s, f
<1>4. /\ CallsAgree(stack', handle, ctx, content) /\ Head(stack').at \in {"abort", "set_done"}
      /\ \A j \in DOMAIN stack' : stack'[j].at \in {"abort", "release", "set_done"}
  <2>1. CASE stack' = s
    BY <1>1, <2>1
  <2>2. CASE stack' = Cons(f, s) /\ content[c].status = "READY" /\ ~content[c].shared
    <3>1. /\ CallsAgree(Cons(f, s), handle, ctx, content) /\ Head(Cons(f, s)) = f
          /\ \A j \in DOMAIN Cons(f, s) : Cons(f, s)[j].at \in {"abort", "release", f.at}
      BY <1>1, <1>2, <2>2, AbortCalls
    <3> QED BY <1>2, <2>2, <3>1
  <2> QED BY <1>3, <2>1, <2>2
<1>5. Settled(handle, ctx, content)
  BY IdleSettled
<1>6. HandlesAgree(stack', handle, ctx, content)
  BY <1>4, <1>5, SettledAgrees
<1>7. Spared(stack', handle, ctx, content)
  BY <1>4 DEF Spared
<1>8. ContentsAgree(low', content')
  BY DEF Agreed
<1>9. HandlesAgree(stack', handle', ctx', content') /\ CallsAgree(stack', handle', ctx', content')
      /\ Spared(stack', handle', ctx', content')
  BY <1>4, <1>6, <1>7
<1> QED BY <1>8, <1>9, AgreedAgain

(* The clone n of c is as far as the original. *)
Cloned(h, c, n, l) ==
  /\ low' = [low EXCEPT ![l] = [low[content[c].low] EXCEPT !.client = n]]
  /\ content' = [RemoveUsers({h}) EXCEPT ![n] = [content[c] EXCEPT !.low = l, !.users = <<h>>]]
  /\ handle' = [handle EXCEPT ![h].entry = n] /\ stack' = Aborting(n, h) /\ UNCHANGED ctx

LEMMA CloneAgrees ==
  ASSUME Tied, Agreed, Idle, NEW h \in Handle, NEW c \in ToSet(list), handle[h].entry = c,
         NEW n \in UnusedContent, NEW l \in UnusedLow, Cloned(h, c, n, l)
  PROVE  Agreed'
<1> DEFINE H == {h}
           ct == RemoveUsers(H)
           x == [content[c] EXCEPT !.low = l, !.users = <<h>>]
           y == [low[content[c].low] EXCEPT !.client = n]
<1>1. /\ c \in Content /\ n \in Content /\ content[n] = NoContent /\ l \in Low /\ low[l] = NoLow
      /\ ctx[l] = NoCtx /\ content[c].status # "none"
  BY ListedFacts DEF UnusedContent, UnusedLow
<1>2. content[c] \in ContentType /\ content[c].low \in Low /\ low[content[c].low] \in LowType
  BY <1>1, StateFacts DEF Tied, Lows
<1>3. x.low = l /\ x.status = content[c].status /\ x.locked = content[c].locked
  BY <1>2 DEF ContentType
<1>4. y.told = low[content[c].low].told
  BY <1>1, <1>2 DEF LowType
<1>5. /\ low' = [low EXCEPT ![l] = y] /\ content' = Put(ct, n, x)
      /\ handle' = Entered(handle, h, n) /\ stack' = Aborting(n, h) /\ UNCHANGED ctx
  BY DEF Cloned, Put, Entered
<1> HIDE DEF x, y
<1>6. low'[l].told = low[content[c].low].told /\ \A m \in Low \ {l} : low'[m] = low[m]
  BY <1>1, <1>4, <1>5, StateFacts
<1>7. /\ ct \in [Content -> ContentType]
      /\ \A d \in Content : ct[d].status = content[d].status /\ ct[d].locked = content[d].locked
                            /\ ct[d].low = content[d].low
  <2>1. H \in SUBSET Handle /\ content \in [Content -> ContentType]
        /\ \A d \in Content : Injective(content[d].users)
    BY StateFacts
  <2> HIDE DEF H
  <2> QED BY <2>1, RemoveUsersProperties
<1> HIDE DEF ct
<1>8. content'[n] = x /\ \A d \in Content \ {n} : content'[d] = ct[d]
  BY <1>1, <1>5, <1>7 DEF Put
<1>9. ContentsAgree(low', content')
  <2> SUFFICES ASSUME NEW d \in Content
               PROVE  /\ content'[d].locked => /\ content'[d].status = "LOADING"
                                               /\ low'[content'[d].low].told = "DONE"
                      /\ content'[d].status \in {"READY", "DONE"} => low'[content'[d].low].told = "DONE"
    BY DEF ContentsAgree
  <2>1. CASE d = n
    <3>1. /\ content'[d].low = l /\ content'[d].status = content[c].status
          /\ (content'[d].locked <=> content[c].locked)
      <4>1. content'[d] = x
        BY <1>8, <2>1
      <4> QED BY <1>3, <4>1
    <3> QED BY <1>1, <1>6, <3>1 DEF Agreed, ContentsAgree
  <2>2. CASE d # n /\ d \in ToSet(list)
    <3>1. content'[d] = ct[d] /\ content[d].low \in Low
      BY <1>8, <2>2 DEF Tied, Lows
    <3>2. content[d].low # l
      BY <1>1, <2>2, OtherLow, NothingTypes
    <3>3. /\ content'[d].low = content[d].low /\ content'[d].status = content[d].status
          /\ (content'[d].locked <=> content[d].locked)
      <4>1. ct[d].locked = content[d].locked
        BY <1>7
      <4> QED BY <1>7, <3>1, <4>1
    <3>4. low'[content[d].low] = low[content[d].low]
      BY <1>6, <3>1, <3>2
    <3> QED BY <3>3, <3>4 DEF Agreed, ContentsAgree
  <2>3. CASE d # n /\ d \notin ToSet(list)
    <3>1. content[d].status = "none"
      BY <2>3, InList
    <3>2. content'[d].status = "none" /\ (content'[d].locked <=> content[d].locked)
      <4>1. content'[d] = ct[d] /\ ct[d].locked = content[d].locked
        BY <1>7, <1>8, <2>3
      <4> QED BY <1>7, <3>1, <4>1
    <3> QED BY <3>1, <3>2 DEF Agreed, ContentsAgree
  <2> QED BY <2>1, <2>2, <2>3
<1>10. Settled(handle, ctx, content)
  BY IdleSettled
<1>11. /\ handle'[h].entry = n /\ handle'[h].told = handle[h].told /\ handle'[h].owner = handle[h].owner
       /\ \A g \in Handle \ {h} : handle'[g] = handle[g]
  <2>1. n \in Content \cup {NULL} /\ handle \in [Handle -> HandleType] /\ handle' = Entered(handle, h, n)
    BY <1>1, <1>5, StateFacts
  <2>2. /\ Entered(handle, h, n)[h].entry = n /\ Entered(handle, h, n)[h].told = handle[h].told
        /\ Entered(handle, h, n)[h].owner = handle[h].owner
        /\ \A g \in Handle \ {h} : Entered(handle, h, n)[g] = handle[g]
    BY <2>1, Enters
  <2> QED BY <2>1, <2>2, Zenon
<1>12. \A g \in Handle : handle'[g].told = handle[g].told /\ handle'[g].owner = handle[g].owner
  BY <1>11
<1>13. \A g \in Handle : handle'[g].entry # NULL => handle'[g].told = content'[handle'[g].entry].status
  <2> TAKE g \in Handle
  <2> HAVE handle'[g].entry # NULL
  <2>1. CASE g = h
    <3>1. handle'[g].entry = n /\ content'[n].status = content[c].status
      BY <1>3, <1>8, <1>11, <2>1
    <3>2. handle[h].told = content[c].status
      BY <1>1, <1>10, StateFacts DEF Settled
    <3> QED BY <1>12, <2>1, <3>1, <3>2
  <2>2. CASE g # h
    <3>1. handle'[g] = handle[g] /\ handle[g].entry \in Content /\ handle[g].entry # NULL
      BY <1>11, <2>2, StateFacts DEF HandleType
    <3>2. handle[g].entry # n
      <4>1. g \in ToSet(content[handle[g].entry].users)
        BY <3>1, StateFacts
      <4>2. ToSet(content[n].users) = {}
        BY <1>1, NothingTypes
      <4> QED BY <4>1, <4>2
    <3>3. content'[handle[g].entry].status = content[handle[g].entry].status
      BY <1>7, <1>8, <3>1, <3>2
    <3>4. handle[g].told = content[handle[g].entry].status
      BY <1>10, <3>1 DEF Settled
    <3> QED BY <3>1, <3>3, <3>4
  <2> QED BY <2>1, <2>2
<1>14. Settled(handle', ctx', content')
  <2>1. \A m \in Low : Waits(ctx', m) => handle'[ctx'[m].handle].told = "waiting"
    <3> TAKE m \in Low
    <3> HAVE Waits(ctx', m)
    <3>1. ctx'[m] = ctx[m] /\ Waits(ctx, m) /\ ctx[m].handle \in Handle
      BY <1>5, StateFacts DEF Waits, CtxType
    <3> QED BY <1>10, <1>12, <3>1 DEF Settled
  <2>2. \A g, k \in Handle : Loading(handle', g) /\ Loading(handle', k)
                             /\ handle'[g].owner = handle'[k].owner => g = k
    BY <1>10, <1>12 DEF Settled, Loading
  <2> QED BY <1>10, <1>12, <1>13, <2>1, <2>2 DEF Settled
<1> DEFINE s == Aborting(n, h)
<1>15. /\ CallsAgree(s, handle', ctx', content') /\ Head(s).at = "abort"
       /\ \A j \in DOMAIN s : s[j].at \in {"abort", "release"}
  BY <1>1, AbortingCalls
<1>16. stack' = s
  BY <1>5
<1> HIDE DEF s
<1>17. HandlesAgree(stack', handle', ctx', content')
  BY <1>14, <1>15, <1>16, SettledAgrees
<1>18. Spared(stack', handle', ctx', content')
  BY <1>15, <1>16 DEF Spared
<1> QED BY <1>9, <1>15, <1>16, <1>17, <1>18, AgreedAgain

LEMMA AbortAgrees ==
  ASSUME Tied, Agreed, NEW h \in Handle, hlcache_handle_abort(h)
  PROVE  Agreed'
<1> DEFINE c == handle[h].entry
<1>1. Idle /\ c # NULL
  BY Zenon DEF hlcache_handle_abort
<1>2. c \in Content /\ h \in ToSet(content[c].users)
  BY <1>1, StateFacts DEF HandleType
<1>3. c \in ToSet(list)
  BY <1>2, NothingTypes DEF Tied, Users
<1>4. CASE stack' = Stop(c, h) /\ UNCHANGED <<handle, ctx, low, content, list>>
  BY <1>1, <1>2, <1>4, StopAgrees
<1>5. CASE \E n \in UnusedContent, l \in UnusedLow : Cloned(h, c, n, l)
  <2>1. PICK n \in UnusedContent, l \in UnusedLow : Cloned(h, c, n, l)
    BY <1>5
  <2> HIDE DEF c
  <2> QED BY <1>1, <1>3, <2>1, CloneAgrees DEF c
<1> QED BY <1>4, <1>5, Zenon DEF hlcache_handle_abort, Cloned

-----------------------------------------------------------------------------
LEMMA InitAgreed == Init => Agreed
<1> SUFFICES ASSUME Init PROVE Agreed
  OBVIOUS
<1>1. /\ \A h \in Handle : handle[h].entry = NULL /\ handle[h].told = "free" /\ handle[h].owner = NULL
      /\ \A l \in Low : ~Waits(ctx, l)
      /\ \A c \in Content : content[c].status = "none" /\ content[c].locked = FALSE
      /\ stack = <<>>
  BY NothingTypes DEF Init, Waits, NoContent
<1>2. HandlesAgree(stack, handle, ctx, content)
  BY <1>1 DEF HandlesAgree, Loading
<1>3. ContentsAgree(low, content)
  BY <1>1 DEF ContentsAgree
<1> QED BY <1>1, <1>2, <1>3, NoCalls DEF Agreed

LEMMA NextAgreed == Tied /\ Agreed /\ [Next]_vars => Agreed'
<1> SUFFICES ASSUME Tied, Agreed, [Next]_vars PROVE Agreed'
  OBVIOUS
<1>1. CASE Clients
  <2>1. PICK h \in Handle :
          \/ \E owner \in Content \cup Window : hlcache_handle_retrieve(h, owner)
          \/ Release(h)
          \/ hlcache_handle_abort(h)
    BY <1>1, Zenon DEF Clients
  <2> QED BY <2>1, RetrieveAgrees, ReleaseAgrees, AbortAgrees
<1>2. CASE hlcache_poll
  BY <1>2, HeadersAgrees, DataAgrees, DoneAgrees, ErrorAgrees DEF hlcache_poll
<1>3. CASE Pages
  BY <1>3, PageAgrees DEF Pages
<1>4. CASE Calls
  <2>1. CASE content_broadcast
    BY <2>1, BroadcastAgrees, EndsAgree
  <2>2. CASE content_set_error \/ ContentAborts \/ ClientReturns
    BY <2>2, EndsAgree
  <2> QED BY <1>4, <2>1, <2>2, CatchUpAgrees, MigrationEndsAgrees, ConversionAgrees, SetDoneAgrees,
             ReleaseAbortedAgrees, SweepAgrees DEF Calls
<1>5. CASE hlcache_clean
  BY <1>5, CleanAgrees
<1>6. CASE \E l \in Low : download_context_destroy(l)
  BY <1>6, DestroyDownloadAgrees
<1>7. CASE UNCHANGED vars
  BY <1>7 DEF vars, Agreed
<1> QED BY <1>1, <1>2, <1>3, <1>4, <1>5, <1>6, <1>7 DEF Next

(* What handles were told, what contents are, and what calls have yet to   *)
(* tell fit together, however messages, calls and events nest              *)
(* (hlcache.c:740-818, content.c:655-700).                                 *)
THEOREM AgreedHolds == Spec => [](Tied /\ Agreed)
<1>1. Init => Tied /\ Agreed
  BY InitTied, InitAgreed
<1>2. Tied /\ Agreed /\ [Next]_vars => (Tied /\ Agreed)'
  BY NextTied, NextAgreed
<1> QED BY <1>1, <1>2, PTL DEF Spec

LEMMA AgreedSafe == Tied /\ Agreed => CallsAreSafe
<1> SUFFICES ASSUME Tied, Agreed PROVE CallsAreSafe
  OBVIOUS
<1>1. ASSUME NEW i \in DOMAIN stack
      PROVE  /\ stack[i].at = "broadcast" =>
                  stack[i].h = NULL \/ stack[i].h \in ToSet(content[stack[i].c].users)
             /\ stack[i].at = "catch_up" => handle[ctx[stack[i].l].handle].told # "free"
  <2>1. CallAgrees(stack[i], handle, ctx, content)
    BY DEF Agreed, CallsAgree
  <2>2. stack[i].at = "broadcast" =>
          stack[i].h = NULL \/ stack[i].h \in ToSet(content[stack[i].c].users)
    BY <2>1 DEF CallAgrees, Broadcasts
  <2>3. stack[i].at = "catch_up" => handle[ctx[stack[i].l].handle].told # "free"
    <3> SUFFICES ASSUME stack[i].at = "catch_up" PROVE handle[ctx[stack[i].l].handle].told # "free"
      OBVIOUS
    <3>1. CatchesUp(ctx[stack[i].l].handle, stack[i].msgs, handle, content)
      BY <2>1 DEF CallAgrees
    <3>2. \E status, msgs : <<handle[ctx[stack[i].l].handle].told, status, msgs>> \in Steps
      BY <3>1, Zenon DEF CatchesUp
    <3> QED BY <3>2 DEF Steps
  <2> QED BY <2>2, <2>3
<1>2. \A c \in Content : content[c].locked => content[c].status = "LOADING"
  BY DEF Agreed, ContentsAgree
<1> QED BY <1>1, <1>2 DEF CallsAreSafe

(* A broadcast goes on with a user that is still in the list, and a        *)
(* migration with a handle that is still allocated, whatever the callbacks *)
(* did (content.c:673-676, hlcache.c:785-816); what is destroyed is        *)
(* unlocked (content.c:385).                                               *)
THEOREM CallsAreSafeHolds == Spec => []CallsAreSafe
BY AgreedHolds, AgreedSafe, PTL

LEMMA AgreedTold == Tied /\ Agreed => ToldStatus
<1> SUFFICES ASSUME Tied, Agreed, Idle, NEW h \in Handle, handle[h].entry # NULL
             PROVE  handle[h].told = content[handle[h].entry].status
  BY DEF ToldStatus
<1> QED BY IdleSettled DEF Settled

(* Between events every user of a content has been told its status         *)
(* (content.c:668-677, hlcache.c:784-818).                                 *)
THEOREM ToldStatusHolds == Spec => []ToldStatus
BY AgreedHolds, AgreedTold, PTL

-----------------------------------------------------------------------------
(* The promise to the clients. *)

(* A step tells one handle a message, lets handles go, or tells nobody. *)
TellsOne(h, from, msg) ==
  /\ handle[h].told = from /\ handle'[h].told = msg
  /\ \A g \in Handle : g # h => handle'[g].told = handle[g].told

Tells == \E h \in Handle :
  \/ TellsOne(h, "free", "waiting") \/ TellsOne(h, "waiting", "LOADING")
  \/ TellsOne(h, "LOADING", "READY") \/ TellsOne(h, "READY", "DONE")
  \/ TellsOne(h, "waiting", "ERROR") \/ TellsOne(h, "LOADING", "ERROR")
  \/ TellsOne(h, "waiting", "DOWNLOAD")

LetsGo(H) == \A g \in Handle : handle'[g].told = IF g \in H THEN "free" ELSE handle[g].told

Promised == Tells \/ \E H \in SUBSET Handle : LetsGo(H)

Told == [h \in Handle |-> handle[h].told]

LEMMA OneTold ==
  ASSUME NEW h \in Handle, NEW from, NEW msg, TellsOne(h, from, msg)
  PROVE  Told[h] = from /\ Told' = [Told EXCEPT ![h] = msg]
BY DEF TellsOne, Told

LEMMA PromisedStep ==
  ASSUME Promised
  PROVE  [Protocol!Next]_Told
<1>1. ASSUME NEW h \in Handle, NEW from, NEW msg, TellsOne(h, from, msg), NEW all, from \in all
      PROVE  Protocol!Tell(h, all, msg)
  <2>1. Told[h] = from /\ Told' = [Told EXCEPT ![h] = msg]
    BY <1>1, OneTold
  <2> QED BY <1>1, <2>1 DEF Protocol!Tell, Told
<1>2. CASE Tells
  <2>1. PICK h \in Handle :
          \/ TellsOne(h, "free", "waiting") \/ TellsOne(h, "waiting", "LOADING")
          \/ TellsOne(h, "LOADING", "READY") \/ TellsOne(h, "READY", "DONE")
          \/ TellsOne(h, "waiting", "ERROR") \/ TellsOne(h, "LOADING", "ERROR")
          \/ TellsOne(h, "waiting", "DOWNLOAD")
    BY <1>2 DEF Tells
  <2>2. \/ Protocol!Tell(h, {"free"}, "waiting") \/ Protocol!Tell(h, {"waiting"}, "LOADING")
        \/ Protocol!Tell(h, {"LOADING"}, "READY") \/ Protocol!Tell(h, {"READY"}, "DONE")
        \/ Protocol!Tell(h, {"waiting", "LOADING", "READY"}, "ERROR")
        \/ Protocol!Tell(h, {"waiting"}, "DOWNLOAD")
    BY <1>1, <2>1
  <2> QED BY <2>2 DEF Protocol!Next, Protocol!Retrieve, Protocol!LOADING, Protocol!READY,
                      Protocol!DONE, Protocol!ERROR, Protocol!DOWNLOAD
<1>3. CASE \E H \in SUBSET Handle : LetsGo(H)
  <2>1. PICK H \in SUBSET Handle : LetsGo(H)
    BY <1>3
  <2>2. CASE H = {}
    BY <2>1, <2>2 DEF LetsGo, Told
  <2>3. CASE H # {}
    <3>1. Protocol!Release(H)
      BY <2>1, <2>3 DEF LetsGo, Protocol!Release
    <3> QED BY <3>1 DEF Protocol!Next
  <2> QED BY <2>2, <2>3
<1> QED BY <1>2, <1>3 DEF Promised

LEMMA NobodyTold ==
  ASSUME \A g \in Handle : handle'[g].told = handle[g].told
  PROVE  Promised
<1>1. LetsGo({}) /\ {} \in SUBSET Handle
  BY DEF LetsGo
<1> QED BY <1>1 DEF Promised

LEMMA FreedPromised ==
  ASSUME NEW H \in SUBSET Handle, handle' = Freed(H)
  PROVE  Promised
<1>1. LetsGo(H)
  BY NothingTypes DEF LetsGo, Freed
<1> QED BY <1>1 DEF Promised

(* A message is delivered. *)
LEMMA ToldOne ==
  ASSUME Tied, NEW h \in Handle, NEW msg \in Messages, handle' = ToldTo(handle, h, msg)
  PROVE  TellsOne(h, handle[h].told, msg)
<1>1. handle'[h].told = msg /\ \A x \in Handle : x # h => handle'[x] = handle[x]
  BY StateFacts, ToldFacts
<1> QED BY <1>1 DEF TellsOne

(* While no call is made a context that waits has told its client nothing. *)
LEMMA WaitsIdle ==
  ASSUME Tied, Agreed, Idle, NEW l \in Low, low[l].client = "ctx"
  PROVE  ctx[l].handle \in Handle /\ handle[ctx[l].handle].told = "waiting"
<1>1. Waits(ctx, l) /\ ctx[l].handle \in Handle
  <2>1. \E cx2 : Targeted(cx2, l)
    BY DEF Targeted
  <2> QED BY <2>1, WaitingCtx
<1> QED BY <1>1, IdleSettled DEF Settled

LEMMA EntersPromised ==
  ASSUME Tied, NEW h \in Handle, NEW c \in Content, handle' = Entered(handle, h, c)
  PROVE  Promised
<1>1. /\ Entered(handle, h, c)[h].told = handle[h].told
      /\ \A g \in Handle \ {h} : Entered(handle, h, c)[g] = handle[g]
  BY StateFacts, Enters
<1> QED BY <1>1, NobodyTold

LEMMA RefusalPromised ==
  ASSUME Tied, Agreed, Idle, NEW l \in Low, low[l].client = "ctx",
         NEW msg \in {"ERROR", "DOWNLOAD"}, handle' = ToldTo(handle, ctx[l].handle, msg)
  PROVE  Promised
<1>1. ctx[l].handle \in Handle /\ handle[ctx[l].handle].told = "waiting" /\ msg \in Messages
  BY WaitsIdle DEF Messages
<1>2. TellsOne(ctx[l].handle, "waiting", msg)
  BY <1>1, ToldOne
<1> QED BY <1>1, <1>2 DEF Promised, Tells

LEMMA MigratePromised ==
  ASSUME Tied, Agreed, Idle, NEW l \in Low, low[l].client = "ctx", NEW told, NEW again,
         hlcache_migrate_ctx(l, told, again)
  PROVE  Promised
<1> DEFINE h == ctx[l].handle
<1>1. \/ \E c \in Content : handle' = Entered(handle, h, c)
      \/ \E msg \in {"ERROR", "DOWNLOAD"} : handle' = ToldTo(handle, h, msg)
  <2>1. CASE hlcache_find_content(l, told, again)
    <3>1. \/ \E c \in Suitable(l) : handle' = [handle EXCEPT ![h].entry = c]
          \/ \E c \in UnusedContent : handle' = [handle EXCEPT ![h].entry = c]
      BY <2>1, Zenon DEF hlcache_find_content
    <3>2. \A c \in Suitable(l) \cup UnusedContent : c \in Content
      BY ListedFacts DEF Suitable, UnusedContent
    <3> QED BY <3>1, <3>2 DEF Entered
  <2>2. CASE handle' = [handle EXCEPT ![h].told = "DOWNLOAD"]
    BY <2>2, Zenon DEF ToldTo
  <2>3. CASE handle' = [handle EXCEPT ![h].told = "ERROR"]
    BY <2>3, Zenon DEF ToldTo
  <2> QED BY <2>1, <2>2, <2>3, Zenon DEF hlcache_migrate_ctx
<1>2. h \in Handle
  BY WaitsIdle
<1>3. CASE \E c \in Content : handle' = Entered(handle, h, c)
  <2>1. PICK c \in Content : handle' = Entered(handle, h, c)
    BY <1>3
  <2> HIDE DEF h
  <2> QED BY <1>2, <2>1, EntersPromised
<1>4. CASE \E msg \in {"ERROR", "DOWNLOAD"} : handle' = ToldTo(handle, h, msg)
  <2>1. PICK msg \in {"ERROR", "DOWNLOAD"} : handle' = ToldTo(handle, h, msg)
    BY <1>4
  <2> QED BY <2>1, RefusalPromised
<1> QED BY <1>1, <1>3, <1>4

LEMMA PollPromised ==
  ASSUME Tied, Agreed, NEW l \in Low, HAD_HEADERS(l) \/ HAD_DATA(l) \/ DONE(l) \/ ERROR(l)
  PROVE  Promised
<1>1. CASE handle' = handle
  BY <1>1, NobodyTold
<1>2. CASE Idle /\ low[l].client = "ctx" /\ \E told, again : hlcache_migrate_ctx(l, told, again)
  <2>1. PICK told, again : hlcache_migrate_ctx(l, told, again)
    BY <1>2
  <2> QED BY <1>2, <2>1, MigratePromised
<1>3. CASE Idle /\ low[l].client = "ctx" /\ Deliver(ctx[l].handle, "ERROR", <<>>)
  <2>1. handle' = ToldTo(handle, ctx[l].handle, "ERROR")
    BY <1>3 DEF Deliver, ToldTo
  <2> QED BY <1>3, <2>1, RefusalPromised
<1> QED BY <1>1, <1>2, <1>3, Zenon DEF HAD_HEADERS, HAD_DATA, DONE, ERROR

LEMMA CatchUpPromised ==
  ASSUME Tied, Agreed, CatchUpNext
  PROVE  Promised
<1> DEFINE f == Head(stack)
           h == ctx[f.l].handle
           c == handle[h].entry
           msg == Head(f.msgs)
<1>1. At("catch_up") /\ f.msgs # <<>> /\ handle' = ToldTo(handle, h, msg)
  BY DEF CatchUpNext, Deliver, ToldTo
<1>2. h \in Handle /\ f.msgs \in Seq({"LOADING", "READY", "DONE"}) /\ CatchesUp(h, f.msgs, handle, content)
  BY <1>1, CatchUpFacts
<1>3. msg \in Messages
  BY <1>1, <1>2, TailFrames DEF Messages
<1>4. \/ handle[h].told = "waiting" /\ msg = "LOADING"
      \/ handle[h].told = "LOADING" /\ msg = "READY"
      \/ handle[h].told = "READY" /\ msg = "DONE"
  <2> HIDE DEF h
  <2>1. <<handle[h].told, content[c].status, f.msgs>> \in Steps
    BY <1>2, Zenon DEF CatchesUp
  <2> DEFINE told == handle[h].told
             status == content[c].status
             msgs == f.msgs
  <2>2. <<told, status, msgs>> \in Steps /\ msgs # <<>>
    BY <1>1, <2>1
  <2> HIDE DEF told, status, msgs
  <2>3. \/ told = "waiting" /\ Head(msgs) = "LOADING"
        \/ told = "LOADING" /\ Head(msgs) = "READY"
        \/ told = "READY" /\ Head(msgs) = "DONE"
    BY <2>2, StepsNext
  <2> QED BY <2>3 DEF told, status, msgs
<1> HIDE DEF h, msg
<1>5. TellsOne(h, handle[h].told, msg)
  BY <1>1, <1>2, <1>3, ToldOne
<1> QED BY <1>2, <1>4, <1>5 DEF Promised, Tells

LEMMA BroadcastPromised ==
  ASSUME Tied, Agreed, content_broadcast
  PROVE  Promised
<1> DEFINE f == Head(stack)
           h == f.h
           msg == f.msg
<1>1. CASE h = NULL
  <2>1. handle' = handle
    BY <1>1 DEF content_broadcast
  <2> QED BY <2>1, NobodyTold
<1>2. CASE h # NULL
  <2>1. stack # <<>> /\ f.at = "broadcast" /\ handle' = ToldTo(handle, h, msg)
    BY <1>2 DEF content_broadcast, At, Deliver, ToldTo
  <2>2. 1 \in DOMAIN stack /\ stack[1] = f
    BY <2>1, StateFacts, TailPlaces
  <2>3. f.c \in Content /\ h \in Handle /\ msg \in {"READY", "DONE", "ERROR"}
    BY <1>2, <2>1, <2>2, CallFacts DEF OfContent
  <2>4. Broadcasts(f, handle, content[f.c])
    BY <2>1, <2>2 DEF Agreed, CallsAgree, CallAgrees
  <2>5. h \in ToSet(content[f.c].users)
    BY <1>2, <2>4 DEF Broadcasts
  <2>6. h \in Rest(content[f.c].users, h)
    BY <2>3, <2>5, StateFacts, RestFacts
  <2>7. handle[h].told = Prior(msg)
    BY <2>4, <2>6 DEF Broadcasts
  <2>8. msg \in Messages
    BY <2>3 DEF Messages
  <2> HIDE DEF h, msg
  <2>9. TellsOne(h, handle[h].told, msg)
    BY <2>1, <2>3, <2>8, ToldOne
  <2> QED BY <2>3, <2>7, <2>9 DEF Prior, Promised, Tells
<1> QED BY <1>1, <1>2

LEMMA ClientsPromised ==
  ASSUME Tied, Agreed, Clients
  PROVE  Promised
<1>1. PICK h \in Handle :
        \/ \E owner \in Content \cup Window : hlcache_handle_retrieve(h, owner)
        \/ Release(h)
        \/ hlcache_handle_abort(h)
  BY Zenon DEF Clients
<1>2. CASE \E owner \in Content \cup Window : hlcache_handle_retrieve(h, owner)
  <2>1. PICK owner \in Content \cup Window : hlcache_handle_retrieve(h, owner)
    BY <1>2
  <2> DEFINE y == [handle[h] EXCEPT !.owner = owner, !.told = "waiting"]
  <2>2. y.told = "waiting"
    BY StateFacts DEF HandleType
  <2>3. handle' = [handle EXCEPT ![h] = y] /\ handle[h].told = "free"
    BY <2>1 DEF hlcache_handle_retrieve
  <2> HIDE DEF y
  <2>4. TellsOne(h, "free", "waiting")
    BY <2>2, <2>3, StateFacts DEF TellsOne
  <2> QED BY <2>4 DEF Promised, Tells
<1>3. CASE Release(h)
  <2> DEFINE H == {h}
  <2>1. handle' = Freed(H) /\ H \in SUBSET Handle
    BY <1>3 DEF Release, hlcache_handle_release, Freed
  <2> HIDE DEF H
  <2> QED BY <2>1, FreedPromised
<1>4. CASE hlcache_handle_abort(h)
  <2>1. handle' = handle \/ \E n \in UnusedContent : handle' = [handle EXCEPT ![h].entry = n]
    BY <1>4, Zenon DEF hlcache_handle_abort
  <2>2. CASE handle' = handle
    BY <2>2, NobodyTold
  <2>3. CASE \E n \in UnusedContent : handle' = [handle EXCEPT ![h].entry = n]
    <3>1. PICK n \in UnusedContent : handle' = [handle EXCEPT ![h].entry = n]
      BY <2>3
    <3>2. handle' = Entered(handle, h, n) /\ n \in Content
      BY <3>1 DEF Entered, UnusedContent
    <3> QED BY <3>2, EntersPromised
  <2> QED BY <2>1, <2>2, <2>3
<1> QED BY <1>1, <1>2, <1>3, <1>4

LEMMA CallsPromised ==
  ASSUME Tied, Agreed, Calls
  PROVE  Promised
<1>1. CASE handle' = handle
  BY <1>1, NobodyTold
<1>2. CASE browser_window_convert_to_download
  <2> DEFINE H == {Head(stack).h}
  <2>1. stack # <<>> /\ Head(stack).at = "client" /\ handle' = [handle EXCEPT ![Head(stack).h] = NoHandle]
    BY <1>2 DEF browser_window_convert_to_download, At
  <2>2. Head(stack).h \in Handle
    BY <2>1, StateFacts, TailPlaces, CallFacts
  <2>3. H \in SUBSET Handle /\ handle' = Freed(H)
    BY <2>1, <2>2, StateFacts DEF Freed
  <2> HIDE DEF H
  <2> QED BY <2>3, FreedPromised
<1>3. CASE ReleaseAborted
  <2> DEFINE H == {Head(stack).h}
  <2>1. handle' = Freed(H) /\ stack # <<>> /\ Head(stack).at = "release"
    BY <1>3 DEF ReleaseAborted, hlcache_handle_release, Freed, At
  <2>2. H \in SUBSET Handle
    BY <2>1, StateFacts, TailPlaces, FrameFields
  <2> HIDE DEF H
  <2> QED BY <2>1, <2>2, FreedPromised
<1>4. CASE Sweep /\ handle' # handle
  <2> DEFINE H == {h \in Handle : handle[h].owner = Head(stack).c}
  <2>1. handle' = Freed(H) /\ H \in SUBSET Handle
    BY <1>4 DEF Sweep, content_destroy, Freed
  <2> HIDE DEF H
  <2> QED BY <2>1, FreedPromised
<1>5. CASE CatchUpNext
  BY <1>5, CatchUpPromised
<1>6. CASE content_broadcast
  BY <1>6, BroadcastPromised
<1>7. MigrationEnds \/ ClientReturns \/ content_set_done \/ content_set_error \/ ContentAborts
      => handle' = handle
  BY DEF MigrationEnds, ClientReturns, content_set_done, content_set_error, ContentAborts
<1> QED BY <1>1, <1>2, <1>3, <1>4, <1>5, <1>6, <1>7 DEF Calls

LEMMA NextPromised ==
  ASSUME Tied, Agreed, [Next]_vars
  PROVE  Promised
<1>1. CASE Clients
  BY <1>1, ClientsPromised
<1>2. CASE hlcache_poll
  BY <1>2, PollPromised DEF hlcache_poll
<1>3. CASE Calls
  BY <1>3, CallsPromised
<1>4. CASE Pages \/ hlcache_clean \/ (\E l \in Low : download_context_destroy(l)) \/ UNCHANGED vars
  <2>1. handle' = handle
    BY <1>4 DEF Pages, PageReady, PageDone, PageFails, hlcache_clean, download_context_destroy, vars
  <2> QED BY <2>1, NobodyTold
<1> QED BY <1>1, <1>2, <1>3, <1>4 DEF Next

(* Each handle is told what HandleProtocol promises: LOADING, READY and     *)
(* DONE in this order, each once, or ERROR before DONE, or DOWNLOAD, and   *)
(* nothing after its release (hlcache.h, content.h).                       *)
THEOREM Implements == Spec => ImplementsProtocol
<1>1. Init => Protocol!Init
  BY NothingTypes DEF Init, Protocol!Init
<1>2. Tied /\ Agreed /\ [Next]_vars => [Protocol!Next]_Told
  BY NextPromised, PromisedStep
<1> QED BY <1>1, <1>2, AgreedHolds, PTL DEF Spec, ImplementsProtocol, Protocol!Spec, Told
=============================================================================
