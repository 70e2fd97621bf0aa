--------------------------- MODULE BrowserProofs ---------------------------
(* Safety of a window, its frames and its history, for any pages, frames    *)
(* and numbers of loads.                                                    *)
EXTENDS BrowserWindow, FiniteSetTheorems, FunctionTheorems, TLAPS

Statuses == {"free", "fetching", "LOADING", "READY", "DONE"}
Fieldset == [loading : Handle \cup {0}, current : Handle \cup {0},
             lfav : Handle \cup {0}, cfav : Handle \cup {0}, failed : BOOLEAN,
             throbbing : BOOLEAN, add : BOOLEAN, interval : BOOLEAN, refresh : BOOLEAN]
Records == [win : Window \cup {NULL}, page : Page \cup {FramePage, NULL}, status : Statuses]
Entries == [page : Page, frag : BOOLEAN]
Histories == [entry : Seq(Entries), current : Nat]
States == [open : SUBSET Window, bw : [Window -> Fieldset], handle : [Handle -> Records],
           history : Histories, gui : BOOLEAN, trip : {"none", "going", "lost"}]

(* Window records that agree but for the fields F and the two that concern  *)
(* nobody else, failed_favicon and refresh_interval.                        *)
Alike(b, c, F) ==
  /\ b \in Fieldset /\ c \in Fieldset
  /\ "loading" \in F \/ b.loading = c.loading
  /\ "current" \in F \/ b.current = c.current
  /\ "lfav" \in F \/ b.lfav = c.lfav
  /\ "cfav" \in F \/ b.cfav = c.cfav
  /\ "throbbing" \in F \/ b.throbbing = c.throbbing
  /\ "add" \in F \/ b.add = c.add
  /\ "refresh" \in F \/ b.refresh = c.refresh

LEMMA Names ==
  /\ Root \in Window /\ Root \notin Frame /\ Frame \subseteq Window
  /\ \A v \in Window : v # Root <=> v \in Frame
  /\ NULL \notin Window /\ NULL \notin Page /\ NULL # FramePage
  /\ 0 \notin Handle
BY BrowserAssumption DEF Window

LEMMA NewTypes ==
  /\ NewWindow \in Fieldset /\ Free \in Records /\ Free.win = NULL /\ Free.status = "free"
  /\ NewWindow.loading = 0 /\ NewWindow.current = 0 /\ NewWindow.lfav = 0 /\ NewWindow.cfav = 0
  /\ ~NewWindow.throbbing /\ ~NewWindow.refresh
BY DEF NewWindow, Fieldset, Free, Records, Statuses

LEMMA StateFields ==
  ASSUME NEW S \in States
  PROVE  /\ S.open \subseteq Window /\ S.bw \in [Window -> Fieldset]
         /\ S.handle \in [Handle -> Records] /\ S.history \in Histories
         /\ S.gui \in BOOLEAN /\ S.trip \in {"none", "going", "lost"}
         /\ \A w \in Window : S.bw[w] \in Fieldset
         /\ \A h \in Handle : S.handle[h] \in Records
BY DEF States

LEMMA WindowFields ==
  ASSUME NEW b \in Fieldset
  PROVE  /\ b.loading \in Handle \cup {0} /\ b.current \in Handle \cup {0}
         /\ b.lfav \in Handle \cup {0} /\ b.cfav \in Handle \cup {0}
         /\ b.throbbing \in BOOLEAN /\ b.add \in BOOLEAN /\ b.refresh \in BOOLEAN
         /\ b.failed \in BOOLEAN /\ b.interval \in BOOLEAN
BY DEF Fieldset

-----------------------------------------------------------------------------
(* Changes of a window record. *)

Throb(b, x) == [b EXCEPT !.throbbing = x]
Load(b, h) == [b EXCEPT !.loading = h]
Schedule(b, x) == [b EXCEPT !.refresh = x]
LoadIcon(b, h) == [b EXCEPT !.lfav = h]
FailIcon(b, x) == [b EXCEPT !.failed = x]
AddNext(b, x) == [b EXCEPT !.add = x]
Period(b, x) == [b EXCEPT !.interval = x]
Show(b, h) == [b EXCEPT !.current = h, !.loading = 0]
ShowIcon(b, h) == [b EXCEPT !.cfav = h, !.lfav = 0]
LoseIcon(b) == [b EXCEPT !.lfav = 0, !.failed = TRUE]
Halt(b) == [b EXCEPT !.loading = 0, !.throbbing = FALSE, !.refresh = FALSE]

LEMMA ThrobFields ==
  ASSUME NEW b \in Fieldset, NEW x \in BOOLEAN
  PROVE  LET c == Throb(b, x) IN Alike(c, b, {"throbbing"}) /\ c.throbbing = x
BY DEF Throb, Fieldset, Alike

LEMMA LoadFields ==
  ASSUME NEW b \in Fieldset, NEW h \in Handle \cup {0}
  PROVE  LET c == Load(b, h) IN Alike(c, b, {"loading"}) /\ c.loading = h
BY DEF Load, Fieldset, Alike

LEMMA ScheduleFields ==
  ASSUME NEW b \in Fieldset, NEW x \in BOOLEAN
  PROVE  LET c == Schedule(b, x) IN Alike(c, b, {"refresh"}) /\ c.refresh = x
BY DEF Schedule, Fieldset, Alike

LEMMA LoadIconFields ==
  ASSUME NEW b \in Fieldset, NEW h \in Handle \cup {0}
  PROVE  LET c == LoadIcon(b, h) IN Alike(c, b, {"lfav"}) /\ c.lfav = h
BY DEF LoadIcon, Fieldset, Alike

LEMMA FailIconFields ==
  ASSUME NEW b \in Fieldset, NEW x \in BOOLEAN
  PROVE  LET c == FailIcon(b, x) IN Alike(c, b, {})
BY DEF FailIcon, Fieldset, Alike

LEMMA AddNextFields ==
  ASSUME NEW b \in Fieldset, NEW x \in BOOLEAN
  PROVE  LET c == AddNext(b, x) IN Alike(c, b, {"add"}) /\ c.add = x
BY DEF AddNext, Fieldset, Alike

LEMMA PeriodFields ==
  ASSUME NEW b \in Fieldset, NEW x \in BOOLEAN
  PROVE  LET c == Period(b, x) IN Alike(c, b, {})
BY DEF Period, Fieldset, Alike

LEMMA ShowFields ==
  ASSUME NEW b \in Fieldset, NEW h \in Handle \cup {0}
  PROVE  LET c == Show(b, h) IN Alike(c, b, {"current", "loading"}) /\ c.current = h /\ c.loading = 0
BY DEF Show, Fieldset, Alike

LEMMA ShowIconFields ==
  ASSUME NEW b \in Fieldset, NEW h \in Handle \cup {0}
  PROVE  LET c == ShowIcon(b, h) IN Alike(c, b, {"cfav", "lfav"}) /\ c.cfav = h /\ c.lfav = 0
BY DEF ShowIcon, Fieldset, Alike

LEMMA LoseIconFields ==
  ASSUME NEW b \in Fieldset
  PROVE  LET c == LoseIcon(b) IN Alike(c, b, {"lfav"}) /\ c.lfav = 0
BY DEF LoseIcon, Fieldset, Alike

LEMMA HaltFields ==
  ASSUME NEW b \in Fieldset
  PROVE  LET c == Halt(b) IN Alike(c, b, {"loading", "throbbing", "refresh"}) /\ c.loading = 0 /\ ~c.throbbing /\ ~c.refresh
BY DEF Halt, Fieldset, Alike

-----------------------------------------------------------------------------
(* Who has which handle. *)

Loads(r, w) == r.win = w /\ r.page \in Pages(w) /\ r.status \in {"fetching", "LOADING"}
Shows(r, w) == r.win = w /\ r.page \in Pages(w) /\ r.status \in {"READY", "DONE"}
FetchesIcon(r, w) == w = Root /\ r.win = w /\ r.page = NULL /\ r.status = "fetching"
ShowsIcon(r, w) == w = Root /\ r.win = w /\ r.page = NULL /\ r.status = "DONE"

(* What the fields of a window record say of handles. *)
Keeps(b, hd, w) ==
  /\ b.loading # 0 => Loads(hd[b.loading], w)
  /\ b.current # 0 => Shows(hd[b.current], w)
  /\ b.lfav # 0 => FetchesIcon(hd[b.lfav], w)
  /\ b.cfav # 0 => ShowsIcon(hd[b.cfav], w)

(* A handle stands in a field of a window, the one its record says. *)
Stands(b, r, h, w) ==
  \/ b.loading = h /\ Loads(r, w)
  \/ b.current = h /\ Shows(r, w)
  \/ b.lfav = h /\ FetchesIcon(r, w)
  \/ b.cfav = h /\ ShowsIcon(r, w)

Owned(S) ==
  /\ \A w \in Window : Keeps(S.bw[w], S.handle, w)
  /\ \A h \in Handle : S.handle[h] # Free =>
        S.handle[h].win \in Window /\ Stands(S.bw[S.handle[h].win], S.handle[h], h, S.handle[h].win)

(* There is room for the handles of one more page in every window. *)
Unused(S) == {h \in Handle : S.handle[h] = Free}

LEMMA WindowsFinite ==
  /\ IsFiniteSet(Window) /\ Cardinality(Window) \in Nat /\ Cardinality(Window) >= 1
<1>1. IsFiniteSet(Window) /\ Cardinality(Window) \in Nat
  BY BrowserAssumption, FS_AddElement, FS_CardinalityType DEF Window
<1>2. Cardinality(Window) # 0
  BY <1>1, FS_EmptySet, Names
<1> QED BY <1>1, <1>2

LEMMA HoldsFour == IsFiniteSet(Holds) /\ Cardinality(Holds) = 4
<1>1. IsFiniteSet({}) /\ Cardinality({}) = 0
  BY FS_EmptySet
<1>2. IsFiniteSet({"loading"}) /\ Cardinality({"loading"}) = 1
  BY FS_Singleton
<1>3. IsFiniteSet({"loading", "current"}) /\ Cardinality({"loading", "current"}) = 2
  <2>1. {"loading", "current"} = {"loading"} \cup {"current"} /\ "current" \notin {"loading"}
    OBVIOUS
  <2> QED BY <1>2, <2>1, FS_AddElement
<1>4. IsFiniteSet({"loading", "current", "lfav"}) /\ Cardinality({"loading", "current", "lfav"}) = 3
  <2>1. /\ {"loading", "current", "lfav"} = {"loading", "current"} \cup {"lfav"}
        /\ "lfav" \notin {"loading", "current"}
    OBVIOUS
  <2> QED BY <1>3, <2>1, FS_AddElement
<1>5. Holds = {"loading", "current", "lfav"} \cup {"cfav"} /\ "cfav" \notin {"loading", "current", "lfav"}
  BY DEF Holds
<1> QED BY <1>4, <1>5, FS_AddElement

LEMMA Room ==
  ASSUME NEW S \in States, Owned(S)
  PROVE  IsFiniteSet(Unused(S)) /\ Cardinality(Unused(S)) \in Nat
         /\ Cardinality(Unused(S)) >= Cardinality(Window)
<1> DEFINE Used == Handle \ Unused(S)
           place(r) == IF r.page = NULL THEN (IF r.status = "DONE" THEN "cfav" ELSE "lfav")
                       ELSE IF r.status \in {"fetching", "LOADING"} THEN "loading" ELSE "current"
           seat == [h \in Used |-> <<S.handle[h].win, place(S.handle[h])>>]
<1>1. /\ IsFiniteSet(Handle) /\ Cardinality(Handle) \in Nat
      /\ Cardinality(Handle) >= 5 * Cardinality(Window)
  BY BrowserAssumption, FS_CardinalityType
<1>2. ASSUME NEW h \in Used
      PROVE  /\ S.handle[h].win \in Window /\ place(S.handle[h]) \in Holds
             /\ h = S.bw[S.handle[h].win][place(S.handle[h])]
  <2>1. S.handle[h] # Free
    BY DEF Unused
  <2>2. S.handle[h].win \in Window /\ Stands(S.bw[S.handle[h].win], S.handle[h], h, S.handle[h].win)
    BY <2>1 DEF Owned
  <2>3. \A w \in Window : NULL \notin Pages(w)
    BY Names DEF Pages
  <2> QED BY <2>2, <2>3 DEF Stands, Loads, Shows, FetchesIcon, ShowsIcon, Holds
<1> HIDE DEF place
<1>3. seat \in Injection(Used, Window \X Holds)
  <2>1. seat \in [Used -> Window \X Holds]
    BY <1>2
  <2>2. ASSUME NEW g \in Used, NEW h \in Used, seat[g] = seat[h] PROVE g = h
    <3>1. S.handle[g].win = S.handle[h].win /\ place(S.handle[g]) = place(S.handle[h])
      BY <2>2
    <3> QED BY <1>2, <3>1
  <2> HIDE DEF seat
  <2> QED BY <2>1, <2>2 DEF Injection, IsInjective
<1> HIDE DEF seat
<1>4. /\ IsFiniteSet(Window \X Holds)
      /\ Cardinality(Window \X Holds) = Cardinality(Window) * 4
  BY WindowsFinite, HoldsFour, FS_Product
<1>5. IsFiniteSet(Used) /\ Cardinality(Used) <= Cardinality(Window) * 4
  BY <1>3, <1>4, FS_Injection
<1>6. Cardinality(Used) \in Nat
  BY <1>5, FS_CardinalityType
<1>7. IsFiniteSet(Unused(S)) /\ Cardinality(Unused(S)) \in Nat
  BY <1>1, FS_Subset, FS_CardinalityType DEF Unused
<1>8. Unused(S) = Handle \ Used /\ Handle \cap Used = Used
  BY DEF Unused
<1>9. Cardinality(Unused(S)) = Cardinality(Handle) - Cardinality(Used)
  BY <1>1, <1>8, FS_Difference
<1> QED BY <1>1, <1>5, <1>6, <1>7, <1>9, WindowsFinite

LEMMA FreshHandle ==
  ASSUME NEW S \in States, Owned(S)
  PROVE  NextFree(S) \in Handle /\ S.handle[NextFree(S)] = Free
<1>1. Unused(S) # {}
  BY Room, WindowsFinite, FS_EmptySet
<1> QED BY <1>1 DEF NextFree, Unused

LEMMA FreshHandles ==
  ASSUME NEW S \in States, Owned(S), NEW G \in SUBSET Window
  PROVE  \E f \in [G -> Unused(S)] : \A v, u \in G : f[v] = f[u] => v = u
<1>1. IsFiniteSet(G) /\ Cardinality(G) \in Nat /\ Cardinality(G) <= Cardinality(Window)
  BY WindowsFinite, FS_Subset, FS_CardinalityType
<1>2. ExistsBijection(1..Cardinality(G), G)
  BY <1>1, FS_CardinalityType
<1>3. ExistsBijection(1..Cardinality(Unused(S)), Unused(S))
  BY Room, FS_CardinalityType
<1>4. ExistsInjection(G, 1..Cardinality(G))
  BY <1>2, Fun_ExistsBijSymmetric, Fun_ExistsBijEquiv
<1>5. ExistsInjection(1..Cardinality(G), 1..Cardinality(Unused(S)))
  BY <1>1, Room, WindowsFinite, Fun_NatInjLeq
<1>6. ExistsInjection(1..Cardinality(Unused(S)), Unused(S))
  BY <1>3, Fun_ExistsBijEquiv
<1>7. ExistsInjection(G, Unused(S))
  BY <1>4, <1>5, <1>6, Fun_ExistsInjTransitive
<1> QED BY <1>7 DEF ExistsInjection, Injection, IsInjective

-----------------------------------------------------------------------------
(* Changes of a state. *)

PutWin(S, w, b) == [S EXCEPT !.bw = [S.bw EXCEPT ![w] = b]]
PutRec(S, h, r) == [S EXCEPT !.handle = [S.handle EXCEPT ![h] = r]]
PutGui(S, g) == [S EXCEPT !.gui = g]
PutTrip(S, t) == [S EXCEPT !.trip = t]

LEMMA PutWinFields ==
  ASSUME NEW S \in States, NEW w \in Window, NEW b \in Fieldset
  PROVE  LET T == PutWin(S, w, b)
         IN  /\ T \in States /\ T.open = S.open /\ T.handle = S.handle /\ T.history = S.history
             /\ T.gui = S.gui /\ T.trip = S.trip
             /\ T.bw[w] = b /\ \A v \in Window \ {w} : T.bw[v] = S.bw[v]
BY DEF States, PutWin

LEMMA PutRecFields ==
  ASSUME NEW S \in States, NEW h \in Handle, NEW r \in Records
  PROVE  LET T == PutRec(S, h, r)
         IN  /\ T \in States /\ T.open = S.open /\ T.bw = S.bw /\ T.history = S.history
             /\ T.gui = S.gui /\ T.trip = S.trip
             /\ T.handle[h] = r /\ \A g \in Handle \ {h} : T.handle[g] = S.handle[g]
BY DEF States, PutRec

LEMMA PutGuiFields ==
  ASSUME NEW S \in States, NEW x \in BOOLEAN
  PROVE  LET T == PutGui(S, x)
         IN  /\ T \in States /\ T.open = S.open /\ T.bw = S.bw /\ T.history = S.history
             /\ T.handle = S.handle /\ T.trip = S.trip /\ T.gui = x
BY DEF States, PutGui

LEMMA PutTripFields ==
  ASSUME NEW S \in States, NEW t \in {"none", "going", "lost"}
  PROVE  LET T == PutTrip(S, t)
         IN  /\ T \in States /\ T.open = S.open /\ T.bw = S.bw /\ T.history = S.history
             /\ T.handle = S.handle /\ T.gui = S.gui /\ T.trip = t
BY DEF States, PutTrip

(* A field of a handle that a window keeps, or gives up. *)
Kept(a, b, D) ==
  /\ a.loading \in D \cup {0} \/ b.loading = a.loading
  /\ a.current \in D \cup {0} \/ b.current = a.current
  /\ a.lfav \in D \cup {0} \/ b.lfav = a.lfav
  /\ a.cfav \in D \cup {0} \/ b.cfav = a.cfav

LEMMA OwnedChange ==
  ASSUME NEW S \in States, NEW T \in States, Owned(S),
         NEW W \in SUBSET Window, NEW D \in SUBSET Handle,
         \A v \in Window \ W : T.bw[v] = S.bw[v],
         \A g \in Handle \ D : T.handle[g] = S.handle[g],
         \A h \in D : S.handle[h] = Free \/ S.handle[h].win \in W,
         \A h \in D : T.handle[h] = Free \/
            (T.handle[h].win \in W /\ Stands(T.bw[T.handle[h].win], T.handle[h], h, T.handle[h].win)),
         \A w \in W : Keeps(T.bw[w], T.handle, w) /\ Kept(S.bw[w], T.bw[w], D)
  PROVE  Owned(T)
<1>1. ASSUME NEW v \in Window PROVE Keeps(T.bw[v], T.handle, v)
  <2>1. CASE v \in W
    BY <2>1
  <2>2. CASE v \notin W
    <3>1. T.bw[v] = S.bw[v] /\ Keeps(S.bw[v], S.handle, v) /\ S.bw[v] \in Fieldset
      BY <2>2, StateFields DEF Owned
    <3>2. ASSUME NEW g \in Handle, S.handle[g].win = v PROVE T.handle[g] = S.handle[g]
      BY <2>2, <3>2, Names DEF Free
    <3>3. \A g \in {S.bw[v].loading, S.bw[v].current, S.bw[v].lfav, S.bw[v].cfav} : g = 0 \/ g \in Handle
      BY <3>1, WindowFields
    <3>4. Keeps(S.bw[v], T.handle, v)
      BY <3>1, <3>2, <3>3 DEF Keeps, Loads, Shows, FetchesIcon, ShowsIcon
    <3> QED BY <3>1, <3>4
  <2> QED BY <2>1, <2>2
<1>2. ASSUME NEW h \in Handle, T.handle[h] # Free
      PROVE  /\ T.handle[h].win \in Window
             /\ Stands(T.bw[T.handle[h].win], T.handle[h], h, T.handle[h].win)
  <2>1. CASE h \in D
    BY <1>2, <2>1
  <2>2. CASE h \notin D
    <3> DEFINE w == S.handle[h].win
    <3>1. T.handle[h] = S.handle[h] /\ w \in Window /\ Stands(S.bw[w], S.handle[h], h, w)
      BY <1>2, <2>2 DEF Owned
    <3>2. h # 0
      BY Names
    <3>3. Stands(T.bw[w], S.handle[h], h, w)
      <4>1. CASE w \in W
        <5>1. Kept(S.bw[w], T.bw[w], D)
          BY <4>1
        <5> HIDE DEF w
        <5> QED BY <2>2, <3>1, <3>2, <5>1 DEF Kept, Stands
      <4>2. CASE w \notin W
        BY <3>1, <4>2
      <4> QED BY <4>1, <4>2
    <3> QED BY <3>1, <3>3
  <2> QED BY <2>1, <2>2
<1> QED BY <1>1, <1>2 DEF Owned

LEMMA OwnedLocal ==
  ASSUME NEW S \in States, NEW T \in States, Owned(S), NEW w \in Window, NEW D \in SUBSET Handle,
         \A v \in Window \ {w} : T.bw[v] = S.bw[v],
         \A g \in Handle \ D : T.handle[g] = S.handle[g],
         \A h \in D : S.handle[h] = Free \/ S.handle[h].win = w,
         \A h \in D : T.handle[h] = Free \/
            (T.handle[h].win = w /\ Stands(T.bw[w], T.handle[h], h, w)),
         Keeps(T.bw[w], T.handle, w), Kept(S.bw[w], T.bw[w], D)
  PROVE  Owned(T)
<1> DEFINE W == {w}
<1>1. W \in SUBSET Window /\ \A v : v \in W <=> v = w
  OBVIOUS
<1>2. \A v \in Window \ W : T.bw[v] = S.bw[v]
  OBVIOUS
<1> HIDE DEF W
<1>3. /\ \A h \in D : S.handle[h] = Free \/ S.handle[h].win \in W
      /\ \A h \in D : T.handle[h] = Free \/
            (T.handle[h].win \in W /\ Stands(T.bw[T.handle[h].win], T.handle[h], h, T.handle[h].win))
  BY <1>1
<1>4. \A v \in W : Keeps(T.bw[v], T.handle, v) /\ Kept(S.bw[v], T.bw[v], D)
  BY <1>1
<1> QED BY <1>1, <1>2, <1>3, <1>4, OwnedChange

LEMMA OwnedOne ==
  ASSUME NEW S \in States, NEW T \in States, Owned(S), NEW w \in Window, NEW h \in Handle,
         \A v \in Window \ {w} : T.bw[v] = S.bw[v],
         \A g \in Handle \ {h} : T.handle[g] = S.handle[g],
         S.handle[h] = Free \/ S.handle[h].win = w,
         T.handle[h] = Free \/ (T.handle[h].win = w /\ Stands(T.bw[w], T.handle[h], h, w)),
         Keeps(T.bw[w], T.handle, w), Kept(S.bw[w], T.bw[w], {h})
  PROVE  Owned(T)
<1> DEFINE D == {h}
<1>1. D \in SUBSET Handle /\ \A g : g \in D <=> g = h
  OBVIOUS
<1>2. (\A g \in Handle \ D : T.handle[g] = S.handle[g]) /\ Kept(S.bw[w], T.bw[w], D)
  OBVIOUS
<1> HIDE DEF D
<1> QED BY <1>1, <1>2, OwnedLocal

(* Only window w changes, and of the handles in use those of D. *)
Local(S, T, w, D) ==
  /\ T \in States /\ Owned(T) /\ T.open = S.open /\ T.history = S.history
  /\ \A v \in Window \ {w} : T.bw[v] = S.bw[v]
  /\ \A g \in Handle \ D : S.handle[g] # Free => T.handle[g] = S.handle[g]

LEMMA ReleaseFields ==
  ASSUME NEW S \in States, NEW h \in Handle
  PROVE  LET T == hlcache_handle_release(S, h)
         IN  /\ T \in States /\ T.open = S.open /\ T.bw = S.bw /\ T.history = S.history
             /\ T.gui = S.gui /\ T.trip = S.trip
             /\ T.handle[h] = Free /\ \A g \in Handle \ {h} : T.handle[g] = S.handle[g]
<1>1. hlcache_handle_release(S, h) = PutRec(S, h, Free)
  BY Names DEF hlcache_handle_release, PutRec
<1> QED BY <1>1, NewTypes, PutRecFields

LEMMA StopThrobberFields ==
  ASSUME NEW S \in States, NEW w \in Window
  PROVE  LET T == browser_window_stop_throbber(S, w)
         IN  /\ T \in States /\ T.open = S.open /\ T.handle = S.handle /\ T.history = S.history
             /\ T.trip = S.trip /\ Alike(T.bw[w], S.bw[w], {"throbbing"}) /\ ~T.bw[w].throbbing
             /\ \A v \in Window \ {w} : T.bw[v] = S.bw[v]
             /\ T.gui = (S.gui /\ \E v \in S.open \ {w} : S.bw[v].throbbing)
<1> DEFINE b == Throb(S.bw[w], FALSE)
           x == (\E v \in S.open \ {w} : S.bw[v].throbbing) /\ S.gui
<1>1. browser_window_stop_throbber(S, w) = PutGui(PutWin(S, w, b), x)
  BY DEF browser_window_stop_throbber, PutGui, PutWin, Throb
<1>2. Alike(b, S.bw[w], {"throbbing"}) /\ ~b.throbbing /\ b \in Fieldset
  BY StateFields, ThrobFields DEF Alike
<1>3. x \in BOOLEAN
  OBVIOUS
<1> HIDE DEF b
<1>4. x <=> (S.gui /\ \E v \in S.open \ {w} : S.bw[v].throbbing)
  OBVIOUS
<1> HIDE DEF x
<1>5. PutWin(S, w, b) \in States
  BY <1>2, PutWinFields
<1> QED BY <1>1, <1>2, <1>3, <1>4, <1>5, PutWinFields, PutGuiFields, SMTT(30)

LEMMA StartThrobberFields ==
  ASSUME NEW S \in States, NEW w \in Window
  PROVE  LET T == browser_window_start_throbber(S, w)
         IN  /\ T \in States /\ T.open = S.open /\ T.handle = S.handle /\ T.history = S.history
             /\ T.trip = S.trip /\ Alike(T.bw[w], S.bw[w], {"throbbing"}) /\ T.bw[w].throbbing
             /\ \A v \in Window \ {w} : T.bw[v] = S.bw[v]
             /\ T.gui = TRUE
<1> DEFINE b == Throb(S.bw[w], TRUE)
           x == TRUE
<1>1. browser_window_start_throbber(S, w) = PutGui(PutWin(S, w, b), x)
  BY DEF browser_window_start_throbber, PutGui, PutWin, Throb
<1>2. Alike(b, S.bw[w], {"throbbing"}) /\ b.throbbing /\ b \in Fieldset
  BY StateFields, ThrobFields DEF Alike
<1>4. x \in BOOLEAN /\ x = TRUE
  OBVIOUS
<1> HIDE DEF b, x
<1>3. PutWin(S, w, b) \in States
  BY <1>2, PutWinFields
<1>5. LET U == PutWin(S, w, b)
      IN  /\ U.open = S.open /\ U.handle = S.handle /\ U.history = S.history
          /\ U.trip = S.trip /\ U.bw[w] = b /\ \A v \in Window \ {w} : U.bw[v] = S.bw[v]
  BY <1>2, PutWinFields
<1> DEFINE U == PutWin(S, w, b)
<1> HIDE DEF U
<1>6. LET T == PutGui(U, x)
      IN  /\ T \in States /\ T.open = U.open /\ T.handle = U.handle /\ T.history = U.history
          /\ T.trip = U.trip /\ T.bw = U.bw /\ T.gui = x
  BY <1>3, <1>4, PutGuiFields DEF U
<1> QED BY <1>1, <1>2, <1>4, <1>5, <1>6, ZenonT(40) DEF U

(* A handle is retrieved into an empty field. *)
LEMMA RetrievePage ==
  ASSUME NEW S \in States, Owned(S), NEW w \in Window, NEW p \in Pages(w), S.bw[w].loading = 0
  PROVE  LET T == Retrieve(S, w, "loading", p)
         IN  /\ Local(S, T, w, {}) /\ T.gui = S.gui /\ T.trip = S.trip
             /\ Alike(T.bw[w], S.bw[w], {"loading"}) /\ T.bw[w].loading # 0
             /\ T.handle[T.bw[w].loading].page = p
<1> DEFINE h == NextFree(S)
           r == [win |-> w, page |-> p, status |-> "fetching"]
           b == Load(S.bw[w], h)
           U == PutRec(S, h, r)
           T == PutWin(U, w, b)
<1>1. h \in Handle /\ S.handle[h] = Free /\ h # 0
  BY FreshHandle, Names
<1>2. Retrieve(S, w, "loading", p) = T
  <2>1. U.bw = S.bw
    BY DEF PutRec, States
  <2> HIDE DEF h, r
  <2>2. Retrieve(S, w, "loading", p) = [U EXCEPT !.bw[w].loading = h]
    BY DEF Retrieve, PutRec, h, r
  <2> HIDE DEF U
  <2> QED BY <2>1, <2>2 DEF PutWin, Load
<1>3. r \in Records /\ Loads(r, w) /\ r.win = w /\ r # Free
  BY Names DEF Records, Statuses, Loads, Pages, Free
<1>4. S.bw[w] \in Fieldset
  BY StateFields
<1> HIDE DEF h
<1>5. Alike(b, S.bw[w], {"loading"}) /\ b.loading = h /\ b \in Fieldset
  BY <1>1, <1>4, LoadFields DEF Alike
<1> HIDE DEF r, b
<1>6. /\ U \in States /\ U.open = S.open /\ U.bw = S.bw /\ U.history = S.history
      /\ U.gui = S.gui /\ U.trip = S.trip
      /\ U.handle[h] = r /\ \A g \in Handle \ {h} : U.handle[g] = S.handle[g]
  BY <1>1, <1>3, PutRecFields
<1> HIDE DEF U
<1>7. /\ T \in States /\ T.open = S.open /\ T.history = S.history /\ T.gui = S.gui /\ T.trip = S.trip
      /\ T.bw[w] = b /\ \A v \in Window \ {w} : T.bw[v] = S.bw[v]
      /\ T.handle[h] = r /\ \A g \in Handle \ {h} : T.handle[g] = S.handle[g]
  BY <1>5, <1>6, PutWinFields
<1> HIDE DEF T
<1>8. Owned(T)
  <2>1. Keeps(b, T.handle, w)
    <3>1. Keeps(S.bw[w], S.handle, w)
      BY DEF Owned
    <3>2. \A g \in Handle : Shows(S.handle[g], w) \/ FetchesIcon(S.handle[g], w) \/ ShowsIcon(S.handle[g], w)
                              => g # h
      BY <1>1, Names DEF Shows, FetchesIcon, ShowsIcon, Free
    <3> QED BY <1>3, <1>4, <1>5, <1>7, <3>1, <3>2, WindowFields DEF Keeps, Alike
  <2>2. Kept(S.bw[w], b, {h})
    BY <1>5 DEF Kept, Alike
  <2>3. Stands(b, r, h, w)
    BY <1>3, <1>5 DEF Stands
  <2> QED BY <1>1, <1>3, <1>7, <2>1, <2>2, <2>3, OwnedOne
<1> QED BY <1>1, <1>2, <1>3, <1>5, <1>7, <1>8 DEF Local, r

LEMMA RetrieveIcon ==
  ASSUME NEW S \in States, Owned(S), S.bw[Root].lfav = 0
  PROVE  LET T == Retrieve(S, Root, "lfav", NULL)
         IN  /\ Local(S, T, Root, {}) /\ T.gui = S.gui /\ T.trip = S.trip
             /\ Alike(T.bw[Root], S.bw[Root], {"lfav"})
<1> DEFINE w == Root
           h == NextFree(S)
           r == [win |-> w, page |-> NULL, status |-> "fetching"]
           b == LoadIcon(S.bw[w], h)
           U == PutRec(S, h, r)
           T == PutWin(U, w, b)
<1>1. h \in Handle /\ S.handle[h] = Free /\ h # 0 /\ w \in Window
  BY FreshHandle, Names
<1>2. Retrieve(S, w, "lfav", NULL) = T
  <2>1. U.bw = S.bw
    BY DEF PutRec, States
  <2> HIDE DEF h, r, w
  <2>2. Retrieve(S, w, "lfav", NULL) = [U EXCEPT !.bw[w].lfav = h]
    BY DEF Retrieve, PutRec, h, r
  <2> HIDE DEF U
  <2> QED BY <2>1, <2>2 DEF PutWin, LoadIcon
<1>3. r \in Records /\ FetchesIcon(r, w) /\ r.win = w /\ r # Free
  BY Names DEF Records, Statuses, FetchesIcon, Free
<1>4. S.bw[w] \in Fieldset
  BY <1>1, StateFields
<1> HIDE DEF h, w
<1>5. Alike(b, S.bw[w], {"lfav"}) /\ b.lfav = h /\ b \in Fieldset
  BY <1>1, <1>4, LoadIconFields DEF Alike
<1> HIDE DEF r, b
<1>6. /\ U \in States /\ U.open = S.open /\ U.bw = S.bw /\ U.history = S.history
      /\ U.gui = S.gui /\ U.trip = S.trip
      /\ U.handle[h] = r /\ \A g \in Handle \ {h} : U.handle[g] = S.handle[g]
  BY <1>1, <1>3, PutRecFields
<1> HIDE DEF U
<1>7. /\ T \in States /\ T.open = S.open /\ T.history = S.history /\ T.gui = S.gui /\ T.trip = S.trip
      /\ T.bw[w] = b /\ \A v \in Window \ {w} : T.bw[v] = S.bw[v]
      /\ T.handle[h] = r /\ \A g \in Handle \ {h} : T.handle[g] = S.handle[g]
  BY <1>1, <1>5, <1>6, PutWinFields
<1> HIDE DEF T
<1>8. Owned(T)
  <2>1. Keeps(b, T.handle, w)
    <3>1. Keeps(S.bw[w], S.handle, w)
      BY <1>1 DEF Owned
    <3>2. \A g \in Handle : Shows(S.handle[g], w) \/ Loads(S.handle[g], w) \/ ShowsIcon(S.handle[g], w)
                              => g # h
      BY <1>1, Names DEF Shows, Loads, ShowsIcon, Free
    <3> QED BY <1>3, <1>4, <1>5, <1>7, <3>1, <3>2, WindowFields DEF Keeps, Alike
  <2>2. Kept(S.bw[w], b, {h})
    BY <1>5 DEF Kept, Alike, w
  <2>3. Stands(b, r, h, w)
    BY <1>3, <1>5 DEF Stands
  <2> QED BY <1>1, <1>3, <1>7, <2>1, <2>2, <2>3, OwnedOne
<1> QED BY <1>1, <1>2, <1>5, <1>7, <1>8 DEF Local, w

LEMMA LocalTwice ==
  ASSUME NEW S, NEW T, NEW U, NEW w, NEW D, NEW F, Local(S, T, w, D), Local(T, U, w, F)
  PROVE  Local(S, U, w, D \cup F)
BY DEF Local

(* A change of a window record that no handle is part of. *)
LEMMA OwnedFields ==
  ASSUME NEW S \in States, Owned(S), NEW w \in Window, NEW T \in States,
         T.handle = S.handle, T.open = S.open, T.history = S.history,
         \A v \in Window \ {w} : T.bw[v] = S.bw[v],
         Alike(T.bw[w], S.bw[w], {"throbbing", "add", "refresh"})
  PROVE  Local(S, T, w, {})
<1>1. Keeps(S.bw[w], S.handle, w)
  BY DEF Owned
<1>2. Keeps(T.bw[w], T.handle, w) /\ Kept(S.bw[w], T.bw[w], {})
  BY <1>1 DEF Keeps, Kept, Alike
<1>3. Owned(T)
  <2> DEFINE D == {}
  <2>1. D \in SUBSET Handle /\ \A h : h \notin D
    OBVIOUS
  <2>2. Kept(S.bw[w], T.bw[w], D)
    BY <1>2
  <2> HIDE DEF D
  <2> QED BY <1>2, <2>1, <2>2, OwnedLocal
<1> QED BY <1>3 DEF Local

LEMMA FaviconFields ==
  ASSUME NEW S \in States, Owned(S), NEW w \in Window, NEW icon \in Icons(w)
  PROVE  LET T == browser_window_update_favicon(S, w, icon)
         IN  /\ Local(S, T, w, {}) /\ T.gui = S.gui /\ T.trip = S.trip
             /\ Alike(T.bw[w], S.bw[w], {"lfav"})
<1> DEFINE T == browser_window_update_favicon(S, w, icon)
<1>1. S.bw[w] \in Fieldset /\ Alike(S.bw[w], S.bw[w], {}) /\ Local(S, S, w, {})
  BY StateFields DEF Alike, Local
<1>2. CASE w # Root \/ S.bw[w].lfav # 0
  BY <1>1, <1>2 DEF browser_window_update_favicon, Alike
<1>3. CASE w = Root /\ S.bw[w].lfav = 0
  <2> DEFINE x == (icon = "default")
             b == FailIcon(S.bw[w], x)
             U == PutWin(S, w, b)
  <2>1. T = IF icon = "none" THEN U ELSE Retrieve(U, Root, "lfav", NULL)
    BY <1>3 DEF browser_window_update_favicon, PutWin, FailIcon
  <2>2. x \in BOOLEAN
    OBVIOUS
  <2> HIDE DEF x
  <2>3. Alike(b, S.bw[w], {}) /\ b \in Fieldset
    BY <1>1, <2>2, FailIconFields DEF Alike
  <2> HIDE DEF b
  <2>4. /\ U \in States /\ U.open = S.open /\ U.handle = S.handle /\ U.history = S.history
        /\ U.gui = S.gui /\ U.trip = S.trip
        /\ U.bw[w] = b /\ \A v \in Window \ {w} : U.bw[v] = S.bw[v]
    BY <2>3, PutWinFields
  <2> HIDE DEF U
  <2>5. Local(S, U, w, {})
    <3>1. Alike(U.bw[w], S.bw[w], {"throbbing", "add", "refresh"})
      BY <2>3, <2>4 DEF Alike
    <3> QED BY <2>4, <3>1, OwnedFields
  <2>6. CASE icon = "none"
    BY <2>1, <2>3, <2>4, <2>5, <2>6 DEF Alike
  <2>7. CASE icon # "none"
    <3> DEFINE V == Retrieve(U, Root, "lfav", NULL)
    <3>1. U.bw[Root].lfav = 0 /\ Owned(U)
      BY <1>3, <2>3, <2>4, <2>5 DEF Alike, Local
    <3>2. Local(U, V, w, {}) /\ V.gui = U.gui /\ V.trip = U.trip /\ Alike(V.bw[w], U.bw[w], {"lfav"})
      BY <1>3, <2>4, <3>1, RetrieveIcon
    <3> HIDE DEF V
    <3>3. Local(S, V, w, {})
      BY <2>5, <3>2 DEF Local
    <3>4. Alike(V.bw[w], S.bw[w], {"lfav"})
      BY <2>3, <2>4, <3>2 DEF Alike
    <3> QED BY <2>1, <2>4, <2>7, <3>2, <3>3, <3>4 DEF V
  <2> HIDE DEF T
  <2> QED BY <2>6, <2>7 DEF T
<1> QED BY <1>2, <1>3

(* The content of a handle goes on. *)
Reports(r, s) == [r EXCEPT !.status = s]

LEMMA ReportsFields ==
  ASSUME NEW r \in Records, NEW s \in Statuses
  PROVE  LET q == Reports(r, s)
         IN  q \in Records /\ q.win = r.win /\ q.page = r.page /\ q.status = s
BY DEF Records, Reports

LEMMA ShownDoneFields ==
  ASSUME NEW S \in States, Owned(S), NEW w \in Window, NEW icon \in Icons(w), S.bw[w].current # 0
  PROVE  LET T == ShownDone(S, w, icon)
             h == S.bw[w].current
         IN  /\ Local(S, T, w, {h}) /\ T.trip = S.trip
             /\ T.handle[h].page = S.handle[h].page /\ T.handle[h].status = "DONE"
             /\ Alike(T.bw[w], S.bw[w], {"lfav", "throbbing", "refresh"}) /\ ~T.bw[w].throbbing
             /\ T.gui = (S.gui /\ \E v \in S.open \ {w} : S.bw[v].throbbing)
<1> DEFINE h == S.bw[w].current
           r == Reports(S.handle[h], "DONE")
           P == PutRec(S, h, r)
           U == browser_window_stop_throbber(P, w)
           V == browser_window_update_favicon(U, w, icon)
           x == V.bw[w].refresh \/ V.bw[w].interval
           b == Schedule(V.bw[w], x)
           T == PutWin(V, w, b)
<1>1. h \in Handle /\ S.handle[h] \in Records /\ S.bw[w] \in Fieldset /\ Shows(S.handle[h], w)
  <2>1. S.bw[w] \in Fieldset /\ Keeps(S.bw[w], S.handle, w)
    BY StateFields DEF Owned
  <2> QED BY <2>1, WindowFields, StateFields DEF Keeps
<1>2. ShownDone(S, w, icon) = T
  BY DEF ShownDone, PutRec, PutWin, Schedule, Reports
<1> HIDE DEF h
<1>3. r \in Records /\ Shows(r, w) /\ r.win = w /\ r.page = S.handle[h].page /\ r.status = "DONE"
  <2>1. "DONE" \in Statuses
    BY DEF Statuses
  <2> QED BY <1>1, <2>1, ReportsFields DEF Shows
<1> HIDE DEF r
<1>4. /\ P \in States /\ P.open = S.open /\ P.bw = S.bw /\ P.history = S.history
      /\ P.gui = S.gui /\ P.trip = S.trip
      /\ P.handle[h] = r /\ \A g \in Handle \ {h} : P.handle[g] = S.handle[g]
  BY <1>1, <1>3, PutRecFields
<1> HIDE DEF P
<1>5. Owned(P)
  <2>1. Keeps(S.bw[w], S.handle, w)
    BY DEF Owned
  <2>2. \A g \in Handle : Loads(S.handle[g], w) \/ FetchesIcon(S.handle[g], w) \/ ShowsIcon(S.handle[g], w)
                            => g # h
    BY <1>1, Names DEF Shows, Loads, FetchesIcon, ShowsIcon, Pages
  <2>3. Keeps(P.bw[w], P.handle, w)
    BY <1>1, <1>3, <1>4, <2>1, <2>2, WindowFields DEF Keeps, h
  <2>4. Kept(S.bw[w], P.bw[w], {h}) /\ Stands(P.bw[w], r, h, w)
    BY <1>3, <1>4 DEF Kept, Stands, h
  <2>5. S.handle[h].win = w
    BY <1>1 DEF Shows
  <2> QED BY <1>1, <1>3, <1>4, <2>3, <2>4, <2>5, OwnedOne
<1>6. /\ U \in States /\ U.open = P.open /\ U.handle = P.handle /\ U.history = P.history
      /\ U.trip = P.trip /\ Alike(U.bw[w], P.bw[w], {"throbbing"}) /\ ~U.bw[w].throbbing
      /\ \A v \in Window \ {w} : U.bw[v] = P.bw[v]
      /\ U.gui = (P.gui /\ \E v \in P.open \ {w} : P.bw[v].throbbing)
  BY <1>4, StopThrobberFields
<1> HIDE DEF U
<1>7. Local(P, U, w, {})
  <2>1. Alike(U.bw[w], P.bw[w], {"throbbing", "add", "refresh"})
    BY <1>6 DEF Alike
  <2> QED BY <1>4, <1>5, <1>6, <2>1, OwnedFields
<1>8. /\ Local(U, V, w, {}) /\ V.gui = U.gui /\ V.trip = U.trip
      /\ Alike(V.bw[w], U.bw[w], {"lfav"}) /\ V \in States
  BY <1>6, <1>7, FaviconFields DEF Local
<1> HIDE DEF V
<1>9. x \in BOOLEAN /\ V.bw[w] \in Fieldset
  BY <1>8, StateFields
<1> HIDE DEF x
<1>10. Alike(b, V.bw[w], {"refresh"}) /\ b \in Fieldset
  BY <1>9, ScheduleFields DEF Alike
<1> HIDE DEF b
<1>11. /\ T \in States /\ T.open = V.open /\ T.handle = V.handle /\ T.history = V.history
       /\ T.gui = V.gui /\ T.trip = V.trip
       /\ T.bw[w] = b /\ \A v \in Window \ {w} : T.bw[v] = V.bw[v]
  BY <1>8, <1>10, PutWinFields
<1> HIDE DEF T
<1>12. Local(V, T, w, {})
  <2>1. Alike(T.bw[w], V.bw[w], {"throbbing", "add", "refresh"})
    BY <1>10, <1>11 DEF Alike
  <2> QED BY <1>8, <1>11, <2>1, OwnedFields DEF Local
<1>13. Alike(T.bw[w], S.bw[w], {"lfav", "throbbing", "refresh"}) /\ ~T.bw[w].throbbing
  BY <1>4, <1>6, <1>8, <1>10, <1>11 DEF Alike
<1>14. T.handle[h] = r
  <2>1. U.handle[h] = r /\ r # Free
    BY <1>3, <1>4, <1>6, Names DEF Free
  <2> QED BY <1>1, <1>8, <1>11, <2>1 DEF Local
<1>15. Local(S, T, w, {h})
  BY <1>4, <1>7, <1>8, <1>12 DEF Local
<1>16. T.gui = (S.gui /\ \E v \in S.open \ {w} : S.bw[v].throbbing) /\ T.trip = S.trip
  BY <1>4, <1>6, <1>8, <1>11
<1> QED BY <1>2, <1>3, <1>13, <1>14, <1>15, <1>16 DEF h

(* A page that was loading is given up. *)
LEMMA DropLoading ==
  ASSUME NEW S \in States, Owned(S), NEW w \in Window, S.bw[w].loading # 0,
         NEW T \in States, NEW h, h = S.bw[w].loading,
         T.open = S.open, T.history = S.history,
         \A v \in Window \ {w} : T.bw[v] = S.bw[v],
         Alike(T.bw[w], S.bw[w], {"loading"}), T.bw[w].loading = 0,
         T.handle[h] = Free, \A g \in Handle \ {h} : T.handle[g] = S.handle[g]
  PROVE  Local(S, T, w, {h})
<1>1. h \in Handle /\ S.bw[w] \in Fieldset /\ Keeps(S.bw[w], S.handle, w)
  BY StateFields, WindowFields DEF Owned
<1>2. Loads(S.handle[h], w)
  BY <1>1 DEF Keeps
<1>3. \A g \in Handle : Shows(S.handle[g], w) \/ FetchesIcon(S.handle[g], w) \/ ShowsIcon(S.handle[g], w)
                          => g # h
  BY <1>2, Names DEF Shows, Loads, FetchesIcon, ShowsIcon, Pages
<1>4. Keeps(T.bw[w], T.handle, w)
  BY <1>1, <1>3, WindowFields DEF Keeps, Alike
<1>5. Kept(S.bw[w], T.bw[w], {h}) /\ S.handle[h].win = w
  BY <1>2 DEF Kept, Alike, Loads
<1>6. Owned(T)
  BY <1>1, <1>4, <1>5, OwnedOne
<1> QED BY <1>6 DEF Local

GiveUp(S, w) == [Lost(hlcache_handle_release(S, S.bw[w].loading), w) EXCEPT !.bw[w].loading = 0]

LEMMA GiveUpFields ==
  ASSUME NEW S \in States, Owned(S), NEW w \in Window, S.bw[w].loading # 0
  PROVE  LET T == GiveUp(S, w)
         IN  /\ Local(S, T, w, {S.bw[w].loading}) /\ T.gui = S.gui
             /\ T.trip = IF w = Root /\ S.trip = "going" THEN "lost" ELSE S.trip
             /\ Alike(T.bw[w], S.bw[w], {"loading"}) /\ T.bw[w].loading = 0
<1> DEFINE h == S.bw[w].loading
           t == IF w = Root /\ S.trip = "going" THEN "lost" ELSE S.trip
           b == Load(S.bw[w], 0)
           U == hlcache_handle_release(S, h)
           V == PutTrip(U, t)
           T == PutWin(V, w, b)
<1>1. h \in Handle /\ S.bw[w] \in Fieldset /\ h = S.bw[w].loading /\ S.trip \in {"none", "going", "lost"}
  BY StateFields, WindowFields
<1>2. Alike(b, S.bw[w], {"loading"}) /\ b.loading = 0 /\ b \in Fieldset
  BY <1>1, LoadFields DEF Alike
<1>3. t \in {"none", "going", "lost"} /\ t = IF w = Root /\ S.trip = "going" THEN "lost" ELSE S.trip
  BY <1>1
<1> HIDE DEF h
<1>4. /\ U \in States /\ U.open = S.open /\ U.bw = S.bw /\ U.history = S.history
      /\ U.gui = S.gui /\ U.trip = S.trip
      /\ U.handle[h] = Free /\ \A g \in Handle \ {h} : U.handle[g] = S.handle[g]
  BY <1>1, ReleaseFields
<1> HIDE DEF U
<1>5. GiveUp(S, w) = T
  <2>1. [Lost(U, w) EXCEPT !.bw[w].loading = 0] = [V EXCEPT !.bw[w].loading = 0]
    <3>1. Lost(U, w) = V
      <4>1. CASE w = Root /\ S.trip = "going"
        BY <4>1, <1>4 DEF Lost, PutTrip
      <4>2. CASE ~(w = Root /\ S.trip = "going")
        BY <4>2, <1>4 DEF Lost, PutTrip, States
      <4> QED BY <4>1, <4>2
    <3> QED BY <3>1
  <2>2. V.bw = S.bw
    BY <1>4 DEF PutTrip, States
  <2>3. GiveUp(S, w) = [Lost(U, w) EXCEPT !.bw[w].loading = 0]
    BY DEF GiveUp, U, h
  <2> HIDE DEF V
  <2> QED BY <2>1, <2>2, <2>3 DEF PutWin, Load
<1> HIDE DEF b, t
<1>6. /\ V \in States /\ V.open = U.open /\ V.bw = U.bw /\ V.history = U.history
      /\ V.handle = U.handle /\ V.gui = U.gui /\ V.trip = t
  BY <1>3, <1>4, PutTripFields
<1> HIDE DEF V
<1>7. /\ T \in States /\ T.open = V.open /\ T.handle = V.handle /\ T.history = V.history
      /\ T.gui = V.gui /\ T.trip = V.trip
      /\ T.bw[w] = b /\ \A v \in Window \ {w} : T.bw[v] = V.bw[v]
  BY <1>2, <1>6, PutWinFields
<1> HIDE DEF T
<1>8. Local(S, T, w, {h})
  BY <1>1, <1>2, <1>4, <1>6, <1>7, DropLoading
<1> QED BY <1>2, <1>3, <1>4, <1>5, <1>6, <1>7, <1>8 DEF h

(* The front end's throbber runs while some window's does. *)
Runs(S) == S.gui = \E v \in S.open : S.bw[v].throbbing

LEMMA StopContentsFields ==
  ASSUME NEW S \in States, Owned(S), NEW w \in Window, NEW icon \in Icons(w), NEW later
  PROVE  LET T == StopContents(S, w, icon, later)
             c == S.bw[w].current
         IN  /\ Local(S, T, w, {S.bw[w].loading, c})
             /\ Runs(S) => Runs(T)
             /\ T.trip = IF w = Root /\ S.trip = "going" /\ S.bw[w].loading # 0 THEN "lost" ELSE S.trip
             /\ Alike(T.bw[w], S.bw[w], {"loading", "lfav", "throbbing", "refresh"})
             /\ T.bw[w].loading = 0 /\ ~T.bw[w].refresh
             /\ c # 0 => T.handle[c].page = S.handle[c].page
<1> DEFINE c == S.bw[w].current
           l == S.bw[w].loading
           t == IF w = Root /\ S.trip = "going" /\ l # 0 THEN "lost" ELSE S.trip
           A == IF l = 0 THEN S ELSE GiveUp(S, w)
           B == IF c # 0 /\ A.handle[c].status = "READY" /\ w \notin later THEN ShownDone(A, w, icon) ELSE A
           b == Schedule(B.bw[w], FALSE)
           T == PutWin(B, w, b)
<1>1. S.bw[w] \in Fieldset /\ c \in Handle \cup {0} /\ l \in Handle \cup {0} /\ Keeps(S.bw[w], S.handle, w)
  BY StateFields, WindowFields DEF Owned
<1>2. StopContents(S, w, icon, later) = T
  BY DEF StopContents, PutWin, Schedule, GiveUp
<1>3. /\ Local(S, A, w, {l}) /\ A.gui = S.gui /\ A.trip = t
      /\ Alike(A.bw[w], S.bw[w], {"loading"}) /\ A.bw[w].loading = 0
  <2>1. CASE l = 0
    BY <1>1, <2>1 DEF Local, Alike
  <2>2. CASE l # 0
    BY <2>2, GiveUpFields
  <2> QED BY <2>1, <2>2
<1>4. c # 0 => c \in Handle /\ c # l /\ S.handle[c] # Free /\ A.handle[c] = S.handle[c]
  <2>1. c # 0 => c \in Handle /\ Shows(S.handle[c], w)
    BY <1>1 DEF Keeps
  <2>2. c # 0 => c # l /\ S.handle[c] # Free
    BY <1>1, <2>1, Names DEF Keeps, Shows, Loads, Free
  <2> HIDE DEF A, c, l
  <2> QED BY <1>3, <2>1, <2>2 DEF Local
<1>5. Runs(S) => Runs(A)
  <2> HIDE DEF A
  <2>1. \A v \in S.open : A.bw[v].throbbing = S.bw[v].throbbing /\ A.open = S.open
    BY <1>3, StateFields DEF Local, Alike
  <2>2. A.open = S.open
    BY <1>3 DEF Local
  <2> QED BY <1>3, <2>1, <2>2 DEF Runs
<1> HIDE DEF A, t
<1>6. /\ Local(A, B, w, {c}) /\ B.trip = t
      /\ Alike(B.bw[w], S.bw[w], {"loading", "lfav", "throbbing", "refresh"}) /\ B.bw[w].loading = 0
      /\ c # 0 => B.handle[c].page = S.handle[c].page
      /\ Runs(A) => Runs(B)
  <2>1. CASE c # 0 /\ A.handle[c].status = "READY" /\ w \notin later
    <3>1. A \in States /\ Owned(A) /\ A.bw[w].current = c
      BY <1>3 DEF Local, Alike
    <3>2. /\ Local(A, B, w, {c}) /\ B.trip = A.trip
          /\ B.handle[c].page = A.handle[c].page /\ B.handle[c].status = "DONE"
          /\ Alike(B.bw[w], A.bw[w], {"lfav", "throbbing", "refresh"}) /\ ~B.bw[w].throbbing
          /\ B.gui = (A.gui /\ \E v \in A.open \ {w} : A.bw[v].throbbing)
      <4> DEFINE C == ShownDone(A, w, icon)
      <4>1. B = C
        BY <2>1
      <4>2. /\ Local(A, C, w, {A.bw[w].current}) /\ C.trip = A.trip
            /\ C.handle[A.bw[w].current].page = A.handle[A.bw[w].current].page
            /\ C.handle[A.bw[w].current].status = "DONE"
            /\ Alike(C.bw[w], A.bw[w], {"lfav", "throbbing", "refresh"}) /\ ~C.bw[w].throbbing
            /\ C.gui = (A.gui /\ \E v \in A.open \ {w} : A.bw[v].throbbing)
        BY <2>1, <3>1, ShownDoneFields
      <4> HIDE DEF C, B, c
      <4> QED BY <3>1, <4>1, <4>2
    <3> HIDE DEF B, c
    <3>3. Runs(A) => Runs(B)
      <4>1. B.open = A.open /\ A.open \subseteq Window /\ \A v \in Window \ {w} : B.bw[v] = A.bw[v]
        BY <3>1, <3>2, StateFields DEF Local
      <4> QED BY <3>2, <4>1 DEF Runs
    <3>4. Alike(B.bw[w], S.bw[w], {"loading", "lfav", "throbbing", "refresh"}) /\ B.bw[w].loading = 0
      BY <1>3, <3>2 DEF Alike
    <3> QED BY <1>3, <1>4, <2>1, <3>2, <3>3, <3>4
  <2>2. CASE ~(c # 0 /\ A.handle[c].status = "READY" /\ w \notin later)
    <3>1. B = A
      BY <2>2
    <3>2. Local(A, A, w, {c})
      BY <1>3 DEF Local
    <3>3. Alike(A.bw[w], S.bw[w], {"loading", "lfav", "throbbing", "refresh"})
      BY <1>3 DEF Alike
    <3> HIDE DEF B, c
    <3> QED BY <1>3, <1>4, <2>2, <3>1, <3>2, <3>3
  <2> QED BY <2>1, <2>2
<1> HIDE DEF B
<1>7. B \in States /\ B.bw[w] \in Fieldset
  BY <1>6, StateFields DEF Local
<1>8. Alike(b, B.bw[w], {"refresh"}) /\ ~b.refresh /\ b \in Fieldset
  BY <1>7, ScheduleFields DEF Alike
<1> HIDE DEF b
<1>9. /\ T \in States /\ T.open = B.open /\ T.handle = B.handle /\ T.history = B.history
      /\ T.gui = B.gui /\ T.trip = B.trip
      /\ T.bw[w] = b /\ \A v \in Window \ {w} : T.bw[v] = B.bw[v]
  BY <1>7, <1>8, PutWinFields
<1> HIDE DEF T
<1>10. Local(B, T, w, {})
  <2>1. Alike(T.bw[w], B.bw[w], {"throbbing", "add", "refresh"})
    BY <1>8, <1>9 DEF Alike
  <2>2. Owned(B)
    BY <1>6 DEF Local
  <2> QED BY <1>7, <1>9, <2>1, <2>2, OwnedFields
<1>11. Runs(B) => Runs(T)
  <2>1. \A v \in B.open : T.bw[v].throbbing = B.bw[v].throbbing
    BY <1>7, <1>8, <1>9, StateFields DEF Alike
  <2> QED BY <1>9, <2>1 DEF Runs
<1>12. Alike(T.bw[w], S.bw[w], {"loading", "lfav", "throbbing", "refresh"}) /\ T.bw[w].loading = 0 /\ ~T.bw[w].refresh
  BY <1>6, <1>8, <1>9 DEF Alike
<1>13. Local(S, T, w, {l, c})
  BY <1>3, <1>6, <1>10 DEF Local
<1> QED BY <1>2, <1>5, <1>6, <1>9, <1>11, <1>12, <1>13 DEF c, l, t

-----------------------------------------------------------------------------
(* A record is in one of four situations. *)
LEMMA Exclusive ==
  ASSUME NEW r, NEW u \in Window, NEW v \in Window
  PROVE  /\ Loads(r, u) => ~Shows(r, v) /\ ~FetchesIcon(r, v) /\ ~ShowsIcon(r, v) /\ r # Free
         /\ Shows(r, u) => ~Loads(r, v) /\ ~FetchesIcon(r, v) /\ ~ShowsIcon(r, v) /\ r # Free
         /\ FetchesIcon(r, u) => ~Loads(r, v) /\ ~Shows(r, v) /\ ~ShowsIcon(r, v) /\ r # Free
         /\ ShowsIcon(r, u) => ~Loads(r, v) /\ ~Shows(r, v) /\ ~FetchesIcon(r, v) /\ r # Free
BY Names DEF Loads, Shows, FetchesIcon, ShowsIcon, Free, Pages

PutAll(S, hd, b) == [S EXCEPT !.handle = hd, !.bw = b]

LEMMA PutAllFields ==
  ASSUME NEW S \in States, NEW hd \in [Handle -> Records], NEW b \in [Window -> Fieldset]
  PROVE  LET T == PutAll(S, hd, b)
         IN  /\ T \in States /\ T.open = S.open /\ T.history = S.history
             /\ T.gui = S.gui /\ T.trip = S.trip /\ T.handle = hd /\ T.bw = b
BY DEF States, PutAll

LEMMA StopFramesFields ==
  ASSUME NEW S \in States, Owned(S), NEW W \in SUBSET Window, NEW later
  PROVE  LET T == StopFrames(S, W, later)
         IN  /\ T \in States /\ Owned(T) /\ T.open = S.open /\ T.history = S.history
             /\ T.gui = S.gui /\ T.trip = S.trip
             /\ \A v \in Window \ W : T.bw[v] = S.bw[v]
             /\ \A v \in W : T.bw[v] = Halt(S.bw[v])
             /\ \A g \in Handle : S.handle[g].win \notin W => T.handle[g] = S.handle[g]
             /\ \A v \in W : S.bw[v].current # 0 =>
                  T.handle[S.bw[v].current].page = S.handle[S.bw[v].current].page
<1> DEFINE Stopped(h) == \E v \in W : S.bw[v].loading = h
           Shown(h) == \E v \in W : S.bw[v].current = h
           Ends(h) == \E v \in W \ later : S.bw[v].current = h
           D == {h \in Handle : Stopped(h) \/ Shown(h)}
           hd == [h \in Handle |-> IF Stopped(h) THEN Free
                                   ELSE IF Ends(h) /\ S.handle[h].status = "READY"
                                        THEN Reports(S.handle[h], "DONE") ELSE S.handle[h]]
           b == [v \in Window |-> IF v \in W THEN Halt(S.bw[v]) ELSE S.bw[v]]
           T == PutAll(S, hd, b)
<1>1. StopFrames(S, W, later) = T
  BY DEF StopFrames, PutAll, Reports, Halt
<1>2. ASSUME NEW v \in Window
      PROVE  /\ S.bw[v] \in Fieldset /\ Keeps(S.bw[v], S.handle, v)
             /\ S.bw[v].loading \in Handle \cup {0} /\ S.bw[v].current \in Handle \cup {0}
             /\ S.bw[v].lfav \in Handle \cup {0} /\ S.bw[v].cfav \in Handle \cup {0}
  BY StateFields, WindowFields DEF Owned
<1>3. ASSUME NEW h \in Handle
      PROVE  /\ hd[h] \in Records
             /\ Stopped(h) => hd[h] = Free /\ \E v \in W : Loads(S.handle[h], v)
             /\ Shown(h) => (\E v \in W : Shows(S.handle[h], v))
             /\ Shown(h) /\ ~Stopped(h) => hd[h].win = S.handle[h].win /\ hd[h].page = S.handle[h].page
                                           /\ hd[h].status \in {S.handle[h].status, "DONE"}
             /\ h \notin D => hd[h] = S.handle[h]
  <2>1. "DONE" \in Statuses /\ S.handle[h] \in Records /\ h # 0
    BY StateFields, Names DEF Statuses
  <2>2. LET q == Reports(S.handle[h], "DONE")
        IN q \in Records /\ q.win = S.handle[h].win /\ q.page = S.handle[h].page /\ q.status = "DONE"
    BY <2>1, ReportsFields
  <2>3. Stopped(h) => \E v \in W : Loads(S.handle[h], v)
    BY <1>2, <2>1 DEF Keeps
  <2>4. Shown(h) => \E v \in W : Shows(S.handle[h], v)
    BY <1>2, <2>1 DEF Keeps
  <2>5. hd[h] = IF Stopped(h) THEN Free
                ELSE IF Ends(h) /\ S.handle[h].status = "READY" THEN Reports(S.handle[h], "DONE")
                     ELSE S.handle[h]
    OBVIOUS
  <2>7. Ends(h) => Shown(h)
    OBVIOUS
  <2>6. h \in D <=> Stopped(h) \/ Shown(h)
    OBVIOUS
  <2> HIDE DEF hd, D, Stopped, Shown, Ends
  <2> QED BY <2>1, <2>2, <2>3, <2>4, <2>5, <2>6, <2>7, NewTypes
<1>4. ASSUME NEW v \in Window
      PROVE  /\ b[v] \in Fieldset /\ b[v] = IF v \in W THEN Halt(S.bw[v]) ELSE S.bw[v]
             /\ v \in W => Alike(b[v], S.bw[v], {"loading", "throbbing", "refresh"}) /\ b[v].loading = 0
  BY <1>2, HaltFields DEF Alike
<1>5. hd \in [Handle -> Records] /\ b \in [Window -> Fieldset]
  BY <1>3, <1>4
<1>6. D \in SUBSET Handle /\ \A h \in Handle : h \in D <=> Stopped(h) \/ Shown(h)
  OBVIOUS
<1>13. \A v \in W : /\ S.bw[v].loading # 0 => Stopped(S.bw[v].loading)
                    /\ S.bw[v].current # 0 => Shown(S.bw[v].current)
  OBVIOUS
<1> HIDE DEF hd, b, D, Stopped, Shown, Ends
<1>7. /\ T \in States /\ T.open = S.open /\ T.history = S.history
      /\ T.gui = S.gui /\ T.trip = S.trip /\ T.handle = hd /\ T.bw = b
  BY <1>5, PutAllFields
<1> HIDE DEF T
<1>8. ASSUME NEW h \in Handle, Shown(h)
      PROVE  ~Stopped(h) /\ hd[h].page = S.handle[h].page
             /\ \A v \in W : Shows(S.handle[h], v) => Shows(hd[h], v)
  BY <1>3, <1>8, Exclusive DEF Shows
<1>9. ASSUME NEW h \in D PROVE \E v \in W : S.handle[h].win = v
  BY <1>3, <1>6 DEF Loads, Shows
<1>10. ASSUME NEW v \in W PROVE Keeps(b[v], hd, v) /\ Kept(S.bw[v], b[v], D)
  <2>1. Alike(b[v], S.bw[v], {"loading", "throbbing", "refresh"}) /\ b[v].loading = 0
    BY <1>4
  <2>2. S.bw[v].current # 0 => Shows(hd[S.bw[v].current], v)
    BY <1>2, <1>8, <1>13 DEF Keeps
  <2>3. ASSUME NEW h \in Handle, FetchesIcon(S.handle[h], v) \/ ShowsIcon(S.handle[h], v)
        PROVE  hd[h] = S.handle[h]
    BY <1>3, <1>6, <2>3, Exclusive
  <2>4. S.bw[v].loading # 0 => S.bw[v].loading \in D
    BY <1>2, <1>6, <1>13
  <2> QED BY <1>2, <2>1, <2>2, <2>3, <2>4 DEF Keeps, Kept, Alike
<1>11. ASSUME NEW h \in D
       PROVE  hd[h] = Free \/ (hd[h].win \in W /\ Stands(b[hd[h].win], hd[h], h, hd[h].win))
  <2>1. CASE Stopped(h)
    BY <1>3, <1>6, <2>1
  <2>2. CASE ~Stopped(h)
    <3>1. Shown(h)
      BY <1>6, <2>2
    <3>2. PICK v \in W : S.bw[v].current = h
      BY <3>1 DEF Shown
    <3>3. Shows(S.handle[h], v)
      BY <1>2, <1>6, <3>2, Names DEF Keeps
    <3>4. Shows(hd[h], v)
      BY <1>6, <1>8, <3>1, <3>3
    <3>5. b[v].current = h
      BY <1>4, <3>2 DEF Alike
    <3> QED BY <3>4, <3>5 DEF Shows, Stands
  <2> QED BY <2>1, <2>2
<1>12. Owned(T)
  <2>1. \A v \in Window \ W : T.bw[v] = S.bw[v]
    BY <1>4, <1>7
  <2>2. \A g \in Handle \ D : T.handle[g] = S.handle[g]
    BY <1>3, <1>7
  <2>3. \A h \in D : S.handle[h] = Free \/ S.handle[h].win \in W
    BY <1>9
  <2>4. \A h \in D : T.handle[h] = Free \/
            (T.handle[h].win \in W /\ Stands(T.bw[T.handle[h].win], T.handle[h], h, T.handle[h].win))
    BY <1>7, <1>11
  <2>5. \A v \in W : Keeps(T.bw[v], T.handle, v) /\ Kept(S.bw[v], T.bw[v], D)
    BY <1>7, <1>10
  <2> QED BY <1>6, <1>7, <2>1, <2>2, <2>3, <2>4, <2>5, OwnedChange
<1>14. \A g \in Handle : S.handle[g].win \notin W => T.handle[g] = S.handle[g]
  BY <1>3, <1>7, <1>9
<1>15. \A v \in W : S.bw[v].current # 0 =>
                  T.handle[S.bw[v].current].page = S.handle[S.bw[v].current].page
  BY <1>2, <1>7, <1>8, <1>13
<1> QED BY <1>1, <1>4, <1>7, <1>12, <1>14, <1>15

LEMMA StopFields ==
  ASSUME NEW S \in States, Owned(S), NEW w \in Window, NEW icon \in Icons(w), NEW later
  PROVE  LET T == browser_window_stop(S, w, icon, later)
             K == {w} \cup Children(S, w)
         IN  /\ T \in States /\ Owned(T) /\ T.open = S.open /\ T.history = S.history
             /\ Runs(S) => Runs(T)
             /\ T.trip = IF w = Root /\ S.trip = "going" /\ S.bw[w].loading # 0 THEN "lost" ELSE S.trip
             /\ \A v \in Window \ K : T.bw[v] = S.bw[v]
             /\ \A v \in K : /\ T.bw[v].current = S.bw[v].current /\ T.bw[v].add = S.bw[v].add
                             /\ T.bw[v].loading = 0 /\ ~T.bw[v].throbbing /\ ~T.bw[v].refresh
             /\ \A g \in Handle : S.handle[g] # Free /\ S.handle[g].win \notin K => T.handle[g] = S.handle[g]
             /\ \A v \in K : S.bw[v].current # 0 =>
                  T.handle[S.bw[v].current].page = S.handle[S.bw[v].current].page
<1> DEFINE W == Children(S, w)
           K == {w} \cup W
           l == S.bw[w].loading
           c == S.bw[w].current
           t == IF w = Root /\ S.trip = "going" /\ l # 0 THEN "lost" ELSE S.trip
           A == StopContents(S, w, icon, later)
           B == StopFrames(A, W, later)
           T == browser_window_stop_throbber(B, w)
<1>1. W \in SUBSET Window /\ w \notin W /\ W \subseteq S.open
  BY StateFields, Names DEF Children
<1>2. browser_window_stop(S, w, icon, later) = T
  BY DEF browser_window_stop
<1>3. \A v : v \in K <=> v = w \/ v \in W
  OBVIOUS
<1>4. S.bw[w] \in Fieldset /\ Keeps(S.bw[w], S.handle, w) /\ l \in Handle \cup {0} /\ c \in Handle \cup {0}
  BY StateFields, WindowFields DEF Owned
<1> HIDE DEF W, K
<1>5. /\ Local(S, A, w, {l, c})
      /\ Runs(S) => Runs(A)
      /\ A.trip = t
      /\ Alike(A.bw[w], S.bw[w], {"loading", "lfav", "throbbing", "refresh"})
      /\ A.bw[w].loading = 0 /\ ~A.bw[w].refresh
      /\ c # 0 => A.handle[c].page = S.handle[c].page
  BY StopContentsFields
<1> HIDE DEF A, t
<1>6. A \in States /\ Owned(A) /\ A.open = S.open /\ A.history = S.history
  BY <1>5 DEF Local
<1>7. /\ B \in States /\ Owned(B) /\ B.open = A.open /\ B.history = A.history
      /\ B.gui = A.gui /\ B.trip = A.trip
      /\ \A v \in Window \ W : B.bw[v] = A.bw[v]
      /\ \A v \in W : B.bw[v] = Halt(A.bw[v])
      /\ \A g \in Handle : A.handle[g].win \notin W => B.handle[g] = A.handle[g]
      /\ \A v \in W : A.bw[v].current # 0 =>
            B.handle[A.bw[v].current].page = A.handle[A.bw[v].current].page
  <2>1. A \in States /\ Owned(A) /\ W \in SUBSET Window
    BY <1>1, <1>6
  <2> QED BY <2>1, StopFramesFields, ZenonT(60)
<1> HIDE DEF B
<1>8. /\ T \in States /\ T.open = B.open /\ T.handle = B.handle /\ T.history = B.history
      /\ T.trip = B.trip /\ Alike(T.bw[w], B.bw[w], {"throbbing"}) /\ ~T.bw[w].throbbing
      /\ \A v \in Window \ {w} : T.bw[v] = B.bw[v]
      /\ T.gui = (B.gui /\ \E v \in B.open \ {w} : B.bw[v].throbbing)
  BY <1>7, StopThrobberFields
<1> HIDE DEF T
<1>9. Owned(T)
  <2>1. Alike(T.bw[w], B.bw[w], {"throbbing", "add", "refresh"})
    BY <1>8 DEF Alike
  <2> QED BY <1>7, <1>8, <2>1, OwnedFields DEF Local
<1>10. \A v \in W : A.bw[v] = S.bw[v] /\ A.bw[v] \in Fieldset
  BY <1>1, <1>5, <1>6, StateFields DEF Local
<1>11. ASSUME NEW v \in W
       PROVE  /\ T.bw[v].current = S.bw[v].current /\ T.bw[v].add = S.bw[v].add
              /\ T.bw[v].loading = 0 /\ ~T.bw[v].throbbing /\ ~T.bw[v].refresh
  <2>1. T.bw[v] = Halt(S.bw[v]) /\ S.bw[v] \in Fieldset
    BY <1>1, <1>7, <1>8, <1>10
  <2> QED BY <2>1, HaltFields DEF Alike
<1>12. /\ T.bw[w].current = S.bw[w].current /\ T.bw[w].add = S.bw[w].add
       /\ T.bw[w].loading = 0 /\ ~T.bw[w].throbbing /\ ~T.bw[w].refresh
  <2>1. B.bw[w] = A.bw[w]
    BY <1>1, <1>7
  <2> QED BY <1>5, <1>8, <2>1 DEF Alike
<1>13. Runs(S) => Runs(T)
  <2>1. ASSUME NEW v \in S.open, v # w, v \notin W PROVE T.bw[v] = A.bw[v]
    BY <1>7, <1>8, <2>1, StateFields
  <2>2. Runs(A) => Runs(T)
    <3>1. A.open \subseteq Window /\ T.open = A.open
      BY <1>6, <1>7, <1>8, StateFields
    <3>2. \A v \in A.open \ {w} : T.bw[v] = B.bw[v] /\ (B.bw[v].throbbing => B.bw[v] = A.bw[v])
      BY <1>6, <1>7, <1>8, <1>11, <2>1, <3>1
    <3> QED BY <1>7, <1>8, <1>12, <3>1, <3>2 DEF Runs
  <2> QED BY <1>5, <2>2
<1>14. \A v \in Window \ K : T.bw[v] = S.bw[v]
  BY <1>3, <1>5, <1>7, <1>8 DEF Local
<1>15. ASSUME NEW g \in Handle, S.handle[g] # Free, S.handle[g].win \notin K
       PROVE  T.handle[g] = S.handle[g]
  <2>1. g # l /\ g # c
    BY <1>3, <1>4, <1>15, Names DEF Keeps, Loads, Shows
  <2>2. A.handle[g] = S.handle[g]
    BY <1>5, <1>15, <2>1 DEF Local
  <2> QED BY <1>3, <1>7, <1>8, <1>15, <2>2
<1>16. c # 0 => T.handle[c].page = S.handle[c].page
  <2>1. c # 0 => Shows(A.handle[c], w)
    BY <1>5, <1>6 DEF Alike, Owned, Keeps
  <2>2. c # 0 => B.handle[c] = A.handle[c]
    BY <1>1, <1>4, <1>7, <2>1 DEF Shows
  <2> QED BY <1>5, <1>8, <2>2
<1>17. ASSUME NEW v \in W, S.bw[v].current # 0
       PROVE  T.handle[S.bw[v].current].page = S.handle[S.bw[v].current].page
  <2> DEFINE d == S.bw[v].current
  <2>1. d \in Handle /\ Shows(S.handle[d], v) /\ v # w
    BY <1>1, <1>17, StateFields, WindowFields DEF Owned, Keeps
  <2> HIDE DEF d
  <2>2. S.handle[d] # Free /\ d # l /\ d # c
    BY <1>1, <1>4, <2>1, Names, NewTypes DEF Keeps, Loads, Shows
  <2>3. A.handle[d] = S.handle[d]
    BY <1>5, <2>1, <2>2 DEF Local
  <2>4. A.bw[v].current = d /\ d # 0
    BY <1>10, <1>17 DEF d
  <2>5. B.handle[d].page = A.handle[d].page
    BY <1>7, <2>4
  <2> QED BY <1>8, <2>3, <2>5 DEF d
<1> QED BY <1>2, <1>3, <1>5, <1>6, <1>7, <1>8, <1>9, <1>11, <1>12, <1>13, <1>14, <1>15, <1>16, <1>17 DEF K, W, l, c, t

LEMMA DestroyFields ==
  ASSUME NEW S \in States, Owned(S), NEW W \in SUBSET Window
  PROVE  LET T == browser_window_destroy_internal(S, W)
         IN  /\ T \in States /\ Owned(T) /\ T.open = S.open \ W /\ T.history = S.history
             /\ T.gui = S.gui /\ T.trip = S.trip
             /\ \A v \in Window \ W : T.bw[v] = S.bw[v]
             /\ \A v \in W : T.bw[v] = NewWindow
             /\ \A g \in Handle : S.handle[g].win \notin W => T.handle[g] = S.handle[g]
<1> DEFINE gone == UNION {Held(S.bw[v]) : v \in W}
           D == Handle \cap gone
           hd == [h \in Handle |-> IF h \in gone THEN Free ELSE S.handle[h]]
           b == [v \in Window |-> IF v \in W THEN NewWindow ELSE S.bw[v]]
           o == S.open \ W
           U == [S EXCEPT !.open = o]
           T == PutAll(U, hd, b)
<1>1. browser_window_destroy_internal(S, W) = T
  <2>1. U.handle = S.handle /\ U.bw = S.bw
    OBVIOUS
  <2> QED BY <2>1 DEF browser_window_destroy_internal, PutAll
<1>2. U \in States /\ U.open = S.open \ W /\ U.history = S.history /\ U.gui = S.gui /\ U.trip = S.trip
  BY DEF States
<1>3. ASSUME NEW h \in D
      PROVE  S.handle[h] = Free \/ S.handle[h].win \in W
  <2>1. PICK v \in W : h \in Held(S.bw[v])
    OBVIOUS
  <2>2. Keeps(S.bw[v], S.handle, v) /\ h # 0
    BY Names DEF Owned
  <2> QED BY <2>1, <2>2 DEF Held, Keeps, Loads, Shows, FetchesIcon, ShowsIcon
<1>4. ASSUME NEW h \in Handle
      PROVE  hd[h] \in Records /\ (h \in D => hd[h] = Free) /\ (h \notin D => hd[h] = S.handle[h])
  BY StateFields, NewTypes
<1>5. ASSUME NEW v \in Window
      PROVE  b[v] \in Fieldset /\ b[v] = IF v \in W THEN NewWindow ELSE S.bw[v]
  BY StateFields, NewTypes
<1>6. hd \in [Handle -> Records] /\ b \in [Window -> Fieldset]
  BY <1>4, <1>5
<1>7. \A v \in W : Held(S.bw[v]) \subseteq gone
  OBVIOUS
<1>8. D \in SUBSET Handle /\ D = Handle \cap gone
  OBVIOUS
<1> HIDE DEF U, hd, b, D, gone
<1>9. /\ T \in States /\ T.open = U.open /\ T.history = U.history
      /\ T.gui = U.gui /\ T.trip = U.trip /\ T.handle = hd /\ T.bw = b
  BY <1>2, <1>6, PutAllFields
<1> HIDE DEF T
<1>10. ASSUME NEW v \in W PROVE Keeps(T.bw[v], T.handle, v) /\ Kept(S.bw[v], T.bw[v], D)
  <2>1. T.bw[v] = NewWindow
    BY <1>5, <1>9
  <2>2. Kept(S.bw[v], NewWindow, D)
    BY <1>7, <1>8, StateFields, WindowFields DEF Kept, Held
  <2> QED BY <2>1, <2>2, NewTypes DEF Keeps
<1>11. Owned(T)
  <2>1. \A v \in Window \ W : T.bw[v] = S.bw[v]
    BY <1>5, <1>9
  <2>2. \A g \in Handle \ D : T.handle[g] = S.handle[g]
    BY <1>4, <1>9
  <2>3. \A h \in D : T.handle[h] = Free
    BY <1>4, <1>8, <1>9
  <2> QED BY <1>3, <1>8, <1>9, <1>10, <2>1, <2>2, <2>3, OwnedChange
<1>12. ASSUME NEW g \in Handle, S.handle[g].win \notin W PROVE T.handle[g] = S.handle[g]
  <2>1. g \in D => S.handle[g] = Free
    BY <1>3, <1>12
  <2> QED BY <1>4, <1>9, <2>1
<1> QED BY <1>1, <1>2, <1>5, <1>9, <1>11, <1>12

-----------------------------------------------------------------------------
(* What windows and throbbers are like between actions. *)

Opened(S) ==
  /\ \A w \in Window \ S.open : S.bw[w] = NewWindow
  /\ \A w \in Window : S.bw[w].refresh => S.bw[w].current # 0
  /\ S.open \cap Frame # {} => S.bw[Root].current # 0 /\ S.bw[Root].loading = 0

Awaited(b, hd) == b.loading # 0 \/ (b.current # 0 /\ hd[b.current].status = "READY")

Throbs(S) ==
  /\ Runs(S)
  /\ \A w \in S.open : S.bw[w].throbbing => Awaited(S.bw[w], S.handle)

LEMMA GoPostFields ==
  ASSUME NEW S \in States, Owned(S), Opened(S), Throbs(S), NEW w \in S.open, NEW icon \in Icons(w),
         NEW p \in Pages(w), NEW add \in BOOLEAN, NEW refused \in BOOLEAN, NEW later
  PROVE  LET T == browser_window_go_post(S, w, p, add, refused, icon, later)
             K == {w} \cup Children(S, w)
         IN  /\ T \in States /\ Owned(T) /\ Opened(T) /\ Throbs(T)
             /\ T.open = S.open \ Children(S, w) /\ T.history = S.history
             /\ T.trip = IF w = Root /\ S.trip = "going" /\ S.bw[w].loading # 0 THEN "lost" ELSE S.trip
             /\ \A v \in Window \ K : T.bw[v] = S.bw[v]
             /\ T.bw[w].current = S.bw[w].current /\ T.bw[w].add = add
             /\ S.bw[w].current # 0 =>
                  T.handle[S.bw[w].current].page = S.handle[S.bw[w].current].page
             /\ IF refused THEN T.bw[w].loading = 0
                ELSE T.bw[w].loading # 0 /\ T.handle[T.bw[w].loading].page = p
             /\ \A g \in Handle : S.handle[g] # Free /\ S.handle[g].win \notin K => T.handle[g] = S.handle[g]
<1> DEFINE W == Children(S, w)
           K == {w} \cup W
           c == S.bw[w].current
           t == IF w = Root /\ S.trip = "going" /\ S.bw[w].loading # 0 THEN "lost" ELSE S.trip
           A == browser_window_stop(S, w, icon, later)
           B == browser_window_destroy_internal(A, W)
           b == AddNext(B.bw[w], add)
           C == PutWin(B, w, b)
           R == Retrieve(C, w, "loading", p)
           E == browser_window_start_throbber(R, w)
           T == IF refused THEN C ELSE E
<1>1. W \in SUBSET Window /\ w \notin W /\ W \subseteq S.open /\ w \in Window
  BY StateFields, Names DEF Children
<1>2. \A v : v \in K <=> v = w \/ v \in W
  OBVIOUS
<1>3. c \in Handle \cup {0} /\ (c # 0 => Shows(S.handle[c], w))
  BY <1>1, StateFields, WindowFields DEF Owned, Keeps
<1>4. /\ A \in States /\ Owned(A) /\ A.open = S.open /\ A.history = S.history
      /\ Runs(S) => Runs(A)
      /\ A.trip = t
      /\ \A v \in Window \ K : A.bw[v] = S.bw[v]
      /\ \A v \in K : /\ A.bw[v].current = S.bw[v].current /\ A.bw[v].add = S.bw[v].add
                      /\ A.bw[v].loading = 0 /\ ~A.bw[v].throbbing /\ ~A.bw[v].refresh
      /\ \A g \in Handle : S.handle[g] # Free /\ S.handle[g].win \notin K => A.handle[g] = S.handle[g]
      /\ \A v \in K : S.bw[v].current # 0 =>
            A.handle[S.bw[v].current].page = S.handle[S.bw[v].current].page
  BY <1>1, StopFields
<1> HIDE DEF A
<1>5. browser_window_go_post(S, w, p, add, refused, icon, later) = T
  <2>1. browser_window_destroy_children(A, w) = B
    BY <1>4 DEF browser_window_destroy_children, Children
  <2> HIDE DEF B
  <2> QED BY <2>1 DEF browser_window_go_post, A, PutWin, AddNext
<1> HIDE DEF W, K, t
<1>6. /\ B \in States /\ Owned(B) /\ B.open = A.open \ W /\ B.history = A.history
      /\ B.gui = A.gui /\ B.trip = A.trip
      /\ \A v \in Window \ W : B.bw[v] = A.bw[v]
      /\ \A v \in W : B.bw[v] = NewWindow
      /\ \A g \in Handle : A.handle[g].win \notin W => B.handle[g] = A.handle[g]
  BY <1>1, <1>4, DestroyFields
<1> HIDE DEF B
<1>7. Alike(b, B.bw[w], {"add"}) /\ b.add = add /\ b \in Fieldset
  <2>1. B.bw[w] \in Fieldset
    BY <1>1, <1>6, StateFields
  <2> QED BY <2>1, AddNextFields DEF Alike
<1> HIDE DEF b
<1>8. /\ C \in States /\ C.open = B.open /\ C.handle = B.handle /\ C.history = B.history
      /\ C.gui = B.gui /\ C.trip = B.trip
      /\ C.bw[w] = b /\ \A v \in Window \ {w} : C.bw[v] = B.bw[v]
  BY <1>1, <1>6, <1>7, PutWinFields
<1> HIDE DEF C
<1>9. Owned(C) /\ C.bw[w].loading = 0
  <2>1. Alike(C.bw[w], B.bw[w], {"throbbing", "add", "refresh"})
    BY <1>7, <1>8 DEF Alike
  <2>2. A.bw[w].loading = 0 /\ B.bw[w] = A.bw[w]
    BY <1>1, <1>2, <1>4, <1>6
  <2> QED BY <1>1, <1>6, <1>8, <2>1, <2>2, OwnedFields, ZenonT(40) DEF Local, Alike
<1>10. /\ Local(C, R, w, {}) /\ R.gui = C.gui /\ R.trip = C.trip
       /\ Alike(R.bw[w], C.bw[w], {"loading"}) /\ R.bw[w].loading # 0
       /\ R.handle[R.bw[w].loading].page = p /\ R \in States
  <2>1. Local(C, R, w, {}) /\ R.gui = C.gui /\ R.trip = C.trip
        /\ Alike(R.bw[w], C.bw[w], {"loading"}) /\ R.bw[w].loading # 0
        /\ R.handle[R.bw[w].loading].page = p
    BY <1>1, <1>8, <1>9, RetrievePage
  <2> HIDE DEF R
  <2> QED BY <2>1 DEF Local
<1> HIDE DEF R
<1>11. /\ E \in States /\ E.open = R.open /\ E.handle = R.handle /\ E.history = R.history
       /\ E.trip = R.trip /\ Alike(E.bw[w], R.bw[w], {"throbbing"}) /\ E.bw[w].throbbing
       /\ \A v \in Window \ {w} : E.bw[v] = R.bw[v]
       /\ E.gui = TRUE
  BY <1>1, <1>10, StartThrobberFields
<1> HIDE DEF E
<1>12. Local(R, E, w, {})
  <2>1. Alike(E.bw[w], R.bw[w], {"throbbing", "add", "refresh"})
    BY <1>11 DEF Alike
  <2> QED BY <1>1, <1>10, <1>11, <2>1, OwnedFields DEF Local
<1>13. /\ T \in States /\ Owned(T) /\ T.open = S.open \ W /\ T.history = S.history /\ T.trip = t
       /\ T.bw[w].current = c /\ T.bw[w].add = add /\ ~T.bw[w].refresh
       /\ \A v \in Window \ {w} : T.bw[v] = B.bw[v]
       /\ \A g \in Handle : C.handle[g] # Free => T.handle[g] = C.handle[g]
       /\ IF refused THEN T = C /\ T.bw[w].loading = 0 /\ ~T.bw[w].throbbing
          ELSE T = E /\ T.bw[w].loading # 0 /\ T.handle[T.bw[w].loading].page = p
  <2>1. /\ C.bw[w].current = c /\ C.bw[w].add = add /\ ~C.bw[w].refresh /\ ~C.bw[w].throbbing
        /\ C.open = S.open \ W /\ C.history = S.history /\ C.trip = t
    <3>1. B.bw[w] = A.bw[w] /\ w \in K
      BY <1>1, <1>2, <1>6
    <3>2. A.bw[w].current = c /\ ~A.bw[w].throbbing /\ ~A.bw[w].refresh
      BY <1>4, <3>1
    <3> HIDE DEF c
    <3> QED BY <1>4, <1>6, <1>7, <1>8, <3>1, <3>2 DEF Alike
  <2>2. CASE refused
    BY <1>8, <1>9, <2>1, <2>2
  <2>3. CASE ~refused
    <3>1. Local(C, E, w, {}) /\ E.trip = C.trip
      BY <1>10, <1>11, <1>12 DEF Local
    <3>2. /\ E.bw[w].current = C.bw[w].current /\ E.bw[w].add = C.bw[w].add /\ ~E.bw[w].refresh
          /\ E.bw[w].loading # 0 /\ E.handle[E.bw[w].loading].page = p
      BY <1>10, <1>11, <2>1 DEF Alike
    <3>3. T = E
      BY <2>3
    <3> HIDE DEF T
    <3> QED BY <1>8, <2>1, <2>3, <3>1, <3>2, <3>3 DEF Local
  <2> QED BY <2>2, <2>3
<1> HIDE DEF T
<1>14. ASSUME NEW v \in Window \ K PROVE T.bw[v] = S.bw[v]
  BY <1>2, <1>4, <1>6, <1>13
<1>15. ASSUME NEW v \in W PROVE T.bw[v] = NewWindow
  BY <1>1, <1>6, <1>13
<1>16. ASSUME NEW g \in Handle, S.handle[g] # Free, S.handle[g].win \notin K
       PROVE  T.handle[g] = S.handle[g]
  BY <1>2, <1>4, <1>6, <1>8, <1>13, <1>16
<1>17. c # 0 => T.handle[c].page = S.handle[c].page
  <2>1. w \in K /\ A.bw[w].current = c
    BY <1>2, <1>4
  <2>2. c # 0 => A.handle[c].page = S.handle[c].page
    BY <1>4, <2>1
  <2>3. c # 0 => Shows(A.handle[c], w)
    BY <1>1, <1>4, <2>1 DEF Owned, Keeps
  <2>4. c # 0 => A.handle[c] # Free /\ A.handle[c].win \notin W
    BY <1>1, <2>3, Exclusive DEF Shows
  <2> HIDE DEF c
  <2>5. c # 0 => T.handle[c] = A.handle[c]
    BY <1>3, <1>6, <1>8, <1>13, <2>4
  <2> QED BY <2>2, <2>5
<1>18. Opened(T)
  <2>1. ASSUME NEW v \in Window, v \notin T.open PROVE T.bw[v] = NewWindow
    BY <1>2, <1>13, <1>14, <1>15, <2>1 DEF Opened
  <2>2. ASSUME NEW v \in Window, T.bw[v].refresh PROVE T.bw[v].current # 0
    BY <1>2, <1>13, <1>14, <1>15, <2>2, NewTypes DEF Opened
  <2>3. ASSUME T.open \cap Frame # {} PROVE T.bw[Root].current # 0 /\ T.bw[Root].loading = 0
    <3>1. w # Root
      BY <1>13, <2>3, Names DEF W, Children
    <3>2. Root \notin K
      BY <1>1, <1>2, <3>1 DEF W, Children
    <3>3. T.bw[Root] = S.bw[Root]
      BY <1>14, <3>2, Names
    <3>4. S.open \cap Frame # {}
      BY <1>13, <2>3
    <3> QED BY <3>3, <3>4 DEF Opened
  <2> QED BY <2>1, <2>2, <2>3 DEF Opened
<1>19. Throbs(T)
  <2>1. Runs(C)
    <3>1. A.open = S.open /\ C.open = A.open \ W /\ A.open \subseteq Window
      BY <1>4, <1>6, <1>8, StateFields
    <3>2. \A v \in C.open : C.bw[v].throbbing = A.bw[v].throbbing
      BY <1>1, <1>6, <1>7, <1>8, <3>1 DEF Alike
    <3>3. \A v \in W : ~A.bw[v].throbbing
      BY <1>2, <1>4
    <3> QED BY <1>4, <1>6, <1>8, <3>1, <3>2, <3>3 DEF Throbs, Runs
  <2>2. Runs(T)
    <3>1. CASE refused
      BY <1>13, <2>1, <3>1
    <3>2. CASE ~refused
      <4>1. T.gui = TRUE /\ T.bw[w].throbbing /\ w \in T.open
        BY <1>1, <1>11, <1>13, <3>2
      <4> QED BY <4>1 DEF Runs
    <3> QED BY <3>1, <3>2
  <2>3. ASSUME NEW v \in T.open, T.bw[v].throbbing PROVE Awaited(T.bw[v], T.handle)
    <3>1. CASE v = w
      BY <1>13, <2>3, <3>1 DEF Awaited
    <3>2. CASE v # w
      <4>1. v \in Window /\ v \notin K /\ v \in S.open /\ T.bw[v] = S.bw[v]
        BY <1>2, <1>13, <1>14, <3>2, StateFields
      <4>2. Awaited(S.bw[v], S.handle)
        BY <2>3, <4>1 DEF Throbs
      <4>3. S.bw[v].current # 0 => T.handle[S.bw[v].current] = S.handle[S.bw[v].current]
        <5> DEFINE d == S.bw[v].current
        <5>1. d # 0 => d \in Handle /\ Shows(S.handle[d], v)
          BY <4>1, StateFields, WindowFields DEF Owned, Keeps
        <5> HIDE DEF d
        <5>2. d # 0 => S.handle[d] # Free /\ S.handle[d].win = v
          BY <4>1, <5>1, Exclusive DEF Shows
        <5> QED BY <1>16, <4>1, <5>1, <5>2 DEF d
      <4> QED BY <4>1, <4>2, <4>3 DEF Awaited
    <3> QED BY <3>1, <3>2
  <2> QED BY <2>2, <2>3 DEF Throbs
<1> QED BY <1>5, <1>13, <1>14, <1>16, <1>17, <1>18, <1>19 DEF K, W, c, t

(* The history and the page shown.  An entry is marked once there is a page, *)
(* or one that was asked for without an entry of its own; a trip that goes   *)
(* on has its page loading, and what loads without an entry of its own shows *)
(* the entry marked.                                                         *)
Marks(S, h) == h # 0 /\ S.handle[h].page = S.history.entry[S.history.current].page

Marked(S) == S.history.current # 0
Unlisted(S) == S.bw[Root].loading # 0 /\ ~S.bw[Root].add

Trips(S) ==
  /\ S.history.current \in 0..Len(S.history.entry)
  /\ S.bw[Root].current # 0 \/ Unlisted(S) \/ S.history.entry # <<>> => Marked(S)
  /\ Root \in S.open /\ S.trip = "none" /\ Marked(S) => Marks(S, S.bw[Root].current)
  /\ Root \in S.open /\ S.trip = "going" => Unlisted(S)
  /\ Unlisted(S) /\ S.trip # "lost" => Marks(S, S.bw[Root].loading)

Good(S) == S \in States /\ Owned(S) /\ Opened(S) /\ Throbs(S) /\ Trips(S)

IInv == Good(State) /\ clicks \in 0..MaxClicks

LEMMA Closed ==
  ASSUME NEW S \in States, Opened(S), NEW w \in Window,
         S.bw[w].loading # 0 \/ S.bw[w].current # 0 \/ S.bw[w].lfav # 0 \/ S.bw[w].cfav # 0 \/ S.bw[w].refresh
  PROVE  w \in S.open
BY NewTypes DEF Opened

LEMMA HandleFields ==
  ASSUME NEW S \in States, Owned(S), NEW w \in Window
  PROVE  /\ S.bw[w].current # 0 => S.bw[w].current \in Handle /\ Shows(S.handle[S.bw[w].current], w)
         /\ S.bw[w].loading # 0 => S.bw[w].loading \in Handle /\ Loads(S.handle[S.bw[w].loading], w)
         /\ S.bw[w].lfav # 0 => S.bw[w].lfav \in Handle /\ FetchesIcon(S.handle[S.bw[w].lfav], w)
         /\ S.bw[w].cfav # 0 => S.bw[w].cfav \in Handle /\ ShowsIcon(S.handle[S.bw[w].cfav], w)
BY StateFields, WindowFields DEF Owned, Keeps

(* What a window's handles say is not what another window waits for. *)
LEMMA OthersWait ==
  ASSUME NEW S \in States, NEW T \in States, Owned(S), NEW v \in Window,
         T.bw[v] = S.bw[v], Awaited(S.bw[v], S.handle),
         \A g \in Handle : S.handle[g].win = v => T.handle[g] = S.handle[g]
  PROVE  Awaited(T.bw[v], T.handle)
<1>1. S.bw[v].current # 0 => T.handle[S.bw[v].current] = S.handle[S.bw[v].current]
  BY HandleFields DEF Shows
<1> QED BY <1>1 DEF Awaited

(* A step that concerns one window and no page of the history. *)
LEMMA GoodLocal ==
  ASSUME NEW S, Good(S), NEW w \in Window, NEW T, NEW D,
         Local(S, T, w, D), \A g \in Handle : g \in D => S.handle[g].win = w,
         T.trip = S.trip, Runs(T),
         Alike(T.bw[w], S.bw[w], {"lfav", "cfav", "throbbing", "refresh"}), w \in S.open,
         T.bw[w].refresh => T.bw[w].current # 0,
         T.bw[w].throbbing => Awaited(T.bw[w], T.handle),
         S.bw[w].current # 0 => T.handle[S.bw[w].current].page = S.handle[S.bw[w].current].page,
         S.bw[w].loading # 0 => T.handle[S.bw[w].loading].page = S.handle[S.bw[w].loading].page
  PROVE  Good(T)
<1>1. /\ S \in States /\ Owned(S) /\ T \in States /\ Owned(T) /\ T.open = S.open /\ T.history = S.history
      /\ \A v \in Window \ {w} : T.bw[v] = S.bw[v]
      /\ S.open \subseteq Window
  BY StateFields DEF Good, Local
<1>2. /\ T.bw[w].loading = S.bw[w].loading /\ T.bw[w].current = S.bw[w].current
      /\ T.bw[w].add = S.bw[w].add
  BY DEF Alike
<1>3. ASSUME NEW g \in Handle, NEW v \in Window, v # w, S.handle[g].win = v
      PROVE  T.handle[g] = S.handle[g]
  <2>1. g \notin D /\ S.handle[g] # Free
    BY <1>3, NewTypes, Names
  <2> QED BY <2>1 DEF Local
<1>4. Opened(T)
  <2>1. \A v \in Window \ T.open : T.bw[v] = NewWindow
    BY <1>1 DEF Good, Opened
  <2>2. \A v \in Window : T.bw[v].refresh => T.bw[v].current # 0
    BY <1>1 DEF Good, Opened
  <2>3. T.open \cap Frame # {} => T.bw[Root].current # 0 /\ T.bw[Root].loading = 0
    BY <1>1, <1>2, Names DEF Good, Opened
  <2> QED BY <2>1, <2>2, <2>3 DEF Opened
<1>5. Throbs(T)
  <2>1. ASSUME NEW v \in T.open, T.bw[v].throbbing PROVE Awaited(T.bw[v], T.handle)
    <3>1. CASE v = w
      BY <2>1, <3>1
    <3>2. CASE v # w
      <4>1. v \in Window /\ v \in S.open /\ T.bw[v] = S.bw[v] /\ Awaited(S.bw[v], S.handle)
        BY <1>1, <2>1, <3>2 DEF Good, Throbs
      <4> QED BY <1>1, <1>3, <3>2, <4>1, OthersWait
    <3> QED BY <3>1, <3>2
  <2> QED BY <2>1 DEF Throbs
<1>6. Trips(T)
  <2>1. /\ T.bw[Root].current = S.bw[Root].current /\ T.bw[Root].loading = S.bw[Root].loading
        /\ T.bw[Root].add = S.bw[Root].add
    BY <1>1, <1>2, Names
  <2>2. /\ S.bw[Root].current # 0 => T.handle[S.bw[Root].current].page = S.handle[S.bw[Root].current].page
        /\ S.bw[Root].loading # 0 => T.handle[S.bw[Root].loading].page = S.handle[S.bw[Root].loading].page
    <3>1. CASE w = Root
      BY <3>1
    <3>2. CASE w # Root
      <4>1. /\ S.bw[Root].current # 0 => S.bw[Root].current \in Handle /\ S.handle[S.bw[Root].current].win = Root
            /\ S.bw[Root].loading # 0 => S.bw[Root].loading \in Handle /\ S.handle[S.bw[Root].loading].win = Root
        <5>1. Root \in Window
          BY Names
        <5>2. /\ S.bw[Root].current # 0 => S.bw[Root].current \in Handle /\ Shows(S.handle[S.bw[Root].current], Root)
              /\ S.bw[Root].loading # 0 => S.bw[Root].loading \in Handle /\ Loads(S.handle[S.bw[Root].loading], Root)
          BY <1>1, <5>1, HandleFields
        <5> QED BY <5>2 DEF Shows, Loads
      <4> QED BY <1>3, <3>2, <4>1, Names
    <3> QED BY <3>1, <3>2
  <2> QED BY <1>1, <2>1, <2>2 DEF Good, Trips, Marks, Marked, Unlisted
<1> QED BY <1>1, <1>4, <1>5, <1>6 DEF Good

LEMMA GoodGo ==
  ASSUME NEW S, Good(S), NEW w \in S.open, NEW icon \in Icons(w),
         NEW p \in Pages(w), NEW add \in BOOLEAN, NEW refused \in BOOLEAN, NEW later,
         w = Root /\ ~add => Marked(S)
            /\ (S.trip = "none" => p = S.history.entry[S.history.current].page)
  PROVE  Good(browser_window_go_post(S, w, p, add, refused, icon, later))
<1> DEFINE T == browser_window_go_post(S, w, p, add, refused, icon, later)
           W == Children(S, w)
           K == {w} \cup W
<1>1. S \in States /\ Owned(S) /\ Opened(S) /\ Throbs(S) /\ w \in Window
  BY StateFields DEF Good
<1>2. /\ T \in States /\ Owned(T) /\ Opened(T) /\ Throbs(T)
      /\ T.open = S.open \ W /\ T.history = S.history
      /\ T.trip = IF w = Root /\ S.trip = "going" /\ S.bw[w].loading # 0 THEN "lost" ELSE S.trip
      /\ \A v \in Window \ K : T.bw[v] = S.bw[v]
      /\ T.bw[w].current = S.bw[w].current /\ T.bw[w].add = add
      /\ S.bw[w].current # 0 =>
           T.handle[S.bw[w].current].page = S.handle[S.bw[w].current].page
      /\ IF refused THEN T.bw[w].loading = 0
         ELSE T.bw[w].loading # 0 /\ T.handle[T.bw[w].loading].page = p
      /\ \A g \in Handle : S.handle[g] # Free /\ S.handle[g].win \notin K => T.handle[g] = S.handle[g]
  BY <1>1, GoPostFields
<1>3. w # Root => Root \notin K
  BY DEF Children
<1> HIDE DEF T, W, K
<1>4. Trips(T)
  <2>1. CASE w = Root
    <3>1. S.trip = "going" => S.bw[w].loading # 0
      BY <2>1 DEF Good, Trips, Unlisted
    <3>2. T.trip # "going" /\ (T.trip = "none" => S.trip = "none")
      BY <1>2, <2>1, <3>1
    <3>3. Unlisted(T) => ~add /\ T.bw[w].loading # 0 /\ T.handle[T.bw[w].loading].page = p
      BY <1>2, <2>1 DEF Unlisted
    <3>4. S.trip = "none" /\ Marked(S) => Marks(S, S.bw[w].current)
      BY <2>1 DEF Good, Trips
    <3>5. S.history.current \in 0..Len(S.history.entry)
          /\ (S.bw[w].current # 0 \/ S.history.entry # <<>> => Marked(S))
      BY <2>1 DEF Good, Trips
    <3>6. T.trip \in {"none", "going", "lost"}
      BY <1>2, StateFields
    <3> QED BY <1>2, <2>1, <3>2, <3>3, <3>4, <3>5, <3>6 DEF Trips, Marked, Marks
  <2>2. CASE w # Root
    <3>1. T.bw[Root] = S.bw[Root] /\ T.trip = S.trip /\ Root \notin K
      BY <1>2, <1>3, <2>2, Names
    <3>2. /\ S.bw[Root].current # 0 => T.handle[S.bw[Root].current] = S.handle[S.bw[Root].current]
          /\ S.bw[Root].loading # 0 => T.handle[S.bw[Root].loading] = S.handle[S.bw[Root].loading]
      <4>1. /\ S.bw[Root].current # 0 => S.bw[Root].current \in Handle /\ S.handle[S.bw[Root].current].win = Root
                                         /\ S.handle[S.bw[Root].current] # Free
            /\ S.bw[Root].loading # 0 => S.bw[Root].loading \in Handle /\ S.handle[S.bw[Root].loading].win = Root
                                         /\ S.handle[S.bw[Root].loading] # Free
        BY <1>1, Names, HandleFields, Exclusive DEF Shows, Loads
      <4> QED BY <1>2, <3>1, <4>1
    <3>3. Root \in T.open => Root \in S.open
      BY <1>2
    <3> QED BY <1>2, <3>1, <3>2, <3>3 DEF Good, Trips, Marked, Marks, Unlisted
  <2> QED BY <2>1, <2>2
<1> QED BY <1>2, <1>4 DEF Good, T

-----------------------------------------------------------------------------
(* The actions of the user and of the timers. *)

LEMMA StateVars ==
  /\ State.open = open /\ State.bw = bw /\ State.handle = handle
  /\ State.history = history /\ State.gui = gui /\ State.trip = trip
BY DEF State

LEMMA Becoming ==
  ASSUME NEW T, Good(T), Becomes(T)
  PROVE  Good(State')
<1>1. State' = T
  BY DEF Good, Becomes, State, States
<1> QED BY <1>1

LEMMA GoSafe ==
  ASSUME Good(State), NEW w \in open, NEW p \in Pages(w), NEW add \in BOOLEAN, Go(w, p, add),
         w = Root /\ ~add => Marked(State)
            /\ (trip = "none" => p = history.entry[history.current].page)
  PROVE  Good(State')
<1>1. PICK refused \in BOOLEAN, icon \in Icons(w), later \in SUBSET Unfinished :
         Becomes(browser_window_go_post(State, w, p, add, refused, icon, later))
  BY DEF Go
<1>2. Good(browser_window_go_post(State, w, p, add, refused, icon, later))
  BY GoodGo, StateVars
<1> QED BY <1>1, <1>2, Becoming

(* The page shown by Root is the one its history marks. *)
LEMMA RootShows ==
  ASSUME NEW S, Good(S), S.bw[Root].current # 0
  PROVE  /\ Root \in S.open /\ Marked(S) /\ S.handle[S.bw[Root].current].page \in Pages(Root)
         /\ S.trip = "none" =>
              S.handle[S.bw[Root].current].page = S.history.entry[S.history.current].page
<1>1. S \in States /\ Owned(S) /\ Opened(S) /\ Root \in Window
  BY Names DEF Good
<1>2. Root \in S.open /\ Shows(S.handle[S.bw[Root].current], Root)
  BY <1>1, Closed, HandleFields
<1> QED BY <1>2 DEF Good, Trips, Marks, Shows

LEMMA GoActionSafe ==
  ASSUME IInv, NEW w \in Window, browser_window_go(w)
  PROVE  Good(State')
<1>1. PICK p \in Pages(w) : w \in open /\ Go(w, p, w = Root)
  BY DEF browser_window_go
<1> DEFINE add == (w = Root)
<1>2. add \in BOOLEAN /\ ~(w = Root /\ ~add) /\ Go(w, p, add)
  BY <1>1
<1> HIDE DEF add
<1> QED BY <1>1, <1>2, GoSafe DEF IInv

LEMMA ReloadSafe ==
  ASSUME IInv, browser_window_reload
  PROVE  Good(State')
<1> DEFINE p == handle[bw[Root].current].page
           add == FALSE
<1>1. Root \in open /\ bw[Root].current # 0 /\ Go(Root, p, add) /\ add \in BOOLEAN
  BY DEF browser_window_reload
<1>2. p \in Pages(Root) /\ Marked(State)
      /\ (trip = "none" => p = history.entry[history.current].page)
  BY <1>1, RootShows, StateVars DEF IInv
<1> HIDE DEF p, add
<1> QED BY <1>1, <1>2, GoSafe DEF IInv

(* A window record of which only the fields that concern no page change. *)
LEMMA GoodFields ==
  ASSUME NEW S, Good(S), NEW w \in S.open, NEW b \in Fieldset,
         Alike(b, S.bw[w], {"refresh"}), b.refresh => b.current # 0
  PROVE  Good(PutWin(S, w, b))
<1> DEFINE T == PutWin(S, w, b)
           D == {}
<1>1. S \in States /\ Owned(S) /\ w \in Window
  BY StateFields DEF Good
<1>2. /\ T \in States /\ T.open = S.open /\ T.handle = S.handle /\ T.history = S.history
      /\ T.gui = S.gui /\ T.trip = S.trip
      /\ T.bw[w] = b /\ \A v \in Window \ {w} : T.bw[v] = S.bw[v]
  BY <1>1, PutWinFields
<1> HIDE DEF T
<1>3. Alike(T.bw[w], S.bw[w], {"throbbing", "add", "refresh"})
      /\ Alike(T.bw[w], S.bw[w], {"lfav", "cfav", "throbbing", "refresh"})
  BY <1>2 DEF Alike
<1>4. Local(S, T, w, D)
  BY <1>1, <1>2, <1>3, OwnedFields
<1>5. Throbs(S) /\ \A v \in S.open : T.bw[v].throbbing = S.bw[v].throbbing
  BY <1>1, <1>2, StateFields DEF Good, Alike
<1>6. Runs(T)
  BY <1>2, <1>5 DEF Throbs, Runs
<1>7. T.bw[w].throbbing => Awaited(T.bw[w], T.handle)
  BY <1>2, <1>5 DEF Throbs, Awaited, Alike
<1>8. \A g : g \notin D
  OBVIOUS
<1> HIDE DEF D
<1>9. Good(T)
  BY <1>1, <1>2, <1>3, <1>4, <1>6, <1>7, <1>8, GoodLocal
<1> QED BY <1>9 DEF T

LEMMA RefreshSafe ==
  ASSUME IInv, NEW w \in Window, browser_window_refresh(w)
  PROVE  Good(State')
<1> DEFINE b == Schedule(State.bw[w], FALSE)
           S == PutWin(State, w, b)
           q == handle[bw[w].current].page
<1>1. PICK p \in Pages(w), refused \in BOOLEAN, icon \in Icons(w), later \in SUBSET Unfinished :
        Becomes(browser_window_go_post([State EXCEPT !.bw[w].refresh = FALSE], w, p,
                  w = Root /\ p # handle[bw[w].current].page, refused, icon, later))
  BY DEF browser_window_refresh
<1>2. w \in open /\ bw[w].current # 0 /\ Good(State) /\ State.bw[w] \in Fieldset
  BY StateFields DEF browser_window_refresh, IInv, Good
<1>3. [State EXCEPT !.bw[w].refresh = FALSE] = S
  BY DEF PutWin, Schedule
<1> DEFINE add == (w = Root /\ p # q)
<1>4. Becomes(browser_window_go_post(S, w, p, add, refused, icon, later)) /\ add \in BOOLEAN
  BY <1>1, <1>3
<1>5. add <=> (w = Root /\ p # q)
  OBVIOUS
<1> HIDE DEF add
<1>6. b \in Fieldset /\ Alike(b, State.bw[w], {"refresh"}) /\ ~b.refresh /\ b.current = State.bw[w].current
  BY <1>2, ScheduleFields DEF Alike
<1> HIDE DEF b
<1>7. Good(S)
  BY <1>2, <1>6, GoodFields, StateVars
<1>8. S.open = open /\ S.bw[w].current # 0 /\ S.handle = handle /\ S.bw[w].current = bw[w].current
  <2>1. State \in States
    BY <1>2 DEF Good
  <2> QED BY <1>2, <1>6, <2>1, StateVars, PutWinFields
<1> HIDE DEF S
<1>9. w = Root /\ ~add => Marked(S) /\ (S.trip = "none" => p = S.history.entry[S.history.current].page)
  BY <1>5, <1>7, <1>8, RootShows
<1>10. Good(browser_window_go_post(S, w, p, add, refused, icon, later))
  BY <1>2, <1>4, <1>7, <1>8, <1>9, GoodGo
<1> QED BY <1>4, <1>10, Becoming

LEMMA UserStopsSafe ==
  ASSUME IInv, UserStops
  PROVE  Good(State')
<1> DEFINE S == State
           K == {Root} \cup Children(S, Root)
<1>1. Root \in S.open /\ Good(S) /\ S \in States /\ Owned(S) /\ Root \in Window
  BY StateVars, Names DEF UserStops, IInv, Good
<1>2. PICK icon \in Icons(Root), later \in SUBSET Unfinished : Becomes(browser_window_stop(S, Root, icon, later))
  BY DEF UserStops
<1> DEFINE T == browser_window_stop(S, Root, icon, later)
<1>3. S.open \subseteq K /\ Root \in K
  BY DEF Children
<1> HIDE DEF S, K
<1>4. /\ T \in States /\ Owned(T) /\ T.open = S.open /\ T.history = S.history
      /\ Runs(S) => Runs(T)
      /\ T.trip = IF Root = Root /\ S.trip = "going" /\ S.bw[Root].loading # 0 THEN "lost" ELSE S.trip
      /\ \A v \in Window \ K : T.bw[v] = S.bw[v]
      /\ \A v \in K : /\ T.bw[v].current = S.bw[v].current /\ T.bw[v].add = S.bw[v].add
                      /\ T.bw[v].loading = 0 /\ ~T.bw[v].throbbing /\ ~T.bw[v].refresh
      /\ \A v \in K : S.bw[v].current # 0 =>
                  T.handle[S.bw[v].current].page = S.handle[S.bw[v].current].page
  BY <1>1, StopFields DEF K
<1> HIDE DEF T
<1>5. Opened(T)
  <2>1. \A v \in Window \ T.open : T.bw[v] = NewWindow
    <3>1. ASSUME NEW v \in Window, v \notin S.open PROVE v \notin K
      BY <1>1, <3>1 DEF K, Children
    <3> QED BY <1>1, <1>4, <3>1 DEF Good, Opened
  <2>2. \A v \in Window : T.bw[v].refresh => T.bw[v].current # 0
    BY <1>3, <1>4, <2>1, NewTypes
  <2>3. T.open \cap Frame # {} => T.bw[Root].current # 0 /\ T.bw[Root].loading = 0
    BY <1>1, <1>3, <1>4 DEF Good, Opened
  <2> QED BY <2>1, <2>2, <2>3 DEF Opened
<1>6. Throbs(T)
  BY <1>1, <1>3, <1>4 DEF Good, Throbs
<1>7. Trips(T)
  <2>1. T.trip # "going" /\ (T.trip = "none" => S.trip = "none")
    BY <1>1, <1>4 DEF Good, Trips, Unlisted
  <2>2. /\ T.bw[Root].current = S.bw[Root].current /\ T.bw[Root].loading = 0
        /\ S.bw[Root].current # 0 =>
                  T.handle[S.bw[Root].current].page = S.handle[S.bw[Root].current].page
    BY <1>3, <1>4
  <2> QED BY <1>1, <1>4, <2>1, <2>2 DEF Good, Trips, Marked, Marks, Unlisted
<1>8. Good(T)
  BY <1>4, <1>5, <1>6, <1>7 DEF Good
<1> QED BY <1>2, <1>8, Becoming DEF T

LEMMA DestroySafe ==
  ASSUME IInv, browser_window_destroy
  PROVE  Good(State')
<1> DEFINE S == State
           W == Children(S, Root)
           V == {Root}
           A == browser_window_destroy_internal(S, W)
           B == browser_window_destroy_internal(A, V)
           x == FALSE
           T == PutGui(B, x)
<1>1. Root \in S.open /\ Good(S) /\ S \in States /\ Owned(S) /\ Root \in Window /\ Opened(S)
  BY StateVars, Names DEF browser_window_destroy, IInv, Good
<1>2. Becomes(T)
  BY DEF browser_window_destroy, browser_window_destroy_children, PutGui
<1>3. W \in SUBSET Window /\ S.open \subseteq W \cup V /\ V \in SUBSET Window
  BY <1>1, StateFields DEF Children
<1> HIDE DEF S, W, V
<1>4. /\ A \in States /\ Owned(A) /\ A.open = S.open \ W /\ A.history = S.history
      /\ A.gui = S.gui /\ A.trip = S.trip
      /\ \A v \in Window \ W : A.bw[v] = S.bw[v]
      /\ \A v \in W : A.bw[v] = NewWindow
  BY <1>1, <1>3, DestroyFields
<1> HIDE DEF A
<1>5. /\ B \in States /\ Owned(B) /\ B.open = A.open \ V /\ B.history = A.history
      /\ B.gui = A.gui /\ B.trip = A.trip
      /\ \A v \in Window \ V : B.bw[v] = A.bw[v]
      /\ \A v \in V : B.bw[v] = NewWindow
  BY <1>3, <1>4, DestroyFields
<1> HIDE DEF B
<1>6. x \in BOOLEAN /\ x = FALSE
  OBVIOUS
<1> HIDE DEF x
<1>7. /\ T \in States /\ T.open = B.open /\ T.bw = B.bw /\ T.history = B.history
      /\ T.handle = B.handle /\ T.trip = B.trip /\ T.gui = x
  BY <1>5, <1>6, PutGuiFields
<1> HIDE DEF T
<1>8. T.open = {} /\ \A v \in Window : T.bw[v] = NewWindow
  BY <1>1, <1>3, <1>4, <1>5, <1>7 DEF Opened
<1>9. Owned(T)
  BY <1>5, <1>7 DEF Owned
<1>10. Opened(T) /\ Throbs(T)
  BY <1>6, <1>7, <1>8, NewTypes DEF Opened, Throbs, Runs
<1>11. Trips(T)
  BY <1>1, <1>4, <1>5, <1>7, <1>8, NewTypes, Names DEF Good, Trips, Unlisted, Marked
<1> QED BY <1>2, <1>7, <1>9, <1>10, <1>11, Becoming DEF Good

-----------------------------------------------------------------------------
(* Moves of the history. *)

PutHistory(S, hs, t) == [S EXCEPT !.history = hs, !.trip = t]
Grown(hs, p, frag) == [entry |-> Append(hs.entry, [page |-> p, frag |-> frag]),
                       current |-> Len(hs.entry) + 1]
Moved(hs, e) == [hs EXCEPT !.current = e]

LEMMA PutHistoryFields ==
  ASSUME NEW S \in States, NEW hs \in Histories, NEW t \in {"none", "going", "lost"}
  PROVE  LET T == PutHistory(S, hs, t)
         IN  /\ T \in States /\ T.open = S.open /\ T.bw = S.bw /\ T.handle = S.handle
             /\ T.gui = S.gui /\ T.history = hs /\ T.trip = t
BY DEF States, PutHistory

LEMMA GrownFields ==
  ASSUME NEW hs \in Histories, NEW p \in Page, NEW frag \in BOOLEAN
  PROVE  LET new == Grown(hs, p, frag)
         IN  /\ new \in Histories /\ new.current \in 1..Len(new.entry)
             /\ new.entry[new.current].page = p
<1> DEFINE q == [page |-> p, frag |-> frag]
           s == Append(hs.entry, q)
<1>1. q \in Entries /\ q.page = p
  BY DEF Entries
<1>2. hs.entry \in Seq(Entries)
  BY DEF Histories
<1> HIDE DEF q
<1>3. s \in Seq(Entries) /\ Len(s) = Len(hs.entry) + 1 /\ s[Len(hs.entry) + 1] = q /\ Len(hs.entry) \in Nat
  BY <1>1, <1>2
<1>4. Grown(hs, p, frag) = [entry |-> s, current |-> Len(hs.entry) + 1]
  BY DEF Grown, q
<1> HIDE DEF s
<1> QED BY <1>1, <1>3, <1>4 DEF Histories

LEMMA MovedFields ==
  ASSUME NEW hs \in Histories, NEW e \in 1..Len(hs.entry)
  PROVE  LET new == Moved(hs, e)
         IN  /\ new \in Histories /\ new.entry = hs.entry /\ new.current = e
             /\ hs.entry[e].page \in Page /\ e # 0 /\ e \in 0..Len(hs.entry)
<1>1. hs.entry \in Seq(Entries) /\ hs.entry[e] \in Entries /\ e \in Nat /\ e # 0
  BY DEF Histories
<1> QED BY <1>1 DEF Histories, Moved, Entries

LEMMA SameWindows ==
  ASSUME NEW S, NEW T \in States, Owned(S), Opened(S), Throbs(S),
         T.open = S.open, T.bw = S.bw, T.handle = S.handle, T.gui = S.gui
  PROVE  Owned(T) /\ Opened(T) /\ Throbs(T)
BY DEF Owned, Opened, Throbs, Runs

LEMMA RejoinedValues ==
  ASSUME NEW S
  PROVE  /\ Rejoined(S) \in {"none", "lost"}
         /\ Rejoined(S) = "none" => S.trip = "none" \/ S.bw[Root].loading = 0 \/ S.bw[Root].add
BY DEF Rejoined

(* The entry marked becomes one of the page shown. *)
LEMMA GoodPlace ==
  ASSUME NEW S, Good(S), S.bw[Root].current # 0, NEW hs \in Histories,
         hs.current \in 1..Len(hs.entry),
         hs.entry[hs.current].page = S.handle[S.bw[Root].current].page
  PROVE  Good(PutHistory(S, hs, Rejoined(S)))
<1> DEFINE t == Rejoined(S)
           T == PutHistory(S, hs, t)
<1>1. t \in {"none", "lost"}
      /\ (t = "none" => S.trip = "none" \/ ~Unlisted(S))
  BY RejoinedValues DEF Unlisted
<1>2. S \in States /\ Owned(S) /\ Opened(S) /\ Throbs(S)
  BY DEF Good
<1> HIDE DEF t
<1>3. /\ T \in States /\ T.open = S.open /\ T.bw = S.bw /\ T.handle = S.handle
      /\ T.gui = S.gui /\ T.history = hs /\ T.trip = t
  BY <1>1, <1>2, PutHistoryFields
<1> HIDE DEF T
<1>4. Owned(T) /\ Opened(T) /\ Throbs(T)
  BY <1>2, <1>3, SameWindows
<1>5. Trips(T)
  <2>1. hs.current # 0 /\ hs.current \in 0..Len(hs.entry)
    OBVIOUS
  <2>2. Marks(T, T.bw[Root].current)
    BY <1>3 DEF Marks
  <2>3. ASSUME Unlisted(T), T.trip = "none" PROVE Marks(T, T.bw[Root].loading)
    <3>1. Unlisted(S) /\ S.trip = "none" /\ T.bw[Root].loading # 0
      BY <1>1, <1>3, <2>3 DEF Unlisted
    <3>2. S.handle[S.bw[Root].loading].page = S.history.entry[S.history.current].page
      BY <3>1 DEF Good, Trips, Marks
    <3>3. S.handle[S.bw[Root].current].page = S.history.entry[S.history.current].page
      BY <3>1, RootShows
    <3> QED BY <1>3, <3>1, <3>2, <3>3 DEF Marks
  <2> QED BY <1>1, <1>3, <2>1, <2>2, <2>3 DEF Trips, Marked
<1> QED BY <1>3, <1>4, <1>5 DEF Good, T, t

LEMMA FragmentSafe ==
  ASSUME IInv, GoToFragment
  PROVE  Good(State')
<1> DEFINE p == handle[bw[Root].current].page
           frag == TRUE
           old == State.history
           hs == Grown(old, p, frag)
           t == Rejoined(State)
<1>1. Root \in open /\ bw[Root].current # 0 /\ Becomes(history_add(State, p, frag))
  BY DEF GoToFragment
<1>2. Good(State) /\ old \in Histories
  BY StateFields DEF IInv, Good
<1>3. p \in Page /\ p = State.handle[State.bw[Root].current].page
  BY <1>1, <1>2, RootShows, StateVars DEF Pages
<1>4. frag \in BOOLEAN
  OBVIOUS
<1>5. history_add(State, p, frag) = PutHistory(State, hs, t)
  BY DEF history_add, PutHistory, Grown
<1> HIDE DEF p, frag, old
<1>6. hs \in Histories /\ hs.current \in 1..Len(hs.entry) /\ hs.entry[hs.current].page = p
  <2>1. old \in Histories /\ p \in Page
    BY <1>2, <1>3
  <2> QED BY <2>1, <1>4, GrownFields
<1> HIDE DEF hs
<1>7. Good(PutHistory(State, hs, t))
  BY <1>1, <1>2, <1>3, <1>6, GoodPlace, StateVars
<1> HIDE DEF t
<1> QED BY <1>1, <1>5, <1>7, Becoming

LEMMA HistoryGoSafe ==
  ASSUME IInv, NEW e \in DOMAIN history.entry, history_go(e)
  PROVE  Good(State')
<1> DEFINE hs == Moved(State.history, e)
           t == State.trip
           S == PutHistory(State, hs, t)
           c == bw[Root].current
           p == history.entry[e].page
<1>1. Good(State) /\ State \in States /\ State.history \in Histories /\ Root \in open
  BY StateFields DEF IInv, Good, history_go
<1>2. e \in 1..Len(State.history.entry)
  BY <1>1, StateVars DEF Histories
<1>3. hs \in Histories /\ hs.entry = State.history.entry /\ hs.current = e /\ p \in Page
      /\ e # 0 /\ e \in 0..Len(State.history.entry)
  BY <1>1, <1>2, MovedFields, StateVars
<1>4. [State EXCEPT !.history.current = e] = S
  BY <1>1 DEF PutHistory, Moved, States
<1>5. t \in {"none", "going", "lost"} /\ t = trip
  BY <1>1, StateFields, StateVars
<1> HIDE DEF hs, t
<1>6. /\ S \in States /\ S.open = open /\ S.bw = bw /\ S.handle = handle
      /\ S.gui = gui /\ S.history = hs /\ S.trip = trip
  <2>1. /\ S \in States /\ S.open = State.open /\ S.bw = State.bw /\ S.handle = State.handle
        /\ S.gui = State.gui /\ S.history = hs /\ S.trip = t
    <3>1. State \in States /\ hs \in Histories /\ t \in {"none", "going", "lost"}
      BY <1>1, <1>3, <1>5
    <3> QED BY <3>1, PutHistoryFields
  <2> HIDE DEF S
  <2> QED BY <1>5, <2>1, StateVars
<1>7. Owned(S) /\ Opened(S) /\ Throbs(S)
  <2> HIDE DEF S
  <2> QED BY <1>1, <1>6, SameWindows, StateVars DEF Good
<1>8. CASE history.entry[e].frag /\ c # 0 /\ handle[c].page = p
  <2> DEFINE u == Rejoined(State)
  <2>1. Becomes([S EXCEPT !.trip = Rejoined(S)])
    BY <1>4, <1>8 DEF history_go
  <2>2. Rejoined(S) = u
    BY <1>6, StateVars DEF Rejoined
  <2>3. [S EXCEPT !.trip = u] = PutHistory(State, hs, u)
    BY <1>1 DEF PutHistory, States
  <2>4. Good(PutHistory(State, hs, u))
    <3>1. hs.current \in 1..Len(hs.entry) /\ hs.entry[hs.current].page = State.handle[State.bw[Root].current].page
          /\ State.bw[Root].current # 0
      BY <1>2, <1>3, <1>8, StateVars
    <3> QED BY <1>1, <1>3, <3>1, GoodPlace
  <2> HIDE DEF u, S
  <2> QED BY <2>1, <2>2, <2>3, <2>4, Becoming
<1>9. CASE ~(history.entry[e].frag /\ c # 0 /\ handle[c].page = p)
  <2>1. PICK refused \in BOOLEAN, icon \in Icons(Root), later \in SUBSET Unfinished :
          Becomes([browser_window_go_post(S, Root, p, FALSE, refused, icon, later)
                     EXCEPT !.trip = IF refused THEN "lost" ELSE "going"])
    BY <1>4, <1>9 DEF history_go
  <2> DEFINE add == FALSE
             u == IF refused THEN "lost" ELSE "going"
             V == browser_window_go_post(S, Root, p, add, refused, icon, later)
             T == PutTrip(V, u)
  <2>2. Becomes(T)
    BY <2>1 DEF PutTrip
  <2>3. add \in BOOLEAN /\ ~add /\ p \in Pages(Root) /\ u \in {"none", "going", "lost"}
        /\ u = IF refused THEN "lost" ELSE "going"
    BY <1>3 DEF Pages
  <2>4. p = hs.entry[hs.current].page
    BY <1>3, StateVars
  <2> HIDE DEF add, p, u, S
  <2>5. /\ V \in States /\ Owned(V) /\ Opened(V) /\ Throbs(V)
        /\ V.open = S.open \ Children(S, Root) /\ V.history = S.history
        /\ V.bw[Root].add = add
        /\ IF refused THEN V.bw[Root].loading = 0
           ELSE V.bw[Root].loading # 0 /\ V.handle[V.bw[Root].loading].page = p
    BY <1>1, <1>6, <1>7, <2>3, GoPostFields
  <2> HIDE DEF V
  <2>6. /\ T \in States /\ T.open = V.open /\ T.bw = V.bw /\ T.history = V.history
        /\ T.handle = V.handle /\ T.gui = V.gui /\ T.trip = u
    BY <2>3, <2>5, PutTripFields
  <2> HIDE DEF T
  <2>7. Owned(T) /\ Opened(T) /\ Throbs(T)
    BY <2>5, <2>6, SameWindows
  <2>8. Trips(T)
    BY <1>3, <1>6, <2>3, <2>4, <2>5, <2>6 DEF Trips, Marked, Unlisted, Marks
  <2> QED BY <2>2, <2>6, <2>7, <2>8, Becoming DEF Good
<1> QED BY <1>8, <1>9

-----------------------------------------------------------------------------
(* The messages of a page and of an icon. *)

LEMMA PageWindow ==
  ASSUME NEW S, Good(S), NEW h \in Handle, S.handle[h].page # NULL,
         NEW w, w = S.handle[h].win
  PROVE  /\ S.handle[h].status \in {"fetching", "LOADING"} =>
              w \in S.open /\ w \in Window /\ S.bw[w].loading = h /\ Loads(S.handle[h], w)
         /\ S.handle[h].status \in {"READY", "DONE"} =>
              w \in S.open /\ w \in Window /\ S.bw[w].current = h /\ Shows(S.handle[h], w)
<1>1. S \in States /\ Owned(S) /\ Opened(S) /\ h # 0
  BY Names DEF Good
<1>2. S.handle[h].status # "free" => S.handle[h] # Free
  BY NewTypes
<1>3. S.handle[h] # Free => w \in Window /\ Stands(S.bw[w], S.handle[h], h, w)
  BY <1>1 DEF Owned
<1>4. S.handle[h] # Free =>
         \/ w \in Window /\ S.bw[w].loading = h /\ Loads(S.handle[h], w)
         \/ w \in Window /\ S.bw[w].current = h /\ Shows(S.handle[h], w)
  BY <1>3 DEF Stands, FetchesIcon, ShowsIcon
<1>5. w \in Window /\ (S.bw[w].loading = h \/ S.bw[w].current = h) => w \in S.open
  BY <1>1, Closed
<1> QED BY <1>2, <1>4, <1>5 DEF Loads, Shows

LEMMA IconWindow ==
  ASSUME NEW S, Good(S), NEW h \in Handle, S.handle[h].win # NULL,
         S.handle[h].page = NULL, S.handle[h].status = "fetching"
  PROVE  Root \in S.open /\ S.bw[Root].lfav = h /\ FetchesIcon(S.handle[h], Root)
<1>1. S \in States /\ Owned(S) /\ Opened(S) /\ h # 0 /\ S.handle[h] # Free
  BY Names, NewTypes DEF Good
<1> DEFINE w == S.handle[h].win
<1>2. w \in Window /\ Stands(S.bw[w], S.handle[h], h, w)
  BY <1>1 DEF Owned
<1>3. NULL \notin Pages(w)
  BY Names DEF Pages
<1>4. w = Root /\ S.bw[Root].lfav = h /\ FetchesIcon(S.handle[h], Root)
  BY <1>2, <1>3 DEF Stands, Loads, Shows, FetchesIcon, ShowsIcon
<1> QED BY <1>1, <1>2, <1>4, Closed

(* The content of a page goes on. *)
LEMMA GoodReport ==
  ASSUME NEW S, Good(S), NEW w \in S.open, NEW h \in Handle, NEW s \in Statuses,
         \/ S.bw[w].loading = h /\ s \in {"fetching", "LOADING"}
         \/ S.bw[w].current = h /\ s = "READY"
  PROVE  Good(PutRec(S, h, Reports(S.handle[h], s)))
<1> DEFINE r == Reports(S.handle[h], s)
           T == PutRec(S, h, r)
           D == {h}
<1>1. S \in States /\ Owned(S) /\ w \in Window /\ h # 0 /\ S.handle[h] \in Records /\ S.bw[w] \in Fieldset
  BY Names, StateFields DEF Good
<1>2. r \in Records /\ r.win = S.handle[h].win /\ r.page = S.handle[h].page /\ r.status = s
  BY <1>1, ReportsFields
<1> HIDE DEF r
<1>3. /\ T \in States /\ T.open = S.open /\ T.bw = S.bw /\ T.history = S.history
      /\ T.gui = S.gui /\ T.trip = S.trip
      /\ T.handle[h] = r /\ \A g \in Handle \ {h} : T.handle[g] = S.handle[g]
  BY <1>1, <1>2, PutRecFields
<1> HIDE DEF T
<1>4. \/ S.bw[w].loading = h /\ Loads(S.handle[h], w) /\ Loads(r, w)
      \/ S.bw[w].current = h /\ Shows(S.handle[h], w) /\ Shows(r, w) /\ s = "READY"
  <2>1. /\ S.bw[w].current # 0 => S.bw[w].current \in Handle /\ Shows(S.handle[S.bw[w].current], w)
        /\ S.bw[w].loading # 0 => S.bw[w].loading \in Handle /\ Loads(S.handle[S.bw[w].loading], w)
    BY <1>1, HandleFields
  <2>2. CASE S.bw[w].loading = h /\ s \in {"fetching", "LOADING"}
    BY <1>1, <1>2, <2>1, <2>2 DEF Loads
  <2>3. CASE S.bw[w].current = h /\ s = "READY"
    BY <1>1, <1>2, <2>1, <2>3 DEF Shows
  <2> QED BY <2>2, <2>3
<1>5. Keeps(S.bw[w], T.handle, w)
  <2>1. ASSUME NEW g \in Handle, g # h PROVE T.handle[g] = S.handle[g]
    BY <1>3, <2>1
  <2>2. Keeps(S.bw[w], S.handle, w)
    BY <1>1 DEF Owned
  <2>3. /\ S.bw[w].lfav # h /\ S.bw[w].cfav # h
        /\ S.bw[w].current = h => Shows(r, w)
        /\ S.bw[w].loading = h => Loads(r, w)
    BY <1>1, <1>4, <2>2, Exclusive DEF Keeps
  <2> QED BY <1>1, <1>3, <2>1, <2>2, <2>3, WindowFields DEF Keeps
<1>6. Stands(S.bw[w], r, h, w) /\ S.handle[h].win = w /\ r.win = w
  BY <1>4 DEF Stands, Loads, Shows
<1>7. Owned(T)
  <2>1. Kept(S.bw[w], T.bw[w], {h})
    BY <1>3 DEF Kept
  <2>2. S.handle[h].win = w /\ T.handle[h].win = w /\ Stands(T.bw[w], T.handle[h], h, w)
    BY <1>3, <1>6
  <2>3. Keeps(T.bw[w], T.handle, w)
    BY <1>3, <1>5
  <2> QED BY <1>1, <1>3, <2>1, <2>2, <2>3, OwnedOne
<1>8. Local(S, T, w, D)
  BY <1>3, <1>7 DEF Local
<1>9. Alike(T.bw[w], S.bw[w], {"lfav", "cfav", "throbbing", "refresh"})
  BY <1>1, <1>3 DEF Alike
<1>10. Throbs(S) /\ Opened(S)
  BY DEF Good
<1>11. Runs(T)
  BY <1>3, <1>10 DEF Throbs, Runs
<1>12. T.bw[w].throbbing => Awaited(T.bw[w], T.handle)
  <2>1. S.bw[w].throbbing => Awaited(S.bw[w], S.handle)
    BY <1>10 DEF Throbs
  <2>2. S.bw[w].loading = 0 /\ S.bw[w].current # 0 => T.handle[S.bw[w].current].status \in {"READY", S.handle[S.bw[w].current].status}
    BY <1>1, <1>2, <1>3, <1>4, HandleFields
  <2> QED BY <1>3, <2>1, <2>2 DEF Awaited
<1>13. /\ S.bw[w].current # 0 => T.handle[S.bw[w].current].page = S.handle[S.bw[w].current].page
       /\ S.bw[w].loading # 0 => T.handle[S.bw[w].loading].page = S.handle[S.bw[w].loading].page
  BY <1>1, <1>2, <1>3, HandleFields
<1>14. T.bw[w].refresh => T.bw[w].current # 0
  BY <1>1, <1>3, <1>10 DEF Opened
<1>15. \A g \in Handle : g \in D => S.handle[g].win = w
  BY <1>6
<1> HIDE DEF D
<1>16. Good(T)
  BY <1>1, <1>3, <1>8, <1>9, <1>11, <1>12, <1>13, <1>14, <1>15, GoodLocal
<1> QED BY <1>16 DEF T, r

LEMMA LoadingSafe ==
  ASSUME IInv, NEW h \in Handle, Loading(h)
  PROVE  Good(State')
<1> DEFINE w == State.handle[h].win
           s == "LOADING"
           P == PutRec(State, h, Reports(State.handle[h], s))
           x == FALSE
           b == Period(P.bw[w], x)
           T == PutWin(P, w, b)
<1>1. Good(State) /\ State.handle[h].page # NULL /\ State.handle[h].status = "fetching"
  BY StateVars DEF IInv, Loading, IsPage
<1>2. w \in State.open /\ State.bw[w].loading = h /\ w \in Window
  BY <1>1, PageWindow
<1>3. Becomes(T)
  <2>1. [State EXCEPT !.handle[h].status = "LOADING", !.bw[w].interval = FALSE] = T
    <3>1. P.bw = State.bw
      BY DEF PutRec, State
    <3>2. [State EXCEPT !.handle[h].status = "LOADING", !.bw[w].interval = FALSE]
            = [P EXCEPT !.bw[w].interval = FALSE]
      BY DEF PutRec, Reports
    <3> HIDE DEF P
    <3> QED BY <3>1, <3>2 DEF PutWin, Period
  <2> QED BY <2>1, StateVars DEF Loading, Of
<1>4. s \in Statuses /\ s \in {"fetching", "LOADING"} /\ x \in BOOLEAN
  BY DEF Statuses
<1> HIDE DEF w, s, x
<1>5. Good(P)
  BY <1>1, <1>2, <1>4, GoodReport
<1>6. P.open = State.open
  BY DEF PutRec, State
<1> HIDE DEF P
<1>7. P.bw[w] \in Fieldset /\ Opened(P)
  BY <1>2, <1>5, StateFields DEF Good
<1>8. b \in Fieldset /\ Alike(b, P.bw[w], {"refresh"}) /\ (b.refresh => b.current # 0)
  <2>1. Alike(b, P.bw[w], {})
    BY <1>4, <1>7, PeriodFields
  <2> QED BY <1>2, <1>7, <2>1 DEF Alike, Opened
<1> HIDE DEF b
<1>9. Good(T)
  BY <1>2, <1>5, <1>6, <1>8, GoodFields
<1> QED BY <1>3, <1>9, Becoming

LEMMA RefreshesSafe ==
  ASSUME IInv, NEW h \in Handle, Refreshes(h)
  PROVE  Good(State')
<1> DEFINE w == State.handle[h].win
           x == TRUE
           b == Period(State.bw[w], x)
           T == PutWin(State, w, b)
<1>1. Good(State) /\ State.handle[h].page # NULL /\ State.handle[h].status = "LOADING" /\ x \in BOOLEAN
  BY StateVars DEF IInv, Refreshes, IsPage
<1>2. w \in State.open /\ State.bw[w].loading = h /\ w \in Window
  BY <1>1, PageWindow
<1>3. Becomes(T)
  BY StateVars DEF Refreshes, Of, PutWin, Period
<1> HIDE DEF w, x
<1>4. State.bw[w] \in Fieldset /\ Opened(State)
  BY <1>1, <1>2, StateFields DEF Good
<1>5. b \in Fieldset /\ Alike(b, State.bw[w], {"refresh"}) /\ (b.refresh => b.current # 0)
  <2>1. Alike(b, State.bw[w], {})
    BY <1>1, <1>4, PeriodFields
  <2> QED BY <1>2, <1>4, <2>1 DEF Alike, Opened
<1> HIDE DEF b
<1>6. Good(T)
  BY <1>1, <1>2, <1>5, GoodFields
<1> QED BY <1>3, <1>6, Becoming

LEMMA AgainSafe ==
  ASSUME IInv, NEW h \in Handle, BecomesReadyAgain(h)
  PROVE  Good(State')
<1> DEFINE w == State.handle[h].win
           s == "READY"
           T == PutRec(State, h, Reports(State.handle[h], s))
<1>1. Good(State) /\ State.handle[h].page # NULL /\ State.handle[h].status = "DONE"
  BY StateVars DEF IInv, BecomesReadyAgain, IsPage
<1>2. w \in State.open /\ State.bw[w].current = h
  BY <1>1, PageWindow
<1>3. Becomes(T)
  BY DEF BecomesReadyAgain, PutRec, Reports
<1>4. s \in Statuses /\ s = "READY"
  BY DEF Statuses
<1> HIDE DEF w, s
<1>5. Good(T)
  BY <1>1, <1>2, <1>4, GoodReport
<1> QED BY <1>3, <1>5, Becoming

LEMMA LinkSafe ==
  ASSUME IInv, NEW h \in Handle, Link(h)
  PROVE  Good(State')
<1> DEFINE S == State
           w == Root
           icon == "found"
           T == browser_window_update_favicon(S, w, icon)
           D == {}
<1>1. Good(S) /\ S.handle[h].page # NULL /\ S.handle[h].status = "LOADING" /\ S.handle[h].win = w
  BY StateVars DEF IInv, Link, IsPage, Of
<1>2. w \in S.open /\ w \in Window /\ S \in States /\ Owned(S) /\ Opened(S) /\ Throbs(S)
  BY <1>1, PageWindow DEF Good
<1>3. Becomes(T)
  BY DEF Link, Of
<1>4. icon \in Icons(w)
  BY DEF Icons
<1> HIDE DEF S, icon
<1>5. Local(S, T, w, D) /\ T.gui = S.gui /\ T.trip = S.trip /\ Alike(T.bw[w], S.bw[w], {"lfav"})
  BY <1>2, <1>4, FaviconFields
<1> HIDE DEF T
<1>6. /\ \A v \in S.open : T.bw[v].throbbing = S.bw[v].throbbing
      /\ S.open \subseteq Window
  BY <1>2, <1>5, StateFields DEF Local, Alike
<1>7. Runs(T)
  BY <1>2, <1>5, <1>6 DEF Throbs, Runs, Local
<1>8. \A g \in Handle : S.handle[g] # Free => T.handle[g] = S.handle[g]
  BY <1>5 DEF Local
<1>9. /\ S.bw[w].current # 0 => T.handle[S.bw[w].current] = S.handle[S.bw[w].current]
      /\ S.bw[w].loading # 0 => T.handle[S.bw[w].loading] = S.handle[S.bw[w].loading]
  BY <1>2, <1>8, HandleFields, Exclusive
<1>10. /\ T.bw[w].refresh => T.bw[w].current # 0
       /\ T.bw[w].throbbing => Awaited(T.bw[w], T.handle)
       /\ Alike(T.bw[w], S.bw[w], {"lfav", "cfav", "throbbing", "refresh"})
  BY <1>2, <1>5, <1>9 DEF Alike, Opened, Throbs, Awaited
<1>11. \A g : g \notin D
  OBVIOUS
<1> HIDE DEF D, w
<1>12. Good(T)
  BY <1>1, <1>2, <1>5, <1>7, <1>9, <1>10, <1>11, GoodLocal
<1> QED BY <1>3, <1>12, Becoming

LEMMA DoneSafe ==
  ASSUME IInv, NEW h \in Handle, Done(h)
  PROVE  Good(State')
<1> DEFINE S == State
           w == S.handle[h].win
           D == {h}
<1>1. Good(S) /\ S.handle[h].page # NULL /\ S.handle[h].status = "READY"
  BY StateVars DEF IInv, Done, IsPage
<1>2. w \in S.open /\ w \in Window /\ S.bw[w].current = h /\ Shows(S.handle[h], w) /\ h # 0
  BY <1>1, PageWindow, Names
<1>3. PICK icon \in Icons(w) : Becomes(ShownDone(S, w, icon))
  BY StateVars DEF Done, Of
<1> DEFINE T == ShownDone(S, w, icon)
<1>4. S \in States /\ Owned(S) /\ Opened(S) /\ Throbs(S) /\ S.open \subseteq Window
  BY <1>1, StateFields DEF Good
<1> HIDE DEF S, w
<1>5. /\ Local(S, T, w, D) /\ T.trip = S.trip
      /\ T.handle[h].page = S.handle[h].page /\ T.handle[h].status = "DONE"
      /\ Alike(T.bw[w], S.bw[w], {"lfav", "throbbing", "refresh"}) /\ ~T.bw[w].throbbing
      /\ T.gui = (S.gui /\ \E v \in S.open \ {w} : S.bw[v].throbbing)
  <2> HIDE DEF T
  <2>1. LET U == ShownDone(S, w, icon)
            g == S.bw[w].current
        IN  /\ Local(S, U, w, {g}) /\ U.trip = S.trip
            /\ U.handle[g].page = S.handle[g].page /\ U.handle[g].status = "DONE"
            /\ Alike(U.bw[w], S.bw[w], {"lfav", "throbbing", "refresh"}) /\ ~U.bw[w].throbbing
            /\ U.gui = (S.gui /\ \E v \in S.open \ {w} : S.bw[v].throbbing)
    BY <1>2, <1>4, ShownDoneFields
  <2> QED BY <1>2, <2>1 DEF T
<1> HIDE DEF T
<1>6. Runs(T)
  BY <1>2, <1>4, <1>5, ZenonT(40) DEF Throbs, Runs, Local
<1>7. S.bw[w].loading # 0 => T.handle[S.bw[w].loading] = S.handle[S.bw[w].loading]
  BY <1>2, <1>4, <1>5, HandleFields, Exclusive DEF Local
<1>8. /\ T.bw[w].refresh => T.bw[w].current # 0
      /\ Alike(T.bw[w], S.bw[w], {"lfav", "cfav", "throbbing", "refresh"})
  BY <1>2, <1>5 DEF Alike
<1>9. \A g \in Handle : g \in D => S.handle[g].win = w
  BY <1>2 DEF Shows
<1> HIDE DEF D
<1>10. Good(T)
  <2>1. /\ Local(S, T, w, D) /\ T.trip = S.trip /\ w \in Window /\ w \in S.open
        /\ T.bw[w].throbbing => Awaited(T.bw[w], T.handle)
    BY <1>1, <1>2, <1>4, <1>5
  <2>2. /\ S.bw[w].current # 0 => T.handle[S.bw[w].current].page = S.handle[S.bw[w].current].page
        /\ S.bw[w].loading # 0 => T.handle[S.bw[w].loading].page = S.handle[S.bw[w].loading].page
    BY <1>2, <1>5, <1>7
  <2> QED BY <1>1, <1>6, <1>8, <1>9, <2>1, <2>2, GoodLocal
<1> QED BY <1>3, <1>10, Becoming DEF T

(* The page a window loads does not arrive. *)
LEMMA GoodFails ==
  ASSUME NEW S, Good(S), NEW w \in S.open, S.bw[w].loading # 0
  PROVE  Good(browser_window_stop_throbber(GiveUp(S, w), w))
<1> DEFINE l == S.bw[w].loading
           A == GiveUp(S, w)
           T == browser_window_stop_throbber(A, w)
<1>1. S \in States /\ Owned(S) /\ Opened(S) /\ Throbs(S) /\ Trips(S) /\ S.open \subseteq Window /\ w \in Window
  BY StateFields DEF Good
<1>2. /\ Local(S, A, w, {l}) /\ A.gui = S.gui
      /\ A.trip = IF w = Root /\ S.trip = "going" THEN "lost" ELSE S.trip
      /\ Alike(A.bw[w], S.bw[w], {"loading"}) /\ A.bw[w].loading = 0
  BY <1>1, GiveUpFields
<1>3. l \in Handle /\ Loads(S.handle[l], w) /\ l # 0
  BY <1>1, HandleFields
<1> HIDE DEF A, l
<1>4. A \in States /\ Owned(A) /\ A.open = S.open /\ A.history = S.history
  BY <1>2 DEF Local
<1>5. /\ T \in States /\ T.open = A.open /\ T.handle = A.handle /\ T.history = A.history
      /\ T.trip = A.trip /\ Alike(T.bw[w], A.bw[w], {"throbbing"}) /\ ~T.bw[w].throbbing
      /\ \A v \in Window \ {w} : T.bw[v] = A.bw[v]
      /\ T.gui = (A.gui /\ \E v \in A.open \ {w} : A.bw[v].throbbing)
  BY <1>1, <1>4, StopThrobberFields
<1> HIDE DEF T
<1>6. Owned(T)
  <2>1. Alike(T.bw[w], A.bw[w], {"throbbing", "add", "refresh"})
    BY <1>5 DEF Alike
  <2> QED BY <1>1, <1>4, <1>5, <2>1, OwnedFields DEF Local
<1>7. /\ \A v \in Window \ {w} : T.bw[v] = S.bw[v]
      /\ T.bw[w].current = S.bw[w].current /\ T.bw[w].refresh = S.bw[w].refresh
      /\ T.bw[w].loading = 0 /\ ~T.bw[w].throbbing
      /\ \A g \in Handle : S.handle[g] # Free /\ g # l => T.handle[g] = S.handle[g]
  BY <1>2, <1>5 DEF Local, Alike
<1>8. Opened(T)
  <2>1. \A v \in Window \ T.open : T.bw[v] = NewWindow
    BY <1>1, <1>4, <1>5, <1>7 DEF Opened
  <2>2. \A v \in Window : T.bw[v].refresh => T.bw[v].current # 0
    BY <1>1, <1>7 DEF Opened
  <2>3. T.open \cap Frame # {} => T.bw[Root].current # 0 /\ T.bw[Root].loading = 0
    BY <1>1, <1>4, <1>5, <1>7, Names DEF Opened
  <2> QED BY <2>1, <2>2, <2>3 DEF Opened
<1>9. Throbs(T)
  <2>1. Runs(T)
    <3>1. \A v \in S.open \ {w} : T.bw[v] = S.bw[v] /\ A.bw[v] = S.bw[v]
      BY <1>1, <1>2, <1>7 DEF Local
    <3>2. T.open = S.open /\ T.gui = (S.gui /\ \E v \in S.open \ {w} : S.bw[v].throbbing)
      BY <1>2, <1>4, <1>5, <3>1
    <3>3. S.gui = \E v \in S.open : S.bw[v].throbbing
      BY <1>1 DEF Throbs, Runs
    <3> QED BY <1>7, <3>1, <3>2, <3>3, ZenonT(40) DEF Runs
  <2>2. ASSUME NEW v \in T.open, T.bw[v].throbbing PROVE Awaited(T.bw[v], T.handle)
    <3>1. v # w /\ v \in Window /\ v \in S.open /\ T.bw[v] = S.bw[v]
      BY <1>1, <1>4, <1>5, <1>7, <2>2
    <3>2. Awaited(S.bw[v], S.handle)
      BY <1>1, <2>2, <3>1 DEF Throbs
    <3>3. ASSUME NEW g \in Handle, S.handle[g].win = v PROVE T.handle[g] = S.handle[g]
      BY <1>3, <1>7, <3>1, <3>3, NewTypes, Names DEF Loads
    <3> QED BY <1>1, <1>5, <3>1, <3>2, <3>3, OthersWait
  <2> QED BY <2>1, <2>2 DEF Throbs
<1>10. Trips(T)
  <2>1. S.bw[Root].current # 0 => T.handle[S.bw[Root].current] = S.handle[S.bw[Root].current]
    BY <1>1, <1>3, <1>7, Names, HandleFields, Exclusive
  <2>2. CASE w = Root
    <3>1. T.trip # "going" /\ (T.trip = "none" => S.trip = "none")
      BY <1>2, <1>5, <2>2
    <3> QED BY <1>1, <1>4, <1>5, <1>7, <2>1, <2>2, <3>1 DEF Trips, Marked, Marks, Unlisted
  <2>3. CASE w # Root
    <3>1. T.bw[Root] = S.bw[Root] /\ T.trip = S.trip
      BY <1>2, <1>5, <1>7, <2>3, Names
    <3>2. S.bw[Root].loading # 0 => T.handle[S.bw[Root].loading] = S.handle[S.bw[Root].loading]
      <4>1. S.bw[Root].loading # 0 => S.bw[Root].loading \in Handle /\ Loads(S.handle[S.bw[Root].loading], Root)
        BY <1>1, Names, HandleFields
      <4> QED BY <1>3, <1>7, <2>3, <4>1, Names, Exclusive DEF Loads
    <3> QED BY <1>1, <1>4, <1>5, <2>1, <3>1, <3>2 DEF Trips, Marked, Marks, Unlisted
  <2> QED BY <2>2, <2>3
<1> QED BY <1>5, <1>6, <1>8, <1>9, <1>10 DEF Good, T, A

LEMMA DownloadSafe ==
  ASSUME IInv, NEW h \in Handle, browser_window_convert_to_download(h)
  PROVE  Good(State')
<1> DEFINE S == State
           T == browser_window_stop_throbber(GiveUp(S, Root), Root)
<1>1. Good(S) /\ S.handle[h].page # NULL /\ S.handle[h].status = "fetching" /\ S.handle[h].win = Root
  BY StateVars DEF IInv, browser_window_convert_to_download, IsPage, Of
<1>2. Root \in S.open /\ S.bw[Root].loading = h /\ h # 0
  BY <1>1, PageWindow, Names
<1>3. Becomes(T)
  BY <1>2 DEF browser_window_convert_to_download, GiveUp
<1>4. Good(T)
  BY <1>1, <1>2, GoodFails
<1> HIDE DEF T
<1> QED BY <1>3, <1>4, Becoming

LEMMA ErrorSafe ==
  ASSUME IInv, NEW h \in Handle, Error(h)
  PROVE  Good(State')
<1> DEFINE S == State
           w == handle[h].win
           T == browser_window_stop_throbber(GiveUp(S, w), w)
<1>1. Good(S) /\ S.handle[h].page # NULL /\ S.handle[h].status \in {"fetching", "LOADING"}
      /\ w = S.handle[h].win
  BY StateVars DEF IInv, Error, IsPage
<1>2. w \in S.open /\ S.bw[w].loading = h /\ h # 0 /\ w \in Window
  BY <1>1, PageWindow, Names
<1>3. Becomes(browser_window_stop_throbber(Dropped(S, w, h), w))
  BY DEF Error, Of
<1>4. Dropped(S, w, h) = GiveUp(S, w)
  <2>1. \A L : L.bw = S.bw => [L EXCEPT !.bw[w] = [S.bw[w] EXCEPT !.loading = 0]] = [L EXCEPT !.bw[w].loading = 0]
    OBVIOUS
  <2>2. Lost(hlcache_handle_release(S, h), w).bw = S.bw
    BY DEF Lost, hlcache_handle_release, State
  <2> QED BY <1>2, <2>1, <2>2 DEF Dropped, GiveUp
<1>5. Good(T)
  BY <1>1, <1>2, GoodFails
<1>6. Becomes(T)
  BY <1>3, <1>4
<1> HIDE DEF T
<1> QED BY <1>5, <1>6, Becoming

(* An icon changes nothing but the icons of Root. *)
LEMMA GoodIcon ==
  ASSUME NEW S, Good(S), Root \in S.open, NEW T, NEW D, Local(S, T, Root, D),
         \A g \in Handle : g \in D => S.handle[g].win = Root /\ S.handle[g].page = NULL,
         T.gui = S.gui, T.trip = S.trip, Alike(T.bw[Root], S.bw[Root], {"lfav", "cfav"})
  PROVE  Good(T)
<1> DEFINE w == Root
<1>1. S \in States /\ Owned(S) /\ Opened(S) /\ Throbs(S) /\ w \in Window /\ S.open \subseteq Window
  BY StateFields, Names DEF Good
<1>2. /\ T.open = S.open /\ \A v \in Window \ {w} : T.bw[v] = S.bw[v]
      /\ \A g \in Handle \ D : S.handle[g] # Free => T.handle[g] = S.handle[g]
  BY DEF Local
<1>3. /\ S.bw[w].current # 0 => T.handle[S.bw[w].current] = S.handle[S.bw[w].current]
      /\ S.bw[w].loading # 0 => T.handle[S.bw[w].loading] = S.handle[S.bw[w].loading]
  <2>1. /\ S.bw[w].current # 0 => S.bw[w].current \in Handle /\ Shows(S.handle[S.bw[w].current], w)
        /\ S.bw[w].loading # 0 => S.bw[w].loading \in Handle /\ Loads(S.handle[S.bw[w].loading], w)
    BY <1>1, HandleFields
  <2>2. NULL \notin Pages(w)
    BY Names DEF Pages
  <2>3. /\ S.bw[w].current # 0 => S.bw[w].current \in Handle \ D /\ S.handle[S.bw[w].current] # Free
        /\ S.bw[w].loading # 0 => S.bw[w].loading \in Handle \ D /\ S.handle[S.bw[w].loading] # Free
    BY <2>1, <2>2, NewTypes, Names DEF Shows, Loads
  <2> QED BY <1>2, <2>3
<1>4. Runs(T)
  <2>1. \A v \in S.open : T.bw[v].throbbing = S.bw[v].throbbing
    BY <1>1, <1>2 DEF Alike
  <2> QED BY <1>1, <1>2, <2>1 DEF Throbs, Runs
<1>5. /\ T.bw[w].refresh => T.bw[w].current # 0
      /\ T.bw[w].throbbing => Awaited(T.bw[w], T.handle)
      /\ Alike(T.bw[w], S.bw[w], {"lfav", "cfav", "throbbing", "refresh"})
  BY <1>1, <1>3 DEF Alike, Opened, Throbs, Awaited
<1>6. Local(S, T, w, D) /\ \A g \in Handle : g \in D => S.handle[g].win = w
  OBVIOUS
<1> HIDE DEF w
<1>7. w \in S.open
  BY DEF w
<1> QED BY <1>1, <1>3, <1>4, <1>5, <1>6, <1>7, GoodLocal

LEMMA IconDoneSafe ==
  ASSUME IInv, NEW h \in Handle, IconDone(h)
  PROVE  Good(State')
<1> DEFINE S == State
           w == Root
           c == S.bw[w].cfav
           D == Handle \cap {c, h}
           U == hlcache_handle_release(S, c)
           r == Reports(U.handle[h], "DONE")
           P == PutRec(U, h, r)
           b == ShowIcon(P.bw[w], h)
           T == PutWin(P, w, b)
<1>1. Good(S) /\ S.handle[h].win # NULL /\ S.handle[h].page = NULL /\ S.handle[h].status = "fetching"
  BY StateVars DEF IInv, IconDone, IsIcon
<1>2. w \in S.open /\ S.bw[w].lfav = h /\ FetchesIcon(S.handle[h], w)
  BY <1>1, IconWindow
<1>3. S \in States /\ Owned(S) /\ w \in Window /\ h # 0 /\ S.bw[w] \in Fieldset /\ S.handle[h] \in Records
  BY <1>1, StateFields, Names DEF Good
<1>4. c # 0 => c \in Handle /\ ShowsIcon(S.handle[c], w) /\ c # h
  BY <1>2, <1>3, HandleFields, Exclusive
<1>5. Becomes(T)
  <2>1. U = hlcache_handle_release(State, bw[Root].cfav) /\ U.bw = S.bw
    BY StateVars DEF hlcache_handle_release, State
  <2>2. P.bw = U.bw /\ [U EXCEPT !.handle[h].status = "DONE"] = P
    BY <2>1 DEF PutRec, Reports, hlcache_handle_release, State
  <2> HIDE DEF T, U, P
  <2>3. Becomes([U EXCEPT !.handle[h].status = "DONE", !.bw[Root] = [@ EXCEPT !.cfav = h, !.lfav = 0]])
    BY <2>1 DEF IconDone
  <2>4. [U EXCEPT !.handle[h].status = "DONE", !.bw[Root] = [@ EXCEPT !.cfav = h, !.lfav = 0]]
          = [P EXCEPT !.bw[Root] = [@ EXCEPT !.cfav = h, !.lfav = 0]]
    BY <2>2
  <2>5. [P EXCEPT !.bw[Root] = [@ EXCEPT !.cfav = h, !.lfav = 0]] = T
    BY DEF T, PutWin, ShowIcon
  <2> QED BY <2>3, <2>4, <2>5
<1> HIDE DEF S, w
<1>6. /\ U \in States /\ U.open = S.open /\ U.bw = S.bw /\ U.history = S.history
      /\ U.gui = S.gui /\ U.trip = S.trip
      /\ c # 0 => U.handle[c] = Free
      /\ \A g \in Handle \ {c} : U.handle[g] = S.handle[g]
  <2>1. CASE c = 0
    BY <1>3, <2>1 DEF hlcache_handle_release
  <2>2. CASE c # 0
    BY <1>3, <1>4, <2>2, ReleaseFields
  <2> QED BY <2>1, <2>2
<1> HIDE DEF U
<1>7. U.handle[h] = S.handle[h]
  BY <1>3, <1>4, <1>6
<1>8. r \in Records /\ ShowsIcon(r, w) /\ r.win = w
  <2>1. "DONE" \in Statuses
    BY DEF Statuses
  <2>2. r \in Records /\ r.win = S.handle[h].win /\ r.page = S.handle[h].page /\ r.status = "DONE"
    BY <1>3, <1>7, <2>1, ReportsFields
  <2> QED BY <1>2, <2>2 DEF FetchesIcon, ShowsIcon
<1> HIDE DEF r
<1>9. /\ P \in States /\ P.open = U.open /\ P.bw = U.bw /\ P.history = U.history
      /\ P.gui = U.gui /\ P.trip = U.trip
      /\ P.handle[h] = r /\ \A g \in Handle \ {h} : P.handle[g] = U.handle[g]
  BY <1>6, <1>8, PutRecFields
<1> HIDE DEF P
<1>10. Alike(b, S.bw[w], {"cfav", "lfav"}) /\ b.cfav = h /\ b.lfav = 0 /\ b \in Fieldset
  BY <1>3, <1>6, <1>9, ShowIconFields DEF Alike
<1> HIDE DEF b
<1>11. /\ T \in States /\ T.open = P.open /\ T.handle = P.handle /\ T.history = P.history
       /\ T.gui = P.gui /\ T.trip = P.trip
       /\ T.bw[w] = b /\ \A v \in Window \ {w} : T.bw[v] = P.bw[v]
  BY <1>3, <1>9, <1>10, PutWinFields
<1> HIDE DEF T
<1>12. D \in SUBSET Handle /\ (\A g \in Handle : g \in D <=> g = h \/ g = c)
  OBVIOUS
<1> HIDE DEF D
<1>13. T.handle[h] = r /\ (c # 0 => T.handle[c] = Free)
       /\ \A g \in Handle \ D : T.handle[g] = S.handle[g]
  BY <1>4, <1>6, <1>9, <1>11, <1>12
<1>14. \A g \in Handle : g \in D => S.handle[g].win = w /\ S.handle[g].page = NULL
  <2>1. ASSUME NEW g \in Handle, g \in D PROVE S.handle[g].win = w /\ S.handle[g].page = NULL
    <3>1. g = h \/ (g = c /\ c # 0)
      BY <1>12, <2>1, Names
    <3> QED BY <1>2, <1>4, <3>1 DEF FetchesIcon, ShowsIcon
  <2> QED BY <2>1
<1>15. Owned(T)
  <2>1. Keeps(T.bw[w], T.handle, w)
    <3>1. /\ S.bw[w].current # 0 => S.bw[w].current \in Handle \ D /\ Shows(S.handle[S.bw[w].current], w)
          /\ S.bw[w].loading # 0 => S.bw[w].loading \in Handle \ D /\ Loads(S.handle[S.bw[w].loading], w)
      <4>1. NULL \notin Pages(w)
        BY Names DEF Pages
      <4>2. /\ S.bw[w].current # 0 => S.bw[w].current \in Handle /\ Shows(S.handle[S.bw[w].current], w)
            /\ S.bw[w].loading # 0 => S.bw[w].loading \in Handle /\ Loads(S.handle[S.bw[w].loading], w)
        BY <1>3, HandleFields
      <4>3. \A g \in Handle : Shows(S.handle[g], w) \/ Loads(S.handle[g], w) => g \notin D
        BY <1>14, <4>1 DEF Shows, Loads
      <4> QED BY <4>2, <4>3
    <3> QED BY <1>3, <1>8, <1>10, <1>11, <1>13, <3>1 DEF Keeps, Alike
  <2>2. Kept(S.bw[w], T.bw[w], D)
    <3>1. (c = 0 \/ c \in D) /\ h \in D /\ S.bw[w].cfav = c
      BY <1>4, <1>12
    <3> QED BY <1>2, <1>10, <1>11, <3>1 DEF Kept, Alike
  <2>3. \A g \in D : T.handle[g] = Free \/ (T.handle[g].win = w /\ Stands(T.bw[w], T.handle[g], g, w))
    <3>1. Stands(T.bw[w], r, h, w)
      BY <1>8, <1>10, <1>11 DEF Stands
    <3>2. \A g \in D : g = h \/ (g = c /\ c # 0)
      BY <1>12, Names
    <3> QED BY <1>8, <1>13, <3>1, <3>2
  <2>4. \A v \in Window \ {w} : T.bw[v] = S.bw[v]
    BY <1>6, <1>9, <1>11
  <2>5. \A g \in D : S.handle[g].win = w
    BY <1>12, <1>14
  <2> QED BY <1>3, <1>11, <1>12, <1>13, <2>1, <2>2, <2>3, <2>4, <2>5, OwnedLocal
<1>16. Local(S, T, w, D) /\ T.gui = S.gui /\ T.trip = S.trip
  BY <1>6, <1>9, <1>11, <1>13, <1>15 DEF Local
<1>17. Alike(T.bw[w], S.bw[w], {"lfav", "cfav"})
  BY <1>10, <1>11 DEF Alike
<1>18. Good(T)
  BY <1>1, <1>2, <1>14, <1>16, <1>17, GoodIcon DEF w
<1> QED BY <1>5, <1>18, Becoming

LEMMA IconFailsSafe ==
  ASSUME IInv, NEW h \in Handle, IconFails(h)
  PROVE  Good(State')
<1> DEFINE S == State
           w == Root
           D == {h}
           U == hlcache_handle_release(S, h)
           b == LoseIcon(U.bw[w])
           P == PutWin(U, w, b)
           R == Retrieve(P, Root, "lfav", NULL)
           T == IF bw[Root].failed THEN P ELSE R
<1>1. Good(S) /\ S.handle[h].win # NULL /\ S.handle[h].page = NULL /\ S.handle[h].status = "fetching"
  BY StateVars DEF IInv, IconFails, IsIcon
<1>2. w \in S.open /\ S.bw[w].lfav = h /\ FetchesIcon(S.handle[h], w)
  BY <1>1, IconWindow
<1>3. S \in States /\ Owned(S) /\ w \in Window /\ h # 0 /\ S.bw[w] \in Fieldset /\ S.handle[h] \in Records
  BY <1>1, StateFields, Names DEF Good
<1>4. Becomes(T)
  <2>1. [U EXCEPT !.bw[Root] = [@ EXCEPT !.lfav = 0, !.failed = TRUE]] = P
    BY DEF PutWin, LoseIcon
  <2> HIDE DEF P, w
  <2>2. Becomes(IF bw[Root].failed
                THEN [U EXCEPT !.bw[Root] = [@ EXCEPT !.lfav = 0, !.failed = TRUE]]
                ELSE Retrieve([U EXCEPT !.bw[Root] = [@ EXCEPT !.lfav = 0, !.failed = TRUE]],
                              Root, "lfav", NULL))
    BY DEF IconFails
  <2> QED BY <2>1, <2>2
<1> HIDE DEF S, w
<1>5. /\ U \in States /\ U.open = S.open /\ U.bw = S.bw /\ U.history = S.history
      /\ U.gui = S.gui /\ U.trip = S.trip
      /\ U.handle[h] = Free /\ \A g \in Handle \ {h} : U.handle[g] = S.handle[g]
  BY <1>3, ReleaseFields
<1> HIDE DEF U
<1>6. Alike(b, S.bw[w], {"lfav"}) /\ b.lfav = 0 /\ b \in Fieldset
  BY <1>3, <1>5, LoseIconFields DEF Alike
<1> HIDE DEF b
<1>7. /\ P \in States /\ P.open = S.open /\ P.handle = U.handle /\ P.history = S.history
      /\ P.gui = S.gui /\ P.trip = S.trip
      /\ P.bw[w] = b /\ \A v \in Window \ {w} : P.bw[v] = S.bw[v]
  BY <1>3, <1>5, <1>6, PutWinFields
<1> HIDE DEF P
<1>8. Owned(P)
  <2>1. Keeps(P.bw[w], P.handle, w)
    <3>1. Keeps(S.bw[w], S.handle, w)
      BY <1>3 DEF Owned
    <3>2. \A g \in Handle : Loads(S.handle[g], w) \/ Shows(S.handle[g], w) \/ ShowsIcon(S.handle[g], w)
                              => g # h
      BY <1>2, <1>3, Exclusive
    <3> QED BY <1>3, <1>5, <1>6, <1>7, <3>1, <3>2, WindowFields DEF Keeps, Alike
  <2>2. Kept(S.bw[w], P.bw[w], {h})
    BY <1>2, <1>6, <1>7 DEF Kept, Alike
  <2>3. S.handle[h].win = w
    BY <1>2 DEF FetchesIcon
  <2> QED BY <1>3, <1>5, <1>7, <2>1, <2>2, <2>3, OwnedOne
<1>9. Local(S, P, w, D)
  BY <1>5, <1>7, <1>8 DEF Local
<1>10. \A g \in Handle : g \in D => S.handle[g].win = w /\ S.handle[g].page = NULL
  BY <1>2 DEF FetchesIcon
<1> HIDE DEF D
<1>11. Local(S, T, w, D) /\ T.gui = S.gui /\ T.trip = S.trip /\ Alike(T.bw[w], S.bw[w], {"lfav"})
  <2>1. CASE bw[Root].failed
    BY <1>6, <1>7, <1>9, <2>1
  <2>2. CASE ~bw[Root].failed
    <3>1. P.bw[Root].lfav = 0
      BY <1>6, <1>7 DEF w
    <3>2. Local(P, R, Root, {}) /\ R.gui = P.gui /\ R.trip = P.trip /\ Alike(R.bw[Root], P.bw[Root], {"lfav"})
      BY <1>7, <1>8, <3>1, RetrieveIcon
    <3>3. T = R
      BY <2>2
    <3> HIDE DEF R, T
    <3>4. Local(S, R, w, D)
      BY <1>9, <3>2 DEF Local, w
    <3>5. Alike(R.bw[w], S.bw[w], {"lfav"})
      BY <1>6, <1>7, <3>2 DEF Alike, w
    <3> QED BY <1>7, <3>2, <3>3, <3>4, <3>5
  <2> QED BY <2>1, <2>2
<1> HIDE DEF T
<1>12. Good(T)
  <2>1. Alike(T.bw[w], S.bw[w], {"lfav", "cfav"})
    BY <1>11 DEF Alike
  <2> QED BY <1>1, <1>2, <1>10, <1>11, <2>1, GoodIcon DEF w
<1> QED BY <1>4, <1>12, Becoming

-----------------------------------------------------------------------------
(* A page arrives. *)

Arrived(S, w, h, t) ==
  LET U == hlcache_handle_release(S, S.bw[w].current)
      P == PutRec(U, h, Reports(U.handle[h], "READY"))
  IN PutTrip(PutWin(P, w, Show(P.bw[w], h)), t)

\* T is S after the page of h arrived in w
ArrivedIn(S, T, w, h, t) ==
  /\ T \in States /\ Owned(T) /\ Opened(T) /\ Throbs(T)
  /\ T.open = S.open /\ T.history = S.history /\ T.trip = t
  /\ \A v \in Window \ {w} : T.bw[v] = S.bw[v]
  /\ T.bw[w].current = h /\ T.bw[w].loading = 0 /\ T.bw[w].add = S.bw[w].add
  /\ T.handle[h].page = S.handle[h].page
  /\ \A g \in Handle : S.handle[g] # Free /\ S.handle[g].win # w => T.handle[g] = S.handle[g]

LEMMA ArrivedFields ==
  ASSUME NEW S, Good(S), NEW w \in S.open, NEW h \in Handle, S.bw[w].loading = h,
         NEW t \in {"none", "going", "lost"}
  PROVE  ArrivedIn(S, Arrived(S, w, h, t), w, h, t)
<1> DEFINE c == S.bw[w].current
           U == hlcache_handle_release(S, c)
           r == Reports(U.handle[h], "READY")
           P == PutRec(U, h, r)
           b == Show(P.bw[w], h)
           Q == PutWin(P, w, b)
           T == PutTrip(Q, t)
           D == Handle \cap {c, h}
<1>1. /\ S \in States /\ Owned(S) /\ Opened(S) /\ Throbs(S) /\ w \in Window /\ h # 0
      /\ S.bw[w] \in Fieldset /\ S.handle[h] \in Records /\ S.open \subseteq Window
  BY StateFields, Names DEF Good
<1>2. Loads(S.handle[h], w) /\ (c # 0 => c \in Handle /\ Shows(S.handle[c], w) /\ c # h)
  BY <1>1, HandleFields, Exclusive
<1>3. Arrived(S, w, h, t) = T
  BY DEF Arrived
<1> HIDE DEF c
<1>4. /\ U \in States /\ U.open = S.open /\ U.bw = S.bw /\ U.history = S.history
      /\ U.gui = S.gui /\ U.trip = S.trip
      /\ c # 0 => U.handle[c] = Free
      /\ \A g \in Handle \ {c} : U.handle[g] = S.handle[g]
  <2>1. CASE c = 0
    BY <1>1, <2>1 DEF hlcache_handle_release
  <2>2. CASE c # 0
    BY <1>1, <1>2, <2>2, ReleaseFields
  <2> QED BY <2>1, <2>2
<1> HIDE DEF U
<1>5. U.handle[h] = S.handle[h]
  BY <1>1, <1>2, <1>4
<1>6. r \in Records /\ Shows(r, w) /\ r.win = w /\ r.page = S.handle[h].page /\ r.status = "READY"
  <2>1. "READY" \in Statuses
    BY DEF Statuses
  <2>2. r \in Records /\ r.win = S.handle[h].win /\ r.page = S.handle[h].page /\ r.status = "READY"
    BY <1>1, <1>5, <2>1, ReportsFields
  <2> QED BY <1>2, <2>2 DEF Loads, Shows
<1> HIDE DEF r
<1>7. /\ P \in States /\ P.open = U.open /\ P.bw = U.bw /\ P.history = U.history
      /\ P.gui = U.gui /\ P.trip = U.trip
      /\ P.handle[h] = r /\ \A g \in Handle \ {h} : P.handle[g] = U.handle[g]
  BY <1>4, <1>6, PutRecFields
<1> HIDE DEF P
<1>8. Alike(b, S.bw[w], {"current", "loading"}) /\ b.current = h /\ b.loading = 0 /\ b \in Fieldset
  BY <1>1, <1>4, <1>7, ShowFields DEF Alike
<1> HIDE DEF b
<1>9. /\ Q \in States /\ Q.open = P.open /\ Q.handle = P.handle /\ Q.history = P.history
      /\ Q.gui = P.gui /\ Q.trip = P.trip
      /\ Q.bw[w] = b /\ \A v \in Window \ {w} : Q.bw[v] = P.bw[v]
  BY <1>1, <1>7, <1>8, PutWinFields
<1> HIDE DEF Q
<1>10. /\ T \in States /\ T.open = Q.open /\ T.bw = Q.bw /\ T.history = Q.history
       /\ T.handle = Q.handle /\ T.gui = Q.gui /\ T.trip = t
  BY <1>9, PutTripFields
<1> HIDE DEF T
<1>11. D \in SUBSET Handle /\ (\A g \in Handle : g \in D <=> g = h \/ g = c)
  OBVIOUS
<1> HIDE DEF D
<1>12. T.handle[h] = r /\ (c # 0 => T.handle[c] = Free)
       /\ \A g \in Handle \ D : T.handle[g] = S.handle[g]
  BY <1>2, <1>4, <1>7, <1>9, <1>10, <1>11
<1>13. \A g \in D : S.handle[g].win = w
  BY <1>2, <1>11, Names DEF Loads, Shows
<1>14. Owned(T)
  <2>1. Keeps(T.bw[w], T.handle, w)
    <3>1. \A g \in Handle : FetchesIcon(S.handle[g], w) \/ ShowsIcon(S.handle[g], w) => g \notin D
      BY <1>1, <1>2, <1>11, Names, Exclusive
    <3>2. /\ S.bw[w].lfav # 0 => S.bw[w].lfav \in Handle \ D /\ FetchesIcon(S.handle[S.bw[w].lfav], w)
          /\ S.bw[w].cfav # 0 => S.bw[w].cfav \in Handle \ D /\ ShowsIcon(S.handle[S.bw[w].cfav], w)
      BY <1>1, <3>1, HandleFields
    <3> QED BY <1>6, <1>8, <1>9, <1>10, <1>12, <3>2 DEF Keeps, Alike
  <2>2. Kept(S.bw[w], T.bw[w], D)
    <3>1. (c = 0 \/ c \in D) /\ h \in D /\ S.bw[w].current = c
      BY <1>2, <1>11 DEF c
    <3> QED BY <1>8, <1>9, <1>10, <3>1 DEF Kept, Alike
  <2>3. \A g \in D : T.handle[g] = Free \/ (T.handle[g].win = w /\ Stands(T.bw[w], T.handle[g], g, w))
    <3>1. Stands(T.bw[w], r, h, w)
      BY <1>6, <1>8, <1>9, <1>10 DEF Stands
    <3>2. \A g \in D : g = h \/ (g = c /\ c # 0)
      BY <1>11, Names
    <3> QED BY <1>6, <1>12, <3>1, <3>2
  <2>4. \A v \in Window \ {w} : T.bw[v] = S.bw[v]
    BY <1>4, <1>7, <1>9, <1>10
  <2> QED BY <1>1, <1>10, <1>11, <1>12, <1>13, <2>1, <2>2, <2>3, <2>4, OwnedLocal
<1>15. /\ T.open = S.open /\ T.history = S.history /\ T.gui = S.gui
       /\ \A v \in Window \ {w} : T.bw[v] = S.bw[v]
       /\ T.bw[w].current = h /\ T.bw[w].loading = 0 /\ T.bw[w].add = S.bw[w].add
       /\ T.bw[w].throbbing = S.bw[w].throbbing
  BY <1>4, <1>7, <1>8, <1>9, <1>10 DEF Alike
<1>16. ASSUME NEW g \in Handle, S.handle[g].win # w PROVE T.handle[g] = S.handle[g]
  BY <1>12, <1>13, <1>16
<1>17. Opened(T)
  <2>1. \A v \in Window \ T.open : T.bw[v] = NewWindow
    BY <1>1, <1>15 DEF Opened
  <2>2. \A v \in Window : T.bw[v].refresh => T.bw[v].current # 0
    BY <1>1, <1>15 DEF Opened
  <2>3. T.open \cap Frame # {} => T.bw[Root].current # 0 /\ T.bw[Root].loading = 0
    BY <1>1, <1>15, Names DEF Opened
  <2> QED BY <2>1, <2>2, <2>3 DEF Opened
<1>18. Throbs(T)
  <2>1. Runs(T)
    <3>1. \A v \in S.open : T.bw[v].throbbing = S.bw[v].throbbing
      BY <1>1, <1>15
    <3> QED BY <1>1, <1>15, <3>1 DEF Throbs, Runs
  <2>2. ASSUME NEW v \in T.open, T.bw[v].throbbing PROVE Awaited(T.bw[v], T.handle)
    <3>1. CASE v = w
      BY <1>1, <1>6, <1>12, <1>15, <3>1 DEF Awaited
    <3>2. CASE v # w
      <4>1. v \in Window /\ v \in S.open /\ T.bw[v] = S.bw[v] /\ Awaited(S.bw[v], S.handle)
        BY <1>1, <1>15, <2>2, <3>2 DEF Throbs
      <4> QED BY <1>1, <1>10, <1>16, <3>2, <4>1, OthersWait
    <3> QED BY <3>1, <3>2
  <2> QED BY <2>1, <2>2 DEF Throbs
<1>19. T.handle[h].page = S.handle[h].page /\ T.trip = t
  BY <1>6, <1>10, <1>12
<1>20. ArrivedIn(S, T, w, h, t)
  BY <1>10, <1>14, <1>15, <1>16, <1>17, <1>18, <1>19 DEF ArrivedIn
<1> QED BY <1>3, <1>20

(* The page's entry is added, or it is the page of the entry marked. *)
LEMMA GoodArrived ==
  ASSUME NEW S, Good(S), NEW w \in S.open, NEW h \in Handle, S.bw[w].loading = h,
         NEW t, t = IF w = Root /\ S.trip = "going" THEN "none" ELSE S.trip,
         w = Root => ~S.bw[w].add
  PROVE  Good(Arrived(S, w, h, t))
<1> DEFINE T == Arrived(S, w, h, t)
<1>1. S \in States /\ Owned(S) /\ Trips(S) /\ w \in Window /\ h # 0 /\ t \in {"none", "going", "lost"}
  BY StateFields, Names DEF Good
<1>2. /\ T \in States /\ Owned(T) /\ Opened(T) /\ Throbs(T)
      /\ T.open = S.open /\ T.history = S.history /\ T.trip = t
      /\ \A v \in Window \ {w} : T.bw[v] = S.bw[v]
      /\ T.bw[w].current = h /\ T.bw[w].loading = 0 /\ T.bw[w].add = S.bw[w].add
      /\ T.handle[h].page = S.handle[h].page
      /\ \A g \in Handle : S.handle[g] # Free /\ S.handle[g].win # w => T.handle[g] = S.handle[g]
  <2>1. t \in {"none", "going", "lost"}
    BY <1>1
  <2>2. ArrivedIn(S, T, w, h, t)
    BY <2>1, ArrivedFields
  <2> QED BY <2>2 DEF ArrivedIn
<1> HIDE DEF T
<1>3. Trips(T)
  <2>1. CASE w = Root
    <3>1. Unlisted(S) /\ (S.trip # "lost" => S.handle[h].page = S.history.entry[S.history.current].page)
          /\ Marked(S)
      BY <1>1, <2>1 DEF Trips, Unlisted, Marks
    <3>2. t # "going" /\ (t = "none" => S.trip # "lost")
      BY <1>1, <2>1
    <3> QED BY <1>1, <1>2, <2>1, <3>1, <3>2 DEF Trips, Unlisted, Marks, Marked
  <2>2. CASE w # Root
    <3>1. T.bw[Root] = S.bw[Root] /\ t = S.trip
      BY <1>2, <2>2, Names
    <3>2. /\ S.bw[Root].current # 0 => T.handle[S.bw[Root].current] = S.handle[S.bw[Root].current]
          /\ S.bw[Root].loading # 0 => T.handle[S.bw[Root].loading] = S.handle[S.bw[Root].loading]
      <4>1. /\ S.bw[Root].current # 0 => S.bw[Root].current \in Handle /\ S.handle[S.bw[Root].current].win = Root
                                         /\ S.handle[S.bw[Root].current] # Free
            /\ S.bw[Root].loading # 0 => S.bw[Root].loading \in Handle /\ S.handle[S.bw[Root].loading].win = Root
                                         /\ S.handle[S.bw[Root].loading] # Free
        BY <1>1, Names, HandleFields, Exclusive DEF Shows, Loads
      <4> QED BY <1>2, <2>2, <4>1
    <3> QED BY <1>1, <1>2, <3>1, <3>2 DEF Trips, Unlisted, Marks, Marked
  <2> QED BY <2>1, <2>2
<1> QED BY <1>2, <1>3 DEF Good, T

LEMMA GoodAdded ==
  ASSUME NEW S, Good(S), Root \in S.open, NEW h \in Handle, S.bw[Root].loading = h,
         NEW t, t = IF S.trip = "going" THEN "none" ELSE S.trip,
         NEW hs \in Histories, hs.current \in 1..Len(hs.entry),
         hs.entry[hs.current].page = S.handle[h].page,
         NEW u, u = Rejoined(Arrived(S, Root, h, t))
  PROVE  Good(PutHistory(Arrived(S, Root, h, t), hs, u))
<1> DEFINE A == Arrived(S, Root, h, t)
           T == PutHistory(A, hs, u)
<1>1. S \in States /\ h # 0 /\ t \in {"none", "going", "lost"}
  BY StateFields, Names DEF Good
<1>2. /\ A \in States /\ Owned(A) /\ Opened(A) /\ Throbs(A)
      /\ A.bw[Root].current = h /\ A.bw[Root].loading = 0
      /\ A.handle[h].page = S.handle[h].page
  <2>1. ArrivedIn(S, A, Root, h, t)
    BY <1>1, ArrivedFields
  <2> QED BY <2>1 DEF ArrivedIn
<1> HIDE DEF A
<1>3. u = "none"
  BY <1>2 DEF Rejoined, A
<1>4. /\ T \in States /\ T.open = A.open /\ T.bw = A.bw /\ T.handle = A.handle
      /\ T.gui = A.gui /\ T.history = hs /\ T.trip = u
  BY <1>2, <1>3, PutHistoryFields
<1> HIDE DEF T
<1>5. Owned(T) /\ Opened(T) /\ Throbs(T)
  BY <1>2, <1>4, SameWindows
<1>6. Trips(T)
  BY <1>1, <1>2, <1>3, <1>4 DEF Trips, Unlisted, Marks, Marked
<1> QED BY <1>4, <1>5, <1>6 DEF Good, T, A

(* The frames F of the page shown are made, those of G load. *)
LEMMA GoodFrames ==
  ASSUME NEW S, Good(S), NEW F \in SUBSET Frame, NEW G \in SUBSET F,
         F # {} => /\ S.bw[Root].current # 0 /\ S.bw[Root].loading = 0
                   /\ S.open \cap Frame = {}
  PROVE  Good(browser_window_create_iframes(S, F, G))
<1> DEFINE new == CHOOSE f \in [G -> {h \in Handle : S.handle[h] = Free}] :
                    \A v, u \in G : f[v] = f[u] => v = u
           Fresh(v) == [win |-> v, page |-> FramePage, status |-> "fetching"]
           Begun(h) == [NewWindow EXCEPT !.loading = h, !.throbbing = TRUE]
           hd == [h \in Handle |-> IF \E v \in G : new[v] = h
                                   THEN [win |-> CHOOSE v \in G : new[v] = h,
                                         page |-> FramePage, status |-> "fetching"]
                                   ELSE S.handle[h]]
           b == [v \in Window |-> IF v \in F THEN (IF v \in G THEN Begun(new[v]) ELSE NewWindow)
                                  ELSE S.bw[v]]
           o == S.open \cup F
           g == S.gui \/ G # {}
           T == [S EXCEPT !.open = o, !.bw = b, !.handle = hd, !.gui = g]
           D == {h \in Handle : \E v \in G : new[v] = h}
<1>1. /\ S \in States /\ Owned(S) /\ Opened(S) /\ Throbs(S) /\ Trips(S) /\ S.open \subseteq Window
      /\ G \in SUBSET Window /\ F \in SUBSET Window /\ Root \notin F /\ S.gui \in BOOLEAN
  BY StateFields, Names DEF Good
<1>2. browser_window_create_iframes(S, F, G) = T
  BY DEF browser_window_create_iframes
<1>3. new \in [G -> {h \in Handle : S.handle[h] = Free}] /\ \A v, u \in G : new[v] = new[u] => v = u
  <2>1. \E f \in [G -> {h \in Handle : S.handle[h] = Free}] : \A v, u \in G : f[v] = f[u] => v = u
    BY <1>1, FreshHandles DEF Unused
  <2> QED BY <2>1
<1> HIDE DEF new
<1>4. ASSUME NEW v \in G
      PROVE  /\ new[v] \in Handle /\ new[v] \in D /\ S.handle[new[v]] = Free /\ new[v] # 0
             /\ hd[new[v]] = Fresh(v)
  <2>1. new[v] \in Handle /\ S.handle[new[v]] = Free /\ new[v] # 0
    BY <1>3, Names
  <2>2. (CHOOSE u \in G : new[u] = new[v]) = v
    BY <1>3
  <2> QED BY <2>1, <2>2
<1>5. \A h \in Handle \ D : hd[h] = S.handle[h]
  OBVIOUS
<1>6. \A h \in D : \E v \in G : new[v] = h
  OBVIOUS
<1>7. D \in SUBSET Handle
  OBVIOUS
<1>8. ASSUME NEW v \in Window
      PROVE  b[v] = IF v \in F THEN (IF v \in G THEN Begun(new[v]) ELSE NewWindow) ELSE S.bw[v]
  OBVIOUS
<1>9. ASSUME NEW v \in G
      PROVE  Fresh(v) \in Records /\ Fresh(v).win = v /\ Loads(Fresh(v), v)
  BY <1>1, <1>9, Names DEF Records, Statuses, Loads, Pages
<1>10. ASSUME NEW h \in Handle
       PROVE  LET q == Begun(h)
              IN  /\ q \in Fieldset /\ q.loading = h /\ q.current = 0 /\ q.lfav = 0 /\ q.cfav = 0
                  /\ q.throbbing /\ ~q.refresh
  BY DEF NewWindow, Fieldset
<1>11. hd \in [Handle -> Records]
  <2>1. \A h \in Handle : hd[h] \in Records
    BY <1>1, <1>4, <1>5, <1>6, <1>9, StateFields
  <2>2. hd = [h \in Handle |-> hd[h]]
    OBVIOUS
  <2> HIDE DEF hd
  <2> QED BY <2>1, <2>2
<1>12. b \in [Window -> Fieldset]
  <2>1. b = [v \in Window |-> b[v]]
    OBVIOUS
  <2> HIDE DEF b, hd, D, Fresh, Begun
  <2>2. \A v \in Window : b[v] \in Fieldset
    BY <1>1, <1>4, <1>8, <1>10, StateFields, NewTypes
  <2> QED BY <2>1, <2>2
<1>13. o \in SUBSET Window /\ o = S.open \cup F
  BY <1>1
<1>14. g \in BOOLEAN /\ (g <=> S.gui \/ G # {})
  BY <1>1
<1> HIDE DEF hd, b, o, g, D, Fresh, Begun
<1>15. /\ T \in States /\ T.open = o /\ T.bw = b /\ T.handle = hd /\ T.gui = g
       /\ T.history = S.history /\ T.trip = S.trip
  BY <1>1, <1>11, <1>12, <1>13, <1>14 DEF States
<1> HIDE DEF T
<1>16. ASSUME NEW v \in F PROVE S.bw[v] = NewWindow /\ v \notin S.open
  BY <1>1, <1>16 DEF Opened
<1>17. Owned(T)
  <2>1. \A v \in Window \ F : T.bw[v] = S.bw[v]
    BY <1>8, <1>15
  <2>2. \A h \in Handle \ D : T.handle[h] = S.handle[h]
    BY <1>5, <1>15
  <2>3. \A h \in D : S.handle[h] = Free \/ S.handle[h].win \in F
    BY <1>4, <1>6
  <2>4. \A h \in D : T.handle[h] = Free \/
            (T.handle[h].win \in F /\ Stands(T.bw[T.handle[h].win], T.handle[h], h, T.handle[h].win))
    <3> SUFFICES ASSUME NEW h \in D
                 PROVE  T.handle[h].win \in F /\ Stands(T.bw[T.handle[h].win], T.handle[h], h, T.handle[h].win)
      OBVIOUS
    <3>1. PICK v \in G : new[v] = h
      BY <1>6
    <3>2. T.handle[h] = Fresh(v) /\ T.bw[v] = Begun(h) /\ h \in Handle /\ v \in F
      BY <1>1, <1>4, <1>8, <1>15, <3>1
    <3>3. Begun(h).loading = h
      BY <1>10, <3>2
    <3> QED BY <1>9, <3>2, <3>3 DEF Stands
  <2>5. \A v \in F : Keeps(T.bw[v], T.handle, v) /\ Kept(S.bw[v], T.bw[v], D)
    <3> SUFFICES ASSUME NEW v \in F
                 PROVE  Keeps(T.bw[v], T.handle, v) /\ Kept(S.bw[v], T.bw[v], D)
      OBVIOUS
    <3>1. Kept(S.bw[v], T.bw[v], D)
      BY <1>16, NewTypes DEF Kept
    <3>2. CASE v \in G
      <4>1. T.bw[v] = Begun(new[v]) /\ T.handle[new[v]] = Fresh(v) /\ new[v] \in Handle
        BY <1>1, <1>4, <1>8, <1>15, <3>2
      <4>2. LET q == Begun(new[v])
            IN  q.loading = new[v] /\ q.current = 0 /\ q.lfav = 0 /\ q.cfav = 0
        BY <1>10, <4>1
      <4>3. Keeps(T.bw[v], T.handle, v)
        BY <1>9, <3>2, <4>1, <4>2 DEF Keeps
      <4> QED BY <3>1, <4>3
    <3>3. CASE v \notin G
      <4>1. T.bw[v] = NewWindow
        BY <1>1, <1>8, <1>15, <3>3
      <4> QED BY <3>1, <4>1, NewTypes DEF Keeps
    <3> QED BY <3>2, <3>3
  <2> QED BY <1>1, <1>7, <1>15, <2>1, <2>2, <2>3, <2>4, <2>5, OwnedChange
<1>18. /\ \A v \in Window \ F : T.bw[v] = S.bw[v]
       /\ \A v \in G : T.bw[v].throbbing /\ ~T.bw[v].refresh /\ T.bw[v].loading # 0
       /\ \A v \in F \ G : T.bw[v] = NewWindow
  BY <1>1, <1>4, <1>8, <1>10, <1>15
<1>19. ASSUME NEW h \in Handle, S.handle[h] # Free PROVE T.handle[h] = S.handle[h]
  BY <1>4, <1>5, <1>6, <1>15, <1>19
<1>20. T.bw[Root] = S.bw[Root] /\ (Root \in T.open <=> Root \in S.open)
  BY <1>1, <1>13, <1>15, <1>18, Names
<1>21. Opened(T)
  <2>1. \A v \in Window \ T.open : T.bw[v] = NewWindow
    BY <1>1, <1>13, <1>15, <1>18 DEF Opened
  <2>2. \A v \in Window : T.bw[v].refresh => T.bw[v].current # 0
    BY <1>1, <1>18, NewTypes DEF Opened
  <2>3. T.open \cap Frame # {} => T.bw[Root].current # 0 /\ T.bw[Root].loading = 0
    <3>1. CASE F = {}
      BY <1>1, <1>13, <1>15, <1>20, <3>1 DEF Opened
    <3>2. CASE F # {}
      BY <1>20, <3>2
    <3> QED BY <3>1, <3>2
  <2> QED BY <2>1, <2>2, <2>3 DEF Opened
<1>22. Throbs(T)
  <2>1. Runs(T)
    <3>1. S.gui <=> \E v \in S.open : S.bw[v].throbbing
      BY <1>1 DEF Throbs, Runs
    <3>2. \A v \in S.open : T.bw[v] = S.bw[v]
      BY <1>1, <1>16, <1>18
    <3>3. \A v \in F \ G : ~T.bw[v].throbbing
      BY <1>18, NewTypes
    <3>4. T.gui <=> \E v \in T.open : T.bw[v].throbbing
      BY <1>1, <1>13, <1>14, <1>15, <1>18, <3>1, <3>2, <3>3
    <3> QED BY <1>14, <1>15, <3>4 DEF Runs
  <2>2. ASSUME NEW v \in T.open, T.bw[v].throbbing PROVE Awaited(T.bw[v], T.handle)
    <3>1. CASE v \in F
      BY <1>18, <2>2, <3>1, NewTypes DEF Awaited
    <3>2. CASE v \notin F
      <4>1. v \in S.open /\ v \in Window /\ T.bw[v] = S.bw[v] /\ Awaited(S.bw[v], S.handle)
        BY <1>1, <1>13, <1>15, <1>18, <2>2, <3>2 DEF Throbs
      <4>2. \A h \in Handle : S.handle[h].win = v => T.handle[h] = S.handle[h]
        BY <1>19, <4>1, Names, NewTypes
      <4> QED BY <1>1, <1>15, <4>1, <4>2, OthersWait
    <3> QED BY <3>1, <3>2
  <2> QED BY <2>1, <2>2 DEF Throbs
<1>23. Trips(T)
  <2>1. /\ S.bw[Root].current # 0 => T.handle[S.bw[Root].current] = S.handle[S.bw[Root].current]
        /\ S.bw[Root].loading # 0 => T.handle[S.bw[Root].loading] = S.handle[S.bw[Root].loading]
    BY <1>1, <1>19, Names, HandleFields, Exclusive
  <2> QED BY <1>1, <1>15, <1>20, <2>1 DEF Trips, Unlisted, Marks, Marked
<1> QED BY <1>2, <1>15, <1>17, <1>21, <1>22, <1>23 DEF Good

LEMMA ReplacedIsArrived ==
  ASSUME NEW S, Good(S), NEW w \in S.open, NEW h \in Handle, S.bw[w].loading = h,
         NEW t, t = IF w = Root /\ S.trip = "going" THEN "none" ELSE S.trip
  PROVE  Replaced(S, w, h) = Arrived(S, w, h, t)
<1> DEFINE U == hlcache_handle_release(S, S.bw[w].current)
           P == PutRec(U, h, Reports(U.handle[h], "READY"))
           Q == PutWin(P, w, Show(P.bw[w], h))
<1>1. U \in States /\ U.trip = S.trip
  <2>1. S \in States /\ w \in Window /\ S.bw[w].current \in Handle \cup {0}
    BY StateFields, WindowFields DEF Good
  <2>2. CASE S.bw[w].current = 0
    BY <2>1, <2>2 DEF hlcache_handle_release
  <2>3. CASE S.bw[w].current # 0
    BY <2>1, <2>3, ReleaseFields
  <2> QED BY <2>2, <2>3
<1>2. Replaced(S, w, h) =
        [U EXCEPT !.handle[h].status = "READY", !.bw[w] = [@ EXCEPT !.current = h, !.loading = 0],
                  !.trip = IF w = Root /\ @ = "going" THEN "none" ELSE @]
  BY DEF Replaced
<1>3. Arrived(S, w, h, t) = PutTrip(Q, t)
  BY DEF Arrived
<1> HIDE DEF U
<1>4. P.bw = U.bw /\ P.trip = U.trip
  BY <1>1 DEF PutRec, States
<1>5. [U EXCEPT !.handle[h].status = "READY", !.bw[w] = [@ EXCEPT !.current = h, !.loading = 0],
                !.trip = IF w = Root /\ @ = "going" THEN "none" ELSE @]
       = [P EXCEPT !.bw[w] = [@ EXCEPT !.current = h, !.loading = 0],
                   !.trip = IF w = Root /\ @ = "going" THEN "none" ELSE @]
  BY DEF PutRec, Reports
<1>6. P \in [{"open", "bw", "handle", "history", "gui", "trip"} -> {P.open, P.bw, P.handle, P.history, P.gui, P.trip}]
  BY <1>1 DEF PutRec, States
<1> HIDE DEF P
<1>7. Q.trip = P.trip
  BY <1>6 DEF PutWin
<1>8. [P EXCEPT !.bw[w] = [@ EXCEPT !.current = h, !.loading = 0],
                !.trip = IF w = Root /\ @ = "going" THEN "none" ELSE @]
       = [Q EXCEPT !.trip = IF w = Root /\ @ = "going" THEN "none" ELSE @]
  BY DEF PutWin, Show
<1> HIDE DEF Q
<1>9. [Q EXCEPT !.trip = IF w = Root /\ @ = "going" THEN "none" ELSE @] = PutTrip(Q, t)
  BY <1>1, <1>4, <1>7 DEF PutTrip
<1> QED BY <1>2, <1>3, <1>5, <1>8, <1>9

LEMMA ReadySafe ==
  ASSUME IInv, NEW h \in Handle, Ready(h)
  PROVE  Good(State')
<1> DEFINE S == State
           w == Of(h)
           t == IF w = Root /\ S.trip = "going" THEN "none" ELSE S.trip
           A == Replaced(S, w, h)
           p == handle[h].page
           frag == FALSE
           T == IF w = Root /\ bw[w].add THEN history_add(A, p, frag) ELSE A
<1>1. Good(S) /\ S.handle[h].page # NULL /\ S.handle[h].status = "LOADING"
      /\ w = S.handle[h].win
  BY StateVars DEF IInv, Ready, IsPage, Of
<1>2. w \in S.open /\ S.bw[w].loading = h /\ h # 0 /\ w \in Window /\ Loads(S.handle[h], w)
  BY <1>1, PageWindow, Names
<1>3. PICK F \in SUBSET (IF w = Root THEN Frame ELSE {}) : \E G \in SUBSET F :
         Becomes(browser_window_create_iframes(T, F, G))
  BY DEF Ready
<1>13. PICK G \in SUBSET F : Becomes(browser_window_create_iframes(T, F, G))
  BY <1>3
<1>4. A = Arrived(S, w, h, t)
  BY <1>1, <1>2, ReplacedIsArrived
<1>5. t \in {"none", "going", "lost"} /\ S \in States /\ Opened(S)
  BY <1>1, StateFields DEF Good
<1>6. frag \in BOOLEAN /\ S.handle[h].page = p /\ bw = S.bw /\ (w = Root => p \in Page)
  BY <1>2, StateVars DEF Loads, Pages
<1>7. t = IF w = Root /\ S.trip = "going" THEN "none" ELSE S.trip
  OBVIOUS
<1> HIDE DEF A, S, w, t, p, frag
<1>8. /\ A \in States /\ A.open = S.open /\ A.bw[w].current = h /\ A.bw[w].loading = 0
      /\ A.history = S.history
  <2>1. ArrivedIn(S, A, w, h, t)
    BY <1>1, <1>2, <1>4, <1>5, ArrivedFields
  <2> QED BY <2>1 DEF ArrivedIn
<1>9. Good(T) /\ T.open = A.open /\ T.bw = A.bw
  <2>1. CASE w = Root /\ bw[w].add
    <3> DEFINE old == A.history
               hs == Grown(old, p, frag)
               u == Rejoined(A)
               H == PutHistory(A, hs, u)
    <3>1. T = H
      BY <2>1 DEF history_add, PutHistory, Grown
    <3>2. old \in Histories
      BY <1>8, StateFields
    <3>3. u \in {"none", "going", "lost"} /\ u = Rejoined(A)
      BY RejoinedValues
    <3> HIDE DEF old, u, T
    <3>4. hs \in Histories /\ hs.current \in 1..Len(hs.entry) /\ hs.entry[hs.current].page = p
      BY <1>6, <2>1, <3>2, GrownFields
    <3> HIDE DEF hs
    <3>5. Good(H)
      <4>1. t = IF S.trip = "going" THEN "none" ELSE S.trip
        BY <1>7, <2>1
      <4>2. Root \in S.open /\ S.bw[Root].loading = h
        BY <1>2, <2>1
      <4>3. A = Arrived(S, Root, h, t)
        BY <1>4, <2>1
      <4>4. u = Rejoined(Arrived(S, Root, h, t))
        BY <3>3, <4>3
      <4>5. hs.entry[hs.current].page = S.handle[h].page
        BY <1>6, <3>4
      <4>6. Good(PutHistory(Arrived(S, Root, h, t), hs, u))
        BY <1>1, <3>4, <4>1, <4>2, <4>4, <4>5, GoodAdded
      <4> QED BY <4>3, <4>6
    <3>6. H.open = A.open /\ H.bw = A.bw
      BY <1>8, <3>3, <3>4, PutHistoryFields
    <3> HIDE DEF H
    <3> QED BY <3>1, <3>5, <3>6
  <2>2. CASE ~(w = Root /\ bw[w].add)
    <3>1. T = A
      BY <2>2
    <3>2. Good(A)
      BY <1>1, <1>2, <1>4, <1>6, <1>7, <2>2, GoodArrived
    <3> HIDE DEF T
    <3> QED BY <3>1, <3>2
  <2> QED BY <2>1, <2>2
<1> HIDE DEF T
<1>10. F # {} => w = Root /\ T.bw[Root].current # 0 /\ T.bw[Root].loading = 0 /\ T.open \cap Frame = {}
  <2>1. F # {} => w = Root
    BY <1>3
  <2>2. w = Root => S.open \cap Frame = {}
    BY <1>2, <1>5 DEF Opened
  <2> QED BY <1>2, <1>8, <1>9, <2>1, <2>2
<1>11. F \in SUBSET Frame /\ G \in SUBSET F
  BY <1>3
<1>12. Good(browser_window_create_iframes(T, F, G))
  BY <1>9, <1>10, <1>11, GoodFrames
<1> QED BY <1>12, <1>13, Becoming

-----------------------------------------------------------------------------
(* The invariant, and what follows from it. *)

LEMMA InitSafe ==
  ASSUME Init
  PROVE  IInv
<1>1. State \in States
  <2>1. bw \in [Window -> Fieldset] /\ handle \in [Handle -> Records] /\ open \subseteq Window
    BY NewTypes, Names DEF Init
  <2>2. history \in Histories /\ gui \in BOOLEAN /\ trip \in {"none", "going", "lost"}
    <3>1. <<>> \in Seq(Entries)
      OBVIOUS
    <3> QED BY <3>1 DEF Init, Histories
  <2> QED BY <2>1, <2>2 DEF State, States
<1>2. (\A w \in Window : State.bw[w] = NewWindow) /\ (\A h \in Handle : State.handle[h] = Free)
  BY StateVars DEF Init
<1>3. Owned(State)
  BY <1>2, NewTypes DEF Owned, Keeps
<1>4. Opened(State)
  BY <1>2, StateVars, NewTypes, Names DEF Init, Opened
<1>5. Throbs(State)
  <2>1. State.open = {Root} /\ State.gui = FALSE /\ ~State.bw[Root].throbbing
    BY <1>2, StateVars, NewTypes, Names DEF Init
  <2> QED BY <2>1 DEF Throbs, Runs
<1>6. Trips(State)
  <2>1. State.history = [entry |-> <<>>, current |-> 0] /\ State.trip = "none"
        /\ State.bw[Root].current = 0 /\ State.bw[Root].loading = 0
    BY <1>2, StateVars, NewTypes, Names DEF Init
  <2> QED BY <2>1 DEF Trips, Unlisted, Marked
<1>7. clicks \in 0..MaxClicks
  BY BrowserAssumption DEF Init
<1> QED BY <1>1, <1>3, <1>4, <1>5, <1>6, <1>7 DEF IInv, Good

LEMMA NextClicks ==
  ASSUME IInv, Next
  PROVE  clicks' \in 0..MaxClicks
<1> DEFINE Clicked == clicks < MaxClicks /\ clicks' = clicks + 1
<1>1. ASSUME NEW w \in Window, browser_window_go(w) PROVE Clicked
  BY <1>1 DEF browser_window_go, Go
<1>2. ASSUME NEW w \in Window, browser_window_refresh(w) PROVE Clicked
  BY <1>2, Zenon DEF browser_window_refresh
<1>3. ASSUME GoToFragment PROVE Clicked
  BY <1>3, Zenon DEF GoToFragment
<1>4. ASSUME browser_window_reload PROVE Clicked
  BY <1>4 DEF browser_window_reload, Go
<1>5. ASSUME UserStops PROVE clicks' = clicks
  BY <1>5, Zenon DEF UserStops
<1>6. ASSUME browser_window_destroy PROVE clicks' = clicks
  BY <1>6, Zenon DEF browser_window_destroy
<1>7. ASSUME NEW e \in DOMAIN history.entry, history_go(e) PROVE Clicked
  BY <1>7, Zenon DEF history_go
<1>8. ASSUME NEW h \in Handle, BecomesReadyAgain(h) PROVE Clicked
  BY <1>8, Zenon DEF BecomesReadyAgain
<1>9. clicks' = clicks \/ Clicked
  BY <1>1, <1>2, <1>3, <1>4, <1>5, <1>6, <1>7, <1>8 DEF Next
<1> QED BY <1>9, BrowserAssumption DEF IInv

LEMMA NextSafe ==
  ASSUME IInv, Next
  PROVE  Good(State')
<1>1. ASSUME NEW w \in Window, browser_window_go(w) PROVE Good(State')
  BY <1>1, GoActionSafe
<1>2. ASSUME NEW w \in Window, browser_window_refresh(w) PROVE Good(State')
  BY <1>2, RefreshSafe
<1>3. CASE GoToFragment
  BY <1>3, FragmentSafe
<1>4. CASE browser_window_reload
  BY <1>4, ReloadSafe
<1>5. CASE UserStops
  BY <1>5, UserStopsSafe
<1>6. CASE browser_window_destroy
  BY <1>6, DestroySafe
<1>7. ASSUME NEW e \in DOMAIN history.entry, history_go(e) PROVE Good(State')
  BY <1>7, HistoryGoSafe
<1>8. ASSUME NEW h \in Handle, Message(h) PROVE Good(State')
  BY <1>8, LoadingSafe, DownloadSafe, RefreshesSafe, LinkSafe, ReadySafe, DoneSafe, ErrorSafe,
     IconDoneSafe, IconFailsSafe DEF Message
<1>9. ASSUME NEW h \in Handle, BecomesReadyAgain(h) PROVE Good(State')
  BY <1>9, AgainSafe
<1> QED BY <1>1, <1>2, <1>3, <1>4, <1>5, <1>6, <1>7, <1>8, <1>9 DEF Next

LEMMA StutterSafe ==
  ASSUME IInv, UNCHANGED vars
  PROVE  IInv'
<1>1. State' = State /\ clicks' = clicks
  BY DEF vars, State
<1> QED BY <1>1 DEF IInv

(* Every call and every message leaves each handle in one field of one       *)
(* window, each window in use shown, each running throbber with a page to    *)
(* wait for, and the history with the page shown or about to be shown.       *)
THEOREM Safe == Spec => []IInv
<1>1. Init => IInv
  BY InitSafe
<1>2. IInv /\ [Next]_vars => IInv'
  <2>1. CASE Next
    BY <2>1, NextSafe, NextClicks DEF IInv
  <2>2. CASE UNCHANGED vars
    BY <2>2, StutterSafe
  <2> QED BY <2>1, <2>2
<1> QED BY <1>1, <1>2, PTL DEF Spec

(* The field a handle stands in. *)
Place(r) == IF r.page = NULL THEN (IF r.status = "DONE" THEN "cfav" ELSE "lfav")
            ELSE IF r.status \in {"fetching", "LOADING"} THEN "loading" ELSE "current"

LEMMA Places ==
  ASSUME NEW S \in States, Owned(S), NEW h \in Handle, NEW w \in Window, NEW f \in Holds
  PROVE  S.bw[w][f] = h <=> S.handle[h] # Free /\ S.handle[h].win = w /\ Place(S.handle[h]) = f
<1>1. NULL \notin Pages(w) /\ h # 0
  BY Names DEF Pages
<1>2. ASSUME S.bw[w][f] = h
      PROVE  S.handle[h] # Free /\ S.handle[h].win = w /\ Place(S.handle[h]) = f
  <2>1. \/ f = "loading" /\ Loads(S.handle[h], w)
        \/ f = "current" /\ Shows(S.handle[h], w)
        \/ f = "lfav" /\ FetchesIcon(S.handle[h], w)
        \/ f = "cfav" /\ ShowsIcon(S.handle[h], w)
    BY <1>1, <1>2, HandleFields DEF Holds
  <2>2. S.handle[h] # Free
    BY <2>1, Exclusive
  <2> QED BY <1>1, <2>1, <2>2 DEF Place, Loads, Shows, FetchesIcon, ShowsIcon
<1>3. ASSUME S.handle[h] # Free, S.handle[h].win = w, Place(S.handle[h]) = f
      PROVE  S.bw[w][f] = h
  <2>1. Stands(S.bw[w], S.handle[h], h, w)
    BY <1>3 DEF Owned
  <2> QED BY <1>1, <1>3, <2>1 DEF Stands, Place, Loads, Shows, FetchesIcon, ShowsIcon
<1> QED BY <1>2, <1>3

LEMMA TypesCorrect ==
  ASSUME IInv
  PROVE  TypeOK
<1>1. State \in States /\ State.history.current \in 0..Len(State.history.entry)
  BY DEF IInv, Good, Trips
<1>2. open \subseteq Window /\ gui \in BOOLEAN /\ trip \in {"none", "going", "lost"}
      /\ bw \in [Window -> Fieldset] /\ handle \in [Handle -> Records] /\ history \in Histories
  BY <1>1, StateFields, StateVars
<1>3. history.entry \in Seq(Entries) /\ history.current \in 0..Len(history.entry)
  BY <1>1, <1>2, StateVars DEF Histories
<1> QED BY <1>2, <1>3 DEF TypeOK, IInv, Fieldset, Records, Statuses, Entries

(* No handle is lost and none is used after its release, whatever the user *)
(* does and whatever the pages report.                                     *)
THEOREM HandlesOwned == Spec => []OneOwner
<1>1. IInv => OneOwner
  <2> SUFFICES ASSUME IInv PROVE OneOwner
    OBVIOUS
  <2>1. State \in States /\ Owned(State)
    BY DEF IInv, Good
  <2>2. ASSUME NEW h \in Handle
        PROVE  LET places == {at \in Window \X Holds : bw[at[1]][at[2]] = h}
               IN IF handle[h] = Free THEN places = {}
                  ELSE \E f \in Holds : places = {<<handle[h].win, f>>}
    <3> DEFINE places == {at \in Window \X Holds : bw[at[1]][at[2]] = h}
               at0 == <<handle[h].win, Place(handle[h])>>
    <3>1. ASSUME NEW at \in Window \X Holds
          PROVE  at \in places <=> handle[h] # Free /\ handle[h].win = at[1] /\ Place(handle[h]) = at[2]
      BY <2>1, Places, StateVars
    <3>2. places \subseteq Window \X Holds
      OBVIOUS
    <3>3. Place(handle[h]) \in Holds
      BY DEF Place, Holds
    <3>4. handle[h] # Free => handle[h].win \in Window
      BY <2>1, StateVars DEF Owned
    <3> HIDE DEF places
    <3>5. CASE handle[h] = Free
      BY <3>1, <3>2, <3>5 DEF places
    <3>6. CASE handle[h] # Free
      <4>1. at0 \in Window \X Holds /\ at0[1] = handle[h].win /\ at0[2] = Place(handle[h])
        BY <3>3, <3>4, <3>6
      <4>2. at0 \in places
        BY <3>1, <3>6, <4>1
      <4>3. ASSUME NEW at \in places PROVE at = at0
        <5>1. at \in Window \X Holds
          BY <3>2
        <5>2. at = <<at[1], at[2]>>
          BY <5>1
        <5> QED BY <3>1, <5>1, <5>2
      <4>4. places = {at0}
        BY <4>2, <4>3
      <4> QED BY <3>3, <3>6, <4>4 DEF places
    <3> QED BY <3>5, <3>6 DEF places
  <2> QED BY <2>2, TypesCorrect DEF OneOwner
<1> QED BY <1>1, Safe, PTL

(* The assertions of browser_window_callback, browser_window_update and     *)
(* browser_window_refresh hold whenever they are evaluated.                  *)
THEOREM AssertionsTrue == Spec => []AssertionsHold
<1>1. IInv => AssertionsHold
  <2> SUFFICES ASSUME IInv PROVE AssertionsHold
    OBVIOUS
  <2>1. Good(State) /\ State \in States /\ Opened(State)
    BY DEF IInv, Good
  <2>2. ASSUME NEW h \in Handle
        PROVE  /\ IsPage(h, {"fetching", "LOADING"}) => bw[Of(h)].loading = h
               /\ IsPage(h, {"READY", "DONE"}) => bw[Of(h)].current = h
    BY <2>1, PageWindow, StateVars DEF IsPage, Of
  <2>3. open \cap Frame # {} => bw[Root].current # 0
    BY <2>1, StateVars DEF Opened
  <2>4. ASSUME NEW w \in Window, bw[w].refresh PROVE w \in open /\ bw[w].current # 0
    BY <2>1, <2>4, Closed, StateVars DEF Opened
  <2> QED BY <2>2, <2>3, <2>4 DEF AssertionsHold
<1> QED BY <1>1, Safe, PTL

(* The front end's throbber runs exactly while some window's does, and no    *)
(* window's runs without a page that is still to report.                     *)
THEOREM ThrobberTrue == Spec => []ThrobberShows
<1>1. IInv => ThrobberShows
  BY StateVars DEF IInv, Good, Throbs, Runs, Awaited, ThrobberShows
<1> QED BY <1>1, Safe, PTL

(* Once nothing loads, the history marks the page that is shown, unless the   *)
(* page of an entry never came or was overtaken.                             *)
THEOREM EntryShown == Spec => []EntryIsShown
<1>1. IInv => EntryIsShown
  BY StateVars DEF IInv, Good, Trips, Marks, Marked, EntryIsShown
<1> QED BY <1>1, Safe, PTL
=============================================================================
