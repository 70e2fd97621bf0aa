------------------------------ MODULE Knockout ------------------------------
(***************************************************************************)
(* Knockout rendering (desktop/knockout.c): the plots of a redraw are kept  *)
(* in tables, and what a later opaque plot covers is cut out of the earlier *)
(* ones, whose rectangles become trees of boxes.  The tables have fixed     *)
(* sizes and are flushed to the real plotters when one is full, also in the *)
(* middle of the recursion that cuts boxes up.                              *)
(*                                                                         *)
(* The reference is plotting at once: a pixel holds the plots that show in  *)
(* it, the last opaque one first.                                          *)
(***************************************************************************)
EXTENDS SequencesExt, Integers

CONSTANTS Width, Height,      \* of the target, in pixels
          Fills, Bitmaps,     \* the rectangles that are filled, or take a bitmap
          Overlays,           \* the extents of what is only plotted over: text, lines, ...
          Clips,              \* the clip rectangles
          KNOCKOUT_ENTRIES, KNOCKOUT_BOXES, KNOCKOUT_POLYGONS,
          Points,             \* the sizes of polygons, in integers
          MaxPlots,           \* bound: plots
          MaxNesting          \* bound: sessions inside one another

Rect == [x0 : 0..Width, y0 : 0..Height, x1 : 0..Width, y1 : 0..Height]
Whole == [x0 |-> 0, y0 |-> 0, x1 |-> Width, y1 |-> Height]

ASSUME KnockoutAssumption ==
  /\ Fills \cup Bitmaps \cup Overlays \cup Clips \subseteq Rect
  /\ {KNOCKOUT_ENTRIES, KNOCKOUT_POLYGONS, Width, Height, MaxPlots,
      MaxNesting} \subseteq Nat \ {0}
  /\ KNOCKOUT_BOXES > 4
  /\ Points \subseteq Nat \ {0}

VARIABLES
  knk,       \* the tables and the real plotter: see Tables
  clip_cur,  \* the clip rectangle the caller has set
  direct,    \* what plotting at once would show
  depth,     \* nested_depth
  plots      \* the plots made so far

vars == <<knk, clip_cur, direct, depth, plots>>

Pixel == (0..(Width - 1)) \X (0..(Height - 1))
Box == 0..(KNOCKOUT_BOXES - 1)
NULL == -1

Inside(p, r) == r.x0 <= p[1] /\ p[1] < r.x1 /\ r.y0 <= p[2] /\ p[2] < r.y1

Larger(a, b) == IF a > b THEN a ELSE b
Smaller(a, b) == IF a < b THEN a ELSE b

Common(r, c) == [x0 |-> Larger(r.x0, c.x0), y0 |-> Larger(r.y0, c.y0),
                 x1 |-> Smaller(r.x1, c.x1), y1 |-> Smaller(r.y1, c.y1)]

(* What plot number n leaves of a canvas. *)
Plotted(canvas, clip, r, n, opaque) ==
  [p \in Pixel |-> IF Inside(p, clip) /\ Inside(p, r)
                   THEN IF opaque THEN <<n>> ELSE Append(canvas[p], n)
                   ELSE canvas[p]]

(* The kinds of entries: a fill or bitmap has a box, the others have none. *)
Entry(kind, r, n, opaque, box) ==
  [kind |-> kind, rect |-> r, n |-> n, opaque |-> opaque, box |-> box]

FreshBox == [bbox |-> Whole, deleted |-> FALSE, child |-> NULL, next |-> NULL]

Tables(canvas) ==
  [entries |-> <<>>, boxes |-> [b \in Box |-> FreshBox], box_cur |-> 0,
   polygon_cur |-> 0, list |-> NULL, canvas |-> canvas, clip |-> Whole]

-----------------------------------------------------------------------------
(* Flushing. *)

RECURSIVE Leaves(_, _)
(* The boxes of a list that are to be plotted, in order. *)
Leaves(boxes, b) ==
  IF b = NULL THEN <<>>
  ELSE (IF boxes[b].deleted THEN <<>>
        ELSE IF boxes[b].child # NULL THEN Leaves(boxes, boxes[b].child)
        ELSE <<boxes[b].bbox>>) \o Leaves(boxes, boxes[b].next)

(* What is left of an entry with a box. *)
Left(boxes, e) ==
  IF boxes[e.box].child # NULL THEN Leaves(boxes, boxes[e.box].child)
  ELSE IF boxes[e.box].deleted THEN <<>>
  ELSE <<IF e.kind = "FILL" THEN e.rect ELSE boxes[e.box].bbox>>

(* A fill is plotted piece by piece; a bitmap once for each piece, the real *)
(* clip set to the piece and left there.                                    *)
EntryFlushed(k, e) ==
  CASE e.kind = "CLIP" -> [k EXCEPT !.clip = e.rect]
    [] e.kind = "OVER" -> [k EXCEPT !.canvas = Plotted(@, k.clip, e.rect, e.n, FALSE)]
    [] e.kind = "FILL" ->
         FoldLeft(LAMBDA r, piece : [r EXCEPT !.canvas = Plotted(@, r.clip, piece, e.n, TRUE)],
                  k, Left(k.boxes, e))
    [] e.kind = "BITMAP" ->
         IF k.boxes[e.box].child = NULL
         THEN IF k.boxes[e.box].deleted THEN k
              ELSE [k EXCEPT !.canvas = Plotted(@, k.clip, e.rect, e.n, e.opaque)]
         ELSE FoldLeft(LAMBDA r, piece :
                         [r EXCEPT !.clip = piece,
                                   !.canvas = Plotted(@, piece, e.rect, e.n, e.opaque)],
                       k, Left(k.boxes, e))

knockout_plot_flush(k) ==
  [FoldLeft(EntryFlushed, k, k.entries)
     EXCEPT !.entries = <<>>, !.box_cur = 0, !.polygon_cur = 0, !.list = NULL]

-----------------------------------------------------------------------------
(* Knocking out. *)

Overlap(b, r) == ~(b.x0 >= r.x1 \/ b.x1 <= r.x0 \/ b.y0 >= r.y1 \/ b.y1 <= r.y0)
Covers(r, b) == r.x0 <= b.x0 /\ r.x1 >= b.x1 /\ r.y0 <= b.y0 /\ r.y1 >= b.y1

(* A box becomes the first child of another: the box may be the same one,   *)
(* when a flush inside the recursion has given its place away.              *)
NewChild(k, parent, r) ==
  LET c == k.box_cur
      cleared == [k.boxes EXCEPT ![c] = [bbox |-> r, deleted |-> FALSE, child |-> NULL,
                                         next |-> NULL]]
      linked == [cleared EXCEPT ![c].next = cleared[parent].child]
  IN  [k EXCEPT !.boxes = [linked EXCEPT ![parent].child = c], !.box_cur = c + 1]

Piece(exists, x0, y0, x1, y1) ==
  IF exists THEN << [x0 |-> x0, y0 |-> y0, x1 |-> x1, y1 |-> y1] >> ELSE <<>>

(* Seeded fault: the sides reach as far up and down as the box did. *)
PiecesOverlap(b, r) ==
     Piece(r.y1 < b.y1, b.x0, r.y1, b.x1, b.y1)
  \o Piece(r.y0 > b.y0, b.x0, b.y0, b.x1, r.y0)
  \o Piece(r.x1 < b.x1, r.x1, b.y0, b.x1, b.y1)
  \o Piece(r.x0 > b.x0, b.x0, b.y0, r.x0, b.y1)

(* The pieces of box b around r: above, below, right and left of it. *)
Pieces(b, r) ==
  LET y0 == Larger(b.y0, r.y0)
      y1 == Smaller(b.y1, r.y1)
  IN  Piece(r.y1 < b.y1, b.x0, r.y1, b.x1, b.y1)
      \o Piece(r.y0 > b.y0, b.x0, b.y0, b.x1, r.y0)
      \o Piece(r.x1 < b.x1, r.x1, y0, b.x1, y1)
      \o Piece(r.x0 > b.x0, b.x0, y0, r.x0, y1)

(* A deleted box leaves the list of its owner; an owner without boxes is    *)
(* deleted itself.                                                          *)
Delinked(k, owner, prev, next) ==
  IF prev # NULL THEN [k EXCEPT !.boxes[prev].next = next]
  ELSE IF owner = NULL THEN [k EXCEPT !.list = next]
  ELSE [k EXCEPT !.boxes[owner].child = next,
                 !.boxes[owner].deleted = IF next = NULL THEN TRUE ELSE @]

RECURSIVE Knock(_, _, _, _, _)
(* The loop of knockout_calculate, at box b of the list of owner.  A full   *)
(* table is flushed, and the call returns; the calls above it go on with    *)
(* boxes that are in no list any more.                                      *)
Knock(k, r, owner, prev, b) ==
  IF b = NULL THEN k
  ELSE LET box == k.boxes[b]
           On(s, p) == Knock(s, r, owner, p, s.boxes[b].next)
       IN  IF box.deleted THEN On(Delinked(k, owner, prev, box.next), prev)
           ELSE IF ~Overlap(box.bbox, r) THEN On(k, b)
           ELSE IF Covers(r, box.bbox) THEN On([k EXCEPT !.boxes[b].deleted = TRUE], b)
           ELSE IF box.child # NULL THEN On(Knock(k, r, b, NULL, box.child), b)
           ELSE IF k.box_cur + 4 >= KNOCKOUT_BOXES THEN knockout_plot_flush(k)
           ELSE On(FoldLeft(LAMBDA s, q : NewChild(s, b, q), k, Pieces(box.bbox, r)), b)

knockout_calculate(k, r) == Knock(k, r, NULL, NULL, k.list)

-----------------------------------------------------------------------------
(* The plotters. *)

Queued(k, e) ==
  LET more == [k EXCEPT !.entries = Append(@, e)]
  IN  IF Len(more.entries) >= KNOCKOUT_ENTRIES THEN knockout_plot_flush(more) ELSE more

(* Seeded fault: the table of boxes is never found full here. *)
QueuedWithoutRoom(k, bbox, kind, r, n, opaque) ==
  LET b == k.box_cur
      more == [k EXCEPT !.boxes[b] = [bbox |-> bbox, deleted |-> FALSE, child |-> NULL,
                                      next |-> k.list],
                        !.list = b,
                        !.entries = Append(@, Entry(kind, r, n, opaque, b)),
                        !.box_cur = b + 1]
  IN  IF Len(more.entries) >= KNOCKOUT_ENTRIES THEN knockout_plot_flush(more) ELSE more

(* A fill or a bitmap takes a box, which heads the list. *)
QueuedBox(k, bbox, kind, r, n, opaque) ==
  LET b == k.box_cur
      more == [k EXCEPT !.boxes[b] = [bbox |-> bbox, deleted |-> FALSE, child |-> NULL,
                                      next |-> k.list],
                        !.list = b,
                        !.entries = Append(@, Entry(kind, r, n, opaque, b))]
  IN  IF Len(more.entries) >= KNOCKOUT_ENTRIES \/ b + 1 >= KNOCKOUT_BOXES
      THEN knockout_plot_flush(more)
      ELSE [more EXCEPT !.box_cur = b + 1]

Outside(r, c) == r.x0 > c.x1 \/ r.x1 < c.x0 \/ r.y0 > c.y1 \/ r.y1 < c.y0

Filled(k, r, n) ==
  IF Outside(r, clip_cur) THEN k
  ELSE QueuedBox(knockout_calculate(k, Common(r, clip_cur)), r, "FILL", r, n, TRUE)

Outlined(k, r, n) == Queued(k, Entry("OVER", r, n, FALSE, NULL))

Clipped(k, c) == Queued(k, Entry("CLIP", c, 0, FALSE, NULL))

(* Seeded fault: any bitmap knocks out what is below it. *)
BitmapAlwaysKnocks(k, r, n, opaque) ==
  IF Outside(r, clip_cur) THEN k
  ELSE LET area == Common(r, clip_cur)
       IN  Clipped(QueuedBox(knockout_calculate(k, area), area, "BITMAP", r, n, opaque),
                   clip_cur)

(* A bitmap knocks out only if it is opaque; the clip is set again after it. *)
BitmapQueued(k, r, n, opaque) ==
  IF Outside(r, clip_cur) THEN k
  ELSE LET area == Common(r, clip_cur)
           below == IF opaque THEN knockout_calculate(k, area) ELSE k
       IN  Clipped(QueuedBox(below, area, "BITMAP", r, n, opaque), clip_cur)

(* A polygon takes room in a table of its own; one too large for the table  *)
(* is plotted at once, after what was queued before it.                      *)
PolygonQueued(k, r, n, points) ==
  IF points >= KNOCKOUT_POLYGONS
  THEN LET done == knockout_plot_flush(k)
       IN  [done EXCEPT !.canvas = Plotted(@, done.clip, r, n, FALSE)]
  ELSE LET room == IF k.polygon_cur + points >= KNOCKOUT_POLYGONS
                   THEN knockout_plot_flush(k) ELSE k
       IN  Queued([room EXCEPT !.polygon_cur = @ + points], Entry("OVER", r, n, FALSE, NULL))

-----------------------------------------------------------------------------
Init ==
  /\ direct = [p \in Pixel |-> <<>>]
  /\ knk = Tables(direct)
  /\ clip_cur = Whole
  /\ depth = 0
  /\ plots = 0

(* One plot of the session: what the tables become, and the target. *)
Plot(tables, canvas) ==
  /\ depth > 0 /\ plots < MaxPlots
  /\ plots' = plots + 1
  /\ knk' = tables
  /\ direct' = canvas
  /\ UNCHANGED depth

This == plots + 1
Over(r) == Plotted(direct, clip_cur, r, This, FALSE)

knockout_plot_rectangle(r, stroke) ==
  /\ LET filled == Filled(knk, r, This)
         canvas == Plotted(direct, clip_cur, r, This, TRUE)
     IN  IF stroke
         THEN Plot(Outlined(filled, r, This), Plotted(canvas, clip_cur, r, This, FALSE))
         ELSE Plot(filled, canvas)
  /\ UNCHANGED clip_cur

knockout_plot_bitmap(r, opaque) ==
  /\ Plot(BitmapQueued(knk, r, This, opaque), Plotted(direct, clip_cur, r, This, opaque))
  /\ UNCHANGED clip_cur

(* Text, lines, discs, arcs and outlines. *)
knockout_plot_text(r) == Plot(Outlined(knk, r, This), Over(r)) /\ UNCHANGED clip_cur

knockout_plot_polygon(r, points) ==
  Plot(PolygonQueued(knk, r, This, points), Over(r)) /\ UNCHANGED clip_cur

knockout_plot_path(r) ==
  /\ LET done == knockout_plot_flush(knk)
     IN  Plot([done EXCEPT !.canvas = Plotted(@, done.clip, r, This, FALSE)], Over(r))
  /\ UNCHANGED clip_cur

Bad(c) == c.x1 < c.x0 \/ c.y0 > c.y1

(* A bad clip is refused: the plots go on under the one before. *)
knockout_plot_clip(c) ==
  /\ c # clip_cur                     \* bound: setting the same clip again shows nothing
  /\ IF Bad(c)
     THEN depth > 0 /\ UNCHANGED vars
     ELSE Plot(Clipped(knk, c), direct) /\ clip_cur' = c

(* A redraw starts a session; the redraw of a frame in it nests. *)
knockout_plot_start ==
  /\ depth < MaxNesting
  /\ depth' = depth + 1
  /\ UNCHANGED <<knk, clip_cur, direct, plots>>

(* Only the end of the outermost session has the plots made. *)
knockout_plot_end ==
  /\ depth > 0
  /\ depth' = depth - 1
  /\ knk' = IF depth' = 0 THEN knockout_plot_flush(knk) ELSE knk
  /\ UNCHANGED <<clip_cur, direct, plots>>

Next ==
  \/ knockout_plot_start \/ knockout_plot_end
  \/ \E r \in Fills, stroke \in BOOLEAN : knockout_plot_rectangle(r, stroke)
  \/ \E r \in Bitmaps, opaque \in BOOLEAN : knockout_plot_bitmap(r, opaque)
  \/ \E r \in Overlays : knockout_plot_text(r) \/ knockout_plot_path(r)
  \/ \E r \in Overlays, points \in Points : knockout_plot_polygon(r, points)
  \/ \E c \in Clips : knockout_plot_clip(c)

Spec == Init /\ [][Next]_vars

-----------------------------------------------------------------------------
(* The tables never overflow: there is always room for one more entry, box  *)
(* and polygon, and links lead to boxes of the table.                       *)
TypeOK ==
  /\ Len(knk.entries) < KNOCKOUT_ENTRIES
  /\ knk.box_cur \in Box
  /\ knk.polygon_cur \in 0..(KNOCKOUT_POLYGONS - 1)
  /\ knk.list \in Box \cup {NULL}
  /\ \A b \in Box : {knk.boxes[b].child, knk.boxes[b].next} \subseteq Box \cup {NULL}
  /\ clip_cur \in Clips \cup {Whole}
  /\ depth \in 0..MaxNesting /\ plots \in 0..MaxPlots

(* Whatever is knocked out of what, and whenever a table runs full, the     *)
(* queued plots will show what plotting at once would have shown; when the  *)
(* session is over, they do.                                                *)
ShowsTheSame ==
  /\ knockout_plot_flush(knk).canvas = direct
  /\ depth = 0 => knk.canvas = direct

(* "each pixel is just plotted once" (knockout.c:48): of the queued fills   *)
(* and opaque bitmaps no two are going to be plotted in the same pixel, and *)
(* no piece of a fill or bitmap is plotted twice.  Left out are boxes that   *)
(* were cut up before they were covered: they are marked as deleted, but    *)
(* the flush looks for pieces before it looks at the mark, and plots them.  *)
Boxed == {i \in DOMAIN knk.entries :
            /\ knk.entries[i].kind \in {"FILL", "BITMAP"}
            /\ ~knk.boxes[knk.entries[i].box].deleted}

ClipAt(i) ==
  FoldLeft(LAMBDA c, e : IF e.kind = "CLIP" THEN e.rect ELSE c,
           knk.clip, SubSeq(knk.entries, 1, i))

Shown(i) ==
  LET left == Left(knk.boxes, knk.entries[i])
  IN  [j \in DOMAIN left |-> {p \in Pixel : Inside(p, left[j]) /\ Inside(p, ClipAt(i))}]

PlottedOnce ==
  /\ \A i, j \in Boxed :
        i < j /\ knk.entries[j].opaque =>
          \A a \in DOMAIN Shown(i) : \A b \in DOMAIN Shown(j) :
             Shown(i)[a] \cap Shown(j)[b] = {}
  /\ \A i \in Boxed : \A a, b \in DOMAIN Shown(i) :
        a # b => Shown(i)[a] \cap Shown(i)[b] = {}
=============================================================================
