---------------------------- MODULE ConsoleProofs ----------------------------
(***************************************************************************)
(* Proofs about the console.  The functions of stdio.c are operators on    *)
(* the record of its globals, so most of the work is about them: each      *)
(* keeps a record Sound (the buffers have the size of the screen, the ring *)
(* ends with the lines that scrolled off last, the picture is that of the  *)
(* shadow buffer) and changes no field but the ones it names.  On top of   *)
(* that stand three invariants of the console's steps:                     *)
(*   Inv         for every choice of the constants;                        *)
(*   Whole       where no allocation of its buffers fails and nobody but   *)
(*               console_set_font_scale builds the console again;          *)
(*   Remembered  where the allocation of the ring does not fail.           *)
(***************************************************************************)
EXTENDS Console, TLAPS


Fields == {"x", "y", "w", "h", "scale", "screen", "screen_ptr", "backup", "backup_ptr",
           "ring", "ring_ptr", "start", "count", "view", "in_view", "auto_swap", "double",
           "drawn", "shown", "wild", "lines", "entry", "mixed", "synced", "raw"}
IsCon(s) == DOMAIN s = Fields

(* t is s but for the fields in changed.                                   *)
Same(t, s, changed) == IsCon(t) /\ \A f \in Fields \ changed : t[f] = s[f]

(* One field is given a value; what changes few fields changes few. *)
LEMMA SetOne == ASSUME NEW s, IsCon(s), NEW a, NEW u
                PROVE  Same([s EXCEPT ![a] = u], s, {a})
<1> HIDE DEF Fields
<1> QED BY DEF IsCon, Same

LEMMA SameTrans == ASSUME NEW s, NEW t, NEW r, NEW C, NEW D, Same(t, s, C), Same(r, t, D)
                   PROVE  Same(r, s, C \cup D)
<1> HIDE DEF Fields
<1> QED BY DEF Same

LEMMA SameMore == ASSUME NEW s, NEW t, NEW C, NEW D, Same(t, s, C), C \subseteq D
                  PROVE  Same(t, s, D)
<1> HIDE DEF Fields
<1> QED BY DEF Same

LEMMA SetTwo == ASSUME NEW s, IsCon(s), NEW a, NEW u, NEW b, NEW v
                PROVE  Same([s EXCEPT ![a] = u, ![b] = v], s, {a, b})
<1> HIDE DEF Fields
<1> QED BY DEF IsCon, Same

LEMMA SetThree == ASSUME NEW s, IsCon(s), NEW a, NEW u, NEW b, NEW v, NEW c, NEW x
                  PROVE  Same([s EXCEPT ![a] = u, ![b] = v, ![c] = x], s, {a, b, c})
<1> HIDE DEF Fields
<1> QED BY DEF IsCon, Same

LEMMA SameSelf == ASSUME NEW s, IsCon(s), NEW C PROVE Same(s, s, C)
BY DEF Same

-----------------------------------------------------------------------------
Width(scale)  == ScreenWidth \div scale
Height(scale) == ScreenHeight \div scale

LEMMA SizeBound == ASSUME NEW n \in Nat, n >= MAX_SCALE, NEW d \in 1..MAX_SCALE
                   PROVE  n \div d \in Nat \ {0}
<1>1. MAX_SCALE \in Nat /\ d \in Nat /\ d > 0 /\ n >= d
  BY ScreenAssumption
<1>2. n \div d \in Int /\ n >= d * (n \div d) /\ n < d * (n \div d) + d
  BY <1>1
<1>3. n \div d >= 1
  <2>1. SUFFICES ASSUME n \div d <= 0 PROVE FALSE
    BY <1>2
  <2>2. d * (n \div d) <= 0
    BY <1>1, <1>2, <2>1
  <2> QED BY <1>1, <1>2, <2>2
<1> QED BY <1>2, <1>3

LEMMA Sizes == ASSUME NEW scale \in 1..MAX_SCALE
               PROVE  /\ Width(scale) \in Nat \ {0}
                      /\ Height(scale) \in Nat \ {0}
                      /\ Grid(scale) = (0..(Width(scale) - 1)) \X (0..(Height(scale) - 1))
BY SizeBound, ScreenAssumption DEF Width, Height, Grid

(* The cells of a screen that is w wide and h high, in one row.            *)
LEMMA CellIndex == ASSUME NEW w \in Nat \ {0}, NEW h \in Nat \ {0},
                          NEW x \in 0..(w - 1), NEW y \in 0..(h - 1)
                   PROVE  y * w + x \in 0..(w * h - 1)
<1>1. y * w \in Nat /\ (y + 1) * w = y * w + w
  OBVIOUS
<1>2. (y + 1) * w <= h * w
  BY y + 1 <= h
<1>3. h * w = w * h
  OBVIOUS
<1> QED BY <1>1, <1>2, <1>3

LEMMA CellRow == ASSUME NEW w \in Nat \ {0}, NEW h \in Nat \ {0}, NEW x \in 0..(w - 1), NEW y \in Nat,
                        y * w + x \in 0..(w * h - 1)
                 PROVE  y \in 0..(h - 1)
<1>1. SUFFICES ASSUME y >= h PROVE FALSE
  OBVIOUS
<1>2. y * w >= h * w /\ h * w = w * h /\ y * w \in Nat
  BY <1>1
<1> QED BY <1>2

LEMMA CellApart == ASSUME NEW w \in Nat \ {0}, NEW x \in 0..(w - 1), NEW y \in Nat,
                          NEW u \in 0..(w - 1), NEW v \in Nat, y * w + x = v * w + u
                   PROVE  x = u /\ y = v
<1>1. y * w \in Nat /\ v * w \in Nat
  OBVIOUS
<1>2. ASSUME y < v PROVE FALSE
  <2>1. (y + 1) * w <= v * w /\ (y + 1) * w = y * w + w
    BY <1>2
  <2> QED BY <2>1, <1>1
<1>3. ASSUME v < y PROVE FALSE
  <2>1. (v + 1) * w <= y * w /\ (v + 1) * w = v * w + w
    BY <1>3
  <2> QED BY <2>1, <1>1
<1> QED BY <1>1, <1>2, <1>3

LEMMA CellDiv == ASSUME NEW w \in Nat \ {0}, NEW x \in 0..(w - 1), NEW y \in Nat
                 PROVE  (y * w + x) \div w = y /\ (y * w + x) % w = x
<1> DEFINE k == y * w + x
           q == k \div w
           r == k % w
<1>1. k \in Nat
  OBVIOUS
<1> HIDE DEF k
<1>2. q \in Nat /\ r \in 0..(w - 1) /\ k = q * w + r
  BY <1>1
<1> HIDE DEF q, r
<1>3. y * w + x = q * w + r
  BY <1>2 DEF k
<1>4. x = r /\ y = q
  BY <1>2, <1>3, CellApart
<1> QED BY <1>4 DEF q, r, k

(* The row below begins w cells on, and the last row ends the screen.      *)
LEMMA CellBelow == ASSUME NEW w \in Nat \ {0}, NEW h \in Nat \ {0},
                          NEW x \in 0..(w - 1), NEW y \in 0..(h - 1)
                   PROVE  /\ (y * w + x) + w = (y + 1) * w + x
                          /\ (y * w + x) + w \in 0..(w * h - 1) <=> y < h - 1
<1>1. (y * w + x) + w = (y + 1) * w + x
  OBVIOUS
<1>2. ASSUME y < h - 1 PROVE (y * w + x) + w \in 0..(w * h - 1)
  BY <1>1, <1>2, CellIndex, y + 1 \in 0..(h - 1)
<1>3. ASSUME (y * w + x) + w \in 0..(w * h - 1) PROVE y < h - 1
  <2>1. y + 1 \in 0..(h - 1)
    BY <1>1, <1>3, CellRow, y + 1 \in Nat
  <2> QED BY <2>1
<1> QED BY <1>1, <1>2, <1>3

(* Rows of the ring that are less than all of it apart are not the same.   *)
LEMMA RowsApart == ASSUME NEW n \in Nat \ {0}, NEW a \in Nat, NEW b \in Nat, a < b, b - a < n
                   PROVE  a % n # b % n
<1>1. SUFFICES ASSUME a % n = b % n PROVE FALSE
  OBVIOUS
<1> DEFINE p == a \div n
           q == b \div n
           r == a % n
<1>2. p \in Nat /\ q \in Nat /\ r \in 0..(n - 1) /\ a = p * n + r /\ b = q * n + r
  BY <1>1
<1> HIDE DEF p, q, r
<1>3. p * n \in Nat /\ q * n \in Nat
  BY <1>2
<1>4. q > p
  <2>1. SUFFICES ASSUME q <= p PROVE FALSE
    BY <1>2
  <2>2. q * n <= p * n
    BY <1>2, <2>1
  <2> QED BY <2>2, <1>2, <1>3
<1>5. (p + 1) * n <= q * n /\ (p + 1) * n = p * n + n
  BY <1>2, <1>4
<1> QED BY <1>2, <1>3, <1>5

(* A start that moved on by one line.                                      *)
LEMMA RowNext == ASSUME NEW n \in Nat \ {0}, NEW a \in Nat, NEW b \in Nat
                 PROVE  (((a + 1) % n) + b) % n = (a + 1 + b) % n
<1> DEFINE p == (a + 1) \div n
           r == (a + 1) % n
<1>1. p \in Nat /\ r \in 0..(n - 1) /\ a + 1 = p * n + r
  OBVIOUS
<1> HIDE DEF p, r
<1> DEFINE q == (r + b) \div n
           t == (r + b) % n
<1>2. q \in Nat /\ t \in 0..(n - 1) /\ r + b = q * n + t
  BY <1>1
<1> HIDE DEF q, t
<1>3. a + 1 + b = (p + q) * n + t
  BY <1>1, <1>2, (p + q) * n = p * n + q * n
<1>4. ((p + q) * n + t) % n = t
  BY <1>1, <1>2, CellDiv, p + q \in Nat
<1> QED BY <1>3, <1>4, (r + b) % n = t DEF r, t

LEMMA RowOf == ASSUME NEW n \in Nat \ {0}, NEW a \in Nat PROVE a % n \in 0..(n - 1)
OBVIOUS

LEMMA RowSelf == ASSUME NEW n \in Nat \ {0}, NEW a \in 0..(n - 1) PROVE (a + n) % n = a /\ a % n = a
<1>1. (1 * n + a) % n = a /\ (0 * n + a) % n = a
  BY CellDiv
<1> QED BY <1>1
-----------------------------------------------------------------------------
Line == UNION {[0..(n - 1) -> Chars] : n \in Nat}

(* What the fields of the globals may be. *)
Shape(s) ==
    /\ IsCon(s)
    /\ s.x \in Nat /\ s.y \in Nat /\ s.w \in Nat \ {0} /\ s.h \in Nat \ {0}
    /\ s.scale \in 1..MAX_SCALE
    /\ s.screen_ptr \in Pointers /\ s.backup_ptr \in Pointers /\ s.ring_ptr \in Pointers
    /\ s.start \in Rows /\ s.count \in 0..SCROLLBACK_LINES /\ s.view \in 0..s.count
    /\ s.in_view \in BOOLEAN /\ s.auto_swap \in BOOLEAN /\ s.double \in BOOLEAN

(* A buffer that is allocated has the size of the screen, and what is      *)
(* drawn is shown where there is no back buffer.                           *)
Buffers(s) ==
    /\ "live" \in {s.screen_ptr, s.backup_ptr, s.ring_ptr} =>
          s.w = Width(s.scale) /\ s.h = Height(s.scale)
    /\ s.screen_ptr = "live" => s.screen \in [0..(s.w * s.h - 1) -> AnyCell]
    /\ s.backup_ptr = "live" => s.backup \in [0..(s.w * s.h - 1) -> AnyCell]
    /\ s.ring_ptr = "live" => s.ring \in [Rows -> [0..(s.w - 1) -> Chars]]
    /\ s.drawn \in [Grid(s.scale) -> Paints]
    /\ s.shown \in [Grid(s.scale) -> Paints]
    /\ s.double \/ s.shown = s.drawn

(* What was shown when the view was entered is what was saved then.        *)
Saved(s) ==
    s.backup_ptr = "live" /\ s.entry # <<>> =>
        /\ s.entry \in [Grid(s.scale) -> Paints]
        /\ \A p \in Grid(s.scale) : s.entry[p] = Look(s.backup[Index(s, p[1], p[2])])

(* The newest of the ring's lines are these.                               *)
Keeps(ring, start, count, lines) ==
    /\ Len(lines) <= count
    /\ \A k \in 1..Len(lines) :
          ring[(start + count - Len(lines) + k - 1) % SCROLLBACK_LINES] = lines[k]

(* Its other rows, which are the older ones, hold this.                    *)
OlderAre(ring, start, count, lines, line) ==
    \A j \in 0..(count - Len(lines) - 1) : ring[(start + j) % SCROLLBACK_LINES] = line

Newest(s) ==
    /\ s.lines \in Seq(Line)
    /\ s.ring_ptr = "live" => Keeps(s.ring, s.start, s.count, s.lines)

Picture(s) ==
    s.synced /\ s.screen_ptr = "live" =>
        \A p \in Grid(s.scale) : s.drawn[p] = Look(s.screen[Index(s, p[1], p[2])])

Firm(s)  == Shape(s) /\ Buffers(s) /\ Saved(s) /\ Newest(s)
Sound(s) == Firm(s) /\ Picture(s)

Steered == {"x", "y", "auto_swap", "mixed", "raw", "wild"}

LEMMA Moves == ASSUME NEW s, NEW t, Sound(s), Same(t, s, Steered),
                      t.x \in Nat, t.y \in Nat, t.auto_swap \in BOOLEAN
               PROVE  Sound(t)
<1>1. /\ IsCon(t) /\ t.w = s.w /\ t.h = s.h /\ t.scale = s.scale /\ t.screen = s.screen
      /\ t.screen_ptr = s.screen_ptr /\ t.backup = s.backup /\ t.backup_ptr = s.backup_ptr
      /\ t.ring = s.ring /\ t.ring_ptr = s.ring_ptr /\ t.start = s.start /\ t.count = s.count
      /\ t.view = s.view /\ t.in_view = s.in_view /\ t.double = s.double /\ t.drawn = s.drawn
      /\ t.shown = s.shown /\ t.lines = s.lines /\ t.entry = s.entry /\ t.synced = s.synced
  BY DEF Same, Fields, Steered
<1>2. Shape(t)
  BY <1>1 DEF Sound, Firm, Shape
<1>3. Buffers(t)
  BY <1>1 DEF Sound, Firm, Buffers
<1>4. Saved(t)
  BY <1>1 DEF Sound, Firm, Saved, Index
<1>5. Newest(t)
  BY <1>1 DEF Sound, Firm, Newest
<1>6. Picture(t)
  BY <1>1 DEF Sound, Picture, Index
<1> QED BY <1>2, <1>3, <1>4, <1>5, <1>6 DEF Sound, Firm

LEMMA ScreenFirm ==
    ASSUME NEW s, NEW t, Firm(s), Same(t, s, {"x", "y", "screen", "synced", "mixed"}),
           t.x \in Nat, t.y \in Nat,
           s.screen_ptr = "live" => t.screen \in [0..(s.w * s.h - 1) -> AnyCell]
    PROVE  Firm(t)
<1>1. /\ IsCon(t) /\ t.w = s.w /\ t.h = s.h /\ t.scale = s.scale
      /\ t.screen_ptr = s.screen_ptr /\ t.backup = s.backup /\ t.backup_ptr = s.backup_ptr
      /\ t.ring = s.ring /\ t.ring_ptr = s.ring_ptr /\ t.start = s.start /\ t.count = s.count
      /\ t.view = s.view /\ t.in_view = s.in_view /\ t.double = s.double /\ t.drawn = s.drawn
      /\ t.shown = s.shown /\ t.lines = s.lines /\ t.entry = s.entry
      /\ t.auto_swap = s.auto_swap
  BY DEF Same, Fields
<1>2. Shape(t)
  BY <1>1 DEF Firm, Shape
<1>3. Buffers(t)
  BY <1>1 DEF Firm, Buffers
<1>4. Saved(t)
  BY <1>1 DEF Firm, Saved, Index
<1>5. Newest(t)
  BY <1>1 DEF Firm, Newest
<1> QED BY <1>2, <1>3, <1>4, <1>5 DEF Firm

LEMMA DrawFields == ASSUME NEW s, IsCon(s), NEW picture
                    PROVE  /\ Same(Draw(s, picture), s, {"drawn", "shown"})
                           /\ Draw(s, picture).drawn = picture
                           /\ s.double => Draw(s, picture).shown = s.shown
                           /\ ~s.double => Draw(s, picture).shown = picture
<1>1. CASE s.double
  <2> DEFINE t == [s EXCEPT !.drawn = picture, !.shown = s.shown]
  <2>1. Draw(s, picture) = t
    BY <1>1 DEF Draw, IsCon, Fields
  <2>2. Same(t, s, {"drawn", "shown"})
    BY SetTwo
  <2>3. t.drawn = picture /\ t.shown = s.shown
    BY DEF IsCon, Fields
  <2> HIDE DEF t
  <2> QED BY <1>1, <2>1, <2>2, <2>3
<1>2. CASE ~s.double
  <2> DEFINE t == [s EXCEPT !.drawn = picture, !.shown = picture]
  <2>1. Draw(s, picture) = t
    BY <1>2 DEF Draw, IsCon, Fields
  <2>2. Same(t, s, {"drawn", "shown"})
    BY SetTwo
  <2>3. t.drawn = picture /\ t.shown = picture
    BY DEF IsCon, Fields
  <2> HIDE DEF t
  <2> QED BY <1>2, <2>1, <2>2, <2>3
<1> QED BY <1>1, <1>2

LEMMA SwapFields == ASSUME NEW s, IsCon(s)
                    PROVE  /\ Same(Swap(s), s, {"shown", "raw"})
                           /\ s.double => Swap(s).shown = s.drawn
                           /\ ~s.double => Swap(s) = s
<1>1. CASE s.double
  <2>1. Swap(s) = [s EXCEPT !.shown = s.drawn, !.raw = FALSE]
    BY <1>1 DEF Swap
  <2>2. [s EXCEPT !.shown = s.drawn, !.raw = FALSE].shown = s.drawn
    BY DEF IsCon, Fields
  <2>6. Same([s EXCEPT !.shown = s.drawn, !.raw = FALSE], s, {"shown", "raw"})
    BY SetTwo
  <2> QED BY <1>1, <2>1, <2>2, <2>6
<1>2. CASE ~s.double
  BY <1>2, SameSelf DEF Swap
<1> QED BY <1>1, <1>2

LEMMA DrawFirm == ASSUME NEW s, Firm(s), NEW picture \in [Grid(s.scale) -> Paints]
                  PROVE  Firm(Draw(s, picture))
<1> DEFINE t == Draw(s, picture)
<1>0. IsCon(s)
  BY DEF Firm, Shape
<1>a. /\ Same(t, s, {"drawn", "shown"}) /\ t.drawn = picture
      /\ s.double => t.shown = s.shown
      /\ ~s.double => t.shown = picture
  BY <1>0, DrawFields
<1> HIDE DEF t
<1>1. /\ IsCon(t) /\ t.w = s.w /\ t.h = s.h /\ t.scale = s.scale /\ t.x = s.x /\ t.y = s.y
      /\ t.screen_ptr = s.screen_ptr /\ t.backup = s.backup /\ t.backup_ptr = s.backup_ptr
      /\ t.ring = s.ring /\ t.ring_ptr = s.ring_ptr /\ t.start = s.start /\ t.count = s.count
      /\ t.view = s.view /\ t.in_view = s.in_view /\ t.double = s.double
      /\ t.lines = s.lines /\ t.entry = s.entry /\ t.screen = s.screen
      /\ t.auto_swap = s.auto_swap
  BY <1>a DEF Same, Fields
<1>2. Shape(t)
  BY <1>1 DEF Firm, Shape
<1>3. Buffers(t)
  <2>1. t.shown \in [Grid(s.scale) -> Paints] /\ (s.double \/ t.shown = t.drawn)
    BY <1>a DEF Firm, Shape, Buffers
  <2> QED BY <1>a, <1>1, <2>1 DEF Firm, Buffers
<1>4. Saved(t)
  BY <1>1 DEF Firm, Saved, Index
<1>5. Newest(t)
  BY <1>1 DEF Firm, Newest
<1> QED BY <1>2, <1>3, <1>4, <1>5 DEF Firm, t

LEMMA SwapSound == ASSUME NEW s, Firm(s)
                   PROVE  /\ Firm(Swap(s)) /\ (Picture(s) => Picture(Swap(s)))
                          /\ Swap(s).shown = Swap(s).drawn
                          /\ Same(Swap(s), s, {"shown", "raw"})
<1> DEFINE t == Swap(s)
<1>0. IsCon(s)
  BY DEF Firm, Shape
<1>a. /\ Same(t, s, {"shown", "raw"})
      /\ s.double => t.shown = s.drawn
      /\ ~s.double => t = s
  BY <1>0, SwapFields
<1> HIDE DEF t
<1>1. /\ IsCon(t) /\ t.w = s.w /\ t.h = s.h /\ t.scale = s.scale /\ t.x = s.x /\ t.y = s.y
      /\ t.screen_ptr = s.screen_ptr /\ t.backup = s.backup /\ t.backup_ptr = s.backup_ptr
      /\ t.ring = s.ring /\ t.ring_ptr = s.ring_ptr /\ t.start = s.start /\ t.count = s.count
      /\ t.view = s.view /\ t.in_view = s.in_view /\ t.double = s.double
      /\ t.lines = s.lines /\ t.entry = s.entry /\ t.screen = s.screen
      /\ t.auto_swap = s.auto_swap /\ t.drawn = s.drawn /\ t.synced = s.synced
  BY <1>a DEF Same, Fields
<1>2. Shape(t)
  BY <1>1 DEF Firm, Shape
<1>b. t.shown = t.drawn
  BY <1>1, <1>a DEF Firm, Buffers
<1>3. Buffers(t)
  BY <1>a, <1>1, <1>b DEF Firm, Buffers
<1>4. Saved(t)
  BY <1>1 DEF Firm, Saved, Index
<1>5. Newest(t)
  BY <1>1 DEF Firm, Newest
<1>6. Picture(s) => Picture(t)
  BY <1>1 DEF Picture, Index
<1> QED BY <1>2, <1>3, <1>4, <1>5, <1>6, <1>a, <1>b DEF Firm, t

-----------------------------------------------------------------------------
(* What is drawn, and a cell that is stored and drawn: where it is stored  *)
(* is where it is drawn, or the picture is no longer the buffer's.         *)
LEMMA LookPaints == ASSUME NEW cell \in AnyCell PROVE Look(cell) \in Paints
<1> DEFINE fg == cell.color % 16
           bg == cell.color \div 16
<1>1. cell.c \in Chars /\ cell.color \in 0..256
  BY DEF AnyCell
<1>2. fg \in 0..15
  BY <1>1
<1>3. CASE cell.c = JUNK \/ cell.color = 256
  BY <1>3 DEF Look, Paint, Paints
<1>4. CASE cell.c # JUNK /\ cell.color # 256
  <2>1. bg \in 0..15
    BY <1>1, <1>4
  <2>2. CASE cell.c \in {SPACE, NUL} \/ fg = bg
    <3>1. Look(cell) = Paint(SPACE, bg, bg)
      BY <1>4, <2>2 DEF Look
    <3> QED BY <2>1, <3>1 DEF Paint, Paints
  <2>3. CASE cell.c \notin {SPACE, NUL} /\ fg # bg
    <3>1. Look(cell) = Paint(cell.c, fg, bg)
      BY <1>4, <2>3 DEF Look
    <3>2. cell.c \in Letters \cup {"message"}
      BY <1>1, <1>4, <2>3 DEF Chars
    <3> HIDE DEF fg, bg
    <3> QED BY <1>2, <2>1, <3>1, <3>2 DEF Paint, Paints
  <2> QED BY <2>2, <2>3
<1> QED BY <1>3, <1>4

LEMMA Blank == ASSUME NEW c \in {SPACE, NUL}
               PROVE  /\ Cell(c, DEFAULT_COLOR) \in AnyCell /\ Cell(c, 0) \in AnyCell
                      /\ Look(Cell(c, DEFAULT_COLOR)) = BLACK
                      /\ Look(Cell(c, 0)) = BLACK
<1>1. Cell(c, DEFAULT_COLOR) \in AnyCell /\ Cell(c, 0) \in AnyCell
  BY DEF Cell, AnyCell, Chars, DEFAULT_COLOR
<1>2. 7 % 16 = 7 /\ 7 \div 16 = 0 /\ 0 % 16 = 0 /\ 0 \div 16 = 0
  OBVIOUS
<1>3. c # JUNK
  BY DEF SPACE, NUL, JUNK
<1>4. Look(Cell(c, DEFAULT_COLOR)) = BLACK
  BY <1>2, <1>3 DEF Look, Cell, DEFAULT_COLOR, BLACK
<1>5. Look(Cell(c, 0)) = BLACK
  BY <1>2, <1>3 DEF Look, Cell, BLACK
<1> QED BY <1>1, <1>4, <1>5

LEMMA BlackPaints == BLACK \in Paints /\ OLD \in Paints
BY DEF BLACK, OLD, Paint, Paints, SPACE

LEMMA GridCells == ASSUME NEW s, Shape(s), "live" \in {s.screen_ptr, s.backup_ptr, s.ring_ptr}, Buffers(s)
                   PROVE  Grid(s.scale) = (0..(s.w - 1)) \X (0..(s.h - 1))
BY Sizes DEF Shape, Buffers

LEMMA DrawChar == ASSUME NEW s, Firm(s), NEW x \in Int, NEW y \in Int, NEW cell \in AnyCell
                  PROVE  /\ Firm(draw_char_at(s, x, y, cell))
                         /\ Same(draw_char_at(s, x, y, cell), s, {"drawn", "shown"})
                         /\ \A p \in Grid(s.scale) :
                               draw_char_at(s, x, y, cell).drawn[p] =
                                   IF p = <<x, y>> THEN Look(cell) ELSE s.drawn[p]
<1>1. IsCon(s) /\ s.drawn \in [Grid(s.scale) -> Paints] /\ Look(cell) \in Paints
  BY LookPaints DEF Firm, Shape, Buffers
<1> DEFINE picture == [s.drawn EXCEPT ![<<x, y>>] = Look(cell)]
<1>2. picture \in [Grid(s.scale) -> Paints]
  BY <1>1
<1>3. CASE <<x, y>> \in DOMAIN s.drawn
  <2>1. draw_char_at(s, x, y, cell) = Draw(s, picture)
    BY <1>3 DEF draw_char_at
  <2>2. \A p \in Grid(s.scale) : picture[p] = IF p = <<x, y>> THEN Look(cell) ELSE s.drawn[p]
    BY <1>1
  <2> HIDE DEF picture
  <2> QED BY <1>1, <1>2, <2>1, <2>2, DrawFirm, DrawFields
<1>4. CASE <<x, y>> \notin DOMAIN s.drawn
  <2>1. draw_char_at(s, x, y, cell) = s
    BY <1>4 DEF draw_char_at
  <2>2. \A p \in Grid(s.scale) : p # <<x, y>>
    BY <1>1, <1>4
  <2> QED BY <1>1, <2>1, <2>2, SameSelf
<1> QED BY <1>3, <1>4

LEMMA WildSound == ASSUME NEW s, Sound(s), NEW access
                   PROVE  Sound(Wild(s, access)) /\ Same(Wild(s, access), s, {"wild"})
<1>1. IsCon(s) /\ s.x \in Nat /\ s.y \in Nat /\ s.auto_swap \in BOOLEAN
  BY DEF Sound, Firm, Shape
<1>2. Same(Wild(s, access), s, {"wild"})
  BY <1>1, SetOne DEF Wild
<1>3. Same(Wild(s, access), s, Steered)
  BY <1>2, SameMore DEF Steered
<1>4. Wild(s, access).x = s.x /\ Wild(s, access).y = s.y /\ Wild(s, access).auto_swap = s.auto_swap
  BY <1>2 DEF Same, Fields
<1> QED BY <1>1, <1>2, <1>3, <1>4, Moves

(* What is stored where it is drawn keeps the picture.                     *)
LEMMA StoreSound ==
    ASSUME NEW s, Sound(s), NEW x \in Nat, NEW y \in Nat, NEW cell,
           \/ s.screen_ptr = "freed"
           \/ s.screen_ptr = "live" /\ Index(s, x, y) \notin DOMAIN s.screen
           \/ cell \in AnyCell
    PROVE  /\ Sound(Store(s, x, y, cell))
           /\ Same(Store(s, x, y, cell), s, {"screen", "drawn", "shown", "wild", "synced"})
<1>0. IsCon(s) /\ Firm(s) /\ Shape(s) /\ Buffers(s) /\ Picture(s) /\ s.screen_ptr \in Pointers
  BY DEF Sound, Firm, Shape
<1>1. CASE s.screen_ptr = "freed"
  BY <1>1, WildSound, SameMore DEF Store
<1>2. CASE s.screen_ptr = "null"
  <2>1. Store(s, x, y, cell) = draw_char_at(s, x, y, cell) /\ cell \in AnyCell
    BY <1>2 DEF Store
  <2> DEFINE t == draw_char_at(s, x, y, cell)
  <2>2. Firm(t) /\ Same(t, s, {"drawn", "shown"})
    BY <1>0, <2>1, DrawChar
  <2>3. t.screen_ptr = s.screen_ptr
    BY <2>2 DEF Same, Fields
  <2>4. Picture(t)
    BY <1>2, <2>3 DEF Picture
  <2>5. Same(t, s, {"screen", "drawn", "shown", "wild", "synced"})
    BY <2>2, SameMore
  <2> QED BY <2>1, <2>2, <2>4, <2>5 DEF Sound
<1>3. CASE s.screen_ptr = "live" /\ Index(s, x, y) \notin DOMAIN s.screen
  BY <1>3, WildSound, SameMore DEF Store
<1>4. CASE s.screen_ptr = "live" /\ Index(s, x, y) \in DOMAIN s.screen /\ cell \in AnyCell
  <2> DEFINE screen == [s.screen EXCEPT ![Index(s, x, y)] = cell]
             kept == s.synced /\ x < s.w
             r == [s EXCEPT !.screen = screen, !.synced = kept]
             t == draw_char_at(r, x, y, cell)
  <2>1. Store(s, x, y, cell) = t
    BY <1>4 DEF Store
  <2>2. s.screen \in [0..(s.w * s.h - 1) -> AnyCell] /\ screen \in [0..(s.w * s.h - 1) -> AnyCell]
    BY <1>0, <1>4 DEF Buffers
  <2>3. \A k \in DOMAIN s.screen : screen[k] = IF k = Index(s, x, y) THEN cell ELSE s.screen[k]
    OBVIOUS
  <2> HIDE DEF screen
  <2>a. (kept <=> s.synced /\ x < s.w) /\ s.w \in Nat \ {0} /\ s.h \in Nat \ {0}
    BY <1>0 DEF Shape
  <2> HIDE DEF kept
  <2>4. Same(r, s, {"screen", "synced"}) /\ r.screen = screen
    <3>1. Same(r, s, {"screen", "synced"})
      BY <1>0, SetTwo
    <3>2. r.screen = screen
      BY <1>0 DEF IsCon, Fields
    <3> QED BY <3>1, <3>2
  <2>b. r.synced => s.synced /\ x < s.w
    BY <1>0, <2>a DEF IsCon, Fields
  <2> HIDE DEF r
  <2>5. r.x \in Nat /\ r.y \in Nat /\ r.w = s.w /\ r.scale = s.scale /\ r.screen_ptr = "live" /\ r.drawn = s.drawn /\ r.h = s.h
    BY <1>0, <1>4, <2>4 DEF Same, Fields, Shape
  <2>6. Firm(r)
    <3>1. Same(r, s, {"x", "y", "screen", "synced", "mixed"})
      BY <2>4, SameMore
    <3> QED BY <1>0, <2>2, <2>4, <2>5, <3>1, ScreenFirm
  <2>7. /\ Firm(t) /\ Same(t, r, {"drawn", "shown"})
        /\ \A p \in Grid(s.scale) : t.drawn[p] = IF p = <<x, y>> THEN Look(cell) ELSE s.drawn[p]
    BY <1>4, <2>5, <2>6, DrawChar
  <2> HIDE DEF t
  <2>8. t.screen = screen /\ t.synced = r.synced /\ t.scale = s.scale /\ t.w = s.w
    BY <2>4, <2>5, <2>7 DEF Same, Fields
  <2>9. Same(t, s, {"screen", "drawn", "shown", "wild", "synced"})
    <3>1. Same(t, s, {"screen", "synced"} \cup {"drawn", "shown"})
      BY <2>4, <2>7, SameTrans
    <3> QED BY <3>1, SameMore
  <2>10. Picture(t)
    <3>1. SUFFICES ASSUME t.synced, NEW p \in Grid(s.scale)
                   PROVE  t.drawn[p] = Look(screen[Index(s, p[1], p[2])])
      BY <2>8 DEF Picture, Index
    <3>2. s.synced /\ x \in 0..(s.w - 1)
      BY <3>1, <2>8, <2>a, <2>b
    <3>3. Grid(s.scale) = (0..(s.w - 1)) \X (0..(s.h - 1))
      BY <1>0, <1>4, GridCells
    <3>4. p[1] \in 0..(s.w - 1) /\ p[2] \in 0..(s.h - 1) /\ p = <<p[1], p[2]>>
      BY <3>3
    <3>5. Index(s, p[1], p[2]) \in DOMAIN s.screen
      BY <3>4, <2>a, <2>2, CellIndex DEF Index
    <3>6. s.drawn[p] = Look(s.screen[Index(s, p[1], p[2])])
      BY <1>0, <1>4, <3>2 DEF Picture
    <3>7. CASE p = <<x, y>>
      BY <2>7, <3>7, <2>3, <3>5
    <3>8. CASE p # <<x, y>>
      <4>1. Index(s, p[1], p[2]) # Index(s, x, y)
        BY <3>2, <3>4, <3>8, <2>a, CellApart DEF Index
      <4> QED BY <2>7, <3>8, <2>3, <3>5, <4>1, <3>6
    <3> QED BY <3>7, <3>8
  <2> QED BY <2>1, <2>7, <2>9, <2>10 DEF Sound
<1> QED BY <1>0, <1>1, <1>2, <1>3, <1>4 DEF Pointers

-----------------------------------------------------------------------------
(* The calls that draw one cell, and all cells drawn again.                *)
StoreFields == {"screen", "drawn", "shown", "wild", "synced"}

LEMMA KputchrSound == ASSUME NEW s, Sound(s), NEW x \in Nat, NEW y \in Nat, NEW c \in Chars
                      PROVE  /\ Sound(kputchr(s, x, y, c))
                             /\ Same(kputchr(s, x, y, c), s, StoreFields)
<1> DEFINE color == IF s.screen_ptr = "live" /\ Index(s, x, y) \in DOMAIN s.screen
                    THEN s.screen[Index(s, x, y)].color ELSE DEFAULT_COLOR
<1>1. kputchr(s, x, y, c) = Store(s, x, y, Cell(c, color))
  BY DEF kputchr
<1>2. color \in 0..256
  <2>1. CASE s.screen_ptr = "live" /\ Index(s, x, y) \in DOMAIN s.screen
    <3>1. s.screen[Index(s, x, y)] \in AnyCell
      BY <2>1 DEF Sound, Firm, Buffers
    <3> QED BY <2>1, <3>1 DEF AnyCell
  <2> QED BY <2>1 DEF DEFAULT_COLOR
<1> HIDE DEF color
<1>3. Cell(c, color) \in AnyCell
  BY <1>2 DEF Cell, AnyCell
<1> QED BY <1>1, <1>3, StoreSound DEF StoreFields

LEMMA KputcolorSound == ASSUME NEW s, Sound(s), NEW x \in Nat, NEW y \in Nat, NEW color \in 0..255
                        PROVE  /\ Sound(kputcolor(s, x, y, color))
                               /\ Same(kputcolor(s, x, y, color), s, StoreFields)
<1>1. CASE s.screen_ptr = "null"
  BY <1>1, SameSelf DEF kputcolor, Sound, Firm, Shape
<1>2. CASE s.screen_ptr # "null"
  <2> DEFINE cell == Cell(CellAt(s, x, y).c, color)
  <2>1. kputcolor(s, x, y, color) = Store(s, x, y, cell)
    BY <1>2 DEF kputcolor
  <2>2. ASSUME s.screen_ptr = "live", Index(s, x, y) \in DOMAIN s.screen PROVE cell \in AnyCell
    <3>1. s.screen[Index(s, x, y)] \in AnyCell
      BY <2>2 DEF Sound, Firm, Buffers
    <3> QED BY <1>2, <3>1 DEF CellAt, Cell, AnyCell
  <2>3. s.screen_ptr \in {"live", "freed"}
    BY <1>2 DEF Sound, Firm, Shape, Pointers
  <2> HIDE DEF cell
  <2> QED BY <2>1, <2>2, <2>3, StoreSound DEF StoreFields
<1> QED BY <1>1, <1>2

RedrawFields == {"screen", "synced", "drawn", "shown", "raw"}

LEMMA SetScreen == ASSUME NEW s, Firm(s), NEW screen,
                          s.screen_ptr = "live" => screen \in [0..(s.w * s.h - 1) -> AnyCell]
                   PROVE  LET t == [s EXCEPT !.screen = screen, !.synced = TRUE]
                          IN  Firm(t) /\ Same(t, s, {"screen", "synced"}) /\ t.screen = screen
<1> DEFINE t == [s EXCEPT !.screen = screen, !.synced = TRUE]
<1>0. IsCon(s)
  BY DEF Firm, Shape
<1>1. Same(t, s, {"screen", "synced"})
  BY <1>0, SetTwo
<1>2. t.screen = screen
  BY <1>0 DEF IsCon, Fields
<1> HIDE DEF t
<1>3. Same(t, s, {"x", "y", "screen", "synced", "mixed"})
  BY <1>1, SameMore
<1>4. t.x = s.x /\ t.y = s.y /\ s.x \in Nat /\ s.y \in Nat
  BY <1>1 DEF Same, Fields, Firm, Shape
<1>5. Firm(t)
  BY <1>2, <1>3, <1>4, ScreenFirm
<1> QED BY <1>1, <1>2, <1>5 DEF t

(* All cells drawn again are the picture of the shadow buffer, shown.      *)
LEMMA RedrawSound ==
    ASSUME NEW s, Firm(s), s.screen_ptr # "freed", NEW screen,
           s.screen_ptr = "live" => screen \in [0..(s.w * s.h - 1) -> AnyCell]
    PROVE  /\ Sound(Redraw(s, screen))
           /\ Same(Redraw(s, screen), s, RedrawFields)
           /\ Redraw(s, screen).screen = screen
           /\ Redraw(s, screen).shown = Redraw(s, screen).drawn
           /\ s.screen_ptr = "live" =>
                 \A p \in Grid(s.scale) :
                    Redraw(s, screen).drawn[p] = Look(screen[Index(s, p[1], p[2])])
<1> DEFINE t == [s EXCEPT !.screen = screen, !.synced = TRUE]
<1>1. Firm(t) /\ Same(t, s, {"screen", "synced"}) /\ t.screen = screen
  BY SetScreen
<1> DEFINE picture == [p \in DOMAIN s.drawn |->
                          IF p[1] < s.w /\ p[2] < s.h
                          THEN Look(CellAt(t, p[1], p[2])) ELSE s.drawn[p]]
           r == Swap(Draw(t, picture))
<1>2. Redraw(s, screen) = r
  BY DEF Redraw
<1> HIDE DEF t
<1>3. t.scale = s.scale /\ t.screen_ptr = s.screen_ptr /\ t.drawn = s.drawn /\ t.w = s.w /\ t.h = s.h
  BY <1>1 DEF Same, Fields
<1>4. /\ s.drawn \in [Grid(s.scale) -> Paints] /\ s.w \in Nat \ {0} /\ s.h \in Nat \ {0}
      /\ s.screen_ptr \in {"null", "live"}
  BY DEF Firm, Shape, Buffers, Pointers
<1>5. ASSUME s.screen_ptr = "live", NEW p \in Grid(s.scale)
      PROVE  /\ Index(s, p[1], p[2]) \in 0..(s.w * s.h - 1)
             /\ p[1] < s.w /\ p[2] < s.h
             /\ CellAt(t, p[1], p[2]) = screen[Index(s, p[1], p[2])]
             /\ screen[Index(s, p[1], p[2])] \in AnyCell
  <2>1. Grid(s.scale) = (0..(s.w - 1)) \X (0..(s.h - 1))
    BY <1>5, GridCells DEF Firm
  <2>2. p[1] \in 0..(s.w - 1) /\ p[2] \in 0..(s.h - 1)
    BY <2>1
  <2>3. Index(s, p[1], p[2]) \in 0..(s.w * s.h - 1)
    BY <2>2, <1>4, CellIndex DEF Index
  <2>4. Index(t, p[1], p[2]) = Index(s, p[1], p[2])
    BY <1>3 DEF Index
  <2> QED BY <2>2, <2>3, <2>4, <1>1, <1>3, <1>4, <1>5 DEF CellAt
<1>6. ASSUME NEW p \in Grid(s.scale) PROVE picture[p] \in Paints
  <2>1. CASE s.screen_ptr = "live"
    BY <1>4, <1>5, <2>1, LookPaints
  <2>2. CASE s.screen_ptr = "null"
    <3>1. CellAt(t, p[1], p[2]) = Cell(NUL, DEFAULT_COLOR)
      BY <2>2, <1>3 DEF CellAt
    <3>2. Look(CellAt(t, p[1], p[2])) \in Paints
      BY <3>1, Blank, BlackPaints
    <3> QED BY <1>4, <3>2
  <2> QED BY <1>4, <2>1, <2>2
<1>7. picture \in [Grid(s.scale) -> Paints]
  BY <1>4, <1>6
<1>8. s.screen_ptr = "live" =>
         \A p \in Grid(s.scale) : picture[p] = Look(screen[Index(s, p[1], p[2])])
  BY <1>4, <1>5
<1> HIDE DEF picture
<1>9. Firm(Draw(t, picture)) /\ Same(Draw(t, picture), t, {"drawn", "shown"})
      /\ Draw(t, picture).drawn = picture
  BY <1>1, <1>3, <1>7, DrawFirm, DrawFields DEF Firm, Shape
<1>10. Firm(r) /\ r.shown = r.drawn /\ Same(r, Draw(t, picture), {"shown", "raw"})
  BY <1>9, SwapSound
<1> HIDE DEF r
<1>11. Same(r, s, RedrawFields)
  <2>1. Same(Draw(t, picture), s, {"screen", "synced"} \cup {"drawn", "shown"})
    BY <1>1, <1>9, SameTrans
  <2>2. Same(r, s, ({"screen", "synced"} \cup {"drawn", "shown"}) \cup {"shown", "raw"})
    BY <2>1, <1>10, SameTrans
  <2> QED BY <2>2, SameMore DEF RedrawFields
<1>12. r.drawn = picture /\ r.screen = screen
  BY <1>1, <1>9, <1>10 DEF Same, Fields
<1>13. r.scale = s.scale /\ r.screen_ptr = s.screen_ptr /\ r.w = s.w
  BY <1>11 DEF Same, Fields, RedrawFields
<1>14. Picture(r)
  BY <1>8, <1>12, <1>13 DEF Picture, Index
<1> QED BY <1>2, <1>8, <1>10, <1>11, <1>12, <1>14 DEF Sound

-----------------------------------------------------------------------------
(* The screen is cleared, and everything moves up a line.                  *)
ClrscrFields == {"x", "y", "screen", "synced", "drawn", "shown", "raw"}

LEMMA ClrscrSound ==
    ASSUME NEW s, Firm(s)
    PROVE  /\ Sound(clrscr(s)) /\ Same(clrscr(s), s, ClrscrFields)
           /\ clrscr(s).shown = clrscr(s).drawn
           /\ clrscr(s).x = 0 /\ clrscr(s).y = 0
           /\ s.screen_ptr = "live" =>
                 clrscr(s).screen = [k \in DOMAIN s.screen |-> Cell(NUL, DEFAULT_COLOR)]
<1> DEFINE cleared == Filled(s.scale, BLACK)
           screen  == IF s.screen_ptr = "live"
                      THEN [k \in DOMAIN s.screen |-> Cell(NUL, DEFAULT_COLOR)] ELSE s.screen
           t == [s EXCEPT !.x = 0, !.y = 0, !.screen = screen, !.synced = TRUE]
           r == Swap(Draw(t, cleared))
<1>1. clrscr(s) = r
  BY DEF clrscr
<1>2. s.screen_ptr = "live" => /\ screen \in [0..(s.w * s.h - 1) -> AnyCell]
                               /\ screen = [k \in DOMAIN s.screen |-> Cell(NUL, DEFAULT_COLOR)]
                               /\ \A k \in 0..(s.w * s.h - 1) : screen[k] = Cell(NUL, DEFAULT_COLOR)
  BY Blank DEF Firm, Buffers
<1> HIDE DEF screen
<1>3. IsCon(s) /\ s.x \in Nat /\ s.y \in Nat
  BY DEF Firm, Shape
<1>4. Same(t, s, {"x", "y"} \cup {"screen", "synced"})
  <2>1. Same([s EXCEPT !.x = 0, !.y = 0], s, {"x", "y"})
    BY <1>3, SetTwo
  <2> DEFINE q == [s EXCEPT !.x = 0, !.y = 0]
  <2>2. IsCon(q) /\ t = [q EXCEPT !.screen = screen, !.synced = TRUE]
    BY <2>1 DEF Same
  <2> HIDE DEF q
  <2>3. Same([q EXCEPT !.screen = screen, !.synced = TRUE], q, {"screen", "synced"})
    BY <2>2, SetTwo
  <2> QED BY <2>1, <2>2, <2>3, SameTrans DEF q
<1>5. t.x = 0 /\ t.y = 0 /\ t.screen = screen
  BY <1>3 DEF IsCon, Fields
<1> HIDE DEF t
<1>6. /\ Same(t, s, {"x", "y", "screen", "synced", "mixed"})
      /\ t.scale = s.scale /\ t.screen_ptr = s.screen_ptr /\ t.w = s.w /\ t.h = s.h
  <2>1. Same(t, s, {"x", "y", "screen", "synced", "mixed"})
    BY <1>4, SameMore
  <2> QED BY <2>1 DEF Same, Fields
<1>7. Firm(t)
  BY <1>2, <1>5, <1>6, ScreenFirm
<1>8. cleared \in [Grid(s.scale) -> Paints] /\ \A p \in Grid(s.scale) : cleared[p] = BLACK
  BY BlackPaints DEF Filled
<1> HIDE DEF cleared
<1>9. Firm(Draw(t, cleared)) /\ Same(Draw(t, cleared), t, {"drawn", "shown"})
      /\ Draw(t, cleared).drawn = cleared
  BY <1>6, <1>7, <1>8, DrawFirm, DrawFields DEF Firm, Shape
<1>10. Firm(r) /\ r.shown = r.drawn /\ Same(r, Draw(t, cleared), {"shown", "raw"})
  BY <1>9, SwapSound
<1> HIDE DEF r
<1>11. Same(r, s, ClrscrFields)
  <2>1. Same(Draw(t, cleared), s, ({"x", "y"} \cup {"screen", "synced"}) \cup {"drawn", "shown"})
    BY <1>4, <1>9, SameTrans
  <2>2. Same(r, s, (({"x", "y"} \cup {"screen", "synced"}) \cup {"drawn", "shown"}) \cup {"shown", "raw"})
    BY <2>1, <1>10, SameTrans
  <2> QED BY <2>2, SameMore DEF ClrscrFields
<1>12. r.drawn = cleared /\ r.screen = screen /\ r.x = 0 /\ r.y = 0
  BY <1>5, <1>9, <1>10 DEF Same, Fields
<1>13. r.scale = s.scale /\ r.screen_ptr = s.screen_ptr /\ r.w = s.w /\ r.h = s.h
  BY <1>11 DEF Same, Fields, ClrscrFields
<1>14. Picture(r)
  <2>1. SUFFICES ASSUME s.screen_ptr = "live", NEW p \in Grid(s.scale)
                 PROVE  r.drawn[p] = Look(r.screen[Index(r, p[1], p[2])])
    BY <1>13 DEF Picture
  <2>2. Grid(s.scale) = (0..(s.w - 1)) \X (0..(s.h - 1)) /\ s.w \in Nat \ {0} /\ s.h \in Nat \ {0}
    BY <2>1, GridCells DEF Firm, Shape
  <2>3. p[1] \in 0..(s.w - 1) /\ p[2] \in 0..(s.h - 1)
    BY <2>2
  <2>4. Index(r, p[1], p[2]) \in 0..(s.w * s.h - 1)
    BY <1>13, <2>2, <2>3, CellIndex DEF Index
  <2> QED BY <1>2, <1>8, <1>12, <2>1, <2>4, Blank
<1> QED BY <1>1, <1>2, <1>10, <1>11, <1>12, <1>14 DEF Sound

(* The cells and the picture move up together.                             *)
LEMMA MovedUp ==
    ASSUME NEW s, Sound(s), s.screen_ptr = "live"
    PROVE  /\ moved_up(s) \in [0..(s.w * s.h - 1) -> AnyCell]
           /\ s.synced => \A p \in Grid(s.scale) :
                             picture_up(s)[p] = Look(moved_up(s)[Index(s, p[1], p[2])])
<1>1. /\ s.w \in Nat \ {0} /\ s.h \in Nat \ {0} /\ s.h = Height(s.scale)
      /\ s.screen \in [0..(s.w * s.h - 1) -> AnyCell]
      /\ Grid(s.scale) = (0..(s.w - 1)) \X (0..(s.h - 1))
      /\ s.drawn \in [Grid(s.scale) -> Paints]
  BY GridCells DEF Sound, Firm, Shape, Buffers
<1>2. moved_up(s) \in [0..(s.w * s.h - 1) -> AnyCell]
  BY <1>1, Blank DEF moved_up
<1>3. ASSUME s.synced, NEW p \in Grid(s.scale)
      PROVE  picture_up(s)[p] = Look(moved_up(s)[Index(s, p[1], p[2])])
  <2>1. p[1] \in 0..(s.w - 1) /\ p[2] \in 0..(s.h - 1) /\ p = <<p[1], p[2]>>
    BY <1>1
  <2> DEFINE x == p[1]
             y == p[2]
             k == Index(s, x, y)
  <2>2. k \in 0..(s.w * s.h - 1)
    BY <1>1, <2>1, CellIndex DEF Index
  <2>3. k + s.w = Index(s, x, y + 1) /\ (k + s.w \in 0..(s.w * s.h - 1) <=> y < s.h - 1)
    BY <1>1, <2>1, CellBelow DEF Index
  <2>4. moved_up(s)[k] = IF k + s.w \in 0..(s.w * s.h - 1) THEN s.screen[k + s.w] ELSE Cell(NUL, DEFAULT_COLOR)
    BY <1>1, <2>2 DEF moved_up
  <2>5. picture_up(s)[p] = IF y < s.h - 1 THEN s.drawn[<<x, y + 1>>] ELSE BLACK
    BY <1>1 DEF picture_up, Height
  <2>6. CASE y < s.h - 1
    <3>1. <<x, y + 1>> \in Grid(s.scale)
      BY <1>1, <2>1, <2>6
    <3>2. s.drawn[<<x, y + 1>>] = Look(s.screen[Index(s, x, y + 1)])
      BY <1>3, <3>1 DEF Sound, Picture
    <3> QED BY <2>3, <2>4, <2>5, <2>6, <3>2
  <2>7. CASE ~(y < s.h - 1)
    BY <2>3, <2>4, <2>5, <2>7, Blank
  <2> QED BY <2>6, <2>7
<1> QED BY <1>2, <1>3

LEMMA PictureUpPaints == ASSUME NEW s, Sound(s) PROVE picture_up(s) \in [Grid(s.scale) -> Paints]
<1>1. /\ s.scale \in 1..MAX_SCALE /\ s.drawn \in [Grid(s.scale) -> Paints]
      /\ Grid(s.scale) = (0..(Width(s.scale) - 1)) \X (0..(Height(s.scale) - 1))
      /\ Height(s.scale) \in Nat
  BY Sizes DEF Sound, Firm, Shape, Buffers
<1>2. ASSUME NEW p \in Grid(s.scale), p[2] < Height(s.scale) - 1
      PROVE  s.drawn[<<p[1], p[2] + 1>>] \in Paints
  <2>1. <<p[1], p[2] + 1>> \in Grid(s.scale)
    BY <1>1, <1>2
  <2> QED BY <1>1, <2>1
<1> QED BY <1>1, <1>2, BlackPaints DEF picture_up, Height

-----------------------------------------------------------------------------
(* The ring takes a line: it still ends with the last lines that scrolled  *)
(* off, and its rows below them are the ones it had.                       *)
LEMMA Regroup == ASSUME NEW a \in Int, NEW b \in Int, NEW c \in Int, NEW d \in Int
                 PROVE  a + b - c + d - 1 = a + (b - c + d - 1)
OBVIOUS

NextStart(start, count) ==
    IF count < SCROLLBACK_LINES THEN start ELSE (start + 1) % SCROLLBACK_LINES
NextCount(count) == IF count < SCROLLBACK_LINES THEN count + 1 ELSE count
Filling(start, count) == (start + count) % SCROLLBACK_LINES
Taken(ring, start, count, line) == [ring EXCEPT ![Filling(start, count)] = line]

(* The ring takes a line: the newest lines are one more, or the oldest of  *)
(* them is forgotten.                                                      *)
LEMMA RingTakes ==
    ASSUME NEW start \in Rows, NEW count \in 0..SCROLLBACK_LINES, NEW lines \in Seq(Line),
           NEW line \in Line, NEW ring, DOMAIN ring = Rows, Keeps(ring, start, count, lines),
           NEW old
    PROVE  /\ NextStart(start, count) \in Rows /\ NextCount(count) \in 0..SCROLLBACK_LINES
           /\ LastLines(Append(lines, line)) \in Seq(Line)
           /\ Filling(start, count) \in Rows
           /\ Keeps(Taken(ring, start, count, line), NextStart(start, count), NextCount(count),
                    LastLines(Append(lines, line)))
           /\ OlderAre(ring, start, count, lines, old) =>
                 OlderAre(Taken(ring, start, count, line), NextStart(start, count), NextCount(count),
                          LastLines(Append(lines, line)), old)
<1> DEFINE L == SCROLLBACK_LINES
           n == Len(lines)
           row == Filling(start, count)
           ring1 == Taken(ring, start, count, line)
           start1 == NextStart(start, count)
           count1 == NextCount(count)
           lines1 == LastLines(Append(lines, line))
<1>a. /\ row = (start + count) % SCROLLBACK_LINES
      /\ ring1 = [ring EXCEPT ![row] = line]
      /\ count < L => start1 = start /\ count1 = count + 1
      /\ ~(count < L) => start1 = (start + 1) % L /\ count1 = count
  BY DEF Filling, Taken, NextStart, NextCount
<1>b. lines1 = LastLines(Append(lines, line))
  OBVIOUS
<1>c. SUFFICES
       /\ start1 \in Rows /\ count1 \in 0..L /\ lines1 \in Seq(Line) /\ row \in Rows
       /\ Keeps(ring1, start1, count1, lines1)
       /\ OlderAre(ring, start, count, lines, old) => OlderAre(ring1, start1, count1, lines1, old)
  OBVIOUS
<1> HIDE DEF row, ring1, start1, count1, lines1
<1>1. L \in Nat \ {0} /\ start \in 0..(L - 1) /\ count \in 0..L /\ n \in Nat /\ n <= count
  BY SizeAssumption DEF Rows, Keeps
<1>2. row \in Rows /\ DOMAIN ring1 = Rows /\ ring1[row] = line
      /\ \A r \in Rows : r # row => ring1[r] = ring[r]
  BY <1>1, <1>a DEF Rows
<1>3. \A k \in 1..n : ring[(start + count - n + k - 1) % L] = lines[k]
  BY DEF Keeps
<1>4. ASSUME OlderAre(ring, start, count, lines, old), NEW j \in 0..(count - n - 1)
      PROVE  ring[(start + j) % L] = old
  BY <1>4 DEF OlderAre
<1>5. /\ Append(lines, line) \in Seq(Line) /\ Len(Append(lines, line)) = n + 1
      /\ \A k \in 1..n : Append(lines, line)[k] = lines[k]
      /\ Append(lines, line)[n + 1] = line
  OBVIOUS
<1>6. \A a \in Nat : a % L \in Rows
  BY <1>1 DEF Rows
(* A row of the ring but the one that is written.                          *)
<1>7. ASSUME NEW a \in Nat, NEW b \in Nat, b % L = row, a < b, b - a < L
      PROVE  ring1[a % L] = ring[a % L]
  BY <1>1, <1>2, <1>6, <1>7, RowsApart
<1>8. CASE count < L
  <2>1. start1 = start /\ count1 = count + 1 /\ lines1 = Append(lines, line)
    BY <1>1, <1>5, <1>8, <1>a, <1>b DEF LastLines
  <2>2. ASSUME NEW k \in 1..(n + 1)
        PROVE  ring1[(start1 + count1 - (n + 1) + k - 1) % L] = lines1[k]
    <3> DEFINE a == start + count - n + k - 1
    <3>1. a \in Nat /\ start1 + count1 - (n + 1) + k - 1 = a
      BY <1>1, <2>1
    <3>0. a = start + count - n + k - 1
      OBVIOUS
    <3> HIDE DEF a
    <3>2. CASE k = n + 1
      <4>1. a = start + count
        BY <1>1, <3>0, <3>2
      <4> QED BY <1>2, <1>5, <1>a, <2>1, <3>1, <3>2, <4>1
    <3>3. CASE k # n + 1
      <4>1. k \in 1..n /\ a < start + count /\ start + count - a < L
        BY <1>1, <1>8, <3>0, <3>3
      <4>2. ring1[a % L] = ring[a % L]
        <5> DEFINE b == start + count
        <5>1. b \in Nat /\ a < b /\ b - a < L
          BY <1>1, <3>1, <4>1
        <5>2. b % L = row
          BY <1>a
        <5> HIDE DEF b
        <5> QED BY <1>7, <3>1, <5>1, <5>2
      <4> QED BY <1>3, <1>5, <2>1, <3>0, <3>1, <4>1, <4>2
    <3> QED BY <3>2, <3>3
  <2>3. ASSUME OlderAre(ring, start, count, lines, old), NEW j \in 0..(count1 - (n + 1) - 1)
        PROVE  ring1[(start1 + j) % L] = old
    <3>1. j \in 0..(count - n - 1) /\ start + j \in Nat /\ start + count \in Nat
          /\ start + j < start + count /\ (start + count) - (start + j) < L
      BY <1>1, <1>8, <2>1
    <3>2. ring1[(start + j) % L] = ring[(start + j) % L]
      BY <1>7, <1>a, <3>1
    <3> QED BY <1>4, <2>1, <2>3, <3>1, <3>2
  <2>4. start1 \in Rows /\ count1 \in 0..L /\ lines1 \in Seq(Line) /\ Len(lines1) = n + 1
        /\ n + 1 <= count1
    BY <1>1, <1>5, <1>8, <2>1
  <2> QED BY <1>2, <2>2, <2>3, <2>4 DEF Keeps, OlderAre
<1>9. CASE count = L
  <2>1. start1 = (start + 1) % L /\ count1 = L
    BY <1>1, <1>9, <1>a
  <2>2. row = start /\ start1 \in Rows
    <3>1. (start + L) % L = start
      BY <1>1, RowSelf
    <3>2. start + 1 \in Nat
      BY <1>1
    <3> QED BY <1>6, <1>9, <1>a, <2>1, <3>1, <3>2
  <2>3. ASSUME NEW b \in Nat PROVE (start1 + b) % L = (start + 1 + b) % L
    <3>1. (((start + 1) % L) + b) % L = (start + 1 + b) % L
      <4>1. L \in Nat \ {0} /\ start \in Nat
        BY <1>1
      <4> HIDE DEF L
      <4>2. (((start + 1) % L) + b) % L = (start + 1 + b) % L
        BY <4>1, RowNext
      <4> QED BY <4>2
    <3> QED BY <2>1, <3>1
  <2>4. start % L = row /\ (start + L) % L = row
    BY <1>1, <2>2, RowSelf
  <2>5. CASE n < L
    <3>1. lines1 = Append(lines, line)
      BY <1>1, <1>5, <1>b, <2>5 DEF LastLines
    <3>2. ASSUME NEW k \in 1..(n + 1)
          PROVE  ring1[(start1 + count1 - (n + 1) + k - 1) % L] = lines1[k]
      <4> DEFINE b == L - (n + 1) + k - 1
                 a == start + L - n + k - 1
      <4>0. a = start + L - n + k - 1
        OBVIOUS
      <4>1. b \in Nat /\ start1 + count1 - (n + 1) + k - 1 = start1 + b /\ start + 1 + b = a
            /\ a \in Nat
        <5>1. b \in Nat /\ start1 \in Nat
          BY <1>1, <2>2, <2>5 DEF Rows
        <5>2. start1 + count1 - (n + 1) + k - 1 = start1 + b
          <6>1. start1 \in Int /\ L \in Int /\ n + 1 \in Int /\ k \in Int
            BY <1>1, <5>1
          <6>2. start1 + L - (n + 1) + k - 1 = start1 + (L - (n + 1) + k - 1)
            BY <6>1, Regroup
          <6> QED BY <2>1, <6>2
        <5>3. start + 1 + b = a
          BY <1>1
        <5> HIDE DEF a, b
        <5>4. a \in Nat
          BY <1>1, <5>1, <5>3
        <5> QED BY <5>1, <5>2, <5>3, <5>4
      <4> HIDE DEF a, b
      <4>2. (start1 + count1 - (n + 1) + k - 1) % L = a % L
        BY <2>3, <4>1
      <4>3. CASE k = n + 1
        <5>1. a = start + L
          BY <1>1, <4>0, <4>3
        <5> QED BY <1>2, <1>5, <2>4, <3>1, <4>2, <4>3, <5>1
      <4>4. CASE k # n + 1
        <5>1. k \in 1..n /\ a < start + L /\ (start + L) - a < L /\ start + L \in Nat
          BY <1>1, <4>0, <4>4, <2>5
        <5>2. ring1[a % L] = ring[a % L]
          BY <1>7, <2>4, <4>1, <5>1
        <5> QED BY <1>3, <1>5, <1>9, <3>1, <4>0, <4>2, <5>1, <5>2
      <4> QED BY <4>3, <4>4
    <3>3. ASSUME OlderAre(ring, start, count, lines, old), NEW j \in 0..(count1 - (n + 1) - 1)
          PROVE  ring1[(start1 + j) % L] = old
      <4>1. /\ j \in Nat /\ j + 1 \in 0..(count - n - 1) /\ start + 1 + j = start + (j + 1)
            /\ start + (j + 1) \in Nat /\ start + L \in Nat
            /\ start + (j + 1) < start + L /\ (start + L) - (start + (j + 1)) < L
        BY <1>1, <1>9, <2>1
      <4>2. ring1[(start + (j + 1)) % L] = ring[(start + (j + 1)) % L]
        BY <1>7, <2>4, <4>1
      <4> QED BY <1>4, <2>3, <3>3, <4>1, <4>2
    <3>4. count1 \in 0..L /\ lines1 \in Seq(Line) /\ Len(lines1) = n + 1 /\ n + 1 <= count1
      BY <1>1, <1>5, <2>1, <2>5, <3>1
    <3> QED BY <1>2, <2>2, <3>2, <3>3, <3>4 DEF Keeps, OlderAre
  <2>6. CASE n = L
    <3>1. lines1 = Tail(Append(lines, line))
      BY <1>1, <1>5, <1>b, <2>6 DEF LastLines
    <3>2. lines1 \in Seq(Line) /\ Len(lines1) = L
          /\ \A k \in 1..L : lines1[k] = Append(lines, line)[k + 1]
      <4> DEFINE longer == Append(lines, line)
      <4>1. longer \in Seq(Line) /\ Len(longer) = L + 1
        BY <1>5, <2>6
      <4> HIDE DEF longer
      <4>2. Tail(longer) \in Seq(Line) /\ Len(Tail(longer)) = L
            /\ \A k \in 1..L : Tail(longer)[k] = longer[k + 1]
        BY <1>1, <4>1
      <4> QED BY <3>1, <4>2 DEF longer
    <3>3. ASSUME NEW k \in 1..L
          PROVE  ring1[(start1 + count1 - L + k - 1) % L] = lines1[k]
      <4> DEFINE a == start + k
      <4>1. k - 1 \in Nat /\ start1 + count1 - L + k - 1 = start1 + (k - 1)
            /\ start + 1 + (k - 1) = a /\ a \in Nat
        BY <1>1, <2>1, <2>2 DEF Rows
      <4>2. (start1 + count1 - L + k - 1) % L = a % L
        BY <2>3, <4>1
      <4>3. CASE k = L
        BY <1>2, <1>5, <2>4, <2>6, <3>2, <4>2, <4>3
      <4>4. CASE k # L
        <5>1. k + 1 \in 1..n /\ a < start + L /\ (start + L) - a < L /\ start + L \in Nat
          BY <1>1, <4>4, <2>6
        <5>2. ring1[a % L] = ring[a % L]
          BY <1>7, <2>4, <4>1, <5>1
        <5>3. start + count - n + (k + 1) - 1 = a
          BY <1>1, <1>9, <2>6
        <5>4. ring[a % L] = lines[k + 1]
          BY <1>3, <5>1, <5>3
        <5>5. lines1[k] = lines[k + 1]
          BY <1>5, <3>2, <5>1
        <5> QED BY <4>2, <5>2, <5>4, <5>5
      <4> QED BY <4>3, <4>4
    <3>4. count1 \in 0..L /\ Len(lines1) <= count1
      BY <1>1, <2>1, <3>2
    <3>5. \A j \in 0..(count1 - Len(lines1) - 1) : FALSE
      BY <1>1, <2>1, <3>2
    <3> QED BY <1>2, <2>2, <3>2, <3>3, <3>4, <3>5 DEF Keeps, OlderAre
  <2> QED BY <1>1, <1>9, <2>5, <2>6
<1> QED BY <1>1, <1>8, <1>9

-----------------------------------------------------------------------------
(* scrollback, with a cursor below the first line.                         *)
LEMMA SetSix == ASSUME NEW s, IsCon(s), NEW a, NEW u, NEW b, NEW v, NEW c, NEW x,
                       NEW d, NEW y, NEW e, NEW z, NEW f, NEW w
                PROVE  Same([s EXCEPT ![a] = u, ![b] = v, ![c] = x, ![d] = y, ![e] = z, ![f] = w], s,
                            {a, b, c, d, e, f})
<1> HIDE DEF Fields
<1> QED BY DEF IsCon, Same

ScrollFields == {"ring", "start", "count", "screen", "y", "lines", "drawn", "shown", "raw", "wild"}

(* The top line as the ring keeps it.                                      *)
LEMMA TopLine == ASSUME NEW s, Sound(s), s.screen_ptr # "freed"
                 PROVE  [x \in 0..(s.w - 1) |-> CellAt(s, x, 0).c] \in [0..(s.w - 1) -> Chars]
<1>1. ASSUME NEW x \in 0..(s.w - 1) PROVE CellAt(s, x, 0).c \in Chars
  <2>1. s.w \in Nat \ {0} /\ s.h \in Nat \ {0} /\ s.screen_ptr \in {"null", "live"}
    BY DEF Sound, Firm, Shape, Pointers
  <2>2. CASE s.screen_ptr = "null"
    BY <2>2, Blank DEF CellAt, AnyCell
  <2>3. CASE s.screen_ptr = "live"
    <3>1. Index(s, x, 0) \in 0..(s.w * s.h - 1)
      BY <2>1, CellIndex, 0 \in 0..(s.h - 1) DEF Index
    <3>2. s.screen[Index(s, x, 0)] \in AnyCell
      BY <2>3, <3>1 DEF Sound, Firm, Buffers
    <3> QED BY <2>3, <3>2 DEF CellAt, AnyCell
  <2> QED BY <2>1, <2>2, <2>3
<1> QED BY <1>1

LEMMA ScrollSound ==
    ASSUME NEW s, Sound(s), s.y >= 1
    PROVE  /\ Sound(scrollback(s)) /\ Same(scrollback(s), s, ScrollFields)
           /\ s.ring_ptr = "null" => scrollback(s) = s
           /\ s.ring_ptr = "live" /\ s.screen_ptr # "freed" =>
                 scrollback(s).y = s.y - 1 /\ scrollback(s).wild = s.wild
           /\ \A old : s.ring_ptr = "live" /\ OlderAre(s.ring, s.start, s.count, s.lines, old) =>
                 OlderAre(scrollback(s).ring, scrollback(s).start, scrollback(s).count,
                          scrollback(s).lines, old)
<1>0. IsCon(s) /\ Firm(s) /\ Shape(s) /\ Buffers(s) /\ Saved(s) /\ Newest(s) /\ Picture(s)
      /\ s.ring_ptr \in Pointers /\ s.screen_ptr \in Pointers
  BY DEF Sound, Firm, Shape
<1>1. CASE s.ring_ptr = "null"
  <2>1. scrollback(s) = s
    BY <1>1 DEF scrollback
  <2> QED BY <1>0, <1>1, <2>1, SameSelf
<1>2. CASE s.ring_ptr # "null" /\ "freed" \in {s.ring_ptr, s.screen_ptr}
  <2>1. scrollback(s) = Wild(s, "freed")
    BY <1>2 DEF scrollback
  <2>2. Sound(scrollback(s)) /\ Same(scrollback(s), s, {"wild"})
    BY <2>1, WildSound
  <2>3. Same(scrollback(s), s, ScrollFields)
    BY <2>2, SameMore DEF ScrollFields
  <2>4. /\ scrollback(s).ring = s.ring /\ scrollback(s).start = s.start
        /\ scrollback(s).count = s.count /\ scrollback(s).lines = s.lines
    BY <2>2 DEF Same, Fields
  <2> QED BY <1>2, <2>2, <2>3, <2>4
<1>3. CASE s.ring_ptr = "live" /\ s.screen_ptr # "freed"
  <2> DEFINE row  == (s.start + s.count) % SCROLLBACK_LINES
             line == [x \in 0..(s.w - 1) |-> CellAt(s, x, 0).c]
             ring == [s.ring EXCEPT ![row] = line]
             start == ring_start(s)
             count == IF s.count < SCROLLBACK_LINES THEN s.count + 1 ELSE s.count
             screen == moved_up(s)
             y == s.y - 1
             lines == LastLines(Append(s.lines, line))
             picture == picture_up(s)
             t == [s EXCEPT !.ring = ring, !.start = start, !.count = count,
                            !.screen = screen, !.y = y, !.lines = lines]
             r == Swap(Draw(t, picture))
  <2>1. scrollback(s) = r
    <3>1. scrollback(s) = Swap(Draw([s EXCEPT !.ring[row] = line,
                          !.start = ring_start(s),
                          !.count = IF @ < SCROLLBACK_LINES THEN @ + 1 ELSE @,
                          !.screen = moved_up(s),
                          !.y = @ - 1,
                          !.lines = LastLines(Append(@, line))],
                picture_up(s)))
      BY <1>3 DEF scrollback
    <3>2. [s EXCEPT !.ring[row] = line,
                          !.start = ring_start(s),
                          !.count = IF @ < SCROLLBACK_LINES THEN @ + 1 ELSE @,
                          !.screen = moved_up(s),
                          !.y = @ - 1,
                          !.lines = LastLines(Append(@, line))] = t
      BY <1>0 DEF IsCon, Fields
    <3> QED BY <3>1, <3>2
  <2>2. line \in [0..(s.w - 1) -> Chars] /\ line \in Line
    <3>1. line \in [0..(s.w - 1) -> Chars]
      BY <1>3, TopLine
    <3>2. s.w \in Nat
      BY <1>0 DEF Shape
    <3> QED BY <3>1, <3>2 DEF Line
  <2> HIDE DEF line
  <2>3. /\ s.start \in Rows /\ s.count \in 0..SCROLLBACK_LINES /\ s.lines \in Seq(Line)
        /\ s.ring \in [Rows -> [0..(s.w - 1) -> Chars]]
        /\ Keeps(s.ring, s.start, s.count, s.lines)
    BY <1>0, <1>3 DEF Shape, Buffers, Newest
  <2>4. /\ start \in Rows /\ count \in 0..SCROLLBACK_LINES /\ lines \in Seq(Line)
        /\ row \in Rows /\ Keeps(ring, start, count, lines)
        /\ \A old : OlderAre(s.ring, s.start, s.count, s.lines, old) =>
                       OlderAre(ring, start, count, lines, old)
    <3>1. /\ row = Filling(s.start, s.count)
          /\ ring = Taken(s.ring, s.start, s.count, line)
          /\ start = NextStart(s.start, s.count)
          /\ count = NextCount(s.count)
          /\ lines = LastLines(Append(s.lines, line))
          /\ DOMAIN s.ring = Rows
      BY <2>3 DEF ring_start, NextStart, NextCount, Taken, Filling
    <3> HIDE DEF ring, start, count, lines, row
    <3>2. ASSUME NEW old
          PROVE  /\ start \in Rows /\ count \in 0..SCROLLBACK_LINES /\ lines \in Seq(Line)
                 /\ row \in Rows /\ Keeps(ring, start, count, lines)
                 /\ OlderAre(s.ring, s.start, s.count, s.lines, old)
                      => OlderAre(ring, start, count, lines, old)
      BY <2>2, <2>3, <3>1, RingTakes
    <3> QED BY <3>2
  <2>5. ring \in [Rows -> [0..(s.w - 1) -> Chars]]
    BY <2>2, <2>3, <2>4
  <2>6. s.count <= count /\ y \in Nat
    BY <1>0, <2>3 DEF Shape
  <2>7. Same(t, s, {"ring", "start", "count", "screen", "y", "lines"})
    BY <1>0, SetSix
  <2>8. /\ t.ring = ring /\ t.start = start /\ t.count = count /\ t.screen = screen
        /\ t.y = y /\ t.lines = lines
    BY <1>0 DEF IsCon, Fields
  <2> HIDE DEF t, ring, start, count, screen, lines, row
  <2>9. /\ IsCon(t) /\ t.w = s.w /\ t.h = s.h /\ t.scale = s.scale /\ t.x = s.x
        /\ t.screen_ptr = s.screen_ptr /\ t.backup = s.backup /\ t.backup_ptr = s.backup_ptr
        /\ t.ring_ptr = s.ring_ptr
        /\ t.view = s.view /\ t.in_view = s.in_view /\ t.double = s.double /\ t.drawn = s.drawn
        /\ t.shown = s.shown /\ t.entry = s.entry /\ t.synced = s.synced
        /\ t.auto_swap = s.auto_swap /\ t.wild = s.wild
    BY <2>7 DEF Same, Fields
  <2>10. s.screen_ptr = "live" => screen \in [0..(s.w * s.h - 1) -> AnyCell]
    BY MovedUp DEF screen
  <2>11. Shape(t)
    <3>1. s.view \in 0..count
      BY <1>0, <2>3, <2>4, <2>6 DEF Shape
    <3> QED BY <1>0, <2>4, <2>6, <2>8, <2>9, <3>1 DEF Shape
  <2>12. Buffers(t)
    BY <1>0, <2>5, <2>8, <2>9, <2>10 DEF Buffers
  <2>13. Saved(t)
    BY <1>0, <2>9 DEF Saved, Index
  <2>14. Newest(t)
    BY <2>4, <2>8 DEF Newest
  <2>15. Firm(t)
    BY <2>11, <2>12, <2>13, <2>14 DEF Firm
  <2>16. picture \in [Grid(s.scale) -> Paints]
    BY PictureUpPaints
  <2>17. Firm(Draw(t, picture)) /\ Same(Draw(t, picture), t, {"drawn", "shown"})
         /\ Draw(t, picture).drawn = picture
    BY <2>9, <2>15, <2>16, DrawFirm, DrawFields DEF Firm, Shape
  <2>18. Firm(r) /\ Same(r, Draw(t, picture), {"shown", "raw"})
    BY <2>17, SwapSound
  <2>p. s.screen_ptr = "live" /\ s.synced =>
           \A p \in Grid(s.scale) : picture[p] = Look(screen[Index(s, p[1], p[2])])
    BY MovedUp DEF screen
  <2> HIDE DEF r, picture
  <2>19. Same(r, s, ScrollFields)
    <3>1. Same(Draw(t, picture), s,
               {"ring", "start", "count", "screen", "y", "lines"} \cup {"drawn", "shown"})
      BY <2>7, <2>17, SameTrans
    <3>2. Same(r, s, ({"ring", "start", "count", "screen", "y", "lines"} \cup {"drawn", "shown"})
                     \cup {"shown", "raw"})
      BY <2>18, <3>1, SameTrans
    <3> QED BY <3>2, SameMore DEF ScrollFields
  <2>20. /\ r.drawn = picture /\ r.screen = screen /\ r.scale = s.scale /\ r.synced = s.synced
         /\ r.screen_ptr = s.screen_ptr /\ r.w = s.w /\ r.y = s.y - 1 /\ r.wild = s.wild
         /\ r.ring = ring /\ r.start = start /\ r.count = count /\ r.lines = lines
    BY <2>8, <2>9, <2>17, <2>18 DEF Same, Fields
  <2>21. Picture(r)
    BY <2>p, <2>20 DEF Picture, Index
  <2> QED BY <1>3, <2>1, <2>4, <2>18, <2>19, <2>20, <2>21 DEF Sound
<1> QED BY <1>0, <1>1, <1>2, <1>3 DEF Pointers

-----------------------------------------------------------------------------
(* The cursor moves, and kputc puts one character.                         *)
SettleFields == ScrollFields \cup {"x"}
TextFields == SettleFields \cup StoreFields

At(s, x, y) == [s EXCEPT !.x = x, !.y = y]
AtX(s, x)   == [s EXCEPT !.x = x]

LEMMA Cursor == ASSUME NEW s, Sound(s), NEW x \in Nat, NEW y \in Nat
                PROVE  /\ Sound(At(s, x, y)) /\ Same(At(s, x, y), s, {"x", "y"})
                       /\ At(s, x, y).x = x /\ At(s, x, y).y = y
<1> DEFINE t == At(s, x, y)
<1>1. IsCon(s) /\ s.auto_swap \in BOOLEAN
  BY DEF Sound, Firm, Shape
<1>2. Same(t, s, {"x", "y"})
  BY <1>1, SetTwo DEF At
<1>3. t.x = x /\ t.y = y
  BY <1>1 DEF IsCon, Fields, At
<1> HIDE DEF t
<1>4. Same(t, s, Steered) /\ t.auto_swap = s.auto_swap
  BY <1>2, SameMore DEF Same, Fields, Steered
<1>5. Sound(t)
  BY <1>1, <1>3, <1>4, Moves
<1> QED BY <1>2, <1>3, <1>5 DEF t

LEMMA CursorX == ASSUME NEW s, Sound(s), NEW x \in Nat
                 PROVE  /\ Sound(AtX(s, x)) /\ Same(AtX(s, x), s, {"x", "y"})
                        /\ AtX(s, x).x = x /\ AtX(s, x).y = s.y
<1> DEFINE t == AtX(s, x)
<1>1. IsCon(s) /\ s.auto_swap \in BOOLEAN /\ s.y \in Nat
  BY DEF Sound, Firm, Shape
<1>2. Same(t, s, {"x"})
  BY <1>1, SetOne DEF AtX
<1>3. t.x = x
  BY <1>1 DEF IsCon, Fields, AtX
<1> HIDE DEF t
<1>4. Same(t, s, Steered) /\ Same(t, s, {"x", "y"}) /\ t.auto_swap = s.auto_swap /\ t.y = s.y
  <2>1. Same(t, s, Steered)
    BY <1>2, SameMore DEF Steered
  <2>2. Same(t, s, {"x", "y"})
    BY <1>2, SameMore
  <2> QED BY <1>2, <2>1, <2>2 DEF Same, Fields
<1>5. Sound(t)
  BY <1>1, <1>3, <1>4, Moves
<1> QED BY <1>3, <1>4, <1>5 DEF t

PutFields == StoreFields \cup {"x", "y"}

(* Where the cursor goes: one on, to a new line, or back.                  *)
LEMMA PutSound ==
    ASSUME NEW s, Sound(s), NEW c \in Chars \cup (Controls \ {"tab"})
    PROVE  /\ Sound(Put(s, c)) /\ Same(Put(s, c), s, PutFields)
<1>1. /\ s.x \in Nat /\ s.y \in Nat /\ s.w \in Nat \ {0} /\ IsCon(s)
  BY DEF Sound, Firm, Shape
<1>a. s.y + 1 \in Nat /\ s.w - 1 \in Nat /\ (s.x > 0 => s.x - 1 \in Nat) /\ (s.y > 0 => s.y - 1 \in Nat)
  BY <1>1
<1>2. CASE c = "newline"
  <2>1. Put(s, c) = At(s, 0, s.y + 1)
    <3>1. Put(s, c) = [s EXCEPT !.x = 0, !.y = @ + 1]
      BY <1>2 DEF Put
    <3> QED BY <1>1, <3>1 DEF IsCon, Fields, At
  <2>2. Sound(Put(s, c)) /\ Same(Put(s, c), s, {"x", "y"})
    BY <1>1, <1>a, <2>1, Cursor
  <2> QED BY <2>2, SameMore DEF PutFields
<1>3. CASE c = "return"
  <2>1. Put(s, c) = AtX(s, 0)
    BY <1>3 DEF Put, AtX
  <2>2. Sound(Put(s, c)) /\ Same(Put(s, c), s, {"x", "y"})
    BY <2>1, CursorX
  <2> QED BY <2>2, SameMore DEF PutFields
<1>4. CASE c = "backspace" /\ s.x > 0
  <2> DEFINE t == AtX(s, s.x - 1)
  <2>1. Put(s, c) = kputchr(t, s.x - 1, s.y, SPACE)
    <3>1. Put(s, c) = kputchr([s EXCEPT !.x = @ - 1], s.x - 1, s.y, SPACE)
      BY <1>1, <1>4 DEF Put
    <3>2. [s EXCEPT !.x = @ - 1] = t
      BY <1>1 DEF IsCon, Fields, AtX
    <3> QED BY <3>1, <3>2
  <2>2. Sound(t) /\ Same(t, s, {"x", "y"})
    BY <1>1, <1>4, <1>a, CursorX
  <2> HIDE DEF t
  <2>3. Sound(Put(s, c)) /\ Same(Put(s, c), t, StoreFields)
    BY <1>1, <1>4, <2>1, <2>2, KputchrSound, <1>a DEF Chars
  <2>4. Same(Put(s, c), s, {"x", "y"} \cup StoreFields)
    BY <2>2, <2>3, SameTrans
  <2> QED BY <2>3, <2>4, SameMore DEF PutFields
<1>5. CASE c = "backspace" /\ s.x = 0 /\ s.y > 0
  <2> DEFINE t == At(s, s.w - 1, s.y - 1)
  <2>1. Put(s, c) = kputchr(t, s.w - 1, s.y - 1, SPACE)
    <3>1. Put(s, c) = kputchr([s EXCEPT !.x = s.w - 1, !.y = @ - 1], s.w - 1, s.y - 1, SPACE)
      BY <1>1, <1>5, ~(s.x > 0) DEF Put
    <3>2. [s EXCEPT !.x = s.w - 1, !.y = @ - 1] = t
      BY <1>1 DEF IsCon, Fields, At
    <3> QED BY <3>1, <3>2
  <2>2. Sound(t) /\ Same(t, s, {"x", "y"})
    BY <1>1, <1>5, <1>a, Cursor
  <2> HIDE DEF t
  <2>3. Sound(Put(s, c)) /\ Same(Put(s, c), t, StoreFields)
    BY <1>1, <1>5, <2>1, <2>2, KputchrSound, <1>a DEF Chars
  <2>4. Same(Put(s, c), s, {"x", "y"} \cup StoreFields)
    BY <2>2, <2>3, SameTrans
  <2> QED BY <2>3, <2>4, SameMore DEF PutFields
<1>6. CASE c = "backspace" /\ s.x = 0 /\ s.y <= 0
  <2>1. Put(s, c) = s
    BY <1>6 DEF Put
  <2> QED BY <1>1, <2>1, SameSelf
<1>7. CASE c \notin {"newline", "return", "backspace"} /\ c \in Chars
  <2> DEFINE t == kputchr(s, s.x, s.y, c)
  <2>1. Sound(t) /\ Same(t, s, StoreFields)
    BY <1>1, <1>7, KputchrSound
  <2>2. Put(s, c) = [t EXCEPT !.x = @ + 1]
    BY <1>7 DEF Put
  <2> HIDE DEF t
  <2>3. IsCon(t) /\ t.x \in Nat /\ t.x + 1 \in Nat
    BY <2>1 DEF Sound, Firm, Shape
  <2>4. Put(s, c) = AtX(t, t.x + 1)
    BY <2>2, <2>3 DEF IsCon, Fields, AtX
  <2>5. Sound(Put(s, c)) /\ Same(Put(s, c), t, {"x", "y"})
    BY <2>1, <2>3, <2>4, CursorX
  <2>6. Same(Put(s, c), s, StoreFields \cup {"x", "y"})
    BY <2>1, <2>5, SameTrans
  <2> QED BY <2>5, <2>6 DEF PutFields
<1> QED BY <1>1, <1>2, <1>3, <1>4, <1>5, <1>6, <1>7 DEF Controls

-----------------------------------------------------------------------------
(* Wrapped, scrolled and, for a caller of kputc, shown.                    *)
LEMMA SettleSound ==
    ASSUME NEW s, Sound(s)
    PROVE  /\ Sound(Settle(s)) /\ Same(Settle(s), s, SettleFields)
           /\ s.auto_swap => Settle(s).shown = Settle(s).drawn
           /\ s.ring_ptr = "null" => Settle(s).wild = s.wild /\ Settle(s).count = s.count
           /\ s.ring_ptr = "live" /\ s.screen_ptr # "freed" =>
                 /\ Settle(s).wild = s.wild
                 /\ s.x <= s.w /\ s.y <= s.h /\ (s.x = s.w => s.y < s.h) =>
                       Settle(s).x < s.w /\ Settle(s).y < s.h
           /\ \A old : s.ring_ptr = "live" /\ OlderAre(s.ring, s.start, s.count, s.lines, old) =>
                 OlderAre(Settle(s).ring, Settle(s).start, Settle(s).count, Settle(s).lines, old)
<1> DEFINE wrapped  == IF s.x >= s.w THEN At(s, 0, s.y + 1) ELSE s
           scrolled == IF wrapped.y >= wrapped.h THEN scrollback(wrapped) ELSE wrapped
           t == IF s.auto_swap THEN Swap(scrolled) ELSE scrolled
<1>1. /\ s.x \in Nat /\ s.y \in Nat /\ s.w \in Nat \ {0} /\ s.h \in Nat \ {0} /\ IsCon(s)
      /\ s.auto_swap \in BOOLEAN /\ s.y + 1 \in Nat
  BY DEF Sound, Firm, Shape
<1>2. Settle(s) = t
  <2>1. [s EXCEPT !.x = 0, !.y = @ + 1] = At(s, 0, s.y + 1)
    BY <1>1 DEF IsCon, Fields, At
  <2> QED BY <2>1 DEF Settle
<1>3. /\ Sound(wrapped) /\ Same(wrapped, s, {"x", "y"})
      /\ s.x <= s.w /\ s.y <= s.h /\ (s.x = s.w => s.y < s.h) => wrapped.x < s.w /\ wrapped.y <= s.h
  <2>1. CASE s.x >= s.w
    <3>1. wrapped = At(s, 0, s.y + 1)
      BY <2>1
    <3> HIDE DEF wrapped
    <3>2. Sound(wrapped) /\ Same(wrapped, s, {"x", "y"}) /\ wrapped.x = 0 /\ wrapped.y = s.y + 1
      <4> DEFINE y == s.y + 1
      <4>1. 0 \in Nat /\ y \in Nat /\ wrapped = At(s, 0, y)
        BY <1>1, <3>1
      <4> HIDE DEF y
      <4>2. Sound(wrapped) /\ Same(wrapped, s, {"x", "y"}) /\ wrapped.x = 0 /\ wrapped.y = y
        BY <4>1, Cursor
      <4> QED BY <4>2 DEF y
    <3> QED BY <1>1, <2>1, <3>2
  <2>2. CASE ~(s.x >= s.w)
    <3>1. wrapped = s
      BY <2>2
    <3> HIDE DEF wrapped
    <3> QED BY <1>1, <2>2, <3>1, SameSelf
  <2> QED BY <2>1, <2>2
<1> HIDE DEF wrapped
<1>4. /\ wrapped.w = s.w /\ wrapped.h = s.h /\ wrapped.ring_ptr = s.ring_ptr /\ wrapped.wild = s.wild
      /\ wrapped.screen_ptr = s.screen_ptr /\ wrapped.ring = s.ring /\ wrapped.start = s.start
      /\ wrapped.count = s.count /\ wrapped.lines = s.lines /\ wrapped.y \in Nat /\ IsCon(wrapped)
  BY <1>3 DEF Same, Fields, Sound, Firm, Shape
<1>5. /\ Sound(scrolled) /\ Same(scrolled, wrapped, ScrollFields)
      /\ s.ring_ptr = "null" => scrolled.wild = s.wild /\ scrolled.count = s.count
      /\ s.ring_ptr = "live" /\ s.screen_ptr # "freed" =>
            /\ scrolled.wild = s.wild
            /\ wrapped.y <= s.h => scrolled.y < s.h
      /\ \A old : s.ring_ptr = "live" /\ OlderAre(s.ring, s.start, s.count, s.lines, old) =>
            OlderAre(scrolled.ring, scrolled.start, scrolled.count, scrolled.lines, old)
  <2>1. CASE wrapped.y >= wrapped.h
    <3>1. scrolled = scrollback(wrapped) /\ wrapped.y >= 1
      BY <1>1, <1>4, <2>1
    <3> HIDE DEF scrolled
    <3>2. /\ Sound(scrolled) /\ Same(scrolled, wrapped, ScrollFields)
          /\ wrapped.ring_ptr = "null" => scrolled = wrapped
          /\ wrapped.ring_ptr = "live" /\ wrapped.screen_ptr # "freed" =>
                scrolled.y = wrapped.y - 1 /\ scrolled.wild = wrapped.wild
      BY <1>3, <3>1, ScrollSound
    <3>3. \A old : wrapped.ring_ptr = "live"
                   /\ OlderAre(wrapped.ring, wrapped.start, wrapped.count, wrapped.lines, old) =>
              OlderAre(scrolled.ring, scrolled.start, scrolled.count, scrolled.lines, old)
      BY <1>3, <3>1, ScrollSound
    <3>4. s.ring_ptr = "live" /\ s.screen_ptr # "freed" /\ wrapped.y <= s.h => scrolled.y < s.h
      BY <1>1, <1>4, <3>2
    <3> QED BY <1>4, <3>2, <3>3, <3>4
  <2>2. CASE ~(wrapped.y >= wrapped.h)
    <3>1. scrolled = wrapped
      BY <2>2
    <3> HIDE DEF scrolled
    <3> QED BY <1>1, <1>3, <1>4, <2>2, <3>1, SameSelf
  <2> QED BY <2>1, <2>2
<1> HIDE DEF scrolled
<1>6. /\ Sound(t) /\ Same(t, scrolled, {"shown", "raw"})
      /\ s.auto_swap => t.shown = t.drawn
  <2>1. CASE s.auto_swap
    <3>1. t = Swap(scrolled)
      BY <2>1
    <3> HIDE DEF t
    <3> QED BY <1>5, <3>1, SwapSound DEF Sound
  <2>2. CASE ~s.auto_swap
    <3>1. t = scrolled
      BY <2>2
    <3> HIDE DEF t
    <3>2. IsCon(scrolled)
      BY <1>5 DEF Same
    <3> QED BY <1>5, <2>2, <3>1, <3>2, SameSelf
  <2> QED BY <1>1, <2>1, <2>2
<1> HIDE DEF t
<1>7. /\ t.wild = scrolled.wild /\ t.y = scrolled.y /\ t.x = wrapped.x /\ t.ring = scrolled.ring
      /\ t.start = scrolled.start /\ t.count = scrolled.count /\ t.lines = scrolled.lines
  BY <1>5, <1>6 DEF Same, Fields, ScrollFields
<1>8. Same(t, s, SettleFields)
  <2>1. Same(scrolled, s, {"x", "y"} \cup ScrollFields)
    BY <1>3, <1>5, SameTrans
  <2>2. Same(t, s, ({"x", "y"} \cup ScrollFields) \cup {"shown", "raw"})
    BY <1>6, <2>1, SameTrans
  <2> QED BY <2>2, SameMore DEF SettleFields, ScrollFields
<1>9. s.ring_ptr = "null" => t.wild = s.wild /\ t.count = s.count
  BY <1>5, <1>7
<1>10. s.ring_ptr = "live" /\ s.screen_ptr # "freed" =>
          /\ t.wild = s.wild
          /\ s.x <= s.w /\ s.y <= s.h /\ (s.x = s.w => s.y < s.h) => t.x < s.w /\ t.y < s.h
  BY <1>3, <1>5, <1>7
<1>11. \A old : s.ring_ptr = "live" /\ OlderAre(s.ring, s.start, s.count, s.lines, old) =>
            OlderAre(t.ring, t.start, t.count, t.lines, old)
  BY <1>5, <1>7
<1> QED BY <1>2, <1>6, <1>8, <1>9, <1>10, <1>11

LEMMA Noted == ASSUME NEW s, Sound(s), NEW m
               PROVE  LET t == [s EXCEPT !.mixed = m]
                      IN  Sound(t) /\ Same(t, s, {"mixed"}) /\ t.mixed = m
<1> DEFINE t == [s EXCEPT !.mixed = m]
<1>1. IsCon(s) /\ s.auto_swap \in BOOLEAN /\ s.x \in Nat /\ s.y \in Nat
  BY DEF Sound, Firm, Shape
<1>2. Same(t, s, {"mixed"}) /\ t.mixed = m
  <2>1. Same(t, s, {"mixed"})
    BY <1>1, SetOne
  <2>2. t.mixed = m
    BY <1>1 DEF IsCon, Fields
  <2> QED BY <2>1, <2>2
<1> HIDE DEF t
<1>3. Same(t, s, Steered) /\ t.auto_swap = s.auto_swap /\ t.x = s.x /\ t.y = s.y
  <2>1. Same(t, s, Steered)
    BY <1>2, SameMore DEF Steered
  <2> QED BY <1>2, <2>1 DEF Same, Fields
<1>4. Sound(t)
  BY <1>1, <1>3, Moves
<1> QED BY <1>2, <1>4 DEF t

(* A character is put: the sound parts, and what of the cursor, the ring's *)
(* older lines and the screen others rely on.                              *)
LEMMA PutcSound ==
    ASSUME NEW s, Sound(s), NEW c \in Chars \cup (Controls \ {"tab"})
    PROVE  /\ Sound(putc(s, c)) /\ Same(putc(s, c), s, TextFields \cup {"mixed"})
           /\ putc(s, c).mixed = s.in_view
           /\ s.auto_swap => putc(s, c).shown = putc(s, c).drawn
           /\ \A old : s.ring_ptr = "live" /\ OlderAre(s.ring, s.start, s.count, s.lines, old) =>
                 OlderAre(putc(s, c).ring, putc(s, c).start, putc(s, c).count, putc(s, c).lines, old)
<1> DEFINE p == Put(s, c)
           q == [p EXCEPT !.mixed = s.in_view]
<1>1. putc(s, c) = Settle(q)
  BY DEF putc
<1>2. Sound(p) /\ Same(p, s, PutFields)
  BY PutSound
<1> HIDE DEF p
<1>3. Sound(q) /\ Same(q, p, {"mixed"}) /\ q.mixed = s.in_view
  BY <1>2, Noted
<1> HIDE DEF q
<1>4. Same(q, s, PutFields \cup {"mixed"})
  BY <1>2, <1>3, SameTrans
<1>5. /\ q.auto_swap = s.auto_swap /\ q.ring_ptr = s.ring_ptr /\ q.ring = s.ring
      /\ q.start = s.start /\ q.count = s.count /\ q.lines = s.lines
  BY <1>4 DEF Same, Fields, PutFields, StoreFields
<1>6. /\ Sound(Settle(q)) /\ Same(Settle(q), q, SettleFields)
      /\ q.auto_swap => Settle(q).shown = Settle(q).drawn
  BY <1>3, SettleSound
<1>7. \A old : q.ring_ptr = "live" /\ OlderAre(q.ring, q.start, q.count, q.lines, old) =>
         OlderAre(Settle(q).ring, Settle(q).start, Settle(q).count, Settle(q).lines, old)
  BY <1>3, SettleSound
<1>8. Same(Settle(q), s, TextFields \cup {"mixed"})
  <2>1. Same(Settle(q), s, (PutFields \cup {"mixed"}) \cup SettleFields)
    BY <1>4, <1>6, SameTrans
  <2> QED BY <2>1, SameMore DEF PutFields, TextFields, SettleFields, StoreFields, ScrollFields
<1>9. Settle(q).mixed = s.in_view
  BY <1>3, <1>6 DEF Same, Fields, SettleFields, ScrollFields
<1> QED BY <1>1, <1>5, <1>6, <1>7, <1>8, <1>9

-----------------------------------------------------------------------------
(* The views redraw all cells.  What a row of the view shows.              *)
ViewFields == RedrawFields \cup {"wild", "mixed", "view", "in_view", "backup", "entry"}

NoteFields == {"mixed", "view", "in_view"}

LEMMA ViewMoves == ASSUME NEW s, Firm(s), NEW t, Same(t, s, NoteFields),
                          t.view \in 0..t.count, t.in_view \in BOOLEAN
                   PROVE  Firm(t) /\ (Picture(s) => Picture(t))
<1>1. /\ IsCon(t) /\ t.w = s.w /\ t.h = s.h /\ t.scale = s.scale /\ t.screen = s.screen
      /\ t.screen_ptr = s.screen_ptr /\ t.backup = s.backup /\ t.backup_ptr = s.backup_ptr
      /\ t.ring = s.ring /\ t.ring_ptr = s.ring_ptr /\ t.start = s.start /\ t.count = s.count
      /\ t.x = s.x /\ t.y = s.y /\ t.double = s.double /\ t.drawn = s.drawn
      /\ t.shown = s.shown /\ t.lines = s.lines /\ t.entry = s.entry /\ t.synced = s.synced
      /\ t.auto_swap = s.auto_swap
  BY DEF Same, Fields, NoteFields
<1>2. Shape(t)
  BY <1>1 DEF Firm, Shape
<1>3. Buffers(t)
  BY <1>1 DEF Firm, Buffers
<1>4. Saved(t)
  BY <1>1 DEF Firm, Saved, Index
<1>5. Newest(t)
  BY <1>1 DEF Firm, Newest
<1>6. Picture(s) => Picture(t)
  BY <1>1 DEF Picture, Index
<1> QED BY <1>2, <1>3, <1>4, <1>5, <1>6 DEF Firm

HistoryChar(s, k) ==
    LET n == history_line(s, k \div s.w)
    IN  IF n \in 0..(s.count - 1) THEN s.ring[(s.start + n) % SCROLLBACK_LINES][k % s.w] ELSE SPACE
History(s) == [k \in DOMAIN s.screen |-> Cell(HistoryChar(s, k), DEFAULT_COLOR)]

LEMMA HistoryCells == ASSUME NEW s, Firm(s), s.ring_ptr = "live", s.screen_ptr = "live"
                      PROVE  History(s) \in [0..(s.w * s.h - 1) -> AnyCell]
<1>1. /\ s.screen \in [0..(s.w * s.h - 1) -> AnyCell] /\ s.ring \in [Rows -> [0..(s.w - 1) -> Chars]]
      /\ s.w \in Nat \ {0} /\ s.h \in Nat \ {0} /\ s.start \in Rows /\ s.count \in 0..SCROLLBACK_LINES
  BY DEF Firm, Shape, Buffers
<1>2. ASSUME NEW k \in 0..(s.w * s.h - 1) PROVE Cell(HistoryChar(s, k), DEFAULT_COLOR) \in AnyCell
  <2> DEFINE n == history_line(s, k \div s.w)
  <2>1. CASE n \in 0..(s.count - 1)
    <3>1. SCROLLBACK_LINES \in Nat \ {0} /\ s.start \in Nat /\ n \in Nat
      BY <1>1, <2>1, SizeAssumption DEF Rows
    <3>2. HistoryChar(s, k) = s.ring[(s.start + n) % SCROLLBACK_LINES][k % s.w]
      BY <2>1 DEF HistoryChar
    <3> HIDE DEF n
    <3>3. (s.start + n) % SCROLLBACK_LINES \in Rows
      <4> DEFINE a == s.start + n
      <4>1. a \in Nat
        BY <3>1
      <4> HIDE DEF a
      <4>2. a % SCROLLBACK_LINES \in Rows
        BY <3>1, <4>1, RowOf DEF Rows
      <4> QED BY <4>2 DEF a
    <3>4. k % s.w \in 0..(s.w - 1)
      BY <1>1
    <3>5. HistoryChar(s, k) \in Chars
      BY <1>1, <3>2, <3>3, <3>4
    <3> QED BY <3>5 DEF Cell, AnyCell, DEFAULT_COLOR
  <2>2. CASE n \notin 0..(s.count - 1)
    <3>1. HistoryChar(s, k) = SPACE
      BY <2>2 DEF HistoryChar
    <3> QED BY <3>1, Blank
  <2> QED BY <2>1, <2>2
<1> QED BY <1>1, <1>2 DEF History

LEMMA ViewSound ==
    ASSUME NEW s, Firm(s), s.screen_ptr = "live", s.ring_ptr \in {"null", "live"},
           s.ring_ptr = "null" => Picture(s)
    PROVE  LET t == redraw_from_scrollback(s)
           IN  /\ Sound(t) /\ Same(t, s, RedrawFields \cup {"mixed", "wild"})
               /\ s.ring_ptr = "live" => /\ t.shown = t.drawn
                                         /\ t.screen = History(s)
                                         /\ t.wild = s.wild
               /\ s.ring_ptr = "null" => t.drawn = s.drawn /\ t.shown = s.shown /\ t.raw = s.raw
<1> DEFINE t == redraw_from_scrollback(s)
<1>0. IsCon(s) /\ s.view \in 0..s.count /\ s.in_view \in BOOLEAN
  BY DEF Firm, Shape
<1>1. CASE s.ring_ptr = "null"
  <2>1. t = Wild(s, "null")
    BY <1>1 DEF redraw_from_scrollback
  <2> HIDE DEF t
  <2>2. Sound(t) /\ Same(t, s, {"wild"})
    BY <1>1, <2>1, WildSound DEF Sound
  <2>3. Same(t, s, RedrawFields \cup {"mixed", "wild"})
    BY <2>2, SameMore
  <2>4. t.drawn = s.drawn /\ t.shown = s.shown /\ t.raw = s.raw
    BY <2>2 DEF Same, Fields
  <2> QED BY <1>1, <2>2, <2>3, <2>4 DEF t
<1>2. CASE s.ring_ptr = "live"
  <2> DEFINE r == [s EXCEPT !.mixed = FALSE]
             screen == History(s)
  <2>1. Same(r, s, {"mixed"})
    BY <1>0, SetOne
  <2>2. t = Redraw(r, screen)
    BY <1>2 DEF redraw_from_scrollback, History, HistoryChar
  <2> HIDE DEF r, t
  <2>3. screen \in [0..(s.w * s.h - 1) -> AnyCell]
    BY <1>2, HistoryCells
  <2> HIDE DEF screen
  <2>4. r.w = s.w /\ r.h = s.h /\ r.screen_ptr = "live" /\ r.view = s.view /\ r.count = s.count
        /\ r.in_view = s.in_view /\ r.wild = s.wild
    BY <2>1 DEF Same, Fields
  <2>5. Same(r, s, NoteFields)
    BY <2>1, SameMore DEF NoteFields
  <2>6. Firm(r)
    BY <1>0, <2>4, <2>5, ViewMoves
  <2>7. Sound(t) /\ Same(t, r, RedrawFields) /\ t.screen = screen /\ t.shown = t.drawn
    BY <2>2, <2>3, <2>4, <2>6, RedrawSound
  <2>8. Same(t, s, RedrawFields \cup {"mixed", "wild"}) /\ t.wild = s.wild
    <3>1. Same(t, s, {"mixed"} \cup RedrawFields)
      BY <2>1, <2>7, SameTrans
    <3>2. Same(t, s, RedrawFields \cup {"mixed", "wild"})
      BY <3>1, SameMore
    <3>3. t.wild = s.wild
      BY <3>1 DEF Same, Fields, RedrawFields
    <3> QED BY <3>2, <3>3
  <2> QED BY <1>2, <2>7, <2>8 DEF t, screen
<1> QED BY <1>1, <1>2

-----------------------------------------------------------------------------
(* Entering the view saves the screen, and the picture it came from.       *)
LEMMA EnteredSound ==
    ASSUME NEW s, Sound(s), s.screen_ptr = "live"
    PROVE  /\ Sound(Entered(s)) /\ Same(Entered(s), s, {"backup", "in_view", "entry"})
           /\ Entered(s).in_view = TRUE
<1>0. /\ IsCon(s) /\ s.in_view \in BOOLEAN /\ Shape(s) /\ Buffers(s) /\ Saved(s) /\ Newest(s)
      /\ Picture(s)
  BY DEF Sound, Firm, Shape
<1>1. CASE s.in_view
  <2>1. Entered(s) = s
    BY <1>1 DEF Entered
  <2> QED BY <1>0, <1>1, <2>1, SameSelf
<1>2. CASE ~s.in_view
  <2> DEFINE entry == IF s.synced THEN s.drawn ELSE <<>>
             on == TRUE
             t == [s EXCEPT !.backup = s.screen, !.in_view = on, !.entry = entry]
  <2>1. Entered(s) = t
    BY <1>0, <1>2 DEF Entered, IsCon, Fields
  <2>a. entry # <<>> => s.synced /\ entry = s.drawn
    OBVIOUS
  <2>b. on = TRUE
    OBVIOUS
  <2> HIDE DEF entry, on
  <2>2. Same(t, s, {"backup", "in_view", "entry"})
    BY <1>0, SetThree
  <2>3. t.backup = s.screen /\ t.in_view = on /\ t.entry = entry
    BY <1>0 DEF IsCon, Fields
  <2> HIDE DEF t
  <2>4. /\ IsCon(t) /\ t.w = s.w /\ t.h = s.h /\ t.scale = s.scale /\ t.screen = s.screen
        /\ t.screen_ptr = s.screen_ptr /\ t.backup_ptr = s.backup_ptr
        /\ t.ring = s.ring /\ t.ring_ptr = s.ring_ptr /\ t.start = s.start /\ t.count = s.count
        /\ t.x = s.x /\ t.y = s.y /\ t.double = s.double /\ t.drawn = s.drawn
        /\ t.shown = s.shown /\ t.lines = s.lines /\ t.synced = s.synced
        /\ t.auto_swap = s.auto_swap /\ t.view = s.view
    BY <2>2 DEF Same, Fields
  <2>5. Shape(t)
    BY <1>0, <2>b, <2>3, <2>4 DEF Shape
  <2>6. Buffers(t)
    BY <1>0, <2>3, <2>4 DEF Buffers
  <2>7. Saved(t)
    <3>1. SUFFICES ASSUME t.backup_ptr = "live", t.entry # <<>>
                   PROVE  /\ t.entry \in [Grid(t.scale) -> Paints]
                          /\ \A p \in Grid(t.scale) : t.entry[p] = Look(t.backup[Index(t, p[1], p[2])])
      BY DEF Saved
    <3>2. s.synced /\ t.entry = s.drawn
      BY <2>a, <2>3, <3>1
    <3> QED BY <1>0, <2>3, <2>4, <3>2 DEF Picture, Buffers, Index
  <2>8. Newest(t) /\ Picture(t)
    BY <1>0, <2>4 DEF Newest, Picture, Index
  <2> QED BY <2>b, <2>1, <2>2, <2>3, <2>5, <2>6, <2>7, <2>8 DEF Sound, Firm
<1> QED BY <1>0, <1>1, <1>2

LEMMA Viewing == ASSUME NEW s, Sound(s), NEW v \in 0..s.count
                 PROVE  LET t == [s EXCEPT !.view = v]
                        IN  Sound(t) /\ Same(t, s, {"view"}) /\ t.view = v
<1> DEFINE t == [s EXCEPT !.view = v]
<1>1. IsCon(s) /\ s.in_view \in BOOLEAN
  BY DEF Sound, Firm, Shape
<1>2. Same(t, s, {"view"}) /\ t.view = v
  <2>1. Same(t, s, {"view"})
    BY <1>1, SetOne
  <2>2. t.view = v
    BY <1>1 DEF IsCon, Fields
  <2> QED BY <2>1, <2>2
<1> HIDE DEF t
<1>3. Same(t, s, NoteFields) /\ t.in_view = s.in_view /\ t.count = s.count
  <2>1. Same(t, s, NoteFields)
    BY <1>2, SameMore DEF NoteFields
  <2> QED BY <1>2, <2>1 DEF Same, Fields
<1>4. Sound(t)
  BY <1>1, <1>2, <1>3, ViewMoves DEF Sound
<1> QED BY <1>2, <1>4 DEF t

(* What a view step does to a record when it does something.               *)
LEMMA UpSound ==
    ASSUME NEW s, Sound(s), s.screen_ptr # "freed", s.backup_ptr # "freed", s.ring_ptr # "freed"
    PROVE  LET t == view_scrollback_up(s)
           IN  /\ Sound(t) /\ Same(t, s, ViewFields)
               /\ s.in_view => t.in_view
               /\ s.shown = s.drawn => t.shown = t.drawn
               /\ t.raw \/ t.raw = s.raw \/ t.shown = t.drawn
               /\ \/ t = s
                  \/ s.ring_ptr = "null" /\ s.count # 0
                  \/ /\ s.ring_ptr = "live" /\ s.screen_ptr = "live"
                     /\ t.wild = s.wild /\ t.screen = History(t)
<1> DEFINE t == view_scrollback_up(s)
<1>0. IsCon(s) /\ s.count \in Nat /\ s.view \in 0..s.count
  <2>1. SCROLLBACK_LINES \in Nat
    BY SizeAssumption
  <2> QED BY <2>1 DEF Sound, Firm, Shape
<1>1. CASE s.count = 0 \/ s.backup_ptr = "null" \/ s.screen_ptr = "null"
  <2>1. t = s
    BY <1>1 DEF view_scrollback_up
  <2> HIDE DEF t
  <2>2. Same(t, s, ViewFields)
    BY <1>0, <2>1, SameSelf
  <2> QED BY <2>1, <2>2 DEF t
<1>2. CASE ~(s.count = 0 \/ s.backup_ptr = "null" \/ s.screen_ptr = "null")
  <2>1. s.screen_ptr = "live" /\ s.ring_ptr \in {"null", "live"} /\ s.count # 0
    BY <1>2 DEF Sound, Firm, Shape, Pointers
  <2> DEFINE e == Entered(s)
             v == IF e.view + 1 > s.count THEN s.count ELSE e.view + 1
             r == [e EXCEPT !.view = v]
  <2>2. Sound(e) /\ Same(e, s, {"backup", "in_view", "entry"}) /\ e.in_view = TRUE
    BY <2>1, EnteredSound
  <2>3. t = redraw_from_scrollback(r)
    <3>1. [e EXCEPT !.view = IF @ + 1 > s.count THEN s.count ELSE @ + 1] = r
      BY <2>2 DEF Same, IsCon, Fields
    <3> QED BY <1>2, <3>1 DEF view_scrollback_up
  <2> HIDE DEF e, t
  <2>4. e.count = s.count /\ e.view = s.view /\ e.screen_ptr = s.screen_ptr /\ e.ring_ptr = s.ring_ptr
        /\ e.drawn = s.drawn /\ e.shown = s.shown /\ e.raw = s.raw /\ e.wild = s.wild
    BY <2>2 DEF Same, Fields
  <2>5. v \in 0..e.count
    BY <1>0, <2>4
  <2> HIDE DEF v
  <2>6. Sound(r) /\ Same(r, e, {"view"}) /\ r.view = v
    BY <2>2, <2>5, Viewing
  <2> HIDE DEF r
  <2>7. r.screen_ptr = "live" /\ r.ring_ptr = s.ring_ptr /\ r.drawn = s.drawn /\ r.shown = s.shown
        /\ r.raw = s.raw /\ r.in_view = TRUE /\ r.wild = s.wild
    BY <2>1, <2>2, <2>4, <2>6 DEF Same, Fields
  <2>8. /\ Sound(t) /\ Same(t, r, RedrawFields \cup {"mixed", "wild"})
        /\ r.ring_ptr = "live" => /\ t.shown = t.drawn
                                  /\ t.screen = History(r)
                                  /\ t.wild = r.wild
        /\ r.ring_ptr = "null" => t.drawn = r.drawn /\ t.shown = r.shown /\ t.raw = r.raw
    <3>1. Firm(r) /\ Picture(r) /\ r.ring_ptr \in {"null", "live"}
      BY <2>1, <2>6, <2>7 DEF Sound
    <3> QED BY <2>3, <2>7, <3>1, ViewSound
  <2>9. s.ring_ptr = "live" => History(t) = History(r)
    <3>1. t.w = r.w /\ t.h = r.h /\ t.count = r.count /\ t.view = r.view /\ t.ring = r.ring
          /\ t.start = r.start /\ t.screen_ptr = r.screen_ptr
      BY <2>8 DEF Same, Fields, RedrawFields
    <3>2. t.screen_ptr = "live" => DOMAIN t.screen = DOMAIN r.screen
      BY <2>6, <2>7, <2>8, <3>1 DEF Sound, Firm, Buffers
    <3> QED BY <2>7, <3>1, <3>2 DEF History, HistoryChar, history_line
  <2>10. Same(t, s, ViewFields)
    <3>1. Same(r, s, {"backup", "in_view", "entry"} \cup {"view"})
      BY <2>2, <2>6, SameTrans
    <3>2. Same(t, s, ({"backup", "in_view", "entry"} \cup {"view"}) \cup (RedrawFields \cup {"mixed", "wild"}))
      BY <2>8, <3>1, SameTrans
    <3> QED BY <3>2, SameMore DEF ViewFields
  <2>11. t.in_view = TRUE
    BY <2>7, <2>8 DEF Same, Fields, RedrawFields
  <2> QED BY <2>1, <2>7, <2>8, <2>9, <2>10, <2>11 DEF t
<1> QED BY <1>1, <1>2

-----------------------------------------------------------------------------
(* A step down, the view left, and the pictures drawn again or exchanged.  *)
LEMMA DownSound ==
    ASSUME NEW s, Sound(s), s.screen_ptr # "freed", s.backup_ptr # "freed", s.ring_ptr # "freed"
    PROVE  LET t == view_scrollback_down(s)
           IN  /\ Sound(t) /\ Same(t, s, ViewFields)
               /\ s.shown = s.drawn => t.shown = t.drawn
               /\ t.raw \/ t.raw = s.raw \/ t.shown = t.drawn
               /\ \/ t = s
                  \/ s.in_view /\ s.ring_ptr = "null" /\ t.in_view = TRUE
                  \/ /\ s.ring_ptr = "live" /\ s.screen_ptr = "live" /\ t.in_view = TRUE
                     /\ t.wild = s.wild /\ t.screen = History(t)
                  \/ /\ t.in_view = FALSE /\ (s.entry # <<>> => t.drawn = s.entry)
                     /\ t.wild = s.wild
<1> DEFINE t == view_scrollback_down(s)
<1>0. IsCon(s) /\ s.count \in Nat /\ s.view \in 0..s.count /\ s.in_view \in BOOLEAN
  <2>1. SCROLLBACK_LINES \in Nat
    BY SizeAssumption
  <2> QED BY <2>1 DEF Sound, Firm, Shape
<1>1. CASE ~s.in_view \/ s.backup_ptr = "null" \/ s.screen_ptr = "null"
  <2>1. t = s
    BY <1>1 DEF view_scrollback_down
  <2> HIDE DEF t
  <2>2. Same(t, s, ViewFields)
    BY <1>0, <2>1, SameSelf
  <2> QED BY <2>1, <2>2 DEF t
<1>2. CASE ~(~s.in_view \/ s.backup_ptr = "null" \/ s.screen_ptr = "null") /\ ~(s.view - 1 <= 0)
  <2>1. s.screen_ptr = "live" /\ s.ring_ptr \in {"null", "live"} /\ s.in_view = TRUE
    BY <1>0, <1>2 DEF Sound, Firm, Shape, Pointers
  <2> DEFINE v == s.view - 1
             r == [s EXCEPT !.view = v]
  <2>2. t = redraw_from_scrollback(r)
    <3>1. t = redraw_from_scrollback([s EXCEPT !.view = @ - 1])
      BY <1>2 DEF view_scrollback_down
    <3>2. [s EXCEPT !.view = @ - 1] = r
      BY <1>0 DEF IsCon, Fields
    <3> QED BY <3>1, <3>2
  <2> HIDE DEF t
  <2>3. v \in 0..s.count
    BY <1>0, <1>2
  <2> HIDE DEF v
  <2>4. Sound(r) /\ Same(r, s, {"view"}) /\ r.view = v
    BY <2>3, Viewing
  <2> HIDE DEF r
  <2>5. r.screen_ptr = "live" /\ r.ring_ptr = s.ring_ptr /\ r.drawn = s.drawn /\ r.shown = s.shown
        /\ r.raw = s.raw /\ r.in_view = TRUE /\ r.wild = s.wild
    BY <2>1, <2>4 DEF Same, Fields
  <2>6. /\ Sound(t) /\ Same(t, r, RedrawFields \cup {"mixed", "wild"})
        /\ r.ring_ptr = "live" => /\ t.shown = t.drawn
                                  /\ t.screen = History(r)
                                  /\ t.wild = r.wild
        /\ r.ring_ptr = "null" => t.drawn = r.drawn /\ t.shown = r.shown /\ t.raw = r.raw
    <3>1. Firm(r) /\ Picture(r) /\ r.ring_ptr \in {"null", "live"}
      BY <2>1, <2>4, <2>5 DEF Sound
    <3> QED BY <2>2, <2>5, <3>1, ViewSound
  <2>7. s.ring_ptr = "live" => History(t) = History(r)
    <3>1. t.w = r.w /\ t.h = r.h /\ t.count = r.count /\ t.view = r.view /\ t.ring = r.ring
          /\ t.start = r.start /\ t.screen_ptr = r.screen_ptr
      BY <2>6 DEF Same, Fields, RedrawFields
    <3>2. t.screen_ptr = "live" => DOMAIN t.screen = DOMAIN r.screen
      BY <2>4, <2>5, <2>6, <3>1 DEF Sound, Firm, Buffers
    <3> QED BY <2>5, <3>1, <3>2 DEF History, HistoryChar, history_line
  <2>8. Same(t, s, ViewFields)
    <3>1. Same(t, s, {"view"} \cup (RedrawFields \cup {"mixed", "wild"}))
      BY <2>4, <2>6, SameTrans
    <3> QED BY <3>1, SameMore DEF ViewFields
  <2>9. t.in_view = TRUE
    BY <2>5, <2>6 DEF Same, Fields, RedrawFields
  <2> QED BY <2>1, <2>5, <2>6, <2>7, <2>8, <2>9 DEF t
<1>3. CASE ~(~s.in_view \/ s.backup_ptr = "null" \/ s.screen_ptr = "null") /\ s.view - 1 <= 0
  <2>1. s.screen_ptr = "live" /\ s.backup_ptr = "live"
    BY <1>3 DEF Sound, Firm, Shape, Pointers
  <2> DEFINE r == [s EXCEPT !.view = 0, !.in_view = FALSE, !.mixed = FALSE]
  <2>2. t = Redraw(r, s.backup)
    BY <1>3 DEF view_scrollback_down
  <2> HIDE DEF t
  <2>3. Same(r, s, NoteFields) /\ r.in_view = FALSE /\ r.view = 0
    <3>1. Same(r, s, {"view", "in_view", "mixed"})
      BY <1>0, SetThree
    <3>2. Same(r, s, NoteFields)
      BY <3>1, SameMore DEF NoteFields
    <3>3. r.in_view = FALSE /\ r.view = 0
      BY <1>0 DEF IsCon, Fields
    <3> QED BY <3>2, <3>3
  <2> HIDE DEF r
  <2>4. r.w = s.w /\ r.h = s.h /\ r.screen_ptr = "live" /\ r.count = s.count /\ r.scale = s.scale
        /\ r.wild = s.wild
    BY <2>1, <2>3 DEF Same, Fields, NoteFields
  <2>5. Firm(r)
    <3>1. r.view \in 0..r.count /\ r.in_view \in BOOLEAN
      <4>1. r.view \in 0..r.count
        BY <1>0, <2>3, <2>4
      <4>2. r.in_view \in BOOLEAN
        BY <2>3
      <4> QED BY <4>1, <4>2
    <3> QED BY <2>3, <3>1, ViewMoves DEF Sound
  <2>6. s.backup \in [0..(r.w * r.h - 1) -> AnyCell]
    BY <2>1, <2>4 DEF Sound, Firm, Buffers
  <2>7. /\ Sound(t) /\ Same(t, r, RedrawFields) /\ t.shown = t.drawn
        /\ \A p \in Grid(r.scale) : t.drawn[p] = Look(s.backup[Index(r, p[1], p[2])])
    BY <2>2, <2>4, <2>5, <2>6, RedrawSound
  <2>8. s.entry # <<>> => t.drawn = s.entry
    <3>1. SUFFICES ASSUME s.entry # <<>> PROVE t.drawn = s.entry
      OBVIOUS
    <3>2. /\ s.entry \in [Grid(s.scale) -> Paints]
          /\ \A p \in Grid(s.scale) : s.entry[p] = Look(s.backup[Index(s, p[1], p[2])])
      BY <2>1, <3>1 DEF Sound, Firm, Saved
    <3>3. t.scale = s.scale
      BY <2>4, <2>7 DEF Same, Fields, RedrawFields
    <3>4. t.drawn \in [Grid(s.scale) -> Paints]
      BY <2>7, <3>3 DEF Sound, Firm, Buffers
    <3>5. \A p \in Grid(s.scale) : t.drawn[p] = s.entry[p]
      BY <2>4, <2>7, <3>2 DEF Index
    <3> QED BY <3>2, <3>4, <3>5
  <2>9. t.in_view = FALSE /\ t.wild = s.wild
    BY <2>3, <2>4, <2>7 DEF Same, Fields, RedrawFields
  <2>10. Same(t, s, ViewFields)
    <3>1. Same(t, s, NoteFields \cup RedrawFields)
      BY <2>3, <2>7, SameTrans
    <3> QED BY <3>1, SameMore DEF ViewFields, NoteFields
  <2> QED BY <2>7, <2>8, <2>9, <2>10 DEF t
<1> QED BY <1>1, <1>2, <1>3

LEMMA RefreshSound ==
    ASSUME NEW s, Sound(s), s.screen_ptr # "freed"
    PROVE  LET t == console_refresh(s)
           IN  /\ Sound(t) /\ Same(t, s, RedrawFields) /\ t.shown = t.drawn
               /\ t.screen = s.screen
BY RedrawSound DEF console_refresh, Sound, Firm, Buffers

Recolored(s) == [k \in DOMAIN s.screen |-> Cell(s.screen[k].c, DEFAULT_COLOR)]

LEMMA RecolorSound ==
    ASSUME NEW s, Sound(s), s.screen_ptr # "freed"
    PROVE  LET t == refresh_screen_color(s)
           IN  /\ Sound(t) /\ Same(t, s, RedrawFields) /\ t.shown = t.drawn
               /\ s.screen_ptr = "live" => t.screen = Recolored(s)
               /\ s.screen_ptr = "null" => t.screen = s.screen /\ t.drawn = s.drawn /\ t.synced = s.synced
<1>1. CASE s.screen_ptr = "null"
  <2> DEFINE t == refresh_screen_color(s)
  <2>1. t = Swap(s)
    BY <1>1 DEF refresh_screen_color
  <2> HIDE DEF t
  <2>2. Sound(t) /\ Same(t, s, {"shown", "raw"}) /\ t.shown = t.drawn
    BY <2>1, SwapSound DEF Sound
  <2>3. Same(t, s, RedrawFields)
    BY <2>2, SameMore DEF RedrawFields
  <2>4. t.screen = s.screen /\ t.drawn = s.drawn /\ t.synced = s.synced
    BY <2>2 DEF Same, Fields
  <2> QED BY <1>1, <2>2, <2>3, <2>4 DEF t
<1>2. CASE s.screen_ptr = "live"
  <2>1. refresh_screen_color(s) = Redraw(s, Recolored(s))
    BY <1>2 DEF refresh_screen_color, Recolored
  <2>2. Recolored(s) \in [0..(s.w * s.h - 1) -> AnyCell]
    <3>1. s.screen \in [0..(s.w * s.h - 1) -> AnyCell]
      BY <1>2 DEF Sound, Firm, Buffers
    <3>2. ASSUME NEW k \in 0..(s.w * s.h - 1) PROVE Cell(s.screen[k].c, DEFAULT_COLOR) \in AnyCell
      <4>1. s.screen[k].c \in Chars
        BY <3>1 DEF AnyCell
      <4> QED BY <4>1 DEF Cell, AnyCell, DEFAULT_COLOR
    <3> QED BY <3>1, <3>2 DEF Recolored
  <2> QED BY <1>2, <2>1, <2>2, RedrawSound DEF Sound
<1> QED BY <1>1, <1>2 DEF Sound, Firm, Shape, Pointers

Exchanged(s, on, picture, raw) ==
    [s EXCEPT !.double = on, !.drawn = picture, !.synced = FALSE, !.raw = raw]
DoubleFields == {"double", "drawn", "synced", "raw"}

LEMMA SetFour == ASSUME NEW s, IsCon(s), NEW a, NEW u, NEW b, NEW v, NEW c, NEW x, NEW d, NEW y
                 PROVE  Same([s EXCEPT ![a] = u, ![b] = v, ![c] = x, ![d] = y], s, {a, b, c, d})
<1> HIDE DEF Fields
<1> QED BY DEF IsCon, Same

(* The drawing target is exchanged: the picture is not claimed any more.   *)
LEMMA DoubleSound ==
    ASSUME NEW s, Sound(s), NEW enabled \in BOOLEAN, NEW ok \in BOOLEAN
    PROVE  LET t == set_double_buffering(s, enabled, ok)
           IN  /\ Sound(t) /\ Same(t, s, DoubleFields)
               /\ \/ t = s
                  \/ ~t.synced /\ (t.raw \/ t.shown = t.drawn)
<1> DEFINE t == set_double_buffering(s, enabled, ok)
<1>0. /\ IsCon(s) /\ s.double \in BOOLEAN /\ Shape(s) /\ Buffers(s) /\ Saved(s) /\ Newest(s)
  BY DEF Sound, Firm, Shape
<1>1. ASSUME NEW on \in BOOLEAN, NEW picture \in [Grid(s.scale) -> Paints], NEW raw, NEW r,
             r = Exchanged(s, on, picture, raw),
             on \/ picture = s.shown
      PROVE  Sound(r) /\ Same(r, s, DoubleFields) /\ ~r.synced /\ r.raw = raw /\ r.drawn = picture
             /\ r.shown = s.shown
  <2>1. Same(r, s, DoubleFields)
    BY <1>0, <1>1, SetFour DEF DoubleFields, Exchanged
  <2>2. r.double = on /\ r.drawn = picture /\ r.synced = FALSE /\ r.raw = raw
    BY <1>0, <1>1 DEF IsCon, Fields, Exchanged
  <2>3. /\ IsCon(r) /\ r.w = s.w /\ r.h = s.h /\ r.scale = s.scale /\ r.screen = s.screen
        /\ r.screen_ptr = s.screen_ptr /\ r.backup_ptr = s.backup_ptr /\ r.backup = s.backup
        /\ r.ring = s.ring /\ r.ring_ptr = s.ring_ptr /\ r.start = s.start /\ r.count = s.count
        /\ r.x = s.x /\ r.y = s.y /\ r.shown = s.shown /\ r.lines = s.lines
        /\ r.auto_swap = s.auto_swap /\ r.view = s.view /\ r.entry = s.entry
        /\ r.in_view = s.in_view
    BY <2>1 DEF Same, Fields, DoubleFields
  <2>4. Shape(r)
    BY <1>0, <2>2, <2>3 DEF Shape
  <2>5. Buffers(r)
    BY <1>0, <1>1, <2>2, <2>3 DEF Buffers
  <2>6. Saved(r) /\ Newest(r)
    BY <1>0, <2>3 DEF Saved, Newest, Index
  <2>7. Picture(r)
    BY <2>2 DEF Picture
  <2> QED BY <2>1, <2>2, <2>3, <2>4, <2>5, <2>6, <2>7 DEF Sound, Firm
<1>2. CASE enabled /\ ~s.double /\ ok
  <2> DEFINE r == [s EXCEPT !.double = TRUE, !.drawn = Filled(s.scale, BLACK), !.synced = FALSE,
                            !.raw = TRUE]
  <2>1. t = r
    BY <1>2 DEF set_double_buffering
  <2>2. Filled(s.scale, BLACK) \in [Grid(s.scale) -> Paints]
    BY BlackPaints DEF Filled
  <2> HIDE DEF t
  <2>3. ASSUME NEW on, on = TRUE, NEW raw, raw = TRUE, NEW picture, picture = Filled(s.scale, BLACK)
        PROVE  Sound(t) /\ Same(t, s, DoubleFields) /\ ~t.synced /\ t.raw = raw
    <3>1. t = Exchanged(s, on, picture, raw)
      BY <2>1, <2>3 DEF Exchanged
    <3>2. on \in BOOLEAN /\ picture \in [Grid(s.scale) -> Paints] /\ (on \/ picture = s.shown)
      BY <2>2, <2>3
    <3>3. Sound(t) /\ Same(t, s, DoubleFields) /\ ~t.synced /\ t.raw = raw /\ t.drawn = picture
          /\ t.shown = s.shown
      BY <1>1, <3>1, <3>2
    <3> QED BY <2>3, <3>3
  <2> QED BY <2>3 DEF t
<1>3. CASE ~enabled /\ s.double
  <2> DEFINE r == [s EXCEPT !.double = FALSE, !.drawn = s.shown, !.synced = FALSE, !.raw = FALSE]
  <2>1. t = r
    BY <1>3 DEF set_double_buffering
  <2>2. s.shown \in [Grid(s.scale) -> Paints]
    BY <1>0 DEF Buffers
  <2> HIDE DEF t
  <2>3. ASSUME NEW on, on = FALSE, NEW raw, raw = FALSE, NEW picture, picture = s.shown
        PROVE  Sound(t) /\ Same(t, s, DoubleFields) /\ ~t.synced /\ t.shown = t.drawn
    <3>1. t = Exchanged(s, on, picture, raw)
      BY <2>1, <2>3 DEF Exchanged
    <3>2. on \in BOOLEAN /\ picture \in [Grid(s.scale) -> Paints] /\ (on \/ picture = s.shown)
      BY <2>2, <2>3
    <3>3. Sound(t) /\ Same(t, s, DoubleFields) /\ ~t.synced /\ t.raw = raw /\ t.drawn = picture
          /\ t.shown = s.shown
      BY <1>1, <3>1, <3>2
    <3> QED BY <2>3, <3>3
  <2> QED BY <2>3 DEF t
<1>4. CASE ~(enabled /\ ~s.double /\ ok) /\ ~(~enabled /\ s.double)
  <2>1. t = s
    BY <1>4 DEF set_double_buffering
  <2> HIDE DEF t
  <2> QED BY <1>0, <2>1, SameSelf DEF t
<1> QED BY <1>0, <1>2, <1>3, <1>4

-----------------------------------------------------------------------------
(* The console is built: size, shadow buffer, ...                          *)
Switched(s, v)  == [s EXCEPT !.auto_swap = v]
Marked(s)   == [s EXCEPT !.mixed = s.in_view, !.raw = s.double]

LEMMA AutoSound == ASSUME NEW s, Sound(s), NEW v \in BOOLEAN
                   PROVE  Sound(Switched(s, v)) /\ Same(Switched(s, v), s, {"auto_swap"}) /\ Switched(s, v).auto_swap = v
<1> DEFINE t == Switched(s, v)
<1>1. IsCon(s) /\ s.x \in Nat /\ s.y \in Nat
  BY DEF Sound, Firm, Shape
<1>2. Same(t, s, {"auto_swap"})
  BY <1>1, SetOne DEF Switched
<1>3. t.auto_swap = v
  BY <1>1 DEF IsCon, Fields, Switched
<1> HIDE DEF t
<1>4. Same(t, s, Steered) /\ t.x = s.x /\ t.y = s.y
  <2>1. Same(t, s, Steered)
    BY <1>2, SameMore DEF Steered
  <2> QED BY <1>2, <2>1 DEF Same, Fields
<1>5. Sound(t)
  BY <1>1, <1>3, <1>4, Moves
<1> QED BY <1>2, <1>3, <1>5 DEF t

LEMMA MarkedSound == ASSUME NEW s, Sound(s)
                     PROVE  /\ Sound(Marked(s)) /\ Same(Marked(s), s, {"mixed", "raw"})
                            /\ Marked(s).mixed = s.in_view /\ Marked(s).raw = s.double
<1> DEFINE t == Marked(s)
<1>1. IsCon(s) /\ s.x \in Nat /\ s.y \in Nat /\ s.auto_swap \in BOOLEAN
  BY DEF Sound, Firm, Shape
<1>2. Same(t, s, {"mixed", "raw"})
  BY <1>1, SetTwo DEF Marked
<1>3. t.mixed = s.in_view /\ t.raw = s.double
  BY <1>1 DEF IsCon, Fields, Marked
<1> HIDE DEF t
<1>4. Same(t, s, Steered) /\ t.x = s.x /\ t.y = s.y /\ t.auto_swap = s.auto_swap
  <2>1. Same(t, s, Steered)
    BY <1>2, SameMore DEF Steered
  <2> QED BY <1>2, <2>1 DEF Same, Fields
<1>5. Sound(t)
  BY <1>1, <1>4, Moves
<1> QED BY <1>2, <1>3, <1>5 DEF t

BuildFields == {"w", "h", "scale", "screen", "screen_ptr", "backup", "backup_ptr", "ring",
                "ring_ptr", "drawn", "shown", "synced", "auto_swap", "lines", "entry"}

LEMMA ShapeOf == ASSUME NEW s, Shape(s), NEW t, Same(t, s, BuildFields),
                        t.w \in Nat \ {0}, t.h \in Nat \ {0}, t.scale \in 1..MAX_SCALE,
                        t.screen_ptr \in Pointers, t.backup_ptr \in Pointers, t.ring_ptr \in Pointers,
                        t.auto_swap \in BOOLEAN
                 PROVE  Shape(t)
<1>1. /\ IsCon(t) /\ t.x = s.x /\ t.y = s.y /\ t.start = s.start /\ t.count = s.count
      /\ t.view = s.view /\ t.in_view = s.in_view /\ t.double = s.double
  BY DEF Same, Fields, BuildFields
<1> QED BY <1>1 DEF Shape

(* console_set_font_scale frees the buffers and may change the screen.     *)
Rescaled(s, scale) ==
    LET picture == Filled(scale, OLD)
        same    == scale = s.scale
    IN  [s EXCEPT !.scale = scale,
                  !.screen = <<>>, !.screen_ptr = Freed(@),
                  !.backup = <<>>, !.backup_ptr = Freed(@),
                  !.ring = <<>>, !.ring_ptr = Freed(@),
                  !.drawn = IF same THEN @ ELSE picture,
                  !.shown = IF same THEN @ ELSE picture]

RescaleFields == {"scale", "screen", "screen_ptr", "backup", "backup_ptr", "ring", "ring_ptr",
                  "drawn", "shown"}

LEMMA SetNine == ASSUME NEW s, IsCon(s), NEW a, NEW u, NEW b, NEW v, NEW c, NEW x, NEW d, NEW y,
                        NEW e, NEW z, NEW f, NEW w, NEW g, NEW o, NEW h, NEW p, NEW k, NEW q
                 PROVE  Same([s EXCEPT ![a] = u, ![b] = v, ![c] = x, ![d] = y, ![e] = z, ![f] = w,
                                       ![g] = o, ![h] = p, ![k] = q], s, {a, b, c, d, e, f, g, h, k})
<1> HIDE DEF Fields
<1> QED BY DEF IsCon, Same

LEMMA RescaleSound ==
    ASSUME NEW s, Sound(s), NEW scale \in 1..MAX_SCALE
    PROVE  LET t == Rescaled(s, scale)
           IN  /\ Sound(t) /\ Same(t, s, RescaleFields)
               /\ s.shown = s.drawn => t.shown = t.drawn
               /\ t.screen_ptr = Freed(s.screen_ptr) /\ t.backup_ptr = Freed(s.backup_ptr)
               /\ t.ring_ptr = Freed(s.ring_ptr)
<1> DEFINE a == Freed(s.screen_ptr)
           b == Freed(s.backup_ptr)
           c == Freed(s.ring_ptr)
           drawn == IF scale = s.scale THEN s.drawn ELSE Filled(scale, OLD)
           shown == IF scale = s.scale THEN s.shown ELSE Filled(scale, OLD)
           empty == <<>>
           t == [s EXCEPT !.scale = scale, !.screen = empty, !.screen_ptr = a,
                          !.backup = empty, !.backup_ptr = b, !.ring = empty, !.ring_ptr = c,
                          !.drawn = drawn, !.shown = shown]
<1>0. Shape(s) /\ Buffers(s) /\ Saved(s) /\ Newest(s) /\ IsCon(s)
  BY DEF Sound, Firm, Shape
<1>1. Rescaled(s, scale) = t
  BY <1>0 DEF Rescaled, IsCon, Fields
<1>2. /\ a \in Pointers \ {"live"} /\ b \in Pointers \ {"live"} /\ c \in Pointers \ {"live"}
  BY <1>0 DEF Shape, Pointers, Freed
<1>3. /\ drawn \in [Grid(scale) -> Paints] /\ shown \in [Grid(scale) -> Paints]
      /\ s.shown = s.drawn => shown = drawn
      /\ s.double \/ shown = drawn
  <2>1. Filled(scale, OLD) \in [Grid(scale) -> Paints]
    BY BlackPaints DEF Filled
  <2> QED BY <1>0, <2>1 DEF Buffers
<1> HIDE DEF a, b, c, drawn, shown, empty
<1>4. Same(t, s, RescaleFields)
  BY <1>0, SetNine DEF RescaleFields
<1>5. /\ t.scale = scale /\ t.screen_ptr = a /\ t.backup_ptr = b /\ t.ring_ptr = c
      /\ t.drawn = drawn /\ t.shown = shown
  BY <1>0 DEF IsCon, Fields
<1> HIDE DEF t
<1>6. /\ t.w = s.w /\ t.h = s.h /\ t.double = s.double /\ t.auto_swap = s.auto_swap
      /\ t.lines = s.lines /\ t.entry = s.entry
  BY <1>4 DEF Same, Fields, RescaleFields
<1>7. Shape(t)
  <2>1. Same(t, s, BuildFields)
    BY <1>4, SameMore DEF RescaleFields, BuildFields
  <2>2. t.w \in Nat \ {0} /\ t.h \in Nat \ {0} /\ t.auto_swap \in BOOLEAN
    BY <1>0, <1>6 DEF Shape
  <2> QED BY <1>0, <1>2, <1>5, <2>1, <2>2, ShapeOf
<1>8. Buffers(t)
  BY <1>0, <1>2, <1>3, <1>5, <1>6 DEF Buffers
<1>9. Saved(t) /\ Newest(t) /\ Picture(t)
  BY <1>0, <1>2, <1>5, <1>6 DEF Saved, Newest, Picture
<1> QED BY <1>1, <1>3, <1>4, <1>5, <1>7, <1>8, <1>9 DEF Sound, Firm, a, b, c

Matched(s) == s.w = Width(s.scale) /\ s.h = Height(s.scale)

(* The shadow buffer: the screen's size is set, and what malloc returns is *)
(* not drawn.                                                              *)
Resized(s)  == [s EXCEPT !.w = ScreenWidth \div s.scale, !.h = ScreenHeight \div s.scale,
                         !.synced = FALSE]
Shadowed(s) == [s EXCEPT !.screen = [k \in 0..(s.w * s.h - 1) |-> JunkCell],
                         !.screen_ptr = "live"]

LEMMA ResizeSound ==
    ASSUME NEW s, Sound(s)
    PROVE  LET t == Resized(s)
           IN  Sound(t) /\ Same(t, s, {"w", "h", "synced"}) /\ Matched(t) /\ ~t.synced
<1> DEFINE w == Width(s.scale)
           h == Height(s.scale)
           off == FALSE
           t == [s EXCEPT !.w = w, !.h = h, !.synced = off]
<1>0. Shape(s) /\ Buffers(s) /\ Saved(s) /\ Newest(s) /\ IsCon(s)
  BY DEF Sound, Firm, Shape
<1>1. Resized(s) = t
  BY DEF Resized, Width, Height
<1>2. w \in Nat \ {0} /\ h \in Nat \ {0} /\ s.scale \in 1..MAX_SCALE
  BY <1>0, Sizes DEF Shape
<1>3. "live" \in {s.screen_ptr, s.backup_ptr, s.ring_ptr} => w = s.w /\ h = s.h
  BY <1>0 DEF Buffers
<1>a. off = FALSE
  OBVIOUS
<1>b. w = Width(s.scale) /\ h = Height(s.scale)
  OBVIOUS
<1> HIDE DEF w, h, off
<1>4. Same(t, s, {"w", "h", "synced"})
  BY <1>0, SetThree
<1>5. t.w = w /\ t.h = h /\ t.synced = off
  BY <1>0 DEF IsCon, Fields
<1> HIDE DEF t
<1>6. /\ t.screen = s.screen /\ t.screen_ptr = s.screen_ptr /\ t.backup = s.backup
      /\ t.backup_ptr = s.backup_ptr /\ t.ring = s.ring /\ t.ring_ptr = s.ring_ptr
      /\ t.drawn = s.drawn /\ t.shown = s.shown /\ t.double = s.double /\ t.scale = s.scale
      /\ t.auto_swap = s.auto_swap /\ t.lines = s.lines /\ t.entry = s.entry
      /\ t.start = s.start /\ t.count = s.count
  BY <1>4 DEF Same, Fields
<1>7. Shape(t)
  <2>1. Same(t, s, BuildFields)
    BY <1>4, SameMore DEF BuildFields
  <2>2. /\ t.screen_ptr \in Pointers /\ t.backup_ptr \in Pointers /\ t.ring_ptr \in Pointers
        /\ t.auto_swap \in BOOLEAN
    BY <1>0, <1>6 DEF Shape
  <2> QED BY <1>0, <1>2, <1>5, <1>6, <2>1, <2>2, ShapeOf
<1>8. Buffers(t)
  BY <1>0, <1>3, <1>b, <1>5, <1>6 DEF Buffers
<1>9. Saved(t)
  BY <1>0, <1>3, <1>5, <1>6 DEF Saved, Index
<1>10. Newest(t) /\ Picture(t)
  BY <1>0, <1>a, <1>5, <1>6 DEF Newest, Picture
<1> QED BY <1>1, <1>a, <1>b, <1>4, <1>5, <1>6, <1>7, <1>8, <1>9, <1>10 DEF Sound, Firm, Matched

LEMMA ShadowSound ==
    ASSUME NEW s, Sound(s), Matched(s), ~s.synced
    PROVE  LET t == Shadowed(s)
           IN  Sound(t) /\ Same(t, s, {"screen", "screen_ptr"}) /\ t.screen_ptr = "live"
<1> DEFINE screen == [k \in 0..(s.w * s.h - 1) |-> JunkCell]
           t == [s EXCEPT !.screen = screen, !.screen_ptr = "live"]
<1>0. Shape(s) /\ Buffers(s) /\ Saved(s) /\ Newest(s) /\ IsCon(s)
  BY DEF Sound, Firm, Shape
<1>1. Shadowed(s) = t
  BY DEF Shadowed
<1>2. screen \in [0..(s.w * s.h - 1) -> AnyCell]
  <2>1. JunkCell \in AnyCell
    BY DEF JunkCell, Cell, AnyCell, Chars
  <2> QED BY <2>1
<1> HIDE DEF screen
<1>4. Same(t, s, {"screen", "screen_ptr"})
  BY <1>0, SetTwo
<1>5. t.screen = screen /\ t.screen_ptr = "live"
  BY <1>0 DEF IsCon, Fields
<1> HIDE DEF t
<1>6. /\ t.w = s.w /\ t.h = s.h /\ t.backup = s.backup
      /\ t.backup_ptr = s.backup_ptr /\ t.ring = s.ring /\ t.ring_ptr = s.ring_ptr
      /\ t.drawn = s.drawn /\ t.shown = s.shown /\ t.double = s.double /\ t.scale = s.scale
      /\ t.auto_swap = s.auto_swap /\ t.lines = s.lines /\ t.entry = s.entry
      /\ t.start = s.start /\ t.count = s.count /\ t.synced = s.synced
  BY <1>4 DEF Same, Fields
<1>7. Shape(t)
  <2>1. Same(t, s, BuildFields)
    BY <1>4, SameMore DEF BuildFields
  <2>2. /\ t.screen_ptr \in Pointers /\ t.backup_ptr \in Pointers /\ t.ring_ptr \in Pointers
        /\ t.auto_swap \in BOOLEAN /\ t.w \in Nat \ {0} /\ t.h \in Nat \ {0}
        /\ t.scale \in 1..MAX_SCALE
    BY <1>0, <1>5, <1>6 DEF Shape, Pointers
  <2> QED BY <1>0, <2>1, <2>2, ShapeOf
<1>8. Buffers(t)
  BY <1>0, <1>2, <1>5, <1>6 DEF Buffers, Matched
<1>9. Saved(t) /\ Newest(t) /\ Picture(t)
  BY <1>0, <1>6 DEF Saved, Newest, Picture, Index
<1> QED BY <1>1, <1>4, <1>5, <1>7, <1>8, <1>9 DEF Sound, Firm

Unshadowed(s) == [s EXCEPT !.screen = <<>>, !.screen_ptr = "null"]

LEMMA UnshadowSound ==
    ASSUME NEW s, Sound(s)
    PROVE  LET t == Unshadowed(s)
           IN  Sound(t) /\ Same(t, s, {"screen", "screen_ptr"}) /\ t.screen_ptr = "null"
<1> DEFINE t == Unshadowed(s)
<1>0. Shape(s) /\ Buffers(s) /\ Saved(s) /\ Newest(s) /\ IsCon(s)
  BY DEF Sound, Firm, Shape
<1>4. Same(t, s, {"screen", "screen_ptr"})
  BY <1>0, SetTwo DEF Unshadowed
<1>5. t.screen_ptr = "null"
  BY <1>0 DEF IsCon, Fields, Unshadowed
<1> HIDE DEF t
<1>6. /\ t.w = s.w /\ t.h = s.h /\ t.backup = s.backup
      /\ t.backup_ptr = s.backup_ptr /\ t.ring = s.ring /\ t.ring_ptr = s.ring_ptr
      /\ t.drawn = s.drawn /\ t.shown = s.shown /\ t.double = s.double /\ t.scale = s.scale
      /\ t.auto_swap = s.auto_swap /\ t.lines = s.lines /\ t.entry = s.entry
      /\ t.start = s.start /\ t.count = s.count
  BY <1>4 DEF Same, Fields
<1>7. Shape(t)
  <2>1. Same(t, s, BuildFields)
    BY <1>4, SameMore DEF BuildFields
  <2>2. /\ t.screen_ptr \in Pointers /\ t.backup_ptr \in Pointers /\ t.ring_ptr \in Pointers
        /\ t.auto_swap \in BOOLEAN /\ t.w \in Nat \ {0} /\ t.h \in Nat \ {0}
        /\ t.scale \in 1..MAX_SCALE
    BY <1>0, <1>5, <1>6 DEF Shape, Pointers
  <2> QED BY <1>0, <2>1, <2>2, ShapeOf
<1>8. Buffers(t)
  BY <1>0, <1>5, <1>6 DEF Buffers
<1>9. Saved(t) /\ Newest(t) /\ Picture(t)
  BY <1>0, <1>5, <1>6 DEF Saved, Newest, Picture, Index
<1> QED BY <1>4, <1>5, <1>7, <1>8, <1>9 DEF Sound, Firm, t

-----------------------------------------------------------------------------
(* ... the copy for the view, the ring, and what fills them.               *)
BackedUp(s)  == [s EXCEPT !.backup = [k \in 0..(s.w * s.h - 1) |-> JunkCell],
                          !.backup_ptr = "live", !.entry = <<>>]
Unsaved(s)   == [s EXCEPT !.backup = <<>>, !.backup_ptr = "null"]

LEMMA BackupSound ==
    ASSUME NEW s, Sound(s), Matched(s), NEW t, t \in {BackedUp(s), Unsaved(s)}
    PROVE  /\ Sound(t) /\ Same(t, s, {"backup", "backup_ptr", "entry"})
           /\ t = BackedUp(s) => t.backup_ptr = "live"
           /\ t = Unsaved(s) => t.backup_ptr = "null"
<1>0. Shape(s) /\ Buffers(s) /\ Saved(s) /\ Newest(s) /\ Picture(s) /\ IsCon(s)
  BY DEF Sound, Firm, Shape
<1>1. /\ Same(t, s, {"backup", "backup_ptr", "entry"})
      /\ t = BackedUp(s) => t.backup_ptr = "live"
      /\ t = Unsaved(s) => t.backup_ptr = "null"
      /\ \/ /\ t.backup_ptr = "live" /\ t.entry = <<>>
            /\ t.backup \in [0..(s.w * s.h - 1) -> AnyCell]
         \/ t.backup_ptr = "null"
  <2>1. CASE t = BackedUp(s)
    <3> DEFINE backup == [k \in 0..(s.w * s.h - 1) |-> JunkCell]
               empty == <<>>
               r == [s EXCEPT !.backup = backup, !.backup_ptr = "live", !.entry = empty]
    <3>1. t = r
      BY <2>1 DEF BackedUp
    <3>2. JunkCell \in AnyCell
      BY DEF JunkCell, Cell, AnyCell, Chars
    <3>3. backup \in [0..(s.w * s.h - 1) -> AnyCell]
      BY <3>2
    <3>a. empty = <<>>
      OBVIOUS
    <3> HIDE DEF backup, empty
    <3>4. Same(r, s, {"backup", "backup_ptr", "entry"})
      BY <1>0, SetThree
    <3>5. r.backup = backup /\ r.backup_ptr = "live" /\ r.entry = empty
      BY <1>0 DEF IsCon, Fields
    <3> HIDE DEF r
    <3>6. t # Unsaved(s)
      <4>1. Unsaved(s).backup_ptr = "null"
        BY <1>0 DEF Unsaved, IsCon, Fields
      <4> QED BY <3>1, <3>5, <4>1
    <3> QED BY <3>1, <3>3, <3>a, <3>4, <3>5, <3>6
  <2>2. CASE t = Unsaved(s)
    <3>1. Same(t, s, {"backup", "backup_ptr"})
      BY <1>0, <2>2, SetTwo DEF Unsaved
    <3>2. t.backup_ptr = "null"
      BY <1>0, <2>2 DEF Unsaved, IsCon, Fields
    <3>3. Same(t, s, {"backup", "backup_ptr", "entry"})
      BY <3>1, SameMore
    <3>4. t # BackedUp(s)
      <4>1. BackedUp(s).backup_ptr = "live"
        BY <1>0 DEF BackedUp, IsCon, Fields
      <4> QED BY <3>2, <4>1
    <3> QED BY <2>2, <3>2, <3>3, <3>4
  <2> QED BY <2>1, <2>2
<1>6. /\ t.w = s.w /\ t.h = s.h /\ t.screen = s.screen
      /\ t.screen_ptr = s.screen_ptr /\ t.ring = s.ring /\ t.ring_ptr = s.ring_ptr
      /\ t.drawn = s.drawn /\ t.shown = s.shown /\ t.double = s.double /\ t.scale = s.scale
      /\ t.auto_swap = s.auto_swap /\ t.lines = s.lines /\ t.synced = s.synced
      /\ t.start = s.start /\ t.count = s.count
  BY <1>1 DEF Same, Fields
<1>7. Shape(t)
  <2>1. Same(t, s, BuildFields)
    BY <1>1, SameMore DEF BuildFields
  <2>2. /\ t.screen_ptr \in Pointers /\ t.backup_ptr \in Pointers /\ t.ring_ptr \in Pointers
        /\ t.auto_swap \in BOOLEAN /\ t.w \in Nat \ {0} /\ t.h \in Nat \ {0}
        /\ t.scale \in 1..MAX_SCALE
    BY <1>0, <1>1, <1>6 DEF Shape, Pointers
  <2> QED BY <1>0, <2>1, <2>2, ShapeOf
<1>8. Buffers(t)
  BY <1>0, <1>1, <1>6 DEF Buffers, Matched
<1>9. Saved(t) /\ Newest(t) /\ Picture(t)
  BY <1>0, <1>1, <1>6 DEF Saved, Newest, Picture, Index
<1> QED BY <1>1, <1>7, <1>8, <1>9 DEF Sound, Firm

Scrollable(s) == [s EXCEPT !.ring = Lines(s.w, JUNK), !.ring_ptr = "live", !.lines = <<>>]
Unscrolled(s) == [s EXCEPT !.ring = <<>>, !.ring_ptr = "null"]

LEMMA LinesType == ASSUME NEW w \in Nat \ {0}, NEW c \in Chars
                   PROVE  Lines(w, c) \in [Rows -> [0..(w - 1) -> Chars]]
BY DEF Lines

LEMMA NoLines == <<>> \in Seq(Line) /\ Len(<<>>) = 0
OBVIOUS

LEMMA ScrollbackSound ==
    ASSUME NEW s, Sound(s), Matched(s), NEW t, t \in {Scrollable(s), Unscrolled(s)}
    PROVE  /\ Sound(t) /\ Same(t, s, {"ring", "ring_ptr", "lines"})
           /\ t = Scrollable(s) => t.ring_ptr = "live" /\ t.lines = <<>>
           /\ t = Unscrolled(s) => t.ring_ptr = "null"
<1>0. Shape(s) /\ Buffers(s) /\ Saved(s) /\ Newest(s) /\ Picture(s) /\ IsCon(s)
  BY DEF Sound, Firm, Shape
<1>1. /\ Same(t, s, {"ring", "ring_ptr", "lines"})
      /\ t = Scrollable(s) => t.ring_ptr = "live" /\ t.lines = <<>>
      /\ t = Unscrolled(s) => t.ring_ptr = "null"
      /\ \/ /\ t.ring_ptr = "live" /\ t.lines = <<>>
            /\ t.ring \in [Rows -> [0..(s.w - 1) -> Chars]]
         \/ t.ring_ptr = "null" /\ t.lines = s.lines
  <2>1. CASE t = Scrollable(s)
    <3> DEFINE ring == Lines(s.w, JUNK)
               empty == <<>>
               r == [s EXCEPT !.ring = ring, !.ring_ptr = "live", !.lines = empty]
    <3>1. t = r
      BY <2>1 DEF Scrollable
    <3>3. ring \in [Rows -> [0..(s.w - 1) -> Chars]]
      BY <1>0, LinesType DEF Shape, Chars
    <3>a. empty = <<>>
      OBVIOUS
    <3> HIDE DEF ring, empty
    <3>4. Same(r, s, {"ring", "ring_ptr", "lines"})
      BY <1>0, SetThree
    <3>5. r.ring = ring /\ r.ring_ptr = "live" /\ r.lines = empty
      BY <1>0 DEF IsCon, Fields
    <3> HIDE DEF r
    <3>6. t # Unscrolled(s)
      <4>1. Unscrolled(s).ring_ptr = "null"
        BY <1>0 DEF Unscrolled, IsCon, Fields
      <4> QED BY <3>1, <3>5, <4>1
    <3> QED BY <3>1, <3>3, <3>a, <3>4, <3>5, <3>6
  <2>2. CASE t = Unscrolled(s)
    <3>1. Same(t, s, {"ring", "ring_ptr"})
      BY <1>0, <2>2, SetTwo DEF Unscrolled
    <3>2. t.ring_ptr = "null"
      BY <1>0, <2>2 DEF Unscrolled, IsCon, Fields
    <3>3. Same(t, s, {"ring", "ring_ptr", "lines"}) /\ t.lines = s.lines
      <4>1. Same(t, s, {"ring", "ring_ptr", "lines"})
        BY <3>1, SameMore
      <4> QED BY <3>1, <4>1 DEF Same, Fields
    <3>4. t # Scrollable(s)
      <4>1. Scrollable(s).ring_ptr = "live"
        BY <1>0 DEF Scrollable, IsCon, Fields
      <4> QED BY <3>2, <4>1
    <3> QED BY <2>2, <3>2, <3>3, <3>4
  <2> QED BY <2>1, <2>2
<1>6. /\ t.w = s.w /\ t.h = s.h /\ t.screen = s.screen
      /\ t.screen_ptr = s.screen_ptr /\ t.backup = s.backup /\ t.backup_ptr = s.backup_ptr
      /\ t.drawn = s.drawn /\ t.shown = s.shown /\ t.double = s.double /\ t.scale = s.scale
      /\ t.auto_swap = s.auto_swap /\ t.entry = s.entry /\ t.synced = s.synced
      /\ t.start = s.start /\ t.count = s.count
  BY <1>1 DEF Same, Fields
<1>7. Shape(t)
  <2>1. Same(t, s, BuildFields)
    BY <1>1, SameMore DEF BuildFields
  <2>2. /\ t.screen_ptr \in Pointers /\ t.backup_ptr \in Pointers /\ t.ring_ptr \in Pointers
        /\ t.auto_swap \in BOOLEAN /\ t.w \in Nat \ {0} /\ t.h \in Nat \ {0}
        /\ t.scale \in 1..MAX_SCALE
    BY <1>0, <1>1, <1>6 DEF Shape, Pointers
  <2> QED BY <1>0, <2>1, <2>2, ShapeOf
<1>8. Buffers(t)
  BY <1>0, <1>1, <1>6 DEF Buffers, Matched
<1>9. Newest(t)
  <2>1. CASE t.ring_ptr = "live" /\ t.lines = <<>>
    <3>1. t.lines \in Seq(Line) /\ Len(t.lines) = 0 /\ t.count \in Nat
      <4>1. SCROLLBACK_LINES \in Nat
        BY SizeAssumption
      <4> QED BY <1>0, <1>6, <2>1, <4>1, NoLines DEF Shape
    <3> QED BY <3>1 DEF Newest, Keeps
  <2>2. CASE t.ring_ptr = "null" /\ t.lines = s.lines
    BY <1>0, <2>2 DEF Newest
  <2> QED BY <1>1, <2>1, <2>2
<1>10. Saved(t) /\ Picture(t)
  BY <1>0, <1>1, <1>6 DEF Saved, Picture, Index
<1> QED BY <1>1, <1>7, <1>8, <1>9, <1>10 DEF Sound, Firm

Cleared(s) == [s EXCEPT !.screen = [k \in DOMAIN s.screen |-> Cell(NUL, 0)],
                        !.ring = IF s.ring_ptr = "live" THEN Lines(s.w, NUL) ELSE @]

LEMMA ClearedSound ==
    ASSUME NEW s, Sound(s), ~s.synced, s.ring_ptr = "live" => s.lines = <<>>
    PROVE  LET t == Cleared(s)
           IN  /\ Sound(t) /\ Same(t, s, {"screen", "ring"})
               /\ t.screen = [k \in DOMAIN s.screen |-> Cell(NUL, 0)]
               /\ s.ring_ptr = "live" => t.ring = Lines(s.w, NUL)
<1> DEFINE screen == [k \in DOMAIN s.screen |-> Cell(NUL, 0)]
           ring == IF s.ring_ptr = "live" THEN Lines(s.w, NUL) ELSE s.ring
           t == [s EXCEPT !.screen = screen, !.ring = ring]
<1>0. Shape(s) /\ Buffers(s) /\ Saved(s) /\ Newest(s) /\ Picture(s) /\ IsCon(s)
  BY DEF Sound, Firm, Shape
<1>1. Cleared(s) = t
  BY <1>0 DEF Cleared, IsCon, Fields
<1>2. s.screen_ptr = "live" => screen \in [0..(s.w * s.h - 1) -> AnyCell]
  BY <1>0, Blank DEF Buffers
<1>3. s.ring_ptr = "live" => ring = Lines(s.w, NUL) /\ ring \in [Rows -> [0..(s.w - 1) -> Chars]]
  BY <1>0, LinesType DEF Shape, Chars
<1>s. screen = [k \in DOMAIN s.screen |-> Cell(NUL, 0)]
  OBVIOUS
<1> HIDE DEF screen, ring
<1>4. Same(t, s, {"screen", "ring"})
  BY <1>0, SetTwo
<1>5. t.screen = screen /\ t.ring = ring
  BY <1>0 DEF IsCon, Fields
<1> HIDE DEF t
<1>6. /\ t.w = s.w /\ t.h = s.h /\ t.ring_ptr = s.ring_ptr
      /\ t.screen_ptr = s.screen_ptr /\ t.backup = s.backup /\ t.backup_ptr = s.backup_ptr
      /\ t.drawn = s.drawn /\ t.shown = s.shown /\ t.double = s.double /\ t.scale = s.scale
      /\ t.auto_swap = s.auto_swap /\ t.entry = s.entry /\ t.synced = s.synced
      /\ t.start = s.start /\ t.count = s.count /\ t.lines = s.lines
  BY <1>4 DEF Same, Fields
<1>7. Shape(t)
  <2>1. Same(t, s, BuildFields)
    BY <1>4, SameMore DEF BuildFields
  <2>2. /\ t.screen_ptr \in Pointers /\ t.backup_ptr \in Pointers /\ t.ring_ptr \in Pointers
        /\ t.auto_swap \in BOOLEAN /\ t.w \in Nat \ {0} /\ t.h \in Nat \ {0}
        /\ t.scale \in 1..MAX_SCALE
    BY <1>0, <1>6 DEF Shape
  <2> QED BY <1>0, <2>1, <2>2, ShapeOf
<1>8. Buffers(t)
  BY <1>0, <1>2, <1>3, <1>5, <1>6 DEF Buffers
<1>9. Newest(t)
  <2>1. CASE s.ring_ptr = "live"
    <3>1. t.lines \in Seq(Line) /\ Len(t.lines) = 0 /\ t.count \in Nat
      <4>1. SCROLLBACK_LINES \in Nat
        BY SizeAssumption
      <4>2. t.lines = <<>>
        BY <1>6, <2>1
      <4>3. s.count \in Nat
        BY <1>0, <4>1 DEF Shape
      <4> QED BY <1>6, <4>2, <4>3, NoLines
    <3> QED BY <3>1 DEF Newest, Keeps
  <2>2. CASE s.ring_ptr # "live"
    BY <1>0, <1>6, <2>2 DEF Newest
  <2> QED BY <2>1, <2>2
<1>10. Saved(t) /\ Picture(t)
  BY <1>0, <1>6 DEF Saved, Picture, Index
<1> QED BY <1>1, <1>3, <1>s, <1>4, <1>5, <1>7, <1>8, <1>9, <1>10 DEF Sound, Firm

-----------------------------------------------------------------------------
(* The cursor stands on a cell of the shadow buffer.                       *)
Inside(s) == s.screen_ptr = "live" /\ s.x < s.w /\ s.y < s.h

LEMMA DrawCharFields == ASSUME NEW s, IsCon(s), NEW x, NEW y, NEW cell
                        PROVE  Same(draw_char_at(s, x, y, cell), s, {"drawn", "shown"})
<1> DEFINE picture == [s.drawn EXCEPT ![<<x, y>>] = Look(cell)]
           t == draw_char_at(s, x, y, cell)
<1>1. CASE <<x, y>> \in DOMAIN s.drawn
  <2>1. t = Draw(s, picture)
    BY <1>1 DEF draw_char_at
  <2> HIDE DEF picture, t
  <2>2. Same(t, s, {"drawn", "shown"})
    BY <2>1, DrawFields
  <2> QED BY <2>2 DEF t
<1>2. CASE <<x, y>> \notin DOMAIN s.drawn
  <2>1. t = s
    BY <1>2 DEF draw_char_at
  <2> QED BY <2>1, SameSelf
<1> QED BY <1>1, <1>2

(* A store makes no picture complete, and one to a cell of the buffer, or  *)
(* without a buffer, touches nothing else.                                 *)
LEMMA StoreKeeps ==
    ASSUME NEW s, IsCon(s), NEW x, NEW y, NEW cell, s.screen_ptr \in Pointers
    PROVE  LET t == Store(s, x, y, cell)
           IN  /\ ~s.synced => ~t.synced
               /\ s.screen_ptr = "null" => t.wild = s.wild
               /\ s.screen_ptr = "live" /\ Index(s, x, y) \in DOMAIN s.screen => t.wild = s.wild
<1> DEFINE t == Store(s, x, y, cell)
<1>w. ASSUME NEW access PROVE Wild(s, access).synced = s.synced
  BY DEF Wild, IsCon, Fields
<1>1. CASE s.screen_ptr = "freed"
  BY <1>1, <1>w DEF Store
<1>2. CASE s.screen_ptr = "null"
  <2>1. t = draw_char_at(s, x, y, cell)
    BY <1>2 DEF Store
  <2> HIDE DEF t
  <2>2. Same(t, s, {"drawn", "shown"})
    BY <2>1, DrawCharFields
  <2>3. t.synced = s.synced /\ t.wild = s.wild
    BY <2>2 DEF Same, Fields
  <2> QED BY <1>2, <2>3 DEF t
<1>3. CASE s.screen_ptr = "live" /\ Index(s, x, y) \notin DOMAIN s.screen
  BY <1>3, <1>w DEF Store
<1>4. CASE s.screen_ptr = "live" /\ Index(s, x, y) \in DOMAIN s.screen
  <2> DEFINE screen == [s.screen EXCEPT ![Index(s, x, y)] = cell]
             kept == s.synced /\ x < s.w
             r == [s EXCEPT !.screen = screen, !.synced = kept]
  <2>1. t = draw_char_at(r, x, y, cell)
    BY <1>4 DEF Store
  <2>2. kept => s.synced
    OBVIOUS
  <2> HIDE DEF screen, kept, t
  <2>3. Same(r, s, {"screen", "synced"})
    BY SetTwo
  <2>4. r.synced = kept
    BY DEF IsCon, Fields
  <2> HIDE DEF r
  <2>5. Same(t, r, {"drawn", "shown"})
    BY <2>1, <2>3, DrawCharFields DEF Same
  <2>6. t.synced = kept /\ t.wild = s.wild
    BY <2>3, <2>4, <2>5 DEF Same, Fields
  <2> QED BY <1>4, <2>2, <2>6 DEF t
<1> QED BY <1>1, <1>2, <1>3, <1>4 DEF Pointers

LEMMA KputchrKeeps ==
    ASSUME NEW s, IsCon(s), NEW x, NEW y, NEW c, s.screen_ptr \in Pointers
    PROVE  LET t == kputchr(s, x, y, c)
           IN  /\ ~s.synced => ~t.synced
               /\ s.screen_ptr = "null" => t.wild = s.wild
               /\ s.screen_ptr = "live" /\ Index(s, x, y) \in DOMAIN s.screen => t.wild = s.wild
<1> DEFINE color == IF s.screen_ptr = "live" /\ Index(s, x, y) \in DOMAIN s.screen
                    THEN s.screen[Index(s, x, y)].color ELSE DEFAULT_COLOR
           cell == Cell(c, color)
<1>1. kputchr(s, x, y, c) = Store(s, x, y, cell)
  BY DEF kputchr
<1> HIDE DEF cell
<1> QED BY <1>1, StoreKeeps

LEMMA KputcolorKeeps ==
    ASSUME NEW s, IsCon(s), NEW x, NEW y, NEW color, s.screen_ptr \in Pointers
    PROVE  LET t == kputcolor(s, x, y, color)
           IN  /\ s.screen_ptr = "null" => t.wild = s.wild
               /\ s.screen_ptr = "live" /\ Index(s, x, y) \in DOMAIN s.screen => t.wild = s.wild
<1> DEFINE cell == Cell(CellAt(s, x, y).c, color)
<1>1. s.screen_ptr # "null" => kputcolor(s, x, y, color) = Store(s, x, y, cell)
  BY DEF kputcolor
<1>2. s.screen_ptr = "null" => kputcolor(s, x, y, color) = s
  BY DEF kputcolor
<1> HIDE DEF cell
<1> QED BY <1>1, <1>2, StoreKeeps

(* A cursor inside is on a cell of the buffer.                             *)
LEMMA CursorCell == ASSUME NEW s, Sound(s), s.screen_ptr = "live", NEW x \in Nat, NEW y \in Nat,
                           x < s.w, y < s.h
                    PROVE  Index(s, x, y) \in DOMAIN s.screen
<1>1. s.w \in Nat \ {0} /\ s.h \in Nat \ {0} /\ s.screen \in [0..(s.w * s.h - 1) -> AnyCell]
  BY DEF Sound, Firm, Shape, Buffers
<1>2. x \in 0..(s.w - 1) /\ y \in 0..(s.h - 1)
  BY <1>1
<1>3. Index(s, x, y) \in 0..(s.w * s.h - 1)
  BY <1>1, <1>2, CellIndex DEF Index
<1> QED BY <1>1, <1>3

(* The character itself leaves the cursor at most one cell further.        *)
LEMMA PutKeeps ==
    ASSUME NEW s, Sound(s), NEW c \in Chars \cup (Controls \ {"tab"})
    PROVE  LET t == Put(s, c)
           IN  /\ ~s.synced => ~t.synced
               /\ s.screen_ptr = "null" => t.wild = s.wild
               /\ Inside(s) => /\ t.wild = s.wild
                               /\ t.x <= s.w /\ t.y <= s.h /\ (t.x = s.w => t.y < s.h)
<1> DEFINE t == Put(s, c)
<1>1. /\ IsCon(s) /\ s.x \in Nat /\ s.y \in Nat /\ s.w \in Nat \ {0} /\ s.h \in Nat \ {0}
      /\ s.screen_ptr \in Pointers
  BY DEF Sound, Firm, Shape
<1>2. CASE c \in {"newline", "return"}
  <2>1. /\ t.x = 0 /\ t.y \in {s.y, s.y + 1} /\ t.synced = s.synced /\ t.wild = s.wild
    BY <1>1, <1>2 DEF Put, IsCon, Fields
  <2> QED BY <1>1, <2>1 DEF Inside
<1>3. ASSUME NEW x \in Nat, NEW y \in Nat, t = kputchr(At(s, x, y), x, y, SPACE),
             Inside(s) => x < s.w /\ y < s.h
      PROVE  /\ ~s.synced => ~t.synced
             /\ s.screen_ptr = "null" => t.wild = s.wild
             /\ Inside(s) => /\ t.wild = s.wild
                             /\ t.x <= s.w /\ t.y <= s.h /\ (t.x = s.w => t.y < s.h)
  <2> DEFINE r == At(s, x, y)
  <2>1. Sound(r) /\ Same(r, s, {"x", "y"}) /\ r.x = x /\ r.y = y
    BY Cursor
  <2> HIDE DEF r
  <2>2. /\ IsCon(r) /\ r.screen_ptr = s.screen_ptr /\ r.synced = s.synced /\ r.wild = s.wild
        /\ r.w = s.w /\ r.h = s.h
    BY <2>1 DEF Same, Fields
  <2>3. Same(t, r, StoreFields)
    BY <1>3, <2>1, KputchrSound DEF Chars, r
  <2>4. t.x = x /\ t.y = y
    BY <2>1, <2>3 DEF Same, Fields, StoreFields
  <2>5. /\ ~r.synced => ~t.synced
        /\ r.screen_ptr = "null" => t.wild = r.wild
        /\ r.screen_ptr = "live" /\ Index(r, x, y) \in DOMAIN r.screen => t.wild = r.wild
    BY <1>1, <1>3, <2>2, KputchrKeeps DEF r
  <2>6. Inside(s) => Index(r, x, y) \in DOMAIN r.screen
    BY <1>3, <2>1, <2>2, CursorCell DEF Inside
  <2> QED BY <1>1, <1>3, <2>2, <2>4, <2>5, <2>6 DEF Inside
<1>4. CASE c = "backspace" /\ s.x > 0
  <2> DEFINE x == s.x - 1
  <2>1. t = kputchr([s EXCEPT !.x = @ - 1], x, s.y, SPACE)
    BY <1>1, <1>4 DEF Put
  <2>2. [s EXCEPT !.x = @ - 1] = At(s, x, s.y)
    BY <1>1 DEF IsCon, Fields, At
  <2>3. x \in Nat /\ (Inside(s) => x < s.w /\ s.y < s.h)
    BY <1>1, <1>4 DEF Inside
  <2> HIDE DEF x
  <2> QED BY <1>1, <1>3, <2>1, <2>2, <2>3
<1>5. CASE c = "backspace" /\ s.x = 0 /\ s.y > 0
  <2> DEFINE x == s.w - 1
             y == s.y - 1
  <2>1. t = kputchr([s EXCEPT !.x = s.w - 1, !.y = @ - 1], x, y, SPACE)
    BY <1>1, <1>5, ~(s.x > 0) DEF Put
  <2>2. [s EXCEPT !.x = s.w - 1, !.y = @ - 1] = At(s, x, y)
    BY <1>1 DEF IsCon, Fields, At
  <2>3. x \in Nat /\ y \in Nat /\ (Inside(s) => x < s.w /\ y < s.h)
    BY <1>1, <1>5 DEF Inside
  <2> HIDE DEF x, y
  <2> QED BY <1>1, <1>3, <2>1, <2>2, <2>3
<1>6. CASE c = "backspace" /\ s.x = 0 /\ s.y <= 0
  <2>1. t = s
    BY <1>6 DEF Put
  <2> QED BY <1>1, <2>1 DEF Inside
<1>7. CASE c \notin {"newline", "return", "backspace"} /\ c \in Chars
  <2> DEFINE r == kputchr(s, s.x, s.y, c)
  <2>1. Same(r, s, StoreFields)
    BY <1>1, <1>7, KputchrSound
  <2>2. t = [r EXCEPT !.x = @ + 1]
    BY <1>7 DEF Put
  <2>3. /\ ~s.synced => ~r.synced
        /\ s.screen_ptr = "null" => r.wild = s.wild
        /\ s.screen_ptr = "live" /\ Index(s, s.x, s.y) \in DOMAIN s.screen => r.wild = s.wild
    BY <1>1, KputchrKeeps
  <2> HIDE DEF r, t
  <2>4. t.x = s.x + 1 /\ t.y = s.y /\ t.synced = r.synced /\ t.wild = r.wild
    BY <2>1, <2>2 DEF Same, IsCon, Fields, StoreFields
  <2>5. Inside(s) => Index(s, s.x, s.y) \in DOMAIN s.screen
    BY <1>1, CursorCell DEF Inside
  <2> HIDE DEF t
  <2>6. /\ ~s.synced => ~t.synced
        /\ s.screen_ptr = "null" => t.wild = s.wild
        /\ Inside(s) => t.wild = s.wild
    BY <2>3, <2>4, <2>5 DEF Inside
  <2>7. Inside(s) => t.x <= s.w /\ t.y <= s.h /\ (t.x = s.w => t.y < s.h)
    BY <1>1, <2>4 DEF Inside
  <2> QED BY <2>6, <2>7 DEF t
<1> QED BY <1>1, <1>2, <1>4, <1>5, <1>6, <1>7 DEF Controls

(* And so for kputc: with both buffers the cursor is back on a cell, with  *)
(* neither nothing is touched.                                             *)
LEMMA PutcKeeps ==
    ASSUME NEW s, Sound(s), NEW c \in Chars \cup (Controls \ {"tab"})
    PROVE  LET t == putc(s, c)
           IN  /\ ~s.synced => ~t.synced
               /\ s.ring_ptr = "null" => t.count = s.count
               /\ s.screen_ptr = "null" /\ s.ring_ptr = "null" => t.wild = s.wild
               /\ Inside(s) /\ s.ring_ptr = "live" => t.wild = s.wild /\ Inside(t)
<1> DEFINE p == Put(s, c)
           q == [p EXCEPT !.mixed = s.in_view]
           t == putc(s, c)
<1>1. t = Settle(q)
  BY DEF putc
<1> HIDE DEF t
<1>2. /\ Sound(p) /\ Same(p, s, PutFields)
      /\ ~s.synced => ~p.synced
      /\ s.screen_ptr = "null" => p.wild = s.wild
      /\ Inside(s) => /\ p.wild = s.wild
                      /\ p.x <= s.w /\ p.y <= s.h /\ (p.x = s.w => p.y < s.h)
  BY PutSound, PutKeeps
<1> HIDE DEF p
<1>3. Sound(q) /\ Same(q, p, {"mixed"})
  BY <1>2, Noted
<1> HIDE DEF q
<1>4. /\ q.x = p.x /\ q.y = p.y /\ q.synced = p.synced /\ q.wild = p.wild
      /\ q.w = s.w /\ q.h = s.h /\ q.screen_ptr = s.screen_ptr /\ q.ring_ptr = s.ring_ptr
      /\ q.count = s.count
  BY <1>2, <1>3 DEF Same, Fields, PutFields, StoreFields
<1>5. /\ Same(t, q, SettleFields)
      /\ q.ring_ptr = "null" => t.wild = q.wild /\ t.count = q.count
      /\ q.ring_ptr = "live" /\ q.screen_ptr # "freed" =>
            /\ t.wild = q.wild
            /\ q.x <= q.w /\ q.y <= q.h /\ (q.x = q.w => q.y < q.h) => t.x < q.w /\ t.y < q.h
  BY <1>1, <1>3, SettleSound
<1>6. t.synced = q.synced /\ t.w = q.w /\ t.h = q.h /\ t.screen_ptr = q.screen_ptr
  BY <1>5 DEF Same, Fields, SettleFields, ScrollFields
<1> QED BY <1>2, <1>4, <1>5, <1>6 DEF Inside, t

(* A tab that has been written ends with the cursor on a cell.             *)
LEMMA SettleKeeps ==
    ASSUME NEW s, Sound(s)
    PROVE  LET t == Settle(s)
           IN  /\ s.screen_ptr = "null" /\ s.ring_ptr = "null" => t.wild = s.wild
               /\ Inside(s) /\ s.ring_ptr = "live" => t.wild = s.wild /\ Inside(t)
<1> DEFINE t == Settle(s)
<1>1. /\ Same(t, s, SettleFields)
      /\ s.ring_ptr = "null" => t.wild = s.wild
      /\ s.ring_ptr = "live" /\ s.screen_ptr # "freed" =>
            /\ t.wild = s.wild
            /\ s.x <= s.w /\ s.y <= s.h /\ (s.x = s.w => s.y < s.h) => t.x < s.w /\ t.y < s.h
  BY SettleSound
<1>2. s.x \in Nat /\ s.y \in Nat /\ s.w \in Nat /\ s.h \in Nat
  BY DEF Sound, Firm, Shape
<1>3. Inside(s) => s.x <= s.w /\ s.y <= s.h /\ (s.x = s.w => s.y < s.h)
  BY <1>2 DEF Inside
<1> HIDE DEF t
<1>4. t.w = s.w /\ t.h = s.h /\ t.screen_ptr = s.screen_ptr
  BY <1>1 DEF Same, Fields, SettleFields, ScrollFields
<1> QED BY <1>1, <1>3, <1>4 DEF Inside, t

-----------------------------------------------------------------------------
(* What row p[2] of the view is to show in column p[1].                    *)
Expected(s, p) ==
    LET n == Len(s.lines) - s.view + 1 - (s.h - 1 - p[2])
    IN  IF n \in 1..Len(s.lines) THEN Look(Cell(s.lines[n][p[1]], DEFAULT_COLOR)) ELSE BLACK

NulLine(w) == [x \in 0..(w - 1) |-> NUL]

(* The shadow buffer holds what the view is to show, whatever its colours. *)
HoldsView(s) ==
    \A p \in Grid(s.scale) :
        LET cell == s.screen[Index(s, p[1], p[2])]
        IN  /\ Look(cell) = Expected(s, p)
            /\ Look(Cell(cell.c, DEFAULT_COLOR)) = Expected(s, p)

(* The ring's rows below the lines that were scrolled off are blank.       *)
OlderBlank(s) == OlderAre(s.ring, s.start, s.count, s.lines, NulLine(s.w))

LEMMA LineNumber == ASSUME NEW count \in Int, NEW view \in Int, NEW h \in Int, NEW y \in Int,
                           NEW size \in Int
                    PROVE  /\ count - view - (h - 1 - y) \in Int
                           /\ size - view + 1 - (h - 1 - y) \in Int
                           /\ count - view - (h - 1 - y)
                                 = count - size + (size - view + 1 - (h - 1 - y)) - 1
OBVIOUS

LEMMA HistoryExpected ==
    ASSUME NEW s, Sound(s), s.ring_ptr = "live", s.screen_ptr = "live", OlderBlank(s),
           s.screen = History(s)
    PROVE  HoldsView(s)
<1>1. /\ s.w \in Nat \ {0} /\ s.h \in Nat \ {0} /\ s.count \in 0..SCROLLBACK_LINES
      /\ s.view \in 0..s.count /\ s.start \in Rows
      /\ s.screen \in [0..(s.w * s.h - 1) -> AnyCell]
      /\ s.lines \in Seq(Line) /\ Keeps(s.ring, s.start, s.count, s.lines)
      /\ Grid(s.scale) = (0..(s.w - 1)) \X (0..(s.h - 1))
  BY GridCells DEF Sound, Firm, Shape, Buffers, Newest
<1>2. SUFFICES ASSUME NEW x \in 0..(s.w - 1), NEW y \in 0..(s.h - 1)
               PROVE  LET p == <<x, y>>
                          cell == s.screen[Index(s, p[1], p[2])]
                      IN  /\ Look(cell) = Expected(s, p)
                          /\ Look(Cell(cell.c, DEFAULT_COLOR)) = Expected(s, p)
  BY <1>1 DEF HoldsView
<1> DEFINE k == Index(s, x, y)
           m == history_line(s, y)
           size == Len(s.lines)
           n == size - s.view + 1 - (s.h - 1 - y)
           c == HistoryChar(s, k)
<1>3. k \in DOMAIN s.screen
  BY <1>1, CellIndex DEF Index
<1>4. s.screen[k] = Cell(c, DEFAULT_COLOR) /\ s.screen[k].c = c
  BY <1>3 DEF History, Cell
<1>5. k \div s.w = y /\ k % s.w = x
  <2>1. y \in Nat /\ s.w \in Nat \ {0}
    BY <1>1
  <2> QED BY <2>1, CellDiv DEF Index
<1>6. c = IF m \in 0..(s.count - 1) THEN s.ring[(s.start + m) % SCROLLBACK_LINES][x] ELSE SPACE
  BY <1>5 DEF HistoryChar
<1>7. size \in Nat /\ size <= s.count /\ s.count \in Nat /\ s.view \in Nat /\ y \in Nat
  BY <1>1, SizeAssumption DEF Keeps
<1>8. m \in Int /\ n \in Int /\ m = s.count - size + n - 1
  <2>1. s.h \in Int /\ s.count \in Int /\ size \in Int /\ s.view \in Int /\ y \in Int
    BY <1>1, <1>7
  <2> DEFINE h == s.h
             count == s.count
             view == s.view
  <2>2. m = count - view - (h - 1 - y) /\ n = size - view + 1 - (h - 1 - y)
    BY DEF history_line
  <2>3. h \in Int /\ count \in Int /\ size \in Int /\ view \in Int /\ y \in Int
    BY <2>1
  <2> HIDE DEF size, h, count, view, m, n
  <2>4. m \in Int /\ n \in Int /\ m = count - size + n - 1
    BY <2>2, <2>3, LineNumber
  <2> QED BY <2>4 DEF count
<1>9. Expected(s, <<x, y>>) = IF n \in 1..size THEN Look(Cell(s.lines[n][x], DEFAULT_COLOR)) ELSE BLACK
  BY DEF Expected
<1> HIDE DEF m, n, size, c
<1>10. Look(Cell(c, DEFAULT_COLOR)) = Expected(s, <<x, y>>)
  <2>1. CASE n \in 1..size
    <3>1. m \in 0..(s.count - 1)
      BY <1>7, <1>8, <2>1
    <3>2. s.start + m = s.start + s.count - size + n - 1
      BY <1>1, <1>7, <1>8 DEF Rows
    <3>3. s.ring[(s.start + s.count - size + n - 1) % SCROLLBACK_LINES] = s.lines[n]
      BY <1>1, <2>1 DEF Keeps, size
    <3> QED BY <1>6, <1>9, <2>1, <3>1, <3>2, <3>3
  <2>2. CASE n \notin 1..size /\ m \in 0..(s.count - 1)
    <3>1. m \in 0..(s.count - size - 1)
      BY <1>7, <1>8, <2>2
    <3>2. s.ring[(s.start + m) % SCROLLBACK_LINES] = NulLine(s.w)
      BY <3>1 DEF OlderBlank, OlderAre, size
    <3>3. c = NUL
      BY <1>6, <2>2, <3>2 DEF NulLine
    <3> QED BY <1>9, <2>2, <3>3, Blank
  <2>3. CASE n \notin 1..size /\ m \notin 0..(s.count - 1)
    BY <1>6, <1>9, <2>3, Blank
  <2> QED BY <2>1, <2>2, <2>3
<1> QED BY <1>4, <1>10

(* A view is as good where only the drawing changes.                       *)
LEMMA ViewStays ==
    ASSUME NEW s, NEW t, HoldsView(s), t.screen = s.screen, t.scale = s.scale, t.w = s.w, t.h = s.h,
           t.lines = s.lines, t.view = s.view
    PROVE  HoldsView(t)
BY DEF HoldsView, Expected, Index

(* All its cells may take the default colour.                              *)
LEMMA ViewRecolored ==
    ASSUME NEW s, NEW t, Sound(s), s.screen_ptr = "live", HoldsView(s), t.screen = Recolored(s),
           t.scale = s.scale, t.w = s.w, t.h = s.h, t.lines = s.lines, t.view = s.view
    PROVE  HoldsView(t)
<1>1. /\ s.w \in Nat \ {0} /\ s.h \in Nat \ {0}
      /\ s.screen \in [0..(s.w * s.h - 1) -> AnyCell]
      /\ Grid(s.scale) = (0..(s.w - 1)) \X (0..(s.h - 1))
  BY GridCells DEF Sound, Firm, Shape, Buffers
<1>2. SUFFICES ASSUME NEW p \in Grid(s.scale)
               PROVE  LET cell == t.screen[Index(s, p[1], p[2])]
                      IN  /\ Look(cell) = Expected(s, p)
                          /\ Look(Cell(cell.c, DEFAULT_COLOR)) = Expected(s, p)
  BY DEF HoldsView, Expected, Index
<1> DEFINE k == Index(s, p[1], p[2])
<1>a. p[1] \in 0..(s.w - 1) /\ p[2] \in 0..(s.h - 1)
  BY <1>1
<1>3. k \in DOMAIN s.screen
  BY <1>1, <1>a, CellIndex DEF Index
<1>4. t.screen[k] = Cell(s.screen[k].c, DEFAULT_COLOR) /\ t.screen[k].c = s.screen[k].c
  BY <1>3 DEF Recolored, Cell
<1> QED BY <1>4 DEF HoldsView

(* Nothing has scrolled off and every cell is blank.                       *)
LEMMA ViewBlank ==
    ASSUME NEW s, Sound(s), s.screen_ptr = "live", s.lines = <<>>,
           NEW color \in {0, DEFAULT_COLOR}, s.screen = [k \in 0..(s.w * s.h - 1) |-> Cell(NUL, color)]
    PROVE  HoldsView(s)
<1>1. s.w \in Nat \ {0} /\ s.h \in Nat \ {0} /\ Grid(s.scale) = (0..(s.w - 1)) \X (0..(s.h - 1))
  BY GridCells DEF Sound, Firm, Shape
<1>2. SUFFICES ASSUME NEW p \in Grid(s.scale)
               PROVE  LET cell == s.screen[Index(s, p[1], p[2])]
                      IN  /\ Look(cell) = Expected(s, p)
                          /\ Look(Cell(cell.c, DEFAULT_COLOR)) = Expected(s, p)
  BY DEF HoldsView
<1>a. p[1] \in 0..(s.w - 1) /\ p[2] \in 0..(s.h - 1)
  BY <1>1
<1>3. Index(s, p[1], p[2]) \in 0..(s.w * s.h - 1)
  BY <1>1, <1>a, CellIndex DEF Index
<1>4. Expected(s, p) = BLACK
  <2>1. Len(s.lines) = 0
    BY NoLines
  <2>2. \A n : n \notin 1..Len(s.lines)
    BY <2>1
  <2> QED BY <2>2 DEF Expected
<1>5. Look(Cell(NUL, color)) = BLACK /\ Look(Cell(NUL, DEFAULT_COLOR)) = BLACK
  BY Blank DEF NUL
<1>6. Cell(NUL, color).c = NUL
  BY DEF Cell
<1> QED BY <1>3, <1>4, <1>5, <1>6

(* Where every row is blank and nothing has scrolled off, so are the older *)
(* rows.                                                                   *)
LEMMA RingBlank ==
    ASSUME NEW s, Sound(s), s.ring = Lines(s.w, NUL)
    PROVE  OlderBlank(s)
<1>1. s.start \in Nat /\ s.count \in Nat
  BY SizeAssumption DEF Sound, Firm, Shape, Rows
<1>2. ASSUME NEW j \in Nat PROVE (s.start + j) % SCROLLBACK_LINES \in Rows
  <2>1. s.start + j \in Nat
    BY <1>1
  <2> QED BY <2>1, SizeAssumption, RowOf DEF Rows
<1>3. \A row \in Rows : s.ring[row] = NulLine(s.w)
  BY DEF Lines, NulLine
<1> QED BY <1>2, <1>3 DEF OlderBlank, OlderAre

-----------------------------------------------------------------------------
(* The invariant.  Where the call in progress is, and what it relies on.   *)
Quiet == {"idle", "shadow", "no_shadow", "backup", "scrollback", "fill"}

(* What console_initialize does next, when it has reported a failure.      *)
Stage == IF pc = "message" THEN ret ELSE pc

Control ==
    /\ pc \in Quiet \cup {"tab", "puts", "message"}
    /\ rescaling \in BOOLEAN
    /\ pc \in Quiet => con.auto_swap = TRUE
    /\ pc = "tab" => ret \in {"idle", "puts"} /\ i \in Nat
    /\ pc = "tab" /\ ret = "idle" => con.auto_swap = TRUE
    /\ pc = "message" => ret \in {"no_shadow", "scrollback", "fill"} /\ i \in 1..3

(* A buffer that console_set_font_scale freed is replaced in its turn.     *)
Owned ==
    /\ Stage \notin {"shadow", "no_shadow"} => con.screen_ptr # "freed"
    /\ Stage \notin {"shadow", "no_shadow", "backup"} => con.backup_ptr # "freed"
    /\ Stage \notin {"shadow", "no_shadow", "backup", "scrollback"} => con.ring_ptr # "freed"

(* While the buffers are allocated the console has its new size and no     *)
(* complete picture, and a new ring is filled before a line scrolls off.   *)
Unfinished ==
    /\ Stage \in {"no_shadow", "backup", "scrollback", "fill"} => ~con.synced /\ Matched(con)
    /\ Stage = "fill" /\ con.ring_ptr = "live" => pc = "fill" /\ con.lines = <<>>

Displayed == pc \in Quiet /\ ~con.raw => con.shown = con.drawn

Inv == Control /\ Sound(con) /\ Owned /\ Unfinished /\ Displayed

(* A step that leaves the view brings back the picture it was entered from.*)
Restores == con.in_view /\ ~con'.in_view /\ con.entry # <<>> => con'.drawn = con.entry

Owners == {"w", "h", "scale", "screen_ptr", "backup_ptr", "ring_ptr", "auto_swap"}
CallFields == Fields \ Owners

LEMMA Kept == ASSUME NEW s, NEW t, Same(t, s, CallFields)
              PROVE  /\ t.w = s.w /\ t.h = s.h /\ t.scale = s.scale /\ t.screen_ptr = s.screen_ptr
                     /\ t.backup_ptr = s.backup_ptr /\ t.ring_ptr = s.ring_ptr
                     /\ t.auto_swap = s.auto_swap
BY DEF Same, CallFields, Fields, Owners

(* A call that is one step.                                                *)
LEMMA IdleUpdate ==
    ASSUME Inv, pc = "idle", pc' = "idle", rescaling' = rescaling, Sound(con'),
           Same(con', con, CallFields), ~con'.raw => con'.shown = con'.drawn
    PROVE  Inv'
<1>1. /\ con'.screen_ptr = con.screen_ptr /\ con'.backup_ptr = con.backup_ptr
      /\ con'.ring_ptr = con.ring_ptr /\ con'.auto_swap = con.auto_swap
  BY Kept
<1>2. Stage = "idle" /\ Stage' = "idle"
  BY DEF Stage
<1>3. Control'
  BY <1>1 DEF Inv, Control, Quiet
<1>4. Owned'
  BY <1>1, <1>2 DEF Inv, Owned
<1>5. Unfinished'
  BY <1>2 DEF Unfinished
<1>6. Displayed'
  BY DEF Displayed
<1> QED BY <1>3, <1>4, <1>5, <1>6 DEF Inv

LEMMA CharacterKinds == ASSUME NEW c \in Characters, c # "tab"
                        PROVE  c \in Chars \cup (Controls \ {"tab"})
BY DEF Characters, Chars

TextCall == TextFields \cup {"mixed"}

LEMMA TextKept == ASSUME NEW s, NEW t, Same(t, s, TextCall)
                  PROVE  Same(t, s, CallFields) /\ t.in_view = s.in_view
<1>1. TextCall \subseteq CallFields
  BY DEF TextCall, TextFields, SettleFields, ScrollFields, StoreFields, CallFields, Fields, Owners
<1>2. Same(t, s, CallFields)
  BY <1>1, SameMore
<1>3. "in_view" \notin TextCall
  BY DEF TextCall, TextFields, SettleFields, ScrollFields, StoreFields
<1>4. t.in_view = s.in_view
  BY <1>3 DEF Same, Fields
<1> QED BY <1>2, <1>4

LEMMA PutcStep == ASSUME NEW s, Sound(s), NEW c \in Chars \cup (Controls \ {"tab"})
                  PROVE  LET t == putc(s, c)
                         IN  /\ Sound(t) /\ Same(t, s, CallFields) /\ t.in_view = s.in_view
                             /\ s.auto_swap => t.shown = t.drawn
                             /\ ~s.synced => ~t.synced
<1>1. Sound(putc(s, c)) /\ Same(putc(s, c), s, TextCall) /\ (s.auto_swap => putc(s, c).shown = putc(s, c).drawn)
  BY PutcSound DEF TextCall
<1>2. ~s.synced => ~putc(s, c).synced
  BY PutcKeeps
<1> QED BY <1>1, <1>2, TextKept

(* kputc, from a caller or from kputs.                                     *)
LEMMA PutCharStep ==
    ASSUME Inv, NEW c \in Characters, Kputc(c) \/ KputsChar(c)
    PROVE  Inv' /\ Restores
<1>1. pc \in {"idle", "puts"} /\ Sound(con) /\ PutChar(c)
  BY DEF Kputc, KputsChar, Callable, Running, Inv
<1>2. CASE c = "tab"
  <2>1. /\ pc' = "tab" /\ i' = 0 /\ ret' = pc /\ con' = con /\ rescaling' = rescaling
    BY <1>1, <1>2 DEF PutChar
  <2>2. Stage = pc /\ Stage' = "tab"
    BY <1>1, <2>1 DEF Stage
  <2>3. Control'
    BY <1>1, <2>1 DEF Inv, Control, Quiet
  <2>4. Owned'
    BY <1>1, <2>1, <2>2 DEF Inv, Owned
  <2>5. Unfinished'
    BY <2>2 DEF Unfinished
  <2>6. Displayed'
    BY <2>1 DEF Displayed, Quiet
  <2>7. Restores
    BY <2>1 DEF Restores
  <2> QED BY <1>1, <2>1, <2>3, <2>4, <2>5, <2>6, <2>7 DEF Inv
<1>3. CASE c # "tab"
  <2>1. con' = putc(con, c) /\ pc' = pc /\ i' = i /\ ret' = ret /\ rescaling' = rescaling
    BY <1>1, <1>3 DEF PutChar
  <2>2. /\ Sound(con') /\ Same(con', con, CallFields) /\ con'.in_view = con.in_view
        /\ con.auto_swap => con'.shown = con'.drawn
    BY <1>1, <1>3, <2>1, CharacterKinds, PutcStep
  <2>3. CASE pc = "idle"
    <3>1. con'.shown = con'.drawn
      BY <2>2, <2>3 DEF Inv, Control, Quiet
    <3>2. Inv'
      BY <2>1, <2>2, <2>3, <3>1, IdleUpdate
    <3> QED BY <2>2, <3>2 DEF Restores
  <2>4. CASE pc = "puts"
    <3>1. Stage = "puts" /\ Stage' = "puts"
      BY <2>1, <2>4 DEF Stage
    <3>2. Control'
      BY <2>1, <2>4 DEF Inv, Control, Quiet
    <3>3. Owned'
      BY <2>2, <3>1, Kept DEF Inv, Owned
    <3>4. Unfinished' /\ Displayed'
      BY <2>1, <2>4, <3>1 DEF Unfinished, Displayed, Quiet
    <3> QED BY <2>2, <3>2, <3>3, <3>4 DEF Inv, Restores
  <2> QED BY <1>1, <2>3, <2>4
<1> QED BY <1>2, <1>3

LEMMA TabStepStep == ASSUME Inv, TabStep PROVE Inv' /\ Restores
<1>1. /\ pc = "tab" /\ con' = putc(con, SPACE) /\ i' = i + 1
      /\ pc' = pc /\ ret' = ret /\ rescaling' = rescaling /\ Sound(con)
  BY DEF TabStep, Running, Inv
<1>2. Sound(con') /\ Same(con', con, CallFields) /\ con'.in_view = con.in_view
  BY <1>1, PutcStep DEF Chars
<1>3. con'.auto_swap = con.auto_swap
  BY <1>2, Kept
<1>4. Stage = "tab" /\ Stage' = "tab"
  BY <1>1 DEF Stage
<1>5. Control'
  BY <1>1, <1>3 DEF Inv, Control, Quiet
<1>6. Owned'
  BY <1>2, <1>4, Kept DEF Inv, Owned
<1>7. Unfinished' /\ Displayed'
  BY <1>1, <1>4 DEF Unfinished, Displayed, Quiet
<1> QED BY <1>2, <1>5, <1>6, <1>7 DEF Inv, Restores

LEMMA TabDoneStep == ASSUME Inv, TabDone PROVE Inv' /\ Restores
<1>1. /\ pc = "tab" /\ con' = Settle(con) /\ i' = 0
      /\ pc' = ret /\ ret' = "idle" /\ rescaling' = rescaling /\ Sound(con)
  BY DEF TabDone, Running, Inv
<1>2. /\ Sound(con') /\ Same(con', con, SettleFields)
      /\ con.auto_swap => con'.shown = con'.drawn
  BY <1>1, SettleSound
<1>3. Same(con', con, CallFields) /\ con'.in_view = con.in_view
  <2>1. Same(con', con, TextCall)
    BY <1>2, SameMore DEF TextCall, TextFields
  <2> QED BY <2>1, TextKept
<1>4. con'.auto_swap = con.auto_swap
  BY <1>3, Kept
<1>5. ret \in {"idle", "puts"} /\ (ret = "idle" => con.auto_swap = TRUE)
  BY <1>1 DEF Inv, Control
<1>6. Stage = "tab" /\ Stage' = ret
  BY <1>1, <1>5 DEF Stage
<1>7. Control'
  BY <1>1, <1>4, <1>5 DEF Inv, Control, Quiet
<1>8. Owned'
  BY <1>3, <1>5, <1>6, Kept DEF Inv, Owned
<1>9. Unfinished'
  BY <1>5, <1>6 DEF Unfinished
<1>10. Displayed'
  BY <1>1, <1>2, <1>5 DEF Displayed, Quiet
<1> QED BY <1>2, <1>3, <1>7, <1>8, <1>9, <1>10 DEF Inv, Restores

-----------------------------------------------------------------------------
(* The calls that are one step.                                            *)
LEMMA KputsSteps == ASSUME Inv, Kputs \/ KputsEnd PROVE Inv' /\ Restores
<1>0. Sound(con) /\ Firm(con) /\ Picture(con)
  BY DEF Inv, Sound
<1>1. CASE Kputs
  <2>1. pc = "idle" /\ con' = Switched(con, FALSE) /\ pc' = "puts" /\ rescaling' = rescaling
    BY <1>1 DEF Kputs, Callable, Switched
  <2>2. Sound(con') /\ Same(con', con, {"auto_swap"})
    BY <1>0, <2>1, AutoSound
  <2>3. Stage = "idle" /\ Stage' = "puts"
    BY <2>1 DEF Stage
  <2>4. Control'
    BY <2>1 DEF Inv, Control, Quiet
  <2>5. Owned'
    <3>1. /\ con'.screen_ptr = con.screen_ptr /\ con'.backup_ptr = con.backup_ptr
          /\ con'.ring_ptr = con.ring_ptr
      BY <2>2 DEF Same, Fields
    <3> QED BY <2>3, <3>1 DEF Inv, Owned
  <2>6. Unfinished' /\ Displayed'
    BY <2>1, <2>3 DEF Unfinished, Displayed, Quiet
  <2>7. Restores
    BY <2>2 DEF Restores, Same, Fields
  <2> QED BY <2>2, <2>4, <2>5, <2>6, <2>7 DEF Inv
<1>2. CASE KputsEnd
  <2> DEFINE s == Switched(con, TRUE)
  <2>1. pc = "puts" /\ con' = Swap(s) /\ pc' = "idle" /\ rescaling' = rescaling
    BY <1>2 DEF KputsEnd, Running, Switched
  <2>2. Sound(s) /\ Same(s, con, {"auto_swap"}) /\ s.auto_swap = TRUE
    BY <1>0, AutoSound
  <2> HIDE DEF s
  <2>3. Sound(con') /\ con'.shown = con'.drawn /\ Same(con', s, {"shown", "raw"})
    BY <2>1, <2>2, SwapSound DEF Sound
  <2>4. /\ con'.screen_ptr = con.screen_ptr /\ con'.backup_ptr = con.backup_ptr
        /\ con'.ring_ptr = con.ring_ptr /\ con'.in_view = con.in_view /\ con'.auto_swap = TRUE
    BY <2>2, <2>3 DEF Same, Fields
  <2>5. Stage = "puts" /\ Stage' = "idle"
    BY <2>1 DEF Stage
  <2>6. Control'
    BY <2>1, <2>4 DEF Inv, Control, Quiet
  <2>7. Owned'
    BY <2>4, <2>5 DEF Inv, Owned
  <2>8. Unfinished' /\ Displayed'
    BY <2>3, <2>5 DEF Unfinished, Displayed
  <2> QED BY <2>3, <2>4, <2>6, <2>7, <2>8 DEF Inv, Restores
<1> QED BY <1>1, <1>2

LEMMA Apart == /\ ClrscrFields \cup {"mixed"} \subseteq CallFields
               /\ RedrawFields \subseteq CallFields /\ {"shown", "raw"} \subseteq CallFields
               /\ ViewFields \subseteq CallFields
               /\ StoreFields \cup {"mixed", "raw"} \subseteq CallFields
               /\ DoubleFields \subseteq CallFields
               /\ "in_view" \notin ClrscrFields \cup {"mixed"} /\ "in_view" \notin RedrawFields
               /\ "in_view" \notin StoreFields \cup {"mixed", "raw"}
               /\ "in_view" \notin DoubleFields
BY DEF ClrscrFields, RedrawFields, ViewFields, StoreFields, DoubleFields, CallFields, Fields, Owners

LEMMA InView == ASSUME NEW s, NEW t, NEW C, Same(t, s, C), "in_view" \notin C
                PROVE  t.in_view = s.in_view
BY DEF Same, Fields

LEMMA ClrscrStep == ASSUME Inv, Clrscr PROVE Inv' /\ Restores
<1> DEFINE s == clrscr(con)
<1>1. /\ pc = "idle" /\ pc' = pc /\ rescaling' = rescaling
      /\ con' = [s EXCEPT !.mixed = con.in_view] /\ Sound(con)
  BY DEF Clrscr, Callable, Update, Inv
<1>2. Sound(s) /\ Same(s, con, ClrscrFields) /\ s.shown = s.drawn
  BY <1>1, ClrscrSound DEF Sound
<1> HIDE DEF s
<1>3. Sound(con') /\ Same(con', s, {"mixed"})
  BY <1>1, <1>2, Noted
<1>4. Same(con', con, ClrscrFields \cup {"mixed"})
  BY <1>2, <1>3, SameTrans
<1>5. con'.shown = con'.drawn
  BY <1>2, <1>3 DEF Same, Fields
<1>6. Same(con', con, CallFields) /\ con'.in_view = con.in_view
  BY <1>4, Apart, SameMore, InView
<1> QED BY <1>1, <1>3, <1>5, <1>6, IdleUpdate DEF Restores

LEMMA RefreshSteps == ASSUME Inv, Refresh \/ RefreshColor \/ Swapping PROVE Inv' /\ Restores
<1>1. /\ pc = "idle" /\ pc' = pc /\ rescaling' = rescaling /\ Sound(con) /\ con.screen_ptr # "freed"
      /\ con' \in {console_refresh(con), refresh_screen_color(con), Swap(con)}
  BY DEF Refresh, RefreshColor, Swapping, Callable, Update, Inv, Owned, Stage
<1>2. CASE con' = console_refresh(con)
  <2>1. Sound(con') /\ Same(con', con, RedrawFields) /\ con'.shown = con'.drawn
    BY <1>1, <1>2, RefreshSound
  <2>2. Same(con', con, CallFields) /\ con'.in_view = con.in_view
    BY <2>1, Apart, SameMore, InView
  <2> QED BY <1>1, <2>1, <2>2, IdleUpdate DEF Restores
<1>3. CASE con' = refresh_screen_color(con)
  <2>1. Sound(con') /\ Same(con', con, RedrawFields) /\ con'.shown = con'.drawn
    BY <1>1, <1>3, RecolorSound
  <2>2. Same(con', con, CallFields) /\ con'.in_view = con.in_view
    BY <2>1, Apart, SameMore, InView
  <2> QED BY <1>1, <2>1, <2>2, IdleUpdate DEF Restores
<1>4. CASE con' = Swap(con)
  <2>1. Sound(con') /\ Same(con', con, {"shown", "raw"}) /\ con'.shown = con'.drawn
    BY <1>1, <1>4, SwapSound DEF Sound
  <2>2. Same(con', con, CallFields) /\ con'.in_view = con.in_view
    <3>1. Same(con', con, CallFields)
      BY <2>1, Apart, SameMore
    <3>2. con'.in_view = con.in_view
      BY <2>1 DEF Same, Fields
    <3> QED BY <3>1, <3>2
  <2> QED BY <1>1, <2>1, <2>2, IdleUpdate DEF Restores
<1> QED BY <1>1, <1>2, <1>3, <1>4

LEMMA ViewSteps == ASSUME Inv, ViewUp \/ ViewDown PROVE Inv' /\ Restores
<1>1. /\ pc = "idle" /\ pc' = pc /\ rescaling' = rescaling /\ Sound(con) /\ con.screen_ptr # "freed"
      /\ con.backup_ptr # "freed" /\ con.ring_ptr # "freed"
      /\ con' \in {view_scrollback_up(con), view_scrollback_down(con)}
  BY DEF ViewUp, ViewDown, Callable, Update, Inv, Owned, Stage
<1>2. /\ Sound(con') /\ Same(con', con, ViewFields)
      /\ con.shown = con.drawn => con'.shown = con'.drawn
      /\ con'.raw \/ con'.raw = con.raw \/ con'.shown = con'.drawn
      /\ Restores
  <2>1. CASE con' = view_scrollback_up(con)
    <3>1. /\ Sound(con') /\ Same(con', con, ViewFields)
          /\ con.shown = con.drawn => con'.shown = con'.drawn
          /\ con'.raw \/ con'.raw = con.raw \/ con'.shown = con'.drawn
          /\ con.in_view => con'.in_view
      BY <1>1, <2>1, UpSound
    <3> QED BY <3>1 DEF Restores
  <2>2. CASE con' = view_scrollback_down(con)
    <3>1. /\ Sound(con') /\ Same(con', con, ViewFields)
          /\ con.shown = con.drawn => con'.shown = con'.drawn
          /\ con'.raw \/ con'.raw = con.raw \/ con'.shown = con'.drawn
      BY <1>1, <2>2, DownSound
    <3>2. \/ con' = con
          \/ con'.in_view = TRUE
          \/ con.entry # <<>> => con'.drawn = con.entry
      BY <1>1, <2>2, DownSound
    <3> QED BY <3>1, <3>2 DEF Restores
  <2> QED BY <1>1, <2>1, <2>2
<1>3. Same(con', con, CallFields)
  BY <1>2, Apart, SameMore
<1>4. ~con'.raw => con'.shown = con'.drawn
  BY <1>1, <1>2 DEF Inv, Displayed, Quiet
<1> QED BY <1>1, <1>2, <1>3, <1>4, IdleUpdate

(* The cells that callers may write to.                                    *)
LEMMA CellsNat == ASSUME NEW s, Sound(s), NEW p \in (0..(s.w - 1)) \X (0..(s.h - 1))
                  PROVE  /\ p[1] \in Nat /\ p[2] \in Nat
                         /\ p[1] < s.w /\ p[2] < s.h
<1>1. s.w \in Nat \ {0} /\ s.h \in Nat \ {0}
  BY DEF Sound, Firm, Shape
<1> QED BY <1>1

LEMMA DirectStep ==
    ASSUME Inv, NEW s, Sound(s), Same(s, con, StoreFields), Direct(s)
    PROVE  Inv' /\ Restores
<1>1. pc = "idle" /\ pc' = pc /\ rescaling' = rescaling /\ con' = Marked(s)
  BY DEF Direct, Callable, Marked
<1>2. Sound(con') /\ Same(con', s, {"mixed", "raw"}) /\ con'.raw = s.double
  BY <1>1, MarkedSound
<1>3. Same(con', con, StoreFields \cup {"mixed", "raw"})
  BY <1>2, SameTrans
<1>4. Same(con', con, CallFields) /\ con'.in_view = con.in_view
  BY <1>3, Apart, SameMore, InView
<1>5. ~con'.raw => con'.shown = con'.drawn
  <2>1. con'.double = s.double
    BY <1>2 DEF Same, Fields
  <2> QED BY <1>2, <2>1 DEF Sound, Firm, Buffers
<1> QED BY <1>1, <1>2, <1>4, <1>5, IdleUpdate DEF Restores

LEMMA DirectSteps ==
    ASSUME Inv, NEW p \in Cells,
           (\E c \in Letters : Kputchr(p, c)) \/ (\E color \in Colors : Kputcolor(p, color))
    PROVE  Inv' /\ Restores
<1>1. Sound(con) /\ p[1] \in Nat /\ p[2] \in Nat
  BY CellsNat DEF Inv, Cells
<1>2. ASSUME NEW c \in Letters, Kputchr(p, c) PROVE Inv' /\ Restores
  <2> DEFINE s == kputchr(con, p[1], p[2], c)
  <2>1. Sound(s) /\ Same(s, con, StoreFields) /\ Direct(s)
    BY <1>1, <1>2, KputchrSound DEF Chars, Kputchr
  <2> HIDE DEF s
  <2> QED BY <2>1, DirectStep
<1>3. ASSUME NEW color \in Colors, Kputcolor(p, color) PROVE Inv' /\ Restores
  <2> DEFINE s == kputcolor(con, p[1], p[2], color)
  <2>1. Sound(s) /\ Same(s, con, StoreFields) /\ Direct(s)
    BY <1>1, <1>3, ColorAssumption, KputcolorSound DEF Kputcolor
  <2> HIDE DEF s
  <2> QED BY <2>1, DirectStep
<1> QED BY <1>2, <1>3

LEMMA DoubleStep ==
    ASSUME Inv, NEW enabled \in BOOLEAN, NEW ok \in BOOLEAN, SetDoubleBuffering(enabled, ok)
    PROVE  Inv' /\ Restores
<1>1. /\ pc = "idle" /\ pc' = pc /\ rescaling' = rescaling /\ Sound(con)
      /\ con' = set_double_buffering(con, enabled, ok)
  BY DEF SetDoubleBuffering, Callable, Update, Inv
<1>2. /\ Sound(con') /\ Same(con', con, DoubleFields)
      /\ con' = con \/ con'.raw \/ con'.shown = con'.drawn
  BY <1>1, DoubleSound
<1>3. Same(con', con, CallFields) /\ con'.in_view = con.in_view
  BY <1>2, Apart, SameMore, InView
<1>4. ~con'.raw => con'.shown = con'.drawn
  BY <1>1, <1>2 DEF Inv, Displayed, Quiet
<1> QED BY <1>1, <1>2, <1>3, <1>4, IdleUpdate DEF Restores

-----------------------------------------------------------------------------
(* console_set_font_scale and console_initialize.                          *)
LEMMA ClampedScale == ASSUME NEW n \in Int PROVE Clamped(n) \in 1..MAX_SCALE
BY ScreenAssumption DEF Clamped

LEMMA RescaleStep == ASSUME Inv, NEW n \in Scales, SetFontScale(n) PROVE Inv' /\ Restores
<1> DEFINE scale == Clamped(n)
<1>1. scale \in 1..MAX_SCALE
  BY ScaleAssumption, ClampedScale
<1>2. /\ pc = "idle" /\ pc' = "shadow" /\ rescaling' = TRUE /\ Sound(con)
      /\ con' = Rescaled(con, scale)
  BY DEF SetFontScale, Callable, Rescaled, Inv
<1> HIDE DEF scale
<1>3. /\ Sound(con') /\ Same(con', con, RescaleFields)
      /\ con.shown = con.drawn => con'.shown = con'.drawn
  BY <1>1, <1>2, RescaleSound
<1>4. con'.raw = con.raw /\ con'.auto_swap = con.auto_swap /\ con'.in_view = con.in_view
  BY <1>3 DEF Same, Fields, RescaleFields
<1>5. Stage' = "shadow"
  BY <1>2 DEF Stage
<1>6. Control'
  BY <1>2, <1>4 DEF Inv, Control, Quiet
<1>7. Owned' /\ Unfinished'
  BY <1>5 DEF Owned, Unfinished
<1>8. Displayed'
  BY <1>2, <1>3, <1>4 DEF Inv, Displayed, Quiet
<1> QED BY <1>3, <1>4, <1>6, <1>7, <1>8 DEF Inv, Restores

LEMMA InitializeStep == ASSUME Inv, ConsoleInitialize PROVE Inv' /\ Restores
<1>1. pc = "idle" /\ pc' = "shadow" /\ rescaling' = FALSE /\ con' = con
  BY DEF ConsoleInitialize, Callable
<1>2. Stage' = "shadow"
  BY <1>1 DEF Stage
<1>3. Control' /\ Displayed'
  BY <1>1 DEF Inv, Control, Displayed, Quiet
<1>4. Owned' /\ Unfinished'
  BY <1>2 DEF Owned, Unfinished
<1>5. Sound(con') /\ Restores
  BY <1>1 DEF Inv, Restores
<1> QED BY <1>3, <1>4, <1>5 DEF Inv

(* A buffer is allocated, or the message about it begins.                  *)
BuildStage == {"no_shadow", "backup", "scrollback", "fill"}

LEMMA Allocated ==
    ASSUME Inv, NEW t, Sound(t), t.in_view = con.in_view, t.auto_swap = con.auto_swap,
           t.raw = con.raw, t.shown = con.shown, t.drawn = con.drawn,
           pc \in {"shadow", "backup", "scrollback"}, rescaling' = rescaling,
           NEW stage \in BuildStage,
           \/ pc' = stage /\ con' = t /\ stage # "no_shadow"
           \/ pc' = "message" /\ ret' = stage /\ i' = 1 /\ con' = Switched(t, FALSE) /\ stage # "backup",
           ~t.synced, Matched(t),
           stage # "no_shadow" => t.screen_ptr # "freed",
           stage \in {"scrollback", "fill"} => t.backup_ptr # "freed",
           stage = "fill" => t.ring_ptr # "freed",
           stage = "fill" /\ t.ring_ptr = "live" => t.lines = <<>> /\ pc' = "fill"
    PROVE  Inv' /\ Restores
<1>1. Stage' = stage
  BY DEF Stage, BuildStage
<1>2. /\ Sound(con') /\ con'.in_view = con.in_view /\ con'.screen_ptr = t.screen_ptr
      /\ con'.backup_ptr = t.backup_ptr /\ con'.ring_ptr = t.ring_ptr /\ con'.synced = t.synced
      /\ con'.w = t.w /\ con'.h = t.h /\ con'.scale = t.scale
      /\ pc' # "message" => con' = t
  <2>1. CASE con' = t /\ pc' # "message"
    BY <2>1
  <2>2. CASE con' = Switched(t, FALSE) /\ pc' = "message"
    <3>1. Sound(con') /\ Same(con', t, {"auto_swap"})
      BY <2>2, AutoSound
    <3> QED BY <2>2, <3>1 DEF Same, Fields
  <2> QED BY <2>1, <2>2 DEF BuildStage
<1>3. Control'
  <2>1. pc' = "message" => i' \in 1..3
    <3>1. pc' = "message" => i' = 1
      BY Zenon DEF BuildStage
    <3> QED BY <3>1
  <2>2. con.auto_swap = TRUE /\ rescaling \in BOOLEAN
    BY DEF Inv, Control, Quiet
  <2>3. pc' = "message" => ret' \in {"no_shadow", "scrollback", "fill"}
    BY DEF BuildStage
  <2> QED BY <1>2, <2>1, <2>2, <2>3 DEF Control, Quiet, BuildStage
<1>4. Owned'
  BY <1>1, <1>2 DEF Owned, BuildStage
<1>5. Unfinished'
  <2>1. ~con'.synced /\ Matched(con')
    BY <1>2 DEF Matched
  <2>2. stage = "fill" /\ con'.ring_ptr = "live" => pc' = "fill" /\ con'.lines = <<>>
    BY <1>2
  <2> QED BY <1>1, <2>1, <2>2 DEF Unfinished
<1>6. Displayed'
  <2>1. pc' \in Quiet => con' = t
    BY <1>2 DEF Quiet
  <2> QED BY <2>1 DEF Inv, Displayed, Quiet
<1> QED BY <1>2, <1>3, <1>4, <1>5, <1>6 DEF Inv, Restores

LEMMA AllocShadowStep == ASSUME Inv, NEW ok \in BOOLEAN, AllocShadow(ok) PROVE Inv' /\ Restores
<1> DEFINE s == Resized(con)
           t == IF ok THEN Shadowed(s) ELSE s
<1>1. Sound(con) /\ pc = "shadow" /\ rescaling' = rescaling
  BY DEF AllocShadow, Allocate, Running, Inv
<1>2. \/ ok /\ con' = Shadowed(s) /\ pc' = "backup"
      \/ /\ ~ok /\ con' = Switched(s, FALSE)
         /\ pc' = "message" /\ ret' = "no_shadow" /\ i' = 1
  BY DEF AllocShadow, Allocate, Resized, Shadowed, Switched
<1>3. Sound(s) /\ Same(s, con, {"w", "h", "synced"}) /\ Matched(s) /\ ~s.synced
  BY <1>1, ResizeSound
<1> HIDE DEF s
<1>4. /\ Sound(t) /\ Same(t, s, {"screen", "screen_ptr"})
      /\ ok => t.screen_ptr = "live"
  <2>1. CASE ok
    <3>1. t = Shadowed(s)
      BY <2>1
    <3> HIDE DEF t
    <3> QED BY <1>3, <3>1, ShadowSound
  <2>2. CASE ~ok
    <3>1. t = s
      BY <2>2
    <3> HIDE DEF t
    <3> QED BY <1>3, <2>2, <3>1, SameSelf DEF Same
  <2> QED BY <2>1, <2>2
<1>5. /\ ok => con' = t /\ pc' = "backup"
      /\ ~ok => con' = Switched(t, FALSE) /\ pc' = "message" /\ ret' = "no_shadow" /\ i' = 1
  BY <1>2
<1> HIDE DEF t
<1>6. /\ t.in_view = con.in_view /\ t.auto_swap = con.auto_swap /\ t.raw = con.raw
      /\ t.shown = con.shown /\ t.drawn = con.drawn /\ ~t.synced /\ Matched(t)
  BY <1>3, <1>4 DEF Same, Fields, Matched
<1>7. CASE ok
  <2> DEFINE stage == "backup"
  <2>1. stage \in BuildStage /\ t.screen_ptr # "freed"
    BY <1>4, <1>7 DEF BuildStage
  <2> QED BY <1>1, <1>4, <1>5, <1>6, <1>7, <2>1, Allocated
<1>8. CASE ~ok
  <2> DEFINE stage == "no_shadow"
  <2>1. stage \in BuildStage
    BY DEF BuildStage
  <2> QED BY <1>1, <1>4, <1>5, <1>6, <1>8, <2>1, Allocated
<1> QED BY <1>7, <1>8

LEMMA AllocBackupStep == ASSUME Inv, NEW ok \in BOOLEAN, AllocBackup(ok) PROVE Inv' /\ Restores
<1> DEFINE t == IF ok THEN BackedUp(con) ELSE Unsaved(con)
<1>1. /\ Sound(con) /\ pc = "backup" /\ rescaling' = rescaling
      /\ con.screen_ptr # "freed" /\ Matched(con) /\ ~con.synced
  <2>1. Sound(con) /\ pc = "backup" /\ rescaling' = rescaling
    BY DEF AllocBackup, Allocate, Running, Inv
  <2>2. Stage = "backup"
    BY <2>1 DEF Stage
  <2> QED BY <2>1, <2>2 DEF Inv, Owned, Unfinished
<1>2. \/ con' = t /\ pc' = "scrollback"
      \/ con' = Switched(t, FALSE) /\ pc' = "message" /\ ret' = "scrollback" /\ i' = 1
  BY <1>1 DEF AllocBackup, Allocate, BackedUp, Unsaved, Switched
<1>3. t \in {BackedUp(con), Unsaved(con)}
  BY DEF t
<1> HIDE DEF t
<1>4. Sound(t) /\ Same(t, con, {"backup", "backup_ptr", "entry"}) /\ t.backup_ptr # "freed"
  BY <1>1, <1>3, BackupSound
<1>5. /\ t.in_view = con.in_view /\ t.auto_swap = con.auto_swap /\ t.raw = con.raw
      /\ t.shown = con.shown /\ t.drawn = con.drawn /\ ~t.synced /\ Matched(t)
      /\ t.screen_ptr # "freed"
  BY <1>1, <1>4 DEF Same, Fields, Matched
<1> DEFINE stage == "scrollback"
<1>6. stage \in BuildStage
  BY DEF BuildStage
<1> QED BY <1>1, <1>2, <1>4, <1>5, <1>6, Allocated

LEMMA AllocScrollbackStep ==
    ASSUME Inv, NEW ok \in BOOLEAN, AllocScrollback(ok) PROVE Inv' /\ Restores
<1> DEFINE t == IF ok THEN Scrollable(con) ELSE Unscrolled(con)
<1>1. /\ Sound(con) /\ pc = "scrollback" /\ rescaling' = rescaling
      /\ con.screen_ptr # "freed" /\ con.backup_ptr # "freed" /\ Matched(con) /\ ~con.synced
  <2>1. Sound(con) /\ pc = "scrollback" /\ rescaling' = rescaling
    BY DEF AllocScrollback, Allocate, Running, Inv
  <2>2. Stage = "scrollback"
    BY <2>1 DEF Stage
  <2> QED BY <2>1, <2>2 DEF Inv, Owned, Unfinished
<1>2. \/ t = Scrollable(con) /\ con' = t /\ pc' = "fill"
      \/ /\ t = Unscrolled(con) /\ con' = Switched(t, FALSE)
         /\ pc' = "message" /\ ret' = "fill" /\ i' = 1
  BY <1>1 DEF AllocScrollback, Allocate, Scrollable, Unscrolled, Switched
<1> HIDE DEF t
<1>3. /\ Sound(t) /\ Same(t, con, {"ring", "ring_ptr", "lines"})
      /\ t = Scrollable(con) => t.ring_ptr = "live" /\ t.lines = <<>>
      /\ t = Unscrolled(con) => t.ring_ptr = "null"
  BY <1>1, <1>2, ScrollbackSound
<1>4. /\ t.in_view = con.in_view /\ t.auto_swap = con.auto_swap /\ t.raw = con.raw
      /\ t.shown = con.shown /\ t.drawn = con.drawn /\ ~t.synced /\ Matched(t)
      /\ t.screen_ptr # "freed" /\ t.backup_ptr # "freed"
  BY <1>1, <1>3 DEF Same, Fields, Matched
<1> DEFINE stage == "fill"
<1>5. stage \in BuildStage /\ t.ring_ptr # "freed"
  BY <1>2, <1>3 DEF BuildStage
<1>6. t.ring_ptr = "live" => t.lines = <<>> /\ pc' = "fill"
  BY <1>2, <1>3
<1> QED BY <1>1, <1>2, <1>3, <1>4, <1>5, <1>6, Allocated

LEMMA NoShadowStep == ASSUME Inv, NoShadow PROVE Inv' /\ Restores
<1>1. /\ Sound(con) /\ pc = "no_shadow" /\ con' = Unshadowed(con) /\ pc' = "backup"
      /\ rescaling' = rescaling
  BY DEF NoShadow, Running, Unshadowed, Inv
<1>2. Sound(con') /\ Same(con', con, {"screen", "screen_ptr"}) /\ con'.screen_ptr = "null"
  BY <1>1, UnshadowSound
<1>3. Stage = "no_shadow" /\ Stage' = "backup"
  BY <1>1 DEF Stage
<1>4. /\ con'.auto_swap = con.auto_swap /\ con'.synced = con.synced /\ con'.raw = con.raw
      /\ con'.shown = con.shown /\ con'.drawn = con.drawn /\ con'.in_view = con.in_view
      /\ con'.w = con.w /\ con'.h = con.h /\ con'.scale = con.scale
  BY <1>2 DEF Same, Fields
<1>5. Control'
  BY <1>1, <1>4 DEF Inv, Control, Quiet
<1>6. Owned'
  BY <1>2, <1>3 DEF Owned
<1>7. Unfinished'
  BY <1>3, <1>4 DEF Inv, Unfinished, Matched
<1>8. Displayed'
  BY <1>1, <1>4 DEF Inv, Displayed, Quiet
<1> QED BY <1>2, <1>4, <1>5, <1>6, <1>7, <1>8 DEF Inv, Restores

LEMMA MessageText == /\ Len(Message) = 2
                     /\ \A k \in 1..2 : Message[k] \in Chars \cup (Controls \ {"tab"})
BY DEF Message, Chars, Controls

LEMMA MessageStepStep == ASSUME Inv, MessageStep PROVE Inv' /\ Restores
<1>1. /\ Sound(con) /\ pc = "message" /\ rescaling' = rescaling
      /\ ret \in {"no_shadow", "scrollback", "fill"} /\ i \in 1..3
  BY DEF MessageStep, Running, Inv, Control
<1>2. Stage = ret
  BY <1>1 DEF Stage
<1>3. CASE i <= 2
  <2>1. con' = putc(con, Message[i]) /\ i' = i + 1 /\ pc' = pc /\ ret' = ret
    BY <1>3, MessageText DEF MessageStep
  <2>2. /\ Sound(con') /\ Same(con', con, CallFields) /\ con'.in_view = con.in_view
        /\ ~con.synced => ~con'.synced
    <3> DEFINE c == Message[i]
    <3>1. c \in Chars \cup (Controls \ {"tab"})
      BY <1>1, <1>3, MessageText
    <3> HIDE DEF c
    <3>2. con' = putc(con, c)
      BY <2>1 DEF c
    <3> QED BY <1>1, <3>1, <3>2, PutcStep
  <2>3. Stage' = ret
    BY <1>1, <2>1 DEF Stage
  <2>4. i' \in 1..3
    BY <1>1, <1>3, <2>1
  <2>5. Control'
    BY <1>1, <2>1, <2>4 DEF Inv, Control, Quiet
  <2>6. Owned'
    BY <1>2, <2>2, <2>3, Kept DEF Inv, Owned
  <2>7. Unfinished'
    <3>1. Matched(con) => Matched(con')
      BY <2>2, Kept DEF Matched
    <3>2. ~(ret = "fill" /\ con'.ring_ptr = "live")
      BY <1>1, <1>2, <2>2, Kept DEF Inv, Unfinished
    <3> QED BY <1>2, <2>2, <2>3, <3>1, <3>2 DEF Inv, Unfinished
  <2>8. Displayed'
    BY <1>1, <2>1 DEF Displayed, Quiet
  <2> QED BY <2>2, <2>5, <2>6, <2>7, <2>8 DEF Inv, Restores
<1>4. CASE ~(i <= 2)
  <2> DEFINE s == Switched(con, TRUE)
  <2>1. con' = Swap(s) /\ pc' = ret
    BY <1>4, MessageText DEF MessageStep, Switched
  <2>2. Sound(s) /\ Same(s, con, {"auto_swap"}) /\ s.auto_swap = TRUE
    BY <1>1, AutoSound
  <2> HIDE DEF s
  <2>3. Sound(con') /\ con'.shown = con'.drawn /\ Same(con', s, {"shown", "raw"})
    BY <2>1, <2>2, SwapSound DEF Sound
  <2>4. /\ con'.screen_ptr = con.screen_ptr /\ con'.backup_ptr = con.backup_ptr
        /\ con'.ring_ptr = con.ring_ptr /\ con'.in_view = con.in_view /\ con'.auto_swap = TRUE
        /\ con'.synced = con.synced /\ con'.w = con.w /\ con'.h = con.h /\ con'.scale = con.scale
    BY <2>2, <2>3 DEF Same, Fields
  <2>5. Stage' = ret
    BY <1>1, <2>1 DEF Stage
  <2>6. Control'
    BY <1>1, <2>1, <2>4 DEF Inv, Control, Quiet
  <2>7. Owned'
    BY <1>2, <2>4, <2>5 DEF Inv, Owned
  <2>8. Unfinished'
    <3>1. Matched(con) => Matched(con')
      BY <2>4 DEF Matched
    <3>2. ~(ret = "fill" /\ con'.ring_ptr = "live")
      BY <1>1, <1>2, <2>4 DEF Inv, Unfinished
    <3> QED BY <1>2, <2>4, <2>5, <3>1, <3>2 DEF Inv, Unfinished
  <2>9. Displayed'
    BY <2>3 DEF Displayed
  <2> QED BY <2>3, <2>4, <2>6, <2>7, <2>8, <2>9 DEF Inv, Restores
<1> QED BY <1>3, <1>4

-----------------------------------------------------------------------------
FilledIn(s, ok) == set_double_buffering(Cleared(s), TRUE, ok)

LEMMA FillSound ==
    ASSUME NEW s, Sound(s), ~s.synced, s.ring_ptr = "live" => s.lines = <<>>, NEW ok \in BOOLEAN
    PROVE  LET t == FilledIn(s, ok)
           IN  /\ Sound(t) /\ Same(t, s, {"screen", "ring"} \cup DoubleFields)
               /\ t.screen = [k \in DOMAIN s.screen |-> Cell(NUL, 0)]
               /\ s.ring_ptr = "live" => t.ring = Lines(s.w, NUL)
               /\ s.shown = s.drawn => t.raw \/ t.shown = t.drawn
               /\ t.raw \/ t.raw = s.raw \/ t.shown = t.drawn
<1> DEFINE q == Cleared(s)
           t == FilledIn(s, ok)
<1>1. /\ Sound(q) /\ Same(q, s, {"screen", "ring"})
      /\ q.screen = [k \in DOMAIN s.screen |-> Cell(NUL, 0)]
      /\ s.ring_ptr = "live" => q.ring = Lines(s.w, NUL)
  BY ClearedSound
<1>2. t = set_double_buffering(q, TRUE, ok)
  BY DEF FilledIn
<1> HIDE DEF q, t
<1>3. /\ Sound(t) /\ Same(t, q, DoubleFields)
      /\ t = q \/ t.raw \/ t.shown = t.drawn
  <2>1. ASSUME NEW on \in BOOLEAN, on = TRUE
        PROVE  /\ Sound(t) /\ Same(t, q, DoubleFields)
               /\ t = q \/ t.raw \/ t.shown = t.drawn
    <3>1. t = set_double_buffering(q, on, ok)
      BY <1>2, <2>1
    <3> QED BY <1>1, <3>1, DoubleSound
  <2> QED BY <2>1
<1>4. Same(t, s, {"screen", "ring"} \cup DoubleFields)
  BY <1>1, <1>3, SameTrans
<1>5. /\ t.screen = q.screen /\ t.ring = q.ring
      /\ q.raw = s.raw /\ q.shown = s.shown /\ q.drawn = s.drawn
  BY <1>1, <1>3 DEF Same, Fields, DoubleFields
<1> QED BY <1>1, <1>3, <1>4, <1>5 DEF t

LEMMA FillStep == ASSUME Inv, NEW ok \in BOOLEAN, FillBuffers(ok) PROVE Inv' /\ Restores
<1> DEFINE t == FilledIn(con, ok)
<1>1. /\ Sound(con) /\ pc = "fill" /\ pc' = "idle" /\ rescaling' = FALSE
      /\ ~con.synced /\ (con.ring_ptr = "live" => con.lines = <<>>) /\ Stage = "fill"
  <2>1. Sound(con) /\ pc = "fill" /\ pc' = "idle" /\ rescaling' = FALSE
    BY DEF FillBuffers, Running, Inv
  <2>2. Stage = "fill"
    BY <2>1 DEF Stage
  <2> QED BY <2>1, <2>2 DEF Inv, Unfinished
<1>2. con' = IF rescaling THEN clrscr(t) ELSE t
  BY DEF FillBuffers, FilledIn, Cleared
<1>3. /\ Sound(t) /\ Same(t, con, {"screen", "ring"} \cup DoubleFields)
      /\ con.shown = con.drawn => t.raw \/ t.shown = t.drawn
      /\ t.raw \/ t.raw = con.raw \/ t.shown = t.drawn
  BY <1>1, FillSound
<1> HIDE DEF t
<1>4. /\ t.screen_ptr = con.screen_ptr /\ t.backup_ptr = con.backup_ptr /\ t.ring_ptr = con.ring_ptr
      /\ t.auto_swap = con.auto_swap /\ t.in_view = con.in_view
  BY <1>3 DEF Same, Fields, DoubleFields
<1>5. /\ con'.screen_ptr = con.screen_ptr /\ con'.backup_ptr = con.backup_ptr
      /\ con'.ring_ptr = con.ring_ptr /\ con'.auto_swap = con.auto_swap
      /\ con'.in_view = con.in_view /\ Sound(con') /\ (~con'.raw => con'.shown = con'.drawn)
  <2>1. CASE rescaling
    <3>1. Sound(con') /\ Same(con', t, ClrscrFields) /\ con'.shown = con'.drawn
      BY <1>2, <1>3, <2>1, ClrscrSound DEF Sound
    <3> QED BY <1>4, <3>1 DEF Same, Fields, ClrscrFields
  <2>2. CASE ~rescaling
    <3>1. con' = t
      BY <1>2, <2>2
    <3>2. ~t.raw => t.shown = t.drawn
      BY <1>1, <1>3 DEF Inv, Displayed, Quiet
    <3> QED BY <1>3, <1>4, <3>1, <3>2
  <2> QED BY <2>1, <2>2
<1>6. Stage' = "idle"
  BY <1>1 DEF Stage
<1>7. Control'
  BY <1>1, <1>5 DEF Inv, Control, Quiet
<1>8. Owned'
  BY <1>1, <1>5, <1>6 DEF Inv, Owned
<1>9. Unfinished' /\ Displayed'
  BY <1>5, <1>6 DEF Unfinished, Displayed
<1> QED BY <1>5, <1>7, <1>8, <1>9 DEF Inv, Restores

LEMMA InvNext == ASSUME Inv, [Next]_vars PROVE Inv' /\ Restores
<1>1. CASE UNCHANGED vars
  <2>1. con' = con /\ pc' = pc /\ i' = i /\ ret' = ret /\ rescaling' = rescaling
    BY <1>1 DEF vars
  <2>2. Stage' = Stage
    BY <2>1 DEF Stage
  <2>3. Control' /\ Owned' /\ Unfinished' /\ Displayed'
    BY <2>1, <2>2 DEF Inv, Control, Owned, Unfinished, Displayed
  <2> QED BY <2>1, <2>3 DEF Inv, Restores
<1>2. CASE \E c \in Characters : Kputc(c) \/ KputsChar(c)
  BY <1>2, PutCharStep
<1>3. CASE TabStep
  BY <1>3, TabStepStep
<1>4. CASE TabDone
  BY <1>4, TabDoneStep
<1>5. CASE Kputs \/ KputsEnd
  BY <1>5, KputsSteps
<1>6. CASE Clrscr
  BY <1>6, ClrscrStep
<1>7. CASE Refresh \/ RefreshColor \/ Swapping
  BY <1>7, RefreshSteps
<1>8. CASE ViewUp \/ ViewDown
  BY <1>8, ViewSteps
<1>9. CASE \/ \E p \in Cells, c \in Letters : Kputchr(p, c)
           \/ \E p \in Cells, color \in Colors : Kputcolor(p, color)
  BY <1>9, DirectSteps
<1>10. CASE ConsoleInitialize
  BY <1>10, InitializeStep
<1>11. CASE \E n \in Scales : SetFontScale(n)
  BY <1>11, RescaleStep
<1>12. ASSUME NEW ok \in BOOLEAN,
              \/ AllocShadow(ok) \/ AllocBackup(ok) \/ AllocScrollback(ok) \/ FillBuffers(ok)
              \/ \E enabled \in BOOLEAN : SetDoubleBuffering(enabled, ok)
       PROVE  Inv' /\ Restores
  BY <1>12, AllocShadowStep, AllocBackupStep, AllocScrollbackStep, FillStep, DoubleStep
<1>13. CASE NoShadow
  BY <1>13, NoShadowStep
<1>14. CASE MessageStep
  BY <1>14, MessageStepStep
<1> QED BY <1>1, <1>2, <1>3, <1>4, <1>5, <1>6, <1>7, <1>8, <1>9, <1>10, <1>11, <1>12, <1>13, <1>14
       DEF Next

LEMMA InvInit == Init => Inv
<1> SUFFICES ASSUME Init PROVE Inv
  OBVIOUS
<1>1. INITIAL_SCALE \in 1..MAX_SCALE /\ CONSOLE_WIDTH \in Nat \ {0} /\ CONSOLE_HEIGHT \in Nat \ {0}
      /\ SCROLLBACK_LINES \in Nat \ {0}
  BY ScreenAssumption, SizeAssumption
<1>2. Filled(INITIAL_SCALE, BLACK) \in [Grid(INITIAL_SCALE) -> Paints]
  BY BlackPaints DEF Filled
<1>3. /\ con.x = 0 /\ con.y = 0 /\ con.w = CONSOLE_WIDTH /\ con.h = CONSOLE_HEIGHT
      /\ con.scale = INITIAL_SCALE /\ con.screen_ptr = "null" /\ con.backup_ptr = "null"
      /\ con.ring_ptr = "null" /\ con.start = 0 /\ con.count = 0 /\ con.view = 0
      /\ con.in_view = FALSE /\ con.auto_swap = TRUE /\ con.double = FALSE
      /\ con.drawn = Filled(INITIAL_SCALE, BLACK) /\ con.shown = Filled(INITIAL_SCALE, BLACK)
      /\ con.lines = <<>>
  BY DEF Init
<1>4. IsCon(con)
  BY DEF Init, IsCon, Fields
<1>5. pc = "idle" /\ rescaling = FALSE
  BY DEF Init
<1>6. Shape(con)
  <2>1. con.x \in Nat /\ con.y \in Nat /\ con.start \in Rows /\ con.count \in 0..SCROLLBACK_LINES
    BY <1>1, <1>3 DEF Rows
  <2>2. con.view \in 0..con.count
    BY <1>3
  <2>3. con.w \in Nat \ {0} /\ con.h \in Nat \ {0} /\ con.scale \in 1..MAX_SCALE
    BY <1>1, <1>3
  <2>4. /\ con.screen_ptr \in Pointers /\ con.backup_ptr \in Pointers /\ con.ring_ptr \in Pointers
        /\ con.in_view \in BOOLEAN /\ con.auto_swap \in BOOLEAN /\ con.double \in BOOLEAN
    BY <1>3 DEF Pointers
  <2> QED BY <1>4, <2>1, <2>2, <2>3, <2>4 DEF Shape
<1>7. Buffers(con)
  BY <1>2, <1>3 DEF Buffers
<1>8. Saved(con) /\ Picture(con)
  BY <1>3 DEF Saved, Picture
<1>9. Newest(con)
  BY <1>3, NoLines DEF Newest
<1>10. Control
  BY <1>3, <1>5 DEF Control, Quiet
<1>11. Stage = "idle"
  BY <1>5 DEF Stage
<1>12. Owned /\ Unfinished /\ Displayed
  BY <1>3, <1>11 DEF Owned, Unfinished, Displayed
<1> QED BY <1>6, <1>7, <1>8, <1>9, <1>10, <1>12 DEF Inv, Sound, Firm

(* Whatever is called, in any order and whichever allocation fails, the    *)
(* console's record is sound, and between and inside the calls that take   *)
(* several steps its buffers, its size and its display agree.              *)
THEOREM InvAlways == Spec => []Inv
<1>1. Inv /\ [Next]_vars => Inv'
  BY InvNext
<1> QED BY InvInit, <1>1, PTL DEF Spec

(* Once all of the screen was drawn, every call of stdio.c that draws a    *)
(* cell, scrolls, clears or shows the view keeps the picture what the      *)
(* shadow buffer says.                                                     *)
THEOREM PictureMatches == Spec => []PictureIsShadow
<1>1. Inv => PictureIsShadow
  <2> SUFFICES ASSUME Inv, con.synced, con.screen_ptr = "live", NEW p \in DOMAIN con.drawn
               PROVE  con.drawn[p] = Look(CellAt(con, p[1], p[2]))
    BY DEF PictureIsShadow
  <2>1. con.drawn \in [Grid(con.scale) -> Paints] /\ Picture(con)
    BY DEF Inv, Sound, Firm, Buffers
  <2>2. p \in Grid(con.scale)
    BY <2>1
  <2>3. CellAt(con, p[1], p[2]) = con.screen[Index(con, p[1], p[2])]
    BY DEF CellAt
  <2> QED BY <2>1, <2>2, <2>3 DEF Picture
<1> QED BY InvAlways, <1>1, PTL

(* kputc, kputs and the calls that draw everything end with what they drew *)
(* on the screen, double buffering or not.                                 *)
THEOREM DrawnShown == Spec => []DrawnIsShown
<1>1. Inv => DrawnIsShown
  BY DEF Inv, Displayed, Quiet, DrawnIsShown
<1> QED BY InvAlways, <1>1, PTL

(* The ring of scrollback holds the lines that scrolled off last, in their *)
(* order, however often it went round.                                     *)
THEOREM RingKeeps == Spec => []RingHoldsLastLines
<1>1. Inv => RingHoldsLastLines
  BY DEF Inv, Sound, Firm, Newest, Keeps, RingHoldsLastLines
<1> QED BY InvAlways, <1>1, PTL

(* view_scrollback_down leaves the view with the picture that              *)
(* view_scrollback_up found when it entered it.                            *)
THEOREM ViewRestores == Spec => LeavingRestores
<1>1. Inv /\ [Next]_vars
        => [con.in_view /\ ~con'.in_view /\ con.entry # <<>> => con'.drawn = con.entry]_vars
  BY InvNext DEF Restores
<1> QED BY InvAlways, <1>1, PTL DEF Spec, LeavingRestores

-----------------------------------------------------------------------------
(* Where every allocation of the console's buffers succeeds and it is      *)
(* built anew only with a new font scale, it has all its buffers, with the *)
(* cursor on a cell, or none yet.                                          *)
Text == {"idle", "tab", "puts"}

None(s) == s.screen_ptr = "null" /\ s.backup_ptr = "null" /\ s.ring_ptr = "null"
Live(s) == s.screen_ptr = "live" /\ s.backup_ptr = "live" /\ s.ring_ptr = "live"
Settled(s) == None(s) \/ (Live(s) /\ Inside(s))

Whole ==
    /\ con.wild = {}
    /\ pc \notin {"message", "no_shadow"}
    /\ pc \in {"shadow", "backup", "scrollback", "fill"} => rescaling = TRUE
    /\ pc \in Text => Settled(con)
    /\ pc \in {"backup", "scrollback", "fill"} => con.screen_ptr = "live"
    /\ pc \in {"scrollback", "fill"} => con.backup_ptr = "live"
    /\ pc = "fill" => con.ring_ptr = "live"

Reliable == Failures \subseteq {"back"} /\ "init" \notin Calls

LEMMA WholeText == ASSUME Whole, pc \in Text, pc' \in Text, con'.wild = con.wild, Settled(con')
                   PROVE  Whole'
BY DEF Whole, Text

LEMMA SettledSame ==
    ASSUME NEW s, Settled(s), NEW t, Same(t, s, CallFields), t.x = s.x, t.y = s.y
    PROVE  Settled(t)
<1>1. /\ t.w = s.w /\ t.h = s.h /\ t.screen_ptr = s.screen_ptr
      /\ t.backup_ptr = s.backup_ptr /\ t.ring_ptr = s.ring_ptr
  BY Kept
<1> QED BY <1>1 DEF Settled, None, Live, Inside

LEMMA SettledOrigin ==
    ASSUME NEW s, Settled(s), NEW t, Sound(t), Same(t, s, CallFields), t.x = 0, t.y = 0
    PROVE  Settled(t)
<1>1. /\ t.w = s.w /\ t.h = s.h /\ t.screen_ptr = s.screen_ptr
      /\ t.backup_ptr = s.backup_ptr /\ t.ring_ptr = s.ring_ptr
  BY Kept
<1>2. t.w \in Nat \ {0} /\ t.h \in Nat \ {0}
  BY DEF Sound, Firm, Shape
<1>3. t.x < t.w /\ t.y < t.h
  BY <1>2
<1> QED BY <1>1, <1>3 DEF Settled, None, Live, Inside

LEMMA SettledPutc ==
    ASSUME NEW s, Sound(s), Settled(s), NEW c \in Chars \cup (Controls \ {"tab"})
    PROVE  putc(s, c).wild = s.wild /\ Settled(putc(s, c))
<1>1. Same(putc(s, c), s, CallFields)
  BY PutcStep
<1>2. /\ s.screen_ptr = "null" /\ s.ring_ptr = "null" => putc(s, c).wild = s.wild
      /\ Inside(s) /\ s.ring_ptr = "live" => putc(s, c).wild = s.wild /\ Inside(putc(s, c))
  BY PutcKeeps
<1>3. /\ putc(s, c).screen_ptr = s.screen_ptr
      /\ putc(s, c).backup_ptr = s.backup_ptr /\ putc(s, c).ring_ptr = s.ring_ptr
  BY <1>1, Kept
<1> QED BY <1>2, <1>3 DEF Settled, None, Live

LEMMA WholeWrites ==
    ASSUME Inv, Whole,
           \/ \E c \in Characters : Kputc(c) \/ KputsChar(c)
           \/ TabStep \/ TabDone \/ Kputs \/ KputsEnd
    PROVE  Whole'
<1>0. Sound(con)
  BY DEF Inv
<1>1. ASSUME NEW c \in Characters, Kputc(c) \/ KputsChar(c) PROVE Whole'
  <2>1. pc \in {"idle", "puts"} /\ PutChar(c)
    BY <1>1 DEF Kputc, KputsChar, Callable, Running
  <2>2. Settled(con)
    BY <2>1 DEF Whole, Text
  <2>3. CASE c = "tab"
    <3>1. pc' = "tab" /\ con' = con
      BY <2>1, <2>3 DEF PutChar
    <3> QED BY <2>1, <2>2, <3>1, WholeText DEF Text
  <2>4. CASE c # "tab"
    <3>1. pc' = pc /\ con' = putc(con, c)
      BY <2>1, <2>4 DEF PutChar
    <3>2. con'.wild = con.wild /\ Settled(con')
      BY <1>0, <2>2, <2>4, <3>1, CharacterKinds, SettledPutc
    <3> QED BY <2>1, <3>1, <3>2, WholeText DEF Text
  <2> QED BY <2>3, <2>4
<1>2. CASE TabStep
  <2>1. pc = "tab" /\ pc' = pc /\ con' = putc(con, SPACE) /\ Settled(con)
    BY <1>2 DEF TabStep, Running, Whole, Text
  <2>2. con'.wild = con.wild /\ Settled(con')
    BY <1>0, <2>1, SettledPutc DEF Chars
  <2> QED BY <2>1, <2>2, WholeText DEF Text
<1>3. CASE TabDone
  <2>1. pc = "tab" /\ pc' = ret /\ con' = Settle(con) /\ Settled(con) /\ ret \in {"idle", "puts"}
    BY <1>3 DEF TabDone, Running, Whole, Text, Inv, Control
  <2>2. Same(con', con, CallFields)
    <3>1. Same(con', con, TextCall)
      BY <1>0, <2>1, SettleSound, SameMore DEF TextCall, TextFields
    <3> QED BY <3>1, TextKept
  <2>3. /\ con.screen_ptr = "null" /\ con.ring_ptr = "null" => con'.wild = con.wild
        /\ Inside(con) /\ con.ring_ptr = "live" => con'.wild = con.wild /\ Inside(con')
    BY <1>0, <2>1, SettleKeeps
  <2>4. /\ con'.screen_ptr = con.screen_ptr
        /\ con'.backup_ptr = con.backup_ptr /\ con'.ring_ptr = con.ring_ptr
    BY <2>2, Kept
  <2>5. con'.wild = con.wild /\ Settled(con')
    BY <2>1, <2>3, <2>4 DEF Settled, None, Live
  <2> QED BY <2>1, <2>5, WholeText DEF Text
<1>4. CASE Kputs \/ KputsEnd
  <2> DEFINE on == pc = "puts"
             s == Switched(con, on)
  <2>1. /\ pc \in {"idle", "puts"} /\ pc' \in {"idle", "puts"} /\ Settled(con)
        /\ con' = s \/ con' = Swap(s)
    <3>1. CASE Kputs
      BY <3>1 DEF Kputs, Callable, Switched, Whole, Text
    <3>2. CASE KputsEnd
      BY <3>2 DEF KputsEnd, Running, Switched, Whole, Text
    <3> QED BY <1>4, <3>1, <3>2
  <2>2. on \in BOOLEAN
    OBVIOUS
  <2> HIDE DEF on
  <2>3. Sound(s) /\ Same(s, con, {"auto_swap"})
    BY <1>0, <2>2, AutoSound
  <2> HIDE DEF s
  <2>4. Same(con', s, {"shown", "raw"})
    BY <2>1, <2>3, SwapSound, SameSelf DEF Sound, Firm, Shape
  <2>5. /\ con'.wild = con.wild /\ con'.x = con.x /\ con'.y = con.y /\ con'.w = con.w
        /\ con'.h = con.h /\ con'.screen_ptr = con.screen_ptr
        /\ con'.backup_ptr = con.backup_ptr /\ con'.ring_ptr = con.ring_ptr
    BY <2>3, <2>4 DEF Same, Fields
  <2>6. Settled(con')
    BY <2>1, <2>5 DEF Settled, None, Live, Inside
  <2> QED BY <2>1, <2>5, <2>6, WholeText DEF Text
<1> QED BY <1>1, <1>2, <1>3, <1>4

LEMMA StillThere ==
    /\ {"wild", "x", "y"} \cap (RedrawFields \cup DoubleFields \cup {"shown", "raw"}) = {}
    /\ {"x", "y"} \cap (ViewFields \cup StoreFields) = {}
    /\ "wild" \notin ClrscrFields
BY DEF RedrawFields, DoubleFields, ViewFields, StoreFields, ClrscrFields

LEMMA WholeCalls ==
    ASSUME Inv, Whole,
           \/ Clrscr \/ Refresh \/ RefreshColor \/ Swapping \/ ViewUp \/ ViewDown
           \/ \E enabled, ok \in BOOLEAN : SetDoubleBuffering(enabled, ok)
    PROVE  Whole'
<1>0. /\ pc = "idle" /\ pc' = pc /\ Sound(con) /\ Settled(con) /\ Firm(con)
      /\ con.screen_ptr # "freed" /\ con.backup_ptr # "freed" /\ con.ring_ptr # "freed"
  BY DEF Clrscr, Refresh, RefreshColor, Swapping, ViewUp, ViewDown, SetDoubleBuffering, Callable,
         Update, Inv, Whole, Text, Settled, None, Live, Sound
<1>1. CASE Clrscr
  <2> DEFINE s == clrscr(con)
  <2>1. con' = [s EXCEPT !.mixed = con.in_view]
    BY <1>1 DEF Clrscr, Update
  <2>2. Sound(s) /\ Same(s, con, ClrscrFields) /\ s.x = 0 /\ s.y = 0
    BY <1>0, ClrscrSound
  <2> HIDE DEF s
  <2>3. Sound(con') /\ Same(con', s, {"mixed"})
    BY <2>1, <2>2, Noted
  <2>4. Same(con', con, ClrscrFields \cup {"mixed"})
    BY <2>2, <2>3, SameTrans
  <2>5. Same(con', con, CallFields)
    BY <2>4, Apart, SameMore
  <2>6. con'.x = 0 /\ con'.y = 0 /\ con'.wild = con.wild
    BY <2>2, <2>3, <2>4, StillThere DEF Same, Fields
  <2> QED BY <1>0, <2>3, <2>5, <2>6, SettledOrigin, WholeText DEF Text
<1>2. ASSUME NEW C, Same(con', con, C), C \subseteq CallFields, {"wild", "x", "y"} \cap C = {}
      PROVE  Whole'
  <2>1. Same(con', con, CallFields) /\ con'.x = con.x /\ con'.y = con.y /\ con'.wild = con.wild
    BY <1>2, SameMore DEF Same, Fields
  <2> QED BY <1>0, <2>1, SettledSame, WholeText DEF Text
<1>3. CASE Refresh \/ RefreshColor
  <2>1. con' \in {console_refresh(con), refresh_screen_color(con)}
    BY <1>3 DEF Refresh, RefreshColor, Update
  <2>2. Same(con', con, RedrawFields)
    BY <1>0, <2>1, RefreshSound, RecolorSound
  <2> QED BY <1>2, <2>2, Apart, StillThere
<1>4. CASE Swapping
  <2>1. Same(con', con, {"shown", "raw"})
    BY <1>0, <1>4, SwapSound DEF Swapping, Update
  <2> QED BY <1>2, <2>1, Apart, StillThere
<1>5. CASE \E enabled, ok \in BOOLEAN : SetDoubleBuffering(enabled, ok)
  <2>1. Same(con', con, DoubleFields)
    BY <1>0, <1>5, DoubleSound DEF SetDoubleBuffering, Update
  <2> QED BY <1>2, <2>1, Apart, StillThere
<1>6. CASE ViewUp \/ ViewDown
  <2>1. con' \in {view_scrollback_up(con), view_scrollback_down(con)}
    BY <1>6 DEF ViewUp, ViewDown, Update
  <2>2. Same(con', con, ViewFields)
    BY <1>0, <2>1, UpSound, DownSound
  <2>3. con'.wild = con.wild
    <3>1. CASE None(con)
      <4>1. con' = con
        BY <2>1, <3>1 DEF None, view_scrollback_up, view_scrollback_down
      <4> QED BY <4>1
    <3>2. CASE Live(con)
      <4>1. con.ring_ptr # "null"
        BY <3>2 DEF Live
      <4>2. CASE con' = view_scrollback_up(con)
        <5>1. con' = con \/ con.ring_ptr = "null" \/ con'.wild = con.wild
          BY <1>0, <4>2, UpSound
        <5> QED BY <4>1, <5>1
      <4>3. CASE con' = view_scrollback_down(con)
        <5>1. con' = con \/ con.ring_ptr = "null" \/ con'.wild = con.wild
          BY <1>0, <4>3, DownSound
        <5> QED BY <4>1, <5>1
      <4> QED BY <2>1, <4>2, <4>3
    <3> QED BY <1>0, <3>1, <3>2 DEF Settled
  <2>4. Same(con', con, CallFields) /\ con'.x = con.x /\ con'.y = con.y
    BY <2>2, Apart, SameMore, StillThere DEF Same, Fields
  <2> QED BY <1>0, <2>3, <2>4, SettledSame, WholeText DEF Text
<1> QED BY <1>1, <1>3, <1>4, <1>5, <1>6

-----------------------------------------------------------------------------
LEMMA WholeDirect ==
    ASSUME Inv, Whole, NEW p \in Cells,
           (\E c \in Letters : Kputchr(p, c)) \/ (\E color \in Colors : Kputcolor(p, color))
    PROVE  Whole'
<1>0. /\ pc = "idle" /\ pc' = pc /\ Sound(con) /\ Settled(con) /\ IsCon(con)
      /\ con.screen_ptr \in Pointers
  BY DEF Kputchr, Kputcolor, Direct, Callable, Inv, Whole, Text, Sound, Firm, Shape
<1>1. p[1] \in Nat /\ p[2] \in Nat /\ p[1] < con.w /\ p[2] < con.h
  BY <1>0, CellsNat DEF Cells
<1>2. PICK s : /\ Same(s, con, StoreFields) /\ con' = Marked(s) /\ Sound(s)
               /\ con.screen_ptr = "null" => s.wild = con.wild
               /\ con.screen_ptr = "live" /\ Index(con, p[1], p[2]) \in DOMAIN con.screen =>
                     s.wild = con.wild
  <2>1. ASSUME NEW c \in Letters, Kputchr(p, c)
        PROVE  LET s == kputchr(con, p[1], p[2], c)
               IN  /\ Same(s, con, StoreFields) /\ con' = Marked(s) /\ Sound(s)
                   /\ con.screen_ptr = "null" => s.wild = con.wild
                   /\ con.screen_ptr = "live" /\ Index(con, p[1], p[2]) \in DOMAIN con.screen =>
                         s.wild = con.wild
    <3> DEFINE s == kputchr(con, p[1], p[2], c)
    <3>1. Same(s, con, StoreFields) /\ Sound(s)
      BY <1>0, <1>1, KputchrSound DEF Chars
    <3>2. con' = Marked(s)
      BY <2>1 DEF Kputchr, Direct, Marked
    <3>3. /\ con.screen_ptr = "null" => s.wild = con.wild
          /\ con.screen_ptr = "live" /\ Index(con, p[1], p[2]) \in DOMAIN con.screen =>
                s.wild = con.wild
      BY <1>0, KputchrKeeps
    <3> QED BY <3>1, <3>2, <3>3
  <2>2. ASSUME NEW color \in Colors, Kputcolor(p, color)
        PROVE  LET s == kputcolor(con, p[1], p[2], color)
               IN  /\ Same(s, con, StoreFields) /\ con' = Marked(s) /\ Sound(s)
                   /\ con.screen_ptr = "null" => s.wild = con.wild
                   /\ con.screen_ptr = "live" /\ Index(con, p[1], p[2]) \in DOMAIN con.screen =>
                         s.wild = con.wild
    <3> DEFINE s == kputcolor(con, p[1], p[2], color)
    <3>1. Same(s, con, StoreFields) /\ Sound(s)
      BY <1>0, <1>1, ColorAssumption, KputcolorSound
    <3>2. con' = Marked(s)
      BY <2>2 DEF Kputcolor, Direct, Marked
    <3>3. /\ con.screen_ptr = "null" => s.wild = con.wild
          /\ con.screen_ptr = "live" /\ Index(con, p[1], p[2]) \in DOMAIN con.screen =>
                s.wild = con.wild
      BY <1>0, KputcolorKeeps
    <3> QED BY <3>1, <3>2, <3>3
  <2> QED BY <2>1, <2>2
<1>3. s.wild = con.wild
  <2>1. con.screen_ptr = "live" => Index(con, p[1], p[2]) \in DOMAIN con.screen
    BY <1>0, <1>1, CursorCell
  <2> QED BY <1>0, <1>2, <2>1 DEF Settled, None, Live
<1>4. Same(con', s, {"mixed", "raw"})
  BY <1>2, MarkedSound
<1>5. Same(con', con, StoreFields \cup {"mixed", "raw"})
  BY <1>2, <1>4, SameTrans
<1>6. Same(con', con, CallFields)
  BY <1>5, Apart, SameMore
<1>7. con'.x = con.x /\ con'.y = con.y /\ con'.wild = con.wild
  BY <1>2, <1>3, <1>4, StillThere DEF Same, Fields
<1> QED BY <1>0, <1>6, <1>7, SettledSame, WholeText DEF Text

LEMMA WholeBuilds ==
    ASSUME Inv, Whole, Reliable,
           \/ \E n \in Scales : SetFontScale(n)
           \/ ConsoleInitialize \/ NoShadow \/ MessageStep
           \/ \E ok \in BOOLEAN : \/ AllocShadow(ok) \/ AllocBackup(ok)
                                  \/ AllocScrollback(ok) \/ FillBuffers(ok)
    PROVE  Whole'
<1>0. Sound(con)
  BY DEF Inv
<1>1. ASSUME NEW n \in Scales, SetFontScale(n) PROVE Whole'
  <2> DEFINE scale == Clamped(n)
  <2>1. scale \in 1..MAX_SCALE
    BY ScaleAssumption, ClampedScale
  <2>2. pc' = "shadow" /\ rescaling' = TRUE /\ con' = Rescaled(con, scale)
    BY <1>1 DEF SetFontScale, Rescaled
  <2> HIDE DEF scale
  <2>3. Same(con', con, RescaleFields)
    BY <1>0, <2>1, <2>2, RescaleSound
  <2>4. con'.wild = con.wild
    BY <2>3 DEF Same, Fields, RescaleFields
  <2> QED BY <2>2, <2>4 DEF Whole, Text
<1>2. CASE ConsoleInitialize \/ NoShadow \/ MessageStep
  BY <1>2 DEF ConsoleInitialize, NoShadow, MessageStep, Callable, Running, Whole, Reliable
<1>3. ASSUME NEW ok \in BOOLEAN, AllocShadow(ok) PROVE Whole'
  <2> DEFINE s == Resized(con)
  <2>1. /\ pc = "shadow" /\ rescaling' = rescaling /\ ok
        /\ con' = Shadowed(s) /\ pc' = "backup"
    BY <1>3 DEF AllocShadow, Allocate, Running, Resized, Shadowed, Reliable
  <2>2. Sound(s) /\ Same(s, con, {"w", "h", "synced"}) /\ Matched(s) /\ ~s.synced
    BY <1>0, ResizeSound
  <2> HIDE DEF s
  <2>3. Same(con', s, {"screen", "screen_ptr"}) /\ con'.screen_ptr = "live"
    BY <2>1, <2>2, ShadowSound
  <2>4. con'.wild = con.wild
    BY <2>2, <2>3 DEF Same, Fields
  <2> QED BY <2>1, <2>3, <2>4 DEF Whole, Text
<1>4. ASSUME NEW ok \in BOOLEAN, AllocBackup(ok) PROVE Whole'
  <2>1. /\ pc = "backup" /\ rescaling' = rescaling /\ ok
        /\ con' = BackedUp(con) /\ pc' = "scrollback"
    BY <1>4 DEF AllocBackup, Allocate, Running, BackedUp, Reliable
  <2>2. Matched(con)
    BY <2>1 DEF Inv, Unfinished, Stage
  <2>3. Same(con', con, {"backup", "backup_ptr", "entry"}) /\ con'.backup_ptr = "live"
    BY <1>0, <2>1, <2>2, BackupSound
  <2>4. con'.wild = con.wild /\ con'.screen_ptr = con.screen_ptr
    BY <2>3 DEF Same, Fields
  <2> QED BY <2>1, <2>3, <2>4 DEF Whole, Text
<1>5. ASSUME NEW ok \in BOOLEAN, AllocScrollback(ok) PROVE Whole'
  <2>1. /\ pc = "scrollback" /\ rescaling' = rescaling /\ ok
        /\ con' = Scrollable(con) /\ pc' = "fill"
    BY <1>5 DEF AllocScrollback, Allocate, Running, Scrollable, Reliable
  <2>2. Matched(con)
    BY <2>1 DEF Inv, Unfinished, Stage
  <2>3. Same(con', con, {"ring", "ring_ptr", "lines"}) /\ con'.ring_ptr = "live"
    BY <1>0, <2>1, <2>2, ScrollbackSound
  <2>4. con'.wild = con.wild /\ con'.screen_ptr = con.screen_ptr /\ con'.backup_ptr = con.backup_ptr
    BY <2>3 DEF Same, Fields
  <2> QED BY <2>1, <2>3, <2>4 DEF Whole, Text
<1>6. ASSUME NEW ok \in BOOLEAN, FillBuffers(ok) PROVE Whole'
  <2> DEFINE t == FilledIn(con, ok)
  <2>1. /\ pc = "fill" /\ pc' = "idle" /\ rescaling = TRUE /\ Live(con)
        /\ ~con.synced /\ (con.ring_ptr = "live" => con.lines = <<>>)
    BY <1>6 DEF FillBuffers, Running, Whole, Live, Inv, Unfinished, Stage
  <2>2. con' = clrscr(t)
    BY <1>6, <2>1 DEF FillBuffers, FilledIn, Cleared
  <2>3. Sound(t) /\ Same(t, con, {"screen", "ring"} \cup DoubleFields)
    BY <1>0, <2>1, FillSound
  <2> HIDE DEF t
  <2>4. Sound(con') /\ Same(con', t, ClrscrFields) /\ con'.x = 0 /\ con'.y = 0
    BY <2>2, <2>3, ClrscrSound DEF Sound
  <2>5. /\ con'.wild = con.wild /\ con'.screen_ptr = con.screen_ptr
        /\ con'.backup_ptr = con.backup_ptr /\ con'.ring_ptr = con.ring_ptr
    BY <2>3, <2>4 DEF Same, Fields, DoubleFields, ClrscrFields
  <2>6. con'.w \in Nat \ {0} /\ con'.h \in Nat \ {0}
    BY <2>4 DEF Sound, Firm, Shape
  <2>7. con'.x < con'.w /\ con'.y < con'.h
    BY <2>4, <2>6
  <2>8. Settled(con')
    BY <2>1, <2>5, <2>7 DEF Settled, Live, Inside
  <2> QED BY <2>1, <2>5, <2>8 DEF Whole, Text
<1> QED BY <1>1, <1>2, <1>3, <1>4, <1>5, <1>6

LEMMA WholeNext == ASSUME Reliable, Inv, Whole, [Next]_vars PROVE Whole'
<1>1. CASE UNCHANGED vars
  BY <1>1 DEF vars, Whole
<1>2. CASE \/ \E c \in Characters : Kputc(c) \/ KputsChar(c)
           \/ TabStep \/ TabDone \/ Kputs \/ KputsEnd
  BY <1>2, WholeWrites
<1>3. CASE \/ Clrscr \/ Refresh \/ RefreshColor \/ Swapping \/ ViewUp \/ ViewDown
           \/ \E enabled, ok \in BOOLEAN : SetDoubleBuffering(enabled, ok)
  BY <1>3, WholeCalls
<1>4. CASE \/ \E p \in Cells, c \in Letters : Kputchr(p, c)
           \/ \E p \in Cells, color \in Colors : Kputcolor(p, color)
  BY <1>4, WholeDirect
<1>5. CASE \/ \E n \in Scales : SetFontScale(n)
           \/ ConsoleInitialize \/ NoShadow \/ MessageStep
           \/ \E ok \in BOOLEAN : \/ AllocShadow(ok) \/ AllocBackup(ok)
                                  \/ AllocScrollback(ok) \/ FillBuffers(ok)
  BY <1>5, WholeBuilds
<1> QED BY <1>1, <1>2, <1>3, <1>4, <1>5 DEF Next

LEMMA Typed == Inv => TypeOK
<1> SUFFICES ASSUME Inv PROVE TypeOK
  OBVIOUS
<1>1. /\ con.x \in Nat /\ con.y \in Nat /\ con.w \in Nat \ {0} /\ con.h \in Nat \ {0}
      /\ con.scale \in 1..MAX_SCALE
      /\ con.start \in Rows /\ con.count \in 0..SCROLLBACK_LINES /\ con.view \in 0..con.count
  BY DEF Inv, Sound, Firm, Shape
<1>2. /\ {con.screen_ptr, con.backup_ptr, con.ring_ptr} \subseteq Pointers
      /\ {con.in_view, con.auto_swap, con.double, rescaling} \subseteq BOOLEAN
  BY DEF Inv, Control, Sound, Firm, Shape
<1>3. /\ con.screen_ptr = "live" => con.screen \in [0..(con.w * con.h - 1) -> AnyCell]
      /\ con.backup_ptr = "live" => con.backup \in [0..(con.w * con.h - 1) -> AnyCell]
      /\ con.ring_ptr = "live" => con.ring \in [Rows -> [0..(con.w - 1) -> Chars]]
      /\ con.drawn \in [Grid(con.scale) -> Paints]
      /\ con.shown \in [Grid(con.scale) -> Paints]
  BY DEF Inv, Sound, Firm, Buffers
<1>4. pc \in {"idle", "tab", "puts", "message", "shadow", "no_shadow", "backup",
              "scrollback", "fill"}
  BY DEF Inv, Control, Quiet
<1> QED BY <1>1, <1>2, <1>3, <1>4 DEF TypeOK

(* The console's globals keep their types and its buffers their sizes,     *)
(* also where an allocation has failed.                                    *)
THEOREM TypeCorrect == Spec => []TypeOK
BY InvAlways, Typed, PTL

(* Where its buffers can be allocated and only console_set_font_scale      *)
(* builds the console again, the functions of stdio.c touch no cell but    *)
(* those of buffers that exist.  Without the first they use freed memory   *)
(* and read a ring that is not there; without the second the screen may    *)
(* have become smaller than the cursor's place.                            *)
THEOREM WithinBuffers ==
    ASSUME Reliable
    PROVE  Spec => []StaysInBuffers
<1>1. Init => Whole
  BY DEF Init, Whole, Text, Settled, None
<1>2. Inv /\ Whole /\ [Next]_vars => Whole'
  BY WholeNext
<1>3. Inv /\ Whole => StaysInBuffers
  BY Typed DEF Whole, StaysInBuffers
<1> QED BY InvAlways, <1>1, <1>2, <1>3, PTL DEF Spec

-----------------------------------------------------------------------------
(* The ring exists from its first allocation on, and before that there is  *)
(* no view and nothing to show in one.                                     *)
Ringless ==
    /\ pc = "message" => ret # "fill"
    /\ con.ring_ptr = "null" => con.count = 0 /\ con.in_view = FALSE
    /\ pc = "fill" => con.ring_ptr = "live"

(* Rows below the lines that scrolled off are blank, also in a ring that   *)
(* is new but counts lines of the one before.                              *)
RowsBlank == pc \in Text /\ con.ring_ptr = "live" => OlderBlank(con)

(* A view whose shadow buffer is gone has had a message written into it.   *)
Blurred ==
    /\ con.in_view /\ con.screen_ptr = "null" => con.mixed
    /\ (pc = "no_shadow" \/ (pc = "message" /\ i > 1) \/ (pc = "tab" /\ i > 0)) /\ con.in_view
          => con.mixed

Viewed ==
    pc \in Text /\ con.in_view /\ ~con.mixed /\ con.screen_ptr = "live" => HoldsView(con)

Remembered == Ringless /\ RowsBlank /\ Blurred /\ Viewed

(* Text that is written spoils the view, but not the ring.                 *)
LEMMA Spoiled ==
    ASSUME Inv, Remembered, pc \in Text, pc' \in Text, Same(con', con, CallFields),
           con'.ring_ptr = "null" => con'.count = con.count,
           con'.in_view = con.in_view, con'.in_view => con'.mixed,
           con.ring_ptr = "live" /\ OlderBlank(con) => OlderBlank(con')
    PROVE  Remembered'
<1>1. con'.ring_ptr = con.ring_ptr
  BY Kept
<1>2. Ringless'
  BY <1>1 DEF Remembered, Ringless, Text
<1>3. RowsBlank'
  BY <1>1 DEF Remembered, RowsBlank
<1>4. Blurred' /\ Viewed'
  BY DEF Blurred, Viewed
<1> QED BY <1>2, <1>3, <1>4 DEF Remembered

(* What only moves the cursor or draws leaves both.                        *)
DrawnFields == {"x", "y", "auto_swap", "drawn", "shown", "raw", "synced", "double", "screen"}

LEMMA Untouched ==
    ASSUME Inv, Remembered, pc \in Text, pc' \in Text, pc' = "tab" => i' = 0,
           Same(con', con, DrawnFields), con'.screen = con.screen \/ HoldsView(con')
    PROVE  Remembered'
<1>1. /\ con'.ring_ptr = con.ring_ptr /\ con'.ring = con.ring /\ con'.start = con.start
      /\ con'.count = con.count /\ con'.lines = con.lines /\ con'.in_view = con.in_view
      /\ con'.mixed = con.mixed /\ con'.screen_ptr = con.screen_ptr /\ con'.w = con.w
      /\ con'.h = con.h /\ con'.scale = con.scale /\ con'.view = con.view
  BY DEF Same, Fields, DrawnFields
<1>2. Ringless'
  BY <1>1 DEF Remembered, Ringless, Text
<1>3. RowsBlank'
  BY <1>1 DEF Remembered, RowsBlank, OlderBlank
<1>4. Blurred'
  <2>1. ~(pc' = "no_shadow" \/ pc' = "message" \/ (pc' = "tab" /\ i' > 0))
    <3>1. pc' # "no_shadow" /\ pc' # "message"
      BY DEF Text
    <3>2. ~(pc' = "tab" /\ i' > 0)
      OBVIOUS
    <3> QED BY <3>1, <3>2
  <2> QED BY <1>1, <2>1 DEF Remembered, Blurred
<1>5. Viewed'
  <2>1. HoldsView(con) => HoldsView(con')
    BY <1>1, ViewStays
  <2> QED BY <1>1, <2>1 DEF Remembered, Viewed
<1> QED BY <1>2, <1>3, <1>4, <1>5 DEF Remembered

LEMMA RememberedPutc ==
    ASSUME NEW s, Sound(s), NEW c \in Chars \cup (Controls \ {"tab"})
    PROVE  LET t == putc(s, c)
           IN  /\ Same(t, s, CallFields) /\ t.in_view = s.in_view /\ t.mixed = s.in_view
               /\ s.ring_ptr = "null" => t.count = s.count
               /\ s.ring_ptr = "live" /\ OlderBlank(s) => OlderBlank(t)
<1> DEFINE t == putc(s, c)
<1>1. Same(t, s, CallFields) /\ t.in_view = s.in_view
  BY PutcStep
<1>2. t.mixed = s.in_view /\ (s.ring_ptr = "null" => t.count = s.count)
  BY PutcSound, PutcKeeps
<1>3. \A old : s.ring_ptr = "live" /\ OlderAre(s.ring, s.start, s.count, s.lines, old) =>
          OlderAre(t.ring, t.start, t.count, t.lines, old)
  BY PutcSound
<1> HIDE DEF t
<1>4. t.w = s.w
  BY <1>1, Kept
<1>5. s.ring_ptr = "live" /\ OlderBlank(s) => OlderBlank(t)
  BY <1>3, <1>4 DEF OlderBlank
<1> QED BY <1>1, <1>2, <1>5 DEF t

LEMMA RememberedWrites ==
    ASSUME Inv, Remembered,
           \/ \E c \in Characters : Kputc(c) \/ KputsChar(c)
           \/ TabStep \/ TabDone \/ Kputs \/ KputsEnd
    PROVE  Remembered'
<1>0. Sound(con)
  BY DEF Inv
<1>a. ASSUME pc \in Text, pc' \in Text, NEW c \in Chars \cup (Controls \ {"tab"}),
             con' = putc(con, c)
      PROVE  Remembered'
  <2>1. /\ Same(con', con, CallFields) /\ con'.in_view = con.in_view /\ con'.mixed = con.in_view
        /\ con.ring_ptr = "null" => con'.count = con.count
        /\ con.ring_ptr = "live" /\ OlderBlank(con) => OlderBlank(con')
    BY <1>0, <1>a, RememberedPutc
  <2>2. con'.ring_ptr = con.ring_ptr
    BY <2>1, Kept
  <2> QED BY <1>a, <2>1, <2>2, Spoiled
<1>1. ASSUME NEW c \in Characters, Kputc(c) \/ KputsChar(c) PROVE Remembered'
  <2>1. pc \in {"idle", "puts"} /\ PutChar(c)
    BY <1>1 DEF Kputc, KputsChar, Callable, Running
  <2>2. CASE c = "tab"
    <3>1. pc' = "tab" /\ con' = con /\ i' = 0
      BY <2>1, <2>2 DEF PutChar
    <3>2. Same(con', con, DrawnFields)
      BY <1>0, <3>1, SameSelf DEF Sound, Firm, Shape
    <3> QED BY <2>1, <3>1, <3>2, Untouched DEF Text
  <2>3. CASE c # "tab"
    <3>1. pc' = pc /\ con' = putc(con, c)
      BY <2>1, <2>3 DEF PutChar
    <3>2. c \in Chars \cup (Controls \ {"tab"})
      BY <2>3, CharacterKinds
    <3> QED BY <1>a, <2>1, <3>1, <3>2 DEF Text
  <2> QED BY <2>2, <2>3
<1>2. CASE TabStep
  <2>1. pc = "tab" /\ pc' = pc /\ con' = putc(con, SPACE) /\ SPACE \in Chars \cup (Controls \ {"tab"})
    BY <1>2 DEF TabStep, Running, Chars
  <2> QED BY <1>a, <2>1 DEF Text
<1>3. CASE TabDone
  <2>1. pc = "tab" /\ pc' = ret /\ con' = Settle(con) /\ ret \in {"idle", "puts"} /\ i \in Nat
    BY <1>3 DEF TabDone, Running, Inv, Control
  <2>2. i > 0
    <3>1. i >= 4 - (con.x % 4) /\ con.x \in Nat
      BY <1>0, <1>3 DEF TabDone, Sound, Firm, Shape
    <3>2. con.x % 4 \in 0..3
      BY <3>1
    <3> QED BY <2>1, <3>1, <3>2
  <2>3. con.in_view => con.mixed
    BY <2>1, <2>2 DEF Remembered, Blurred
  <2>4. /\ Same(con', con, SettleFields)
        /\ con.ring_ptr = "null" => con'.count = con.count
    BY <1>0, <2>1, SettleSound
  <2>5. \A old : con.ring_ptr = "live" /\ OlderAre(con.ring, con.start, con.count, con.lines, old) =>
            OlderAre(con'.ring, con'.start, con'.count, con'.lines, old)
    BY <1>0, <2>1, SettleSound
  <2>6. Same(con', con, CallFields) /\ con'.in_view = con.in_view /\ con'.mixed = con.mixed
    <3>1. Same(con', con, TextCall)
      BY <2>4, SameMore DEF TextCall, TextFields
    <3>2. con'.mixed = con.mixed
      BY <2>4 DEF Same, Fields, SettleFields, ScrollFields
    <3> QED BY <3>1, <3>2, TextKept
  <2>7. con'.w = con.w /\ con'.ring_ptr = con.ring_ptr
    BY <2>6, Kept
  <2>8. con.ring_ptr = "live" /\ OlderBlank(con) => OlderBlank(con')
    BY <2>5, <2>7 DEF OlderBlank
  <2> QED BY <2>1, <2>3, <2>4, <2>6, <2>7, <2>8, Spoiled DEF Text
<1>4. CASE Kputs \/ KputsEnd
  <2> DEFINE on == pc = "puts"
             s == Switched(con, on)
  <2>1. /\ pc \in {"idle", "puts"} /\ pc' \in {"idle", "puts"}
        /\ con' = s \/ con' = Swap(s)
    <3>1. CASE Kputs
      BY <3>1 DEF Kputs, Callable, Switched
    <3>2. CASE KputsEnd
      BY <3>2 DEF KputsEnd, Running, Switched
    <3> QED BY <1>4, <3>1, <3>2
  <2>2. on \in BOOLEAN
    OBVIOUS
  <2> HIDE DEF on
  <2>3. Sound(s) /\ Same(s, con, {"auto_swap"})
    BY <1>0, <2>2, AutoSound
  <2> HIDE DEF s
  <2>4. Same(con', s, {"shown", "raw"})
    BY <2>1, <2>3, SwapSound, SameSelf DEF Sound, Firm, Shape
  <2>5. Same(con', con, {"auto_swap"} \cup {"shown", "raw"})
    BY <2>3, <2>4, SameTrans
  <2>6. Same(con', con, DrawnFields) /\ con'.screen = con.screen
    <3>1. Same(con', con, DrawnFields)
      BY <2>5, SameMore DEF DrawnFields
    <3> QED BY <2>5, <3>1 DEF Same, Fields
  <2> QED BY <2>1, <2>6, Untouched DEF Text
<1> QED BY <1>1, <1>2, <1>3, <1>4

LEMMA RememberedCalls ==
    ASSUME Inv, Remembered,
           \/ Clrscr \/ Refresh \/ RefreshColor \/ Swapping
           \/ \E enabled, ok \in BOOLEAN : SetDoubleBuffering(enabled, ok)
    PROVE  Remembered'
<1>0. /\ pc = "idle" /\ pc' = pc /\ Sound(con) /\ con.screen_ptr \in {"null", "live"}
  BY DEF Clrscr, Refresh, RefreshColor, Swapping, SetDoubleBuffering, Callable, Update, Inv, Owned,
         Stage, Sound, Firm, Shape, Pointers
<1>1. CASE Clrscr
  <2> DEFINE s == clrscr(con)
  <2>1. con' = [s EXCEPT !.mixed = con.in_view]
    BY <1>1 DEF Clrscr, Update
  <2>2. Sound(s) /\ Same(s, con, ClrscrFields)
    BY <1>0, ClrscrSound DEF Sound
  <2> HIDE DEF s
  <2>3. Same(con', s, {"mixed"}) /\ con'.mixed = con.in_view
    BY <2>1, <2>2, Noted
  <2>4. Same(con', con, ClrscrFields \cup {"mixed"})
    BY <2>2, <2>3, SameTrans
  <2>5. Same(con', con, CallFields) /\ con'.in_view = con.in_view
    BY <2>4, Apart, SameMore, InView
  <2>6. /\ con'.count = con.count /\ con'.ring = con.ring /\ con'.start = con.start
        /\ con'.lines = con.lines /\ con'.w = con.w
    BY <2>4 DEF Same, Fields, ClrscrFields
  <2>7. OlderBlank(con) => OlderBlank(con')
    BY <2>6 DEF OlderBlank
  <2> QED BY <1>0, <2>3, <2>5, <2>6, <2>7, Spoiled DEF Text
<1>2. CASE Refresh
  <2>1. Same(con', con, RedrawFields) /\ con'.screen = con.screen
    BY <1>0, <1>2, RefreshSound DEF Refresh, Update
  <2>2. Same(con', con, DrawnFields)
    BY <2>1, SameMore DEF RedrawFields, DrawnFields
  <2> QED BY <1>0, <2>1, <2>2, Untouched DEF Text
<1>3. CASE RefreshColor
  <2>1. /\ Same(con', con, RedrawFields)
        /\ con.screen_ptr = "live" => con'.screen = Recolored(con)
        /\ con.screen_ptr = "null" => con'.screen = con.screen
    BY <1>0, <1>3, RecolorSound DEF RefreshColor, Update
  <2>2. Same(con', con, DrawnFields)
    BY <2>1, SameMore DEF RedrawFields, DrawnFields
  <2>3. /\ con'.scale = con.scale /\ con'.w = con.w /\ con'.h = con.h /\ con'.lines = con.lines
        /\ con'.view = con.view /\ con'.in_view = con.in_view /\ con'.mixed = con.mixed
        /\ con'.ring_ptr = con.ring_ptr /\ con'.ring = con.ring /\ con'.start = con.start
        /\ con'.count = con.count /\ con'.screen_ptr = con.screen_ptr
    BY <2>2 DEF Same, Fields, DrawnFields
  <2>4. CASE con.screen_ptr = "null"
    BY <1>0, <2>1, <2>2, <2>4, Untouched DEF Text
  <2>5. CASE con.screen_ptr = "live"
    <3>1. HoldsView(con) => HoldsView(con')
      BY <1>0, <2>1, <2>3, <2>5, ViewRecolored
    <3>2. Viewed'
      BY <1>0, <2>3, <3>1 DEF Remembered, Viewed
    <3>3. Ringless' /\ RowsBlank' /\ Blurred'
      BY <1>0, <2>3 DEF Remembered, Ringless, RowsBlank, OlderBlank, Blurred
    <3> QED BY <3>2, <3>3 DEF Remembered
  <2> QED BY <1>0, <2>4, <2>5
<1>4. CASE Swapping
  <2>1. Same(con', con, {"shown", "raw"})
    BY <1>0, <1>4, SwapSound DEF Swapping, Update, Sound
  <2>2. Same(con', con, DrawnFields) /\ con'.screen = con.screen
    <3>1. Same(con', con, DrawnFields)
      BY <2>1, SameMore DEF DrawnFields
    <3> QED BY <2>1, <3>1 DEF Same, Fields
  <2> QED BY <1>0, <2>2, Untouched DEF Text
<1>5. CASE \E enabled, ok \in BOOLEAN : SetDoubleBuffering(enabled, ok)
  <2>1. Same(con', con, DoubleFields)
    BY <1>0, <1>5, DoubleSound DEF SetDoubleBuffering, Update
  <2>2. Same(con', con, DrawnFields) /\ con'.screen = con.screen
    <3>1. Same(con', con, DrawnFields)
      BY <2>1, SameMore DEF DrawnFields, DoubleFields
    <3> QED BY <2>1, <3>1 DEF Same, Fields, DoubleFields
  <2> QED BY <1>0, <2>2, Untouched DEF Text
<1> QED BY <1>1, <1>2, <1>3, <1>4, <1>5

-----------------------------------------------------------------------------
LEMMA RememberedDirect ==
    ASSUME Inv, Remembered, NEW p \in Cells,
           (\E c \in Letters : Kputchr(p, c)) \/ (\E color \in Colors : Kputcolor(p, color))
    PROVE  Remembered'
<1>0. pc = "idle" /\ pc' = pc /\ Sound(con)
  BY DEF Kputchr, Kputcolor, Direct, Callable, Inv
<1>1. p[1] \in Nat /\ p[2] \in Nat
  BY <1>0, CellsNat DEF Cells
<1>2. PICK s : Same(s, con, StoreFields) /\ con' = Marked(s) /\ Sound(s)
  <2>1. ASSUME NEW c \in Letters, Kputchr(p, c)
        PROVE  LET s == kputchr(con, p[1], p[2], c)
               IN  Same(s, con, StoreFields) /\ con' = Marked(s) /\ Sound(s)
    BY <1>0, <1>1, <2>1, KputchrSound DEF Chars, Kputchr, Direct, Marked
  <2>2. ASSUME NEW color \in Colors, Kputcolor(p, color)
        PROVE  LET s == kputcolor(con, p[1], p[2], color)
               IN  Same(s, con, StoreFields) /\ con' = Marked(s) /\ Sound(s)
    BY <1>0, <1>1, <2>2, ColorAssumption, KputcolorSound DEF Kputcolor, Direct, Marked
  <2> QED BY <2>1, <2>2
<1>3. Same(con', s, {"mixed", "raw"}) /\ con'.mixed = s.in_view
  BY <1>2, MarkedSound
<1>4. Same(con', con, StoreFields \cup {"mixed", "raw"})
  BY <1>2, <1>3, SameTrans
<1>5. Same(con', con, CallFields) /\ con'.in_view = con.in_view
  BY <1>4, Apart, SameMore, InView
<1>6. /\ s.in_view = con.in_view /\ con'.count = con.count /\ con'.ring = con.ring
      /\ con'.start = con.start /\ con'.lines = con.lines /\ con'.w = con.w
  BY <1>2, <1>4 DEF Same, Fields, StoreFields
<1>7. OlderBlank(con) => OlderBlank(con')
  BY <1>6 DEF OlderBlank
<1> QED BY <1>0, <1>3, <1>5, <1>6, <1>7, Spoiled DEF Text

(* A step in the view draws what the ring holds.                           *)
LEMMA RememberedView == ASSUME Inv, Remembered, ViewUp \/ ViewDown PROVE Remembered'
<1>0. /\ pc = "idle" /\ pc' = pc /\ Sound(con) /\ con.screen_ptr # "freed"
      /\ con.backup_ptr # "freed" /\ con.ring_ptr # "freed"
      /\ con' \in {view_scrollback_up(con), view_scrollback_down(con)}
  BY DEF ViewUp, ViewDown, Callable, Update, Inv, Owned, Stage
<1>1. Sound(con') /\ Same(con', con, ViewFields)
  BY <1>0, UpSound, DownSound
<1>2. \/ con' = con
      \/ con.ring_ptr = "live" /\ con.screen_ptr = "live" /\ con'.screen = History(con')
      \/ con'.in_view = FALSE
  <2>1. con.ring_ptr = "null" => con.count = 0 /\ con.in_view = FALSE
    BY DEF Remembered, Ringless
  <2>2. CASE con' = view_scrollback_up(con)
    <3>1. \/ con' = con
          \/ con.ring_ptr = "null" /\ con.count # 0
          \/ con.ring_ptr = "live" /\ con.screen_ptr = "live" /\ con'.screen = History(con')
      BY <1>0, <2>2, UpSound
    <3> QED BY <2>1, <3>1
  <2>3. CASE con' = view_scrollback_down(con)
    <3>1. \/ con' = con
          \/ con.in_view /\ con.ring_ptr = "null"
          \/ con.ring_ptr = "live" /\ con.screen_ptr = "live" /\ con'.screen = History(con')
          \/ con'.in_view = FALSE
      BY <1>0, <2>3, DownSound
    <3> QED BY <2>1, <3>1
  <2> QED BY <1>0, <2>2, <2>3
<1>3. /\ con'.ring_ptr = con.ring_ptr /\ con'.ring = con.ring /\ con'.start = con.start
      /\ con'.count = con.count /\ con'.lines = con.lines /\ con'.w = con.w
      /\ con'.screen_ptr = con.screen_ptr
  BY <1>1 DEF Same, Fields, ViewFields, RedrawFields
<1>4. con' = con => Remembered'
  <2>1. con' = con => Ringless' /\ RowsBlank' /\ Blurred' /\ Viewed'
    BY <1>0 DEF Remembered, Ringless, RowsBlank, Blurred, Viewed
  <2> QED BY <2>1 DEF Remembered
<1>5. RowsBlank'
  BY <1>0, <1>3 DEF Remembered, RowsBlank, OlderBlank
<1>6. ASSUME con.ring_ptr = "live", con.screen_ptr = "live", con'.screen = History(con')
      PROVE  Remembered'
  <2>1. OlderBlank(con')
    BY <1>0, <1>3, <1>5, <1>6 DEF RowsBlank, Text
  <2>2. HoldsView(con')
    BY <1>1, <1>3, <1>6, <2>1, HistoryExpected
  <2>3. Ringless' /\ Blurred' /\ Viewed'
    BY <1>0, <1>3, <1>6, <2>2 DEF Ringless, Blurred, Viewed
  <2> QED BY <1>5, <2>3 DEF Remembered
<1>7. ASSUME con'.in_view = FALSE PROVE Remembered'
  <2>1. Ringless' /\ Blurred' /\ Viewed'
    BY <1>0, <1>3, <1>7 DEF Remembered, Ringless, Blurred, Viewed
  <2> QED BY <1>5, <2>1 DEF Remembered
<1> QED BY <1>2, <1>4, <1>6, <1>7

(* While buffers are built there is neither text nor view, but what was    *)
(* written into a view is remembered.                                      *)
LEMMA Building ==
    ASSUME Remembered, pc' \notin Text \cup {"no_shadow", "fill"},
           pc' = "message" => ret' # "fill" /\ i' = 1,
           con'.ring_ptr = "null" => con.ring_ptr = "null",
           con'.count = con.count, con'.in_view = con.in_view, con'.mixed = con.mixed,
           con'.screen_ptr = "null" => con.screen_ptr = "null"
    PROVE  Remembered'
<1>1. Ringless'
  BY DEF Remembered, Ringless
<1>2. RowsBlank' /\ Viewed'
  BY DEF RowsBlank, Viewed
<1>3. Blurred'
  <2>1. ~(pc' = "message" /\ i' > 1) /\ pc' # "tab"
    BY DEF Text
  <2> QED BY <2>1 DEF Remembered, Blurred
<1> QED BY <1>1, <1>2, <1>3 DEF Remembered

LEMMA RememberedBuilds ==
    ASSUME Inv, Remembered, "scrollback" \notin Failures,
           \/ \E n \in Scales : SetFontScale(n)
           \/ ConsoleInitialize
           \/ \E ok \in BOOLEAN : \/ AllocShadow(ok) \/ AllocBackup(ok)
                                  \/ AllocScrollback(ok)
    PROVE  Remembered'
<1>0. Sound(con)
  BY DEF Inv
<1>1. ASSUME NEW n \in Scales, SetFontScale(n) PROVE Remembered'
  <2> DEFINE scale == Clamped(n)
  <2>1. scale \in 1..MAX_SCALE
    BY ScaleAssumption, ClampedScale
  <2>2. pc' = "shadow" /\ con' = Rescaled(con, scale)
    BY <1>1 DEF SetFontScale, Rescaled
  <2> HIDE DEF scale
  <2>3. /\ Same(con', con, RescaleFields) /\ con'.screen_ptr = Freed(con.screen_ptr)
        /\ con'.ring_ptr = Freed(con.ring_ptr)
    BY <1>0, <2>1, <2>2, RescaleSound
  <2>4. con'.count = con.count /\ con'.in_view = con.in_view /\ con'.mixed = con.mixed
    BY <2>3 DEF Same, Fields, RescaleFields
  <2>5. /\ con'.ring_ptr = "null" => con.ring_ptr = "null"
        /\ con'.screen_ptr = "null" => con.screen_ptr = "null"
    BY <2>3 DEF Freed
  <2> QED BY <2>2, <2>4, <2>5, Building DEF Text
<1>2. CASE ConsoleInitialize
  <2>1. pc' = "shadow" /\ con' = con
    BY <1>2 DEF ConsoleInitialize
  <2> QED BY <2>1, Building DEF Text
<1>3. ASSUME NEW ok \in BOOLEAN, AllocShadow(ok) PROVE Remembered'
  <2> DEFINE s == Resized(con)
  <2>1. \/ con' = Shadowed(s) /\ pc' = "backup"
        \/ con' = Switched(s, FALSE) /\ pc' = "message" /\ ret' = "no_shadow" /\ i' = 1
    BY <1>3 DEF AllocShadow, Allocate, Resized, Shadowed, Switched
  <2>2. Sound(s) /\ Same(s, con, {"w", "h", "synced"}) /\ Matched(s) /\ ~s.synced
    BY <1>0, ResizeSound
  <2> HIDE DEF s
  <2>3. \/ Same(con', s, {"screen", "screen_ptr"}) /\ con'.screen_ptr = "live"
        \/ Same(con', s, {"auto_swap"})
    BY <2>1, <2>2, ShadowSound, AutoSound
  <2>4. /\ con'.count = con.count /\ con'.in_view = con.in_view /\ con'.mixed = con.mixed
        /\ con'.ring_ptr = con.ring_ptr
        /\ con'.screen_ptr = "null" => con.screen_ptr = "null"
    BY <2>2, <2>3 DEF Same, Fields
  <2> QED BY <2>1, <2>4, Building DEF Text
<1>4. ASSUME NEW ok \in BOOLEAN, AllocBackup(ok) PROVE Remembered'
  <2> DEFINE t == IF ok THEN BackedUp(con) ELSE Unsaved(con)
  <2>1. /\ pc = "backup"
        /\ \/ con' = t /\ pc' = "scrollback"
           \/ con' = Switched(t, FALSE) /\ pc' = "message" /\ ret' = "scrollback" /\ i' = 1
    BY <1>4 DEF AllocBackup, Allocate, Running, BackedUp, Unsaved, Switched
  <2>2. t \in {BackedUp(con), Unsaved(con)}
    OBVIOUS
  <2> HIDE DEF t
  <2>3. Matched(con)
    BY <2>1 DEF Inv, Unfinished, Stage
  <2>4. Sound(t) /\ Same(t, con, {"backup", "backup_ptr", "entry"})
    BY <1>0, <2>2, <2>3, BackupSound
  <2>5. con' = t \/ Same(con', t, {"auto_swap"})
    BY <2>1, <2>4, AutoSound
  <2>6. /\ con'.count = con.count /\ con'.in_view = con.in_view /\ con'.mixed = con.mixed
        /\ con'.ring_ptr = con.ring_ptr /\ con'.screen_ptr = con.screen_ptr
    BY <2>4, <2>5 DEF Same, Fields
  <2> QED BY <2>1, <2>6, Building DEF Text
<1>5. ASSUME NEW ok \in BOOLEAN, AllocScrollback(ok) PROVE Remembered'
  <2>1. pc = "scrollback" /\ ok /\ con' = Scrollable(con) /\ pc' = "fill"
    BY <1>5 DEF AllocScrollback, Allocate, Running, Scrollable
  <2>2. Matched(con)
    BY <2>1 DEF Inv, Unfinished, Stage
  <2>3. Same(con', con, {"ring", "ring_ptr", "lines"}) /\ con'.ring_ptr = "live"
    BY <1>0, <2>1, <2>2, ScrollbackSound
  <2>4. con'.in_view = con.in_view /\ con'.mixed = con.mixed /\ con'.screen_ptr = con.screen_ptr
    BY <2>3 DEF Same, Fields
  <2>5. Ringless' /\ RowsBlank' /\ Blurred' /\ Viewed'
    BY <2>1, <2>3, <2>4 DEF Remembered, Ringless, RowsBlank, Blurred, Viewed, Text
  <2> QED BY <2>5 DEF Remembered
<1> QED BY <1>1, <1>2, <1>3, <1>4, <1>5

LEMMA RememberedMessages == ASSUME Inv, Remembered, NoShadow \/ MessageStep PROVE Remembered'
<1>0. Sound(con)
  BY DEF Inv
<1>1. CASE NoShadow
  <2>1. pc = "no_shadow" /\ con' = Unshadowed(con) /\ pc' = "backup"
    BY <1>1 DEF NoShadow, Running, Unshadowed
  <2>2. Same(con', con, {"screen", "screen_ptr"})
    BY <1>0, <2>1, UnshadowSound
  <2>3. /\ con'.in_view = con.in_view /\ con'.mixed = con.mixed /\ con'.count = con.count
        /\ con'.ring_ptr = con.ring_ptr
    BY <2>2 DEF Same, Fields
  <2>4. con.in_view => con.mixed
    BY <2>1 DEF Remembered, Blurred
  <2>5. Ringless' /\ RowsBlank' /\ Blurred' /\ Viewed'
    BY <2>1, <2>3, <2>4 DEF Remembered, Ringless, RowsBlank, Blurred, Viewed, Text
  <2> QED BY <2>5 DEF Remembered
<1>2. CASE MessageStep /\ i <= 2
  <2>1. /\ pc = "message" /\ ret # "fill" /\ i \in 1..3
    BY <1>2 DEF MessageStep, Running, Inv, Control, Remembered, Ringless
  <2> DEFINE c == Message[i]
  <2>2. con' = putc(con, c) /\ pc' = pc /\ ret' = ret
    BY <1>2, MessageText DEF MessageStep
  <2>3. c \in Chars \cup (Controls \ {"tab"})
    BY <1>2, <2>1, MessageText
  <2> HIDE DEF c
  <2>4. /\ Same(con', con, CallFields) /\ con'.in_view = con.in_view /\ con'.mixed = con.in_view
        /\ con.ring_ptr = "null" => con'.count = con.count
    BY <1>0, <2>2, <2>3, RememberedPutc
  <2>5. con'.ring_ptr = con.ring_ptr
    BY <2>4, Kept
  <2>6. Ringless' /\ RowsBlank' /\ Blurred' /\ Viewed'
    BY <2>1, <2>2, <2>4, <2>5 DEF Remembered, Ringless, RowsBlank, Blurred, Viewed, Text
  <2> QED BY <2>6 DEF Remembered
<1>3. CASE MessageStep /\ ~(i <= 2)
  <2>1. /\ pc = "message" /\ ret \in {"no_shadow", "scrollback"} /\ i \in 1..3
    BY <1>3 DEF MessageStep, Running, Inv, Control, Remembered, Ringless
  <2>2. con.in_view => con.mixed
    <3>1. i > 1
      BY <1>3, <2>1
    <3> QED BY <2>1, <3>1 DEF Remembered, Blurred
  <2> DEFINE s == Switched(con, TRUE)
  <2>3. con' = Swap(s) /\ pc' = ret
    BY <1>3, MessageText DEF MessageStep, Switched
  <2>4. Sound(s) /\ Same(s, con, {"auto_swap"})
    BY <1>0, AutoSound
  <2> HIDE DEF s
  <2>5. Same(con', s, {"shown", "raw"})
    BY <2>3, <2>4, SwapSound DEF Sound
  <2>6. /\ con'.in_view = con.in_view /\ con'.mixed = con.mixed /\ con'.count = con.count
        /\ con'.ring_ptr = con.ring_ptr
    BY <2>4, <2>5 DEF Same, Fields
  <2>7. Ringless' /\ RowsBlank' /\ Blurred' /\ Viewed'
    BY <2>1, <2>2, <2>3, <2>6 DEF Remembered, Ringless, RowsBlank, Blurred, Viewed, Text
  <2> QED BY <2>7 DEF Remembered
<1> QED BY <1>1, <1>2, <1>3

(* The new console shows no line, whatever the one before counted.         *)
LEMMA RememberedFill == ASSUME Inv, Remembered, NEW ok \in BOOLEAN, FillBuffers(ok) PROVE Remembered'
<1> DEFINE t == FilledIn(con, ok)
<1>1. /\ Sound(con) /\ pc = "fill" /\ pc' = "idle" /\ con.ring_ptr = "live"
      /\ ~con.synced /\ con.lines = <<>>
  <2>1. Sound(con) /\ pc = "fill" /\ pc' = "idle"
    BY DEF FillBuffers, Running, Inv
  <2> QED BY <2>1 DEF Inv, Unfinished, Stage, Remembered, Ringless
<1>2. con' = IF rescaling THEN clrscr(t) ELSE t
  BY DEF FillBuffers, FilledIn, Cleared
<1>3. /\ Sound(t) /\ Same(t, con, {"screen", "ring"} \cup DoubleFields)
      /\ t.screen = [k \in DOMAIN con.screen |-> Cell(NUL, 0)]
      /\ t.ring = Lines(con.w, NUL)
  BY <1>1, FillSound
<1> HIDE DEF t
<1>4. /\ t.ring_ptr = con.ring_ptr /\ t.in_view = con.in_view /\ t.mixed = con.mixed
      /\ t.lines = <<>> /\ t.screen_ptr = con.screen_ptr /\ t.w = con.w /\ t.h = con.h
  BY <1>1, <1>3 DEF Same, Fields, DoubleFields
<1>5. con.screen_ptr = "live" => DOMAIN con.screen = 0..(con.w * con.h - 1)
  BY <1>1 DEF Sound, Firm, Buffers
<1>6. /\ Sound(con') /\ con'.ring = Lines(con'.w, NUL) /\ con'.ring_ptr = "live"
      /\ con'.in_view = con.in_view /\ con'.mixed = con.mixed /\ con'.lines = <<>>
      /\ con'.screen_ptr = con.screen_ptr
      /\ con'.screen_ptr = "live" => HoldsView(con')
  <2>1. CASE rescaling
    <3>1. /\ Sound(con') /\ Same(con', t, ClrscrFields)
          /\ t.screen_ptr = "live" => con'.screen = [k \in DOMAIN t.screen |-> Cell(NUL, DEFAULT_COLOR)]
      BY <1>2, <1>3, <2>1, ClrscrSound DEF Sound
    <3>2. /\ con'.ring = t.ring /\ con'.ring_ptr = t.ring_ptr /\ con'.in_view = t.in_view
          /\ con'.mixed = t.mixed /\ con'.lines = t.lines /\ con'.screen_ptr = t.screen_ptr
          /\ con'.w = t.w /\ con'.h = t.h
      BY <3>1 DEF Same, Fields, ClrscrFields
    <3>3. con.screen_ptr = "live" => con'.screen = [k \in 0..(con'.w * con'.h - 1) |-> Cell(NUL, DEFAULT_COLOR)]
      <4> SUFFICES ASSUME con.screen_ptr = "live"
                   PROVE  con'.screen = [k \in 0..(con'.w * con'.h - 1) |-> Cell(NUL, DEFAULT_COLOR)]
        OBVIOUS
      <4>1. DOMAIN t.screen = 0..(con.w * con.h - 1)
        BY <1>3, <1>5
      <4>2. con'.w = con.w /\ con'.h = con.h
        BY <1>4, <3>2
      <4>3. con'.screen = [k \in DOMAIN t.screen |-> Cell(NUL, DEFAULT_COLOR)]
        BY <1>4, <3>1
      <4> QED BY <4>1, <4>2, <4>3
    <3>4. con'.screen_ptr = "live" => HoldsView(con')
      BY <1>4, <3>1, <3>2, <3>3, ViewBlank
    <3> QED BY <1>1, <1>3, <1>4, <3>1, <3>2, <3>4
  <2>2. CASE ~rescaling
    <3>1. con' = t
      BY <1>2, <2>2
    <3>2. con.screen_ptr = "live" => t.screen = [k \in 0..(t.w * t.h - 1) |-> Cell(NUL, 0)]
      BY <1>3, <1>4, <1>5
    <3>3. t.screen_ptr = "live" => HoldsView(t)
      BY <1>3, <1>4, <3>2, ViewBlank
    <3> QED BY <1>1, <1>3, <1>4, <3>1, <3>3
  <2> QED BY <2>1, <2>2
<1>7. OlderBlank(con')
  BY <1>6, RingBlank
<1>8. Ringless' /\ RowsBlank' /\ Viewed'
  BY <1>1, <1>6, <1>7 DEF Ringless, RowsBlank, Viewed
<1>9. Blurred'
  BY <1>1, <1>6 DEF Remembered, Blurred
<1> QED BY <1>8, <1>9 DEF Remembered

LEMMA RememberedNext ==
    ASSUME Inv, Remembered, "scrollback" \notin Failures, [Next]_vars PROVE Remembered'
<1>1. CASE UNCHANGED vars
  <2>1. Ringless' /\ RowsBlank' /\ Blurred' /\ Viewed'
    BY <1>1 DEF vars, Remembered, Ringless, RowsBlank, Blurred, Viewed
  <2> QED BY <2>1 DEF Remembered
<1>2. CASE \/ \E c \in Characters : Kputc(c) \/ KputsChar(c)
           \/ TabStep \/ TabDone \/ Kputs \/ KputsEnd
  BY <1>2, RememberedWrites
<1>3. CASE \/ Clrscr \/ Refresh \/ RefreshColor \/ Swapping
           \/ \E enabled, ok \in BOOLEAN : SetDoubleBuffering(enabled, ok)
  BY <1>3, RememberedCalls
<1>4. CASE ViewUp \/ ViewDown
  BY <1>4, RememberedView
<1>5. CASE \/ \E p \in Cells, c \in Letters : Kputchr(p, c)
           \/ \E p \in Cells, color \in Colors : Kputcolor(p, color)
  BY <1>5, RememberedDirect
<1>6. CASE \/ \E n \in Scales : SetFontScale(n)
           \/ ConsoleInitialize
           \/ \E ok \in BOOLEAN : AllocShadow(ok) \/ AllocBackup(ok) \/ AllocScrollback(ok)
  BY <1>6, RememberedBuilds
<1>7. CASE NoShadow \/ MessageStep
  BY <1>7, RememberedMessages
<1>8. CASE \E ok \in BOOLEAN : FillBuffers(ok)
  BY <1>8, RememberedFill
<1> QED BY <1>1, <1>2, <1>3, <1>4, <1>5, <1>6, <1>7, <1>8 DEF Next

LEMMA ViewShown == Inv /\ Remembered => ViewShowsHistory
<1> SUFFICES ASSUME Inv, Remembered, con.in_view, ~con.mixed, con.synced, pc = "idle",
                    NEW p \in DOMAIN con.drawn
             PROVE  con.drawn[p] = Expected(con, p)
  BY DEF ViewShowsHistory, Expected
<1>1. con.screen_ptr = "live"
  BY DEF Inv, Owned, Stage, Remembered, Blurred, Sound, Firm, Shape, Pointers
<1>2. p \in Grid(con.scale)
  BY DEF Inv, Sound, Firm, Buffers
<1>3. con.drawn[p] = Look(con.screen[Index(con, p[1], p[2])])
  BY <1>1, <1>2 DEF Inv, Sound, Picture
<1>4. HoldsView(con)
  BY <1>1 DEF Remembered, Viewed, Text
<1> QED BY <1>2, <1>3, <1>4 DEF HoldsView

(* redraw_from_scrollback shows the lines that scrolled off and nothing    *)
(* else, also right after a new font scale, when the ring is new but       *)
(* scrollback_count still that of the one before.  A ring that could not   *)
(* be allocated shows nothing: the view is then what was there before.     *)
THEOREM HistoryShown ==
    ASSUME "scrollback" \notin Failures
    PROVE  Spec => []ViewShowsHistory
<1>1. Init => Remembered
  <2> SUFFICES ASSUME Init PROVE Remembered
    OBVIOUS
  <2>1. pc = "idle" /\ con.ring_ptr = "null" /\ con.count = 0 /\ con.in_view = FALSE
    BY DEF Init
  <2>2. Ringless /\ RowsBlank /\ Blurred /\ Viewed
    BY <2>1 DEF Ringless, RowsBlank, Blurred, Viewed
  <2> QED BY <2>2 DEF Remembered
<1>2. Inv /\ Remembered /\ [Next]_vars => Remembered'
  BY RememberedNext
<1> QED BY InvAlways, ViewShown, <1>1, <1>2, PTL DEF Spec
=============================================================================
