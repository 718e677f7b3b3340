------------------------------- MODULE Console -------------------------------
(***************************************************************************)
(* The console of src/kernel/libs/stdio.c and the drawing target it uses   *)
(* (src/kernel/libs/graphics.c): a shadow buffer of characters and         *)
(* colours, a ring of the lines that scrolled off, a view of that ring,    *)
(* and the picture drawn, which is shown at once or, with double           *)
(* buffering, when the back buffer is copied.                              *)
(*                                                                         *)
(* The picture is kept per character cell: what is left of the screen to   *)
(* the right of and below the last whole cell stays black and is not       *)
(* modelled.  The console's globals are the fields of one record, which    *)
(* the functions of stdio.c transform.                                     *)
(***************************************************************************)
EXTENDS Integers, Sequences

CONSTANTS
    ScreenWidth,       \* g_vbe_screen->width in characters of scale 1
    ScreenHeight,      \* g_vbe_screen->height likewise
    MAX_SCALE,         \* 8: the largest font scale
    SCROLLBACK_LINES,  \* 10 (stdio.h)
    INITIAL_SCALE,     \* 2: g_FontScale at the start
    CONSOLE_WIDTH,     \* 80: g_ConsoleWidth before console_initialize
    CONSOLE_HEIGHT,    \* 25: g_ConsoleHeight likewise
    Letters,           \* the printing characters that are written
    Colors,            \* the colours that callers pass to kputcolor
    Scales,            \* the arguments of console_set_font_scale
    Calls,             \* the functions that callers use
    Failures,          \* the buffers whose allocation may fail
    MaxText            \* bound: the characters and colours written, and the
                       \* calls of console_initialize, in all

(* Every font scale leaves room for a character.                           *)
ASSUME ScreenAssumption ==
    /\ MAX_SCALE \in Nat \ {0}
    /\ ScreenWidth \in Nat /\ ScreenWidth >= MAX_SCALE
    /\ ScreenHeight \in Nat /\ ScreenHeight >= MAX_SCALE
    /\ INITIAL_SCALE \in 1..MAX_SCALE
ASSUME SizeAssumption ==
    /\ SCROLLBACK_LINES \in Nat \ {0}
    /\ CONSOLE_WIDTH \in Nat \ {0} /\ CONSOLE_HEIGHT \in Nat \ {0}
ASSUME ColorAssumption == Colors \subseteq 0..255
ASSUME ScaleAssumption == Scales \subseteq Int

DEFAULT_COLOR == 7

SPACE == "space"
NUL   == "nul"
JUNK  == "junk"      \* what malloc finds in the memory it returns
Controls == {"newline", "backspace", "tab", "return"}

Cell(c, color) == [c |-> c, color |-> color]
JunkCell == Cell(JUNK, 256)

(* What draw_char_at paints: foreground and background are indices of      *)
(* vga_colors, and where they agree, or where there is no glyph, only the  *)
(* background shows.  OLD is what other text has left on the screen.       *)
Paint(c, fg, bg) == [c |-> c, fg |-> fg, bg |-> bg]
OLD   == Paint("old", 0, 0)
BLACK == Paint(SPACE, 0, 0)
Look(cell) ==
    LET fg == cell.color % 16
        bg == cell.color \div 16
    IN  IF cell.c = JUNK \/ cell.color = 256 THEN Paint(JUNK, 0, 0)
        ELSE IF cell.c \in {SPACE, NUL} \/ fg = bg THEN Paint(SPACE, bg, bg)
        ELSE Paint(cell.c, fg, bg)

VARIABLES
    con,       \* the globals of stdio.c and graphics.c
    pc,        \* where the call in progress is
    i,         \* the loop variable of a tab or a message
    ret,       \* where a tab or a message returns to
    rescaling, \* console_initialize was called by console_set_font_scale
    written    \* history: what MaxText bounds

vars == <<con, pc, i, ret, rescaling, written>>

(* The character cells of the screen, and all of them painted alike.       *)
Grid(scale) == (0..(ScreenWidth \div scale) - 1) \X (0..(ScreenHeight \div scale) - 1)
Filled(scale, paint) == [p \in Grid(scale) |-> paint]
Rows    == 0..(SCROLLBACK_LINES - 1)
Lines(w, c) == [row \in Rows |-> [x \in 0..(w - 1) |-> c]]

Init ==
    /\ con = [x |-> 0, y |-> 0,                         \* g_ScreenX, g_ScreenY
              w |-> CONSOLE_WIDTH, h |-> CONSOLE_HEIGHT, \* g_ConsoleWidth, ...
              scale |-> INITIAL_SCALE,                  \* g_FontScale
              screen |-> <<>>, screen_ptr |-> "null",   \* g_ScreenBuffer
              backup |-> <<>>, backup_ptr |-> "null",   \* live_screen_backup
              ring |-> <<>>, ring_ptr |-> "null",       \* scrollback_buffer
              start |-> 0, count |-> 0, view |-> 0,     \* scrollback_start, ...
              in_view |-> FALSE,                        \* in_scrollback_mode
              auto_swap |-> TRUE,                       \* g_ConsoleAutoSwap
              double |-> FALSE,                         \* g_DoubleBufferEnabled
              drawn |-> Filled(INITIAL_SCALE, BLACK),   \* the drawing target
              shown |-> Filled(INITIAL_SCALE, BLACK),   \* the frame buffer
              wild |-> {},      \* history: the accesses to no buffer
              lines |-> <<>>,   \* history: the last lines that scrolled off
              entry |-> <<>>,   \* history: the screen when the view began
              mixed |-> FALSE,  \* history: text was written into the view
              synced |-> FALSE, \* history: all of the screen was drawn, and
                                \* each cell since where it is stored
              raw |-> FALSE]    \* history: something drawn awaits a swap
    /\ pc = "idle"
    /\ i = 0
    /\ ret = "idle"
    /\ rescaling = FALSE
    /\ written = 0
-----------------------------------------------------------------------------
(* graphics_swap_buffer, where double buffering is enabled.                *)
Swap(s) == IF s.double THEN [s EXCEPT !.shown = s.drawn, !.raw = FALSE] ELSE s

(* What is drawn is shown at once unless there is a back buffer.           *)
Draw(s, picture) ==
    [s EXCEPT !.drawn = picture, !.shown = IF s.double THEN @ ELSE picture]

(* draw_char_at: draw_pixel ignores what lies beyond the screen.           *)
draw_char_at(s, x, y, cell) ==
    IF <<x, y>> \in DOMAIN s.drawn
    THEN Draw(s, [s.drawn EXCEPT ![<<x, y>>] = Look(cell)])
    ELSE s

Wild(s, access) == [s EXCEPT !.wild = @ \cup {access}]
Index(s, x, y)  == y * s.w + x

(* kgetchr and kgetcolor for a cell of the buffer, or without a buffer.    *)
CellAt(s, x, y) ==
    IF s.screen_ptr = "null" THEN Cell(NUL, DEFAULT_COLOR) ELSE s.screen[Index(s, x, y)]

(* A cell is stored in the shadow buffer and drawn.  The buffer may have   *)
(* been freed, and the cursor may be beyond it, or beyond its line: then   *)
(* the cell that is stored is another than the one that is drawn.          *)
Store(s, x, y, cell) ==
    CASE s.screen_ptr = "freed" -> Wild(s, "freed")
      [] s.screen_ptr = "null"  -> draw_char_at(s, x, y, cell)
      [] OTHER -> IF Index(s, x, y) \in DOMAIN s.screen
                  THEN draw_char_at([s EXCEPT !.screen[Index(s, x, y)] = cell,
                                              !.synced = @ /\ x < s.w], x, y, cell)
                  ELSE Wild(s, "outside")

(* The colour of a cell stays what it was, and so does the character when  *)
(* its colour is set.                                                      *)
kputchr(s, x, y, c) ==
    LET color == IF s.screen_ptr = "live" /\ Index(s, x, y) \in DOMAIN s.screen
                 THEN s.screen[Index(s, x, y)].color ELSE DEFAULT_COLOR
    IN  Store(s, x, y, Cell(c, color))

kputcolor(s, x, y, color) ==
    IF s.screen_ptr = "null" THEN s
    ELSE Store(s, x, y, Cell(CellAt(s, x, y).c, color))

(* Mutant: the cells drawn again are not shown.                            *)
RedrawUnshown(s, screen) ==
    LET t == [s EXCEPT !.screen = screen, !.synced = TRUE]
    IN  Draw(t, [p \in DOMAIN s.drawn |->
                    IF p[1] < s.w /\ p[2] < s.h
                    THEN Look(CellAt(t, p[1], p[2])) ELSE s.drawn[p]])

(* All cells are drawn again, with what the shadow buffer is to hold.      *)
Redraw(s, screen) ==
    LET t == [s EXCEPT !.screen = screen, !.synced = TRUE]
    IN  Swap(Draw(t, [p \in DOMAIN s.drawn |->
                         IF p[1] < s.w /\ p[2] < s.h
                         THEN Look(CellAt(t, p[1], p[2])) ELSE s.drawn[p]]))

clrscr(s) ==
    LET cleared == Filled(s.scale, BLACK)
        screen  == IF s.screen_ptr = "live"
                   THEN [k \in DOMAIN s.screen |-> Cell(NUL, DEFAULT_COLOR)] ELSE s.screen
    IN  Swap(Draw([s EXCEPT !.x = 0, !.y = 0, !.screen = screen, !.synced = TRUE], cleared))

(* What the history keeps of the lines that scrolled off.                  *)
LastLines(lines) ==
    IF Len(lines) > SCROLLBACK_LINES THEN Tail(lines) ELSE lines

(* Mutant: the last line of the screen stays where it is.                  *)
moved_up_uncleared(s) ==
    [k \in DOMAIN s.screen |->
        IF k + s.w \in DOMAIN s.screen THEN s.screen[k + s.w] ELSE s.screen[k]]

(* The shadow buffer after all lines but the first have moved up.          *)
moved_up(s) ==
    [k \in DOMAIN s.screen |->
        IF k + s.w \in DOMAIN s.screen THEN s.screen[k + s.w] ELSE Cell(NUL, DEFAULT_COLOR)]

(* And the picture, whose last line is filled with the background.         *)
picture_up(s) ==
    LET last == (ScreenHeight \div s.scale) - 1
    IN  [p \in DOMAIN s.drawn |->
            IF p[2] < last THEN s.drawn[<<p[1], p[2] + 1>>] ELSE BLACK]

(* Mutant: a full ring forgets no line.                                    *)
ring_start_fixed(s) == s.start

(* Where the ring starts after it took a line: a full ring forgets one.    *)
ring_start(s) ==
    IF s.count < SCROLLBACK_LINES THEN s.start ELSE (s.start + 1) % SCROLLBACK_LINES

(* scrollback(1): the top line goes to the ring, everything moves up.      *)
(* Without a ring nothing happens at all, and the cursor stays below.      *)
scrollback(s) ==
    LET row  == (s.start + s.count) % SCROLLBACK_LINES
        line == [x \in 0..(s.w - 1) |-> CellAt(s, x, 0).c]
    IN  CASE s.ring_ptr = "null" -> s
          [] s.ring_ptr # "null" /\ "freed" \in {s.ring_ptr, s.screen_ptr} -> Wild(s, "freed")
          [] OTHER -> Swap(Draw(
                [s EXCEPT !.ring[row] = line,
                          !.start = ring_start(s),
                          !.count = IF @ < SCROLLBACK_LINES THEN @ + 1 ELSE @,
                          !.screen = moved_up(s),
                          !.y = @ - 1,
                          !.lines = LastLines(Append(@, line))],
                picture_up(s)))

(* What kputc does with the character itself.                              *)
Put(s, c) ==
    CASE c = "newline" -> [s EXCEPT !.x = 0, !.y = @ + 1]
      [] c = "return"  -> [s EXCEPT !.x = 0]
      [] c = "backspace" /\ s.x > 0 ->
            kputchr([s EXCEPT !.x = @ - 1], s.x - 1, s.y, SPACE)
      [] c = "backspace" /\ s.x = 0 /\ s.y > 0 ->
            kputchr([s EXCEPT !.x = s.w - 1, !.y = @ - 1], s.w - 1, s.y - 1, SPACE)
      [] c = "backspace" /\ s.x = 0 /\ s.y <= 0 -> s
      [] OTHER -> [kputchr(s, s.x, s.y, c) EXCEPT !.x = @ + 1]

(* Mutant: the cursor wraps one column late.                               *)
SettleLate(s) ==
    LET wrapped  == IF s.x > s.w THEN [s EXCEPT !.x = 0, !.y = @ + 1] ELSE s
        scrolled == IF wrapped.y >= wrapped.h THEN scrollback(wrapped) ELSE wrapped
    IN  IF s.auto_swap THEN Swap(scrolled) ELSE scrolled

(* And what it does after any character: wrap, scroll, show.               *)
Settle(s) ==
    LET wrapped  == IF s.x >= s.w THEN [s EXCEPT !.x = 0, !.y = @ + 1] ELSE s
        scrolled == IF wrapped.y >= wrapped.h THEN scrollback(wrapped) ELSE wrapped
    IN  IF s.auto_swap THEN Swap(scrolled) ELSE scrolled

putc(s, c) ==
    Settle([Put(s, c) EXCEPT !.mixed = s.in_view])

(* Mutant: the view is a line too far down.                                *)
history_line_late(s, y) == s.count - s.view - (s.h - y)

(* Which line of the ring the view shows in row y: the view-th newest at   *)
(* the bottom, above it the ones before.                                   *)
history_line(s, y) == s.count - s.view - (s.h - 1 - y)

(* Rows with no line of the ring are blank.  The ring may be missing.      *)
redraw_from_scrollback(s) ==
    LET char(k) == LET n == history_line(s, k \div s.w)
                   IN  IF n \in 0..(s.count - 1)
                       THEN s.ring[(s.start + n) % SCROLLBACK_LINES][k % s.w]
                       ELSE SPACE
    IN  IF s.ring_ptr = "null" THEN Wild(s, "null")
        ELSE Redraw([s EXCEPT !.mixed = FALSE],
                    [k \in DOMAIN s.screen |-> Cell(char(k), DEFAULT_COLOR)])

(* Mutant: the screen is saved at every step up, the view included.        *)
EnteredAgain(s) ==
    [s EXCEPT !.backup = s.screen, !.in_view = TRUE,
              !.entry = IF s.in_view THEN @ ELSE IF s.synced THEN s.drawn ELSE <<>>]

(* The screen is saved when the view is entered.                           *)
Entered(s) ==
    IF s.in_view THEN s
    ELSE [s EXCEPT !.backup = s.screen, !.in_view = TRUE,
                   !.entry = IF s.synced THEN s.drawn ELSE <<>>]

view_scrollback_up(s) ==
    IF s.count = 0 \/ s.backup_ptr = "null" \/ s.screen_ptr = "null" THEN s
    ELSE redraw_from_scrollback(
            [Entered(s) EXCEPT !.view = IF @ + 1 > s.count THEN s.count ELSE @ + 1])

view_scrollback_down(s) ==
    IF ~s.in_view \/ s.backup_ptr = "null" \/ s.screen_ptr = "null" THEN s
    ELSE IF s.view - 1 <= 0
    THEN Redraw([s EXCEPT !.view = 0, !.in_view = FALSE, !.mixed = FALSE], s.backup)
    ELSE redraw_from_scrollback([s EXCEPT !.view = @ - 1])

console_refresh(s) == Redraw(s, s.screen)

refresh_screen_color(s) ==
    IF s.screen_ptr = "null" THEN Swap(s)
    ELSE Redraw(s, [k \in DOMAIN s.screen |-> Cell(s.screen[k].c, DEFAULT_COLOR)])

(* graphics_set_double_buffering(enabled), where malloc may fail: a new    *)
(* back buffer is black.  What was drawn but not shown is lost with it.    *)
set_double_buffering(s, enabled, ok) ==
    CASE enabled /\ ~s.double /\ ok ->
            [s EXCEPT !.double = TRUE, !.drawn = Filled(s.scale, BLACK), !.synced = FALSE,
                      !.raw = TRUE]
      [] ~enabled /\ s.double -> [s EXCEPT !.double = FALSE, !.drawn = s.shown,
                                           !.synced = FALSE, !.raw = FALSE]
      [] OTHER -> s
-----------------------------------------------------------------------------
(* A call is possible, and one of those that are used.                     *)
Callable(call) == pc = "idle" /\ con.wild = {} /\ call \in Calls
Running(at)    == pc = at /\ con.wild = {}

(* kputc(c), from a caller or from kputs.  A tab is a loop of kputc(' ').  *)
PutChar(c) ==
    /\ written < MaxText
    /\ written' = written + 1
    /\ IF c = "tab"
       THEN pc' = "tab" /\ i' = 0 /\ ret' = pc /\ UNCHANGED <<con, rescaling>>
       ELSE con' = putc(con, c) /\ UNCHANGED <<pc, i, ret, rescaling>>

(* i < 4 - (g_ScreenX % 4): the bound moves with the cursor.               *)
TabStep ==
    /\ Running("tab") /\ i < 4 - (con.x % 4)
    /\ con' = putc(con, SPACE)
    /\ i' = i + 1
    /\ UNCHANGED <<pc, ret, rescaling, written>>

TabDone ==
    /\ Running("tab") /\ i >= 4 - (con.x % 4)
    /\ con' = Settle(con)
    /\ pc' = ret /\ i' = 0 /\ ret' = "idle"
    /\ UNCHANGED <<rescaling, written>>

Kputc(c) == Callable("kputc") /\ PutChar(c)

(* kputs, and kprintf, which writes through kputc in the same way: only    *)
(* the last of its characters shows what was drawn.                        *)
Kputs ==
    /\ Callable("kputs")
    /\ con' = [con EXCEPT !.auto_swap = FALSE]
    /\ pc' = "puts"
    /\ UNCHANGED <<i, ret, rescaling, written>>

KputsChar(c) == Running("puts") /\ PutChar(c)

KputsEnd ==
    /\ Running("puts")
    /\ con' = Swap([con EXCEPT !.auto_swap = TRUE])
    /\ pc' = "idle"
    /\ UNCHANGED <<i, ret, rescaling, written>>

(* The calls that are one step.                                            *)
Update(s) == con' = s /\ UNCHANGED <<pc, i, ret, rescaling, written>>

Clrscr       == Callable("clrscr") /\ Update([clrscr(con) EXCEPT !.mixed = con.in_view])
Refresh      == Callable("refresh") /\ Update(console_refresh(con))
RefreshColor == Callable("refresh") /\ Update(refresh_screen_color(con))
ViewUp       == Callable("view") /\ Update(view_scrollback_up(con))
ViewDown     == Callable("view") /\ Update(view_scrollback_down(con))
Swapping     == Callable("double") /\ Update(Swap(con))

Cells == (0..(con.w - 1)) \X (0..(con.h - 1))
Direct(s) ==
    /\ Callable("direct") /\ written < MaxText
    /\ con' = [s EXCEPT !.mixed = s.in_view, !.raw = s.double]
    /\ written' = written + 1
    /\ UNCHANGED <<pc, i, ret, rescaling>>

Kputchr(p, c)       == Direct(kputchr(con, p[1], p[2], c))
Kputcolor(p, color) == Direct(kputcolor(con, p[1], p[2], color))

SetDoubleBuffering(enabled, ok) ==
    /\ Callable("double")
    /\ ok \/ "back" \in Failures
    /\ Update(set_double_buffering(con, enabled, ok))
-----------------------------------------------------------------------------
(* The three buffers are allocated one after the other, and a failure is   *)
(* reported with kprintf before the next is allocated.                     *)
Clamped(n) == IF n < 1 THEN 1 ELSE IF n > MAX_SCALE THEN MAX_SCALE ELSE n
Freed(ptr) == IF ptr = "live" THEN "freed" ELSE ptr

(* console_set_font_scale up to its call of console_initialize.            *)
SetFontScale(n) ==
    /\ Callable("rescale")
    /\ LET scale   == Clamped(n)
           picture == Filled(scale, OLD)
           same    == scale = con.scale
       IN  con' = [con EXCEPT !.scale = scale,
                              !.screen = <<>>, !.screen_ptr = Freed(@),
                              !.backup = <<>>, !.backup_ptr = Freed(@),
                              !.ring = <<>>, !.ring_ptr = Freed(@),
                              !.drawn = IF same THEN @ ELSE picture,
                              !.shown = IF same THEN @ ELSE picture]
    /\ pc' = "shadow" /\ rescaling' = TRUE
    /\ UNCHANGED <<i, ret, written>>

(* console_initialize, when a caller calls it.                             *)
ConsoleInitialize ==
    /\ Callable("init") /\ written < MaxText
    /\ pc' = "shadow" /\ rescaling' = FALSE /\ written' = written + 1
    /\ UNCHANGED <<con, i, ret>>

(* An allocation: on failure the message comes before the next step.       *)
Allocate(at, ok, after, success, failure) ==
    /\ Running(at)
    /\ ok \/ at \in Failures
    /\ IF ok
       THEN con' = success /\ pc' = after /\ UNCHANGED <<i, ret>>
       ELSE /\ con' = [failure EXCEPT !.auto_swap = FALSE]
            /\ pc' = "message" /\ i' = 1
            /\ ret' = IF at = "shadow" THEN "no_shadow" ELSE after
    /\ UNCHANGED <<rescaling, written>>

AllocShadow(ok) ==
    LET s == [con EXCEPT !.w = ScreenWidth \div con.scale,
                         !.h = ScreenHeight \div con.scale, !.synced = FALSE]
    IN  Allocate("shadow", ok, "backup",
                 [s EXCEPT !.screen = [k \in 0..(s.w * s.h - 1) |-> JunkCell],
                           !.screen_ptr = "live"],
                 s)

(* g_ScreenBuffer follows g_ShadowBuffer only after the message.           *)
NoShadow ==
    /\ Running("no_shadow")
    /\ con' = [con EXCEPT !.screen = <<>>, !.screen_ptr = "null"]
    /\ pc' = "backup"
    /\ UNCHANGED <<i, ret, rescaling, written>>

AllocBackup(ok) ==
    Allocate("backup", ok, "scrollback",
             [con EXCEPT !.backup = [k \in 0..(con.w * con.h - 1) |-> JunkCell],
                         !.backup_ptr = "live", !.entry = <<>>],
             [con EXCEPT !.backup = <<>>, !.backup_ptr = "null"])

AllocScrollback(ok) ==
    Allocate("scrollback", ok, "fill",
             [con EXCEPT !.ring = Lines(con.w, JUNK), !.ring_ptr = "live", !.lines = <<>>],
             [con EXCEPT !.ring = <<>>, !.ring_ptr = "null"])

(* The text of the message does not matter, only that it ends a line.      *)
Message == <<"message", "newline">>

MessageStep ==
    /\ Running("message")
    /\ IF i <= Len(Message)
       THEN con' = putc(con, Message[i]) /\ i' = i + 1 /\ UNCHANGED <<pc, ret>>
       ELSE /\ con' = Swap([con EXCEPT !.auto_swap = TRUE])
            /\ pc' = ret /\ i' = 0 /\ ret' = "idle"
    /\ UNCHANGED <<rescaling, written>>

(* Two of the buffers are cleared, double buffering is enabled, and        *)
(* console_set_font_scale clears the screen.                               *)
FillBuffers(ok) ==
    LET filled == [con EXCEPT !.screen = [k \in DOMAIN con.screen |-> Cell(NUL, 0)],
                              !.ring = IF con.ring_ptr = "live" THEN Lines(con.w, NUL) ELSE @]
        buffered == set_double_buffering(filled, TRUE, ok)
    IN  /\ Running("fill")
        /\ ok \/ "back" \in Failures
        /\ con' = IF rescaling THEN clrscr(buffered) ELSE buffered
        /\ pc' = "idle" /\ rescaling' = FALSE
        /\ UNCHANGED <<i, ret, written>>

-----------------------------------------------------------------------------
Characters == Letters \cup Controls

Next ==
    \/ \E c \in Characters : Kputc(c) \/ KputsChar(c)
    \/ TabStep \/ TabDone
    \/ Kputs \/ KputsEnd
    \/ Clrscr \/ Refresh \/ RefreshColor \/ Swapping
    \/ ViewUp \/ ViewDown
    \/ \E p \in Cells, c \in Letters : Kputchr(p, c)
    \/ \E p \in Cells, color \in Colors : Kputcolor(p, color)
    \/ ConsoleInitialize
    \/ \E n \in Scales : SetFontScale(n)
    \/ \E ok \in BOOLEAN :
          \/ AllocShadow(ok) \/ AllocBackup(ok) \/ AllocScrollback(ok) \/ FillBuffers(ok)
          \/ \E enabled \in BOOLEAN : SetDoubleBuffering(enabled, ok)
    \/ NoShadow \/ MessageStep

Spec == Init /\ [][Next]_vars
-----------------------------------------------------------------------------
Chars  == Letters \cup {SPACE, NUL, JUNK, "message"}
AnyCell == [c : Chars, color : 0..256]
Paints == [c : Letters \cup {SPACE, JUNK, "old", "message"}, fg : 0..15, bg : 0..15]
Pointers == {"null", "live", "freed"}

(* The console's globals have their types; the shadow buffer and the ring  *)
(* have the size of the screen.                                            *)
TypeOK ==
    /\ con.x \in Nat /\ con.y \in Nat /\ con.w \in Nat \ {0} /\ con.h \in Nat \ {0}
    /\ con.scale \in 1..MAX_SCALE
    /\ {con.screen_ptr, con.backup_ptr, con.ring_ptr} \subseteq Pointers
    /\ con.screen_ptr = "live" => con.screen \in [0..(con.w * con.h - 1) -> AnyCell]
    /\ con.backup_ptr = "live" => con.backup \in [0..(con.w * con.h - 1) -> AnyCell]
    /\ con.ring_ptr = "live" => con.ring \in [Rows -> [0..(con.w - 1) -> Chars]]
    /\ con.start \in Rows /\ con.count \in 0..SCROLLBACK_LINES
    /\ con.view \in 0..con.count
    /\ {con.in_view, con.auto_swap, con.double, rescaling} \subseteq BOOLEAN
    /\ con.drawn \in [Grid(con.scale) -> Paints]
    /\ con.shown \in [Grid(con.scale) -> Paints]
    /\ pc \in {"idle", "tab", "puts", "message", "shadow", "no_shadow", "backup",
               "scrollback", "fill"}

(* Whatever is written, wrapped, scrolled, erased or rescaled, the console *)
(* touches only cells of buffers that it owns, and cursor, ring and view   *)
(* keep to their ranges.                                                   *)
StaysInBuffers == TypeOK /\ con.wild = {}

(* The newest lines of the ring are the lines that scrolled off last, in   *)
(* their order; it forgets none before it is full.                         *)
RingHoldsLastLines ==
    con.ring_ptr = "live" =>
        LET n == Len(con.lines)
        IN  /\ n <= con.count
            /\ \A k \in 1..n :
                  con.ring[(con.start + con.count - n + k - 1) % SCROLLBACK_LINES]
                      = con.lines[k]

(* Once all of the screen was drawn, the picture stays what the shadow     *)
(* buffer says: characters, colours, scrolling and the view keep them      *)
(* together, until the drawing target is exchanged.                        *)
PictureIsShadow ==
    con.synced /\ con.screen_ptr = "live" =>
        \A p \in DOMAIN con.drawn : con.drawn[p] = Look(CellAt(con, p[1], p[2]))

(* When no call runs, all that was drawn is shown, unless a caller drew    *)
(* cells itself or exchanged the drawing target and has not swapped yet.   *)
DrawnIsShown == pc = "idle" /\ ~con.raw => con.shown = con.drawn

(* The view shows the lines that scrolled off, the view-th newest at the   *)
(* bottom and older ones above it, and blank lines where there are none.   *)
ViewShowsHistory ==
    con.in_view /\ ~con.mixed /\ con.synced /\ pc = "idle" =>
        \A p \in DOMAIN con.drawn :
            LET n == Len(con.lines) - con.view + 1 - (con.h - 1 - p[2])
            IN  con.drawn[p] =
                    IF n \in 1..Len(con.lines)
                    THEN Look(Cell(con.lines[n][p[1]], DEFAULT_COLOR)) ELSE BLACK

(* Leaving the view brings back the picture it was entered from.           *)
LeavingRestores ==
    [][con.in_view /\ ~con'.in_view /\ con.entry # <<>> => con'.drawn = con.entry]_vars

-----------------------------------------------------------------------------
(* What the sources say that the code does not do.                         *)

(* "Free old buffers" (console_set_font_scale): a buffer that was freed is *)
(* not used any more.                                                      *)
FreedIsNotUsed == "freed" \notin con.wild
=============================================================================
