------------------------------- MODULE OledDraw -------------------------------
(****************************************************************************)
(* The other calls of oled_1306.c on the frame buffer: set_buffer and       *)
(* show_buffer, wrap_arround in four directions, bitmaps, pixels, lines,    *)
(* text three times as large, fadeout.  Some of them draw into the buffer   *)
(* only and leave the panel behind.  Each call is one action: no task       *)
(* shares the buffer.                                                       *)
(****************************************************************************)
EXTENDS OledScroll

CONSTANTS
    Points,    \* places callers draw at, <<x, y>>
    Columns,   \* ends of the ranges of columns that callers wrap
    Bitmaps,   \* bitmaps of callers: rows of bytes
    MaxCalls   \* bound: calls of a behaviour

Height == 8 * Pages

ASSUME PointsAssumption == Points \subseteq Segs \X (0 .. Height - 1)
ASSUME ColumnsAssumption == Columns \subseteq Nat
ASSUME BitmapsAssumption ==
    /\ Bitmaps \subseteq Seq(Seq(Byte))
    /\ \A bitmap \in Bitmaps :
          bitmap # <<>> /\ \A row \in 1 .. Len(bitmap) : Len(bitmap[row]) = Len(bitmap[1])
ASSUME CallsAssumption == MaxCalls \in Nat

VARIABLES
    unshown,   \* pages that calls changed in the buffer only, not shown since (history)
    calls      \* calls made (bound)

drawVars == <<vars, unshown, calls>>

-------------------------------------------------------------------------------
(* What each call is said to do (the comments of oled_1306.c, 378-382, 578, *)
(* 597): these only change "internal buffer".                               *)
Internal(call) ==
    \/ call.op \in {"set", "pixel", "line"}
    \/ call.op = "wrap" /\ call.delay < 0

(* A call that leaves f in the frame buffer and p on the panel.             *)
Draws(call, f, p) ==
    /\ pc = "idle" /\ calls < MaxCalls
    /\ calls' = calls + 1
    /\ frame' = f
    /\ panel' = p
    /\ unshown' = IF Internal(call) THEN unshown \cup {page \in PageIds : f[page] # frame[page]}
                  ELSE IF call.op = "x3" THEN unshown
                  ELSE {}
    /\ before' = frame
    /\ finished' = call
    /\ UNCHANGED <<flip, rangeVars, pc, srcIndex, text>>

SetBuffer(picture) == Draws([op |-> "set"], picture, panel)

(* The loop that sends the pages of a frame buffer f, each in full.         *)
Shown(f) == [page \in PageIds |-> f[PanelPage(page)]]

(* ssd1306_show_buffer *)
ShowBuffer == Draws([op |-> "show"], frame, Shown(frame))

-------------------------------------------------------------------------------
(* Mutant: "display with no wait" displays nothing.                         *)
DisplaysAfterWait(delay) == delay > 0

Displays(delay) == delay >= 0

(* ssd1306_wrap_arround; the end of the range is cut to the panel.          *)
Wrap(scroll, start, end, f, delay) ==
    Draws([op |-> "wrap", scroll |-> scroll, start |-> start, end |-> end, delay |-> delay],
          f, IF Displays(delay) THEN Shown(f) ELSE panel)

Cut(end, size) == IF end >= size THEN size - 1 ELSE end

WrapPages(scroll, start, end, delay) ==
    LET Moved(page) ==
            IF scroll = "RIGHT" THEN [seg \in Segs |-> page[(seg + Width - 1) % Width]]
                                ELSE [seg \in Segs |-> page[(seg + 1) % Width]]
    IN Wrap(scroll, start, end,
            [page \in PageIds |-> IF page \in start .. Cut(end, Pages)
                                     THEN Moved(frame[page]) ELSE frame[page]],
            delay)

(* wk2 of a byte and of the one whose pixel comes in at its end.            *)
ShiftUp(wk0, wk1) ==
    Turned({bit - 1 : bit \in Turned(wk0) \ {0}} \cup {bit + 7 : bit \in Turned(wk1) \cap {0}})

ShiftDown(wk0, wk1) ==
    Turned({bit + 1 : bit \in Turned(wk0) \ {7}} \cup {bit - 7 : bit \in Turned(wk1) \cap {7}})

(* Mutant: the first page is not saved before it is overwritten.            *)
SourceUnsaved(f, saved, page) == f[page % Pages]

(* Where the pixel comes from that enters a page: the next page in the      *)
(* direction of the loop, which is not yet shifted; for the last page of    *)
(* the loop, the copy saved of the first.                                   *)
Source(f, saved, page) == IF page \in PageIds THEN f[page] ELSE saved

(* The loops over the pages, in place: the frame after n turns.             *)
Turns(scroll, columns) ==
    LET After[n \in 0 .. Pages] ==
            IF n = 0 THEN frame
            ELSE LET f    == After[n - 1]
                     page == IF scroll = "UP" THEN n - 1 ELSE Pages - n
                     wk1  == IF scroll = "UP" THEN Source(f, frame[0], page + 1)
                                              ELSE Source(f, frame[Pages - 1], page - 1)
                 IN [f EXCEPT ![page] =
                       [seg \in Segs |->
                           IF seg \notin columns THEN @[seg]
                           ELSE IF scroll = "UP" THEN ShiftUp(@[seg], wk1[seg])
                                                 ELSE ShiftDown(@[seg], wk1[seg])]]
    IN After[Pages]

WrapColumns(scroll, start, end, delay) ==
    Wrap(scroll, start, end, Turns(scroll, start .. Cut(end, Width)), delay)

-------------------------------------------------------------------------------
copy_bit(src, srcBits, dst, dstBits) ==
    IF srcBits \in src THEN dst \cup {dstBits} ELSE dst \ {dstBits}

(* Mutant: the page is never left.                                          *)
SamePage(page, dstBits) == page

PageAfter(page, dstBits) == IF dstBits = 7 THEN page + 1 ELSE page

(* ssd1306_bitmaps, row by row, for a bitmap inside the panel.  A width     *)
(* that is no multiple of 8 is refused; the rows here are of whole bytes.   *)
DrawBitmap(x, y, bitmap, invert) ==
    LET Row(f, page, dstBits, bytes) ==
            [f EXCEPT ![page] = [seg \in Segs |->
                IF seg \in x .. x + (8 * Len(bytes)) - 1
                   THEN Turned(copy_bit(Inverted(bytes[((seg - x) \div 8) + 1], invert),
                                        7 - ((seg - x) % 8), Turned(@[seg]), dstBits))
                   ELSE @[seg]]]
        After[n \in 0 .. Len(bitmap)] ==
            IF n = 0 THEN [f |-> frame, page |-> y \div 8, dstBits |-> y % 8]
            ELSE LET s == After[n - 1]
                 IN [f |-> Row(s.f, s.page, s.dstBits, bitmap[n]),
                     page |-> PageAfter(s.page, s.dstBits),
                     dstBits |-> (s.dstBits + 1) % 8]
        f == After[Len(bitmap)].f
    IN Draws([op |-> "bitmap", x |-> x, y |-> y, bitmap |-> bitmap, invert |-> invert],
             f, Shown(f))

(* _ssd1306_pixel turns the byte after the pixel is set, not before.        *)
SetPixel(f, x, y, invert) ==
    [f EXCEPT ![y \div 8][x] = Turned(IF invert THEN @ \ {y % 8} ELSE @ \cup {y % 8})]

DrawPixel(x, y, invert) == Draws([op |-> "pixel"], SetPixel(frame, x, y, invert), panel)

Distance(a, b) == IF b > a THEN b - a ELSE a - b
Direction(a, b) == IF b > a THEN 1 ELSE -1

(* Mutant: the error starts at 0.                                           *)
FirstErrorZero(major) == 0

FirstError(major) == - major

(* The loop of _ssd1306_line: a pixel, a step along the longer side, and    *)
(* one along the other when the error E is not negative.                    *)
DrawLine(x1, y1, x2, y2, invert) ==
    LET dx == Distance(x1, x2)
        dy == Distance(y1, y2)
        major == IF dx > dy THEN dx ELSE dy
        minor == IF dx > dy THEN dy ELSE dx
        After[i \in 0 .. major + 1] ==
            IF i = 0 THEN [f |-> frame, x |-> x1, y |-> y1, E |-> FirstError(major)]
            ELSE LET s    == After[i - 1]
                     E    == s.E + (2 * minor)
                     both == E >= 0
                 IN [f |-> SetPixel(s.f, s.x, s.y, invert),
                     x |-> IF dx > dy \/ both THEN s.x + Direction(x1, x2) ELSE s.x,
                     y |-> IF ~(dx > dy) \/ both THEN s.y + Direction(y1, y2) ELSE s.y,
                     E |-> IF both THEN E - (2 * major) ELSE E]
    IN Draws([op |-> "line", x1 |-> x1, y1 |-> y1, x2 |-> x2, y2 |-> y2, invert |-> invert],
             After[major + 1].f, panel)

-------------------------------------------------------------------------------
(* Mutant: a page of the enlarged character takes the wrong eight rows.     *)
PieceTop(byte, yy) == {bit \in Bits : (bit \div 3) + (2 * yy) \in byte}

(* out_columns[xx].u8[yy]: bit k of the column becomes bits 3k to 3k + 2.   *)
Piece(byte, yy) == {bit \in Bits : ((8 * yy) + bit) \div 3 \in byte}

(* _text_len: five characters at most, as many as fit a page.               *)
CutLength(t) == IF Len(t) > Width \div 24 THEN Width \div 24 ELSE Len(t)

(* ssd1306_display_text_x3, on pages of the panel: each piece is sent, and  *)
(* copied to the buffer.                                                    *)
DisplayTextX3(page, t, invert) ==
    LET Image(yy, seg) ==
            Turned(Inverted(Piece(t[(seg \div 24) + 1][(seg % 24) \div 3], yy), invert))
        Over(p, contents) ==
            [seg \in Segs |-> IF p \in page .. page + 2 /\ seg < 24 * CutLength(t)
                                 THEN Image(p - page, seg) ELSE contents[seg]]
    IN /\ page + 2 < Pages
       /\ Draws([op |-> "x3", page |-> page, text |-> t, invert |-> invert],
                [p \in PageIds |-> Over(p, frame[p])],
                [p \in PageIds |-> Over(PanelPage(p), panel[p])])

(* ssd1306_fadeout: 0xFF is shifted out of every column, one pixel at a     *)
(* time.                                                                    *)
Fadeout ==
    LET Image[line \in 0 .. 8] ==
            IF line = 0 THEN Bits
            ELSE IF flip THEN {bit - 1 : bit \in Image[line - 1] \ {0}}
                         ELSE {bit + 1 : bit \in Image[line - 1] \ {7}}
        faded == [page \in PageIds |-> [seg \in Segs |-> Image[8]]]
    IN Draws([op |-> "fadeout"], faded, faded)

-------------------------------------------------------------------------------
DrawInit == Init /\ unshown = {} /\ calls = 0

ShowsPage == pc = "clear" \/ (pc = "copy" /\ InBuffer)

(* A step of a text or scroll call.  A page that is shown in full is shown. *)
Scroll ==
    /\ pc = "idle" => calls < MaxCalls
    /\ Next
    /\ calls' = IF pc = "idle" THEN calls + 1 ELSE calls
    /\ unshown' = {page \in unshown : ~(ShowsPage /\ page = dstIndex)}

Draw ==
    \/ \E picture \in Pictures : SetBuffer(picture)
    \/ ShowBuffer
    \/ \E scroll \in {"RIGHT", "LEFT"}, start \in PageIds, end \in 0 .. Pages, delay \in {-1, 0} :
          WrapPages(scroll, start, end, delay)
    \/ \E scroll \in {"UP", "DOWN"}, start \in Columns \cap Segs, end \in Columns, delay \in {-1, 0} :
          WrapColumns(scroll, start, end, delay)
    \/ \E p \in Points, invert \in BOOLEAN : DrawPixel(p[1], p[2], invert)
    \/ \E p, q \in Points, invert \in BOOLEAN : DrawLine(p[1], p[2], q[1], q[2], invert)
    \/ \E p \in Points, bitmap \in Bitmaps, invert \in BOOLEAN :
          /\ p[1] + (8 * Len(bitmap[1])) <= Width /\ p[2] + Len(bitmap) <= Height
          /\ DrawBitmap(p[1], p[2], bitmap, invert)
    \/ \E page \in PageIds, t \in Texts, invert \in BOOLEAN : DisplayTextX3(page, t, invert)
    \/ Fadeout

DrawNext == (Scroll \/ Draw)

DrawSpec == DrawInit /\ [][DrawNext]_drawVars

(* A call that has been made goes on.                                       *)
DrawLiveSpec == DrawSpec /\ WF_drawVars(Scroll /\ pc # "idle")

-------------------------------------------------------------------------------
DrawTypeOK == TypeOK /\ unshown \subseteq PageIds /\ calls \in 0 .. MaxCalls

(* However calls that show what they draw follow on calls that are said not *)
(* to, a page of the panel shows what the frame buffer holds, unless a call *)
(* of the second kind changed it "to internal buffer" (oled_1306.c:578) and *)
(* none has shown it since.                                                 *)
PanelFollows ==
    \A page \in PageIds \ unshown : panel[PanelPage(page)] = frame[page]

(* The pixel a viewer sees at column x and row y, on a flipped panel too.   *)
Lit(f, x, y) == y % 8 \in Turned(f[y \div 8][x])

Same(x, y) == Lit(frame, x, y) <=> Lit(before, x, y)

(* The pixel that comes to column x and row y when the panel is wrapped.    *)
From(scroll, x, y) ==
    CASE scroll = "RIGHT" -> <<(x + Width - 1) % Width, y>>
      [] scroll = "LEFT"  -> <<(x + 1) % Width, y>>
      [] scroll = "UP"    -> <<x, (y + 1) % Height>>
      [] scroll = "DOWN"  -> <<x, (y + Height - 1) % Height>>

Inside(scroll, start, end, x, y) ==
    IF scroll \in {"UP", "DOWN"} THEN start <= x /\ x <= end
                                 ELSE start <= y \div 8 /\ y \div 8 <= end

(* Wrapping around moves every pixel of the range by one, and the one at    *)
(* the edge to the other edge: none is lost between two pages, none is      *)
(* doubled, none outside of the range moves.                                *)
WrapTurns ==
    finished.op = "wrap" =>
        \A x \in Segs, y \in 0 .. Height - 1 :
            LET from == From(finished.scroll, x, y)
            IN IF Inside(finished.scroll, finished.start, finished.end, x, y)
                  THEN Lit(frame, x, y) <=> Lit(before, from[1], from[2])
                  ELSE Same(x, y)

(* A bitmap stands where it was drawn, across pages, and nothing else has   *)
(* changed.                                                                 *)
BitmapDrawn ==
    finished.op = "bitmap" =>
        \A x \in Segs, y \in 0 .. Height - 1 :
            LET i == x - finished.x
                j == y - finished.y
                rows == finished.bitmap
            IN IF j \in 0 .. Len(rows) - 1 /\ i \in 0 .. (8 * Len(rows[1])) - 1
                  THEN Lit(frame, x, y) <=>
                         ((7 - (i % 8) \in rows[j + 1][(i \div 8) + 1]) # finished.invert)
                  ELSE Same(x, y)

Major(x1, y1, x2, y2) ==
    IF Distance(x1, x2) > Distance(y1, y2) THEN Distance(x1, x2) ELSE Distance(y1, y2)

(* Pixels between two points, half a pixel at most from the straight line.  *)
Near(x1, y1, x2, y2) ==
    {p \in Segs \X (0 .. Height - 1) :
        /\ (p[1] - x1) * (p[1] - x2) <= 0
        /\ (p[2] - y1) * (p[2] - y2) <= 0
        /\ 2 * Distance((x2 - x1) * (p[2] - y1), (y2 - y1) * (p[1] - x1)) <= Major(x1, y1, x2, y2)}

(* The step of the loop that draws a pixel: its place along the longer side. *)
Step(x1, y1, x2, y2, p) == IF Distance(x1, x2) > Distance(y1, y2) THEN p[1] ELSE p[2]

(* A line, on a panel that is not flipped, joins its two points: it has     *)
(* exactly one pixel for each step along its longer side, none further than *)
(* half a pixel from the straight line, and changes nothing else.           *)
LineDrawn ==
    finished.op = "line" /\ ~flip =>
        LET near     == Near(finished.x1, finished.y1, finished.x2, finished.y2)
            Along(p) == Step(finished.x1, finished.y1, finished.x2, finished.y2, p)
            drawn    == {p \in near : Lit(frame, p[1], p[2]) # finished.invert}
            changed  == {p \in drawn : ~Same(p[1], p[2])}
        IN /\ \A x \in Segs, y \in 0 .. Height - 1 : <<x, y>> \notin near => Same(x, y)
           /\ \A p \in near : \E q \in drawn : Along(q) = Along(p)
           /\ \A p, q \in changed : Along(p) = Along(q) => p = q

(* Each pixel of a character becomes three by three pixels, of as many      *)
(* characters as fit.                                                       *)
TextEnlarged ==
    finished.op = "x3" =>
        \A x \in Segs, y \in 0 .. Height - 1 :
            LET row == y - (8 * finished.page)
            IN IF x < 24 * CutLength(finished.text) /\ row \in 0 .. 23
                  THEN Lit(frame, x, y) <=>
                         ((row \div 3 \in finished.text[(x \div 24) + 1][(x % 24) \div 3])
                            # finished.invert)
                  ELSE Same(x, y)

(* scroll_clear ends, and so does scroll_text on two pages or more, in      *)
(* either direction.  On a range of one page, which software_scroll accepts *)
(* (oled_1306.c:318-323), scroll_text does not: it copies its way out of    *)
(* the frame buffer.                                                        *)
ScrollEnds ==
    /\ pc = "clear" \/ (pc = "copy" /\ scStart # scEnd) ~> pc = "idle"
    /\ pc = "copy" /\ scStart = scEnd ~> pc = "beyond"
===============================================================================
