------------------------------ MODULE OledScroll ------------------------------
(****************************************************************************)
(* Text and software scrolling of oled_1306.c, for a caller of the driver:  *)
(* a range of pages is set, scroll_text moves the pages of the range on by  *)
(* one and writes a text into the first, scroll_clear empties them.  The    *)
(* loops of both go from the end of the range to its start, one page per    *)
(* turn.  A byte, eight pixels of a column, is the set of its bits that are *)
(* 1.  The panel is external; its transfers succeed here (OledPanel lets    *)
(* them fail).  A loop that leaves the frame buffer is followed up to there *)
(* and no further: what it then reads and writes is memory of others.       *)
(****************************************************************************)
EXTENDS Integers, Sequences

CONSTANTS
    Pages,     \* pages of the panel (8)
    Width,     \* columns of a page (128), of whole characters
    Texts,     \* what callers write: sequences of glyphs, columns 0 .. 7 of the font
    Pictures   \* frame buffers that callers set

Bits == 0 .. 7
Byte == SUBSET Bits
PageIds == 0 .. Pages - 1
Segs == 0 .. Width - 1
Frames == [PageIds -> [Segs -> Byte]]

ASSUME SizesAssumption == Pages \in Nat \ {0} /\ Width \in Nat \ {0}
ASSUME CharactersAssumption == Width % 8 = 0
ASSUME TextsAssumption == Texts \subseteq Seq([Bits -> Byte])
ASSUME PicturesAssumption == Pictures \subseteq Frames

VARIABLES
    frame,        \* dev._page[]: page, column
    panel,        \* what the memory of the panel holds
    flip,         \* dev._flip, which the caller sets or not
    scEnable, scStart, scEnd, scDirection,
    pc,           \* the loop that runs: idle, copy, text, clear; beyond the buffer
    srcIndex,
    text,         \* the arguments of scroll_text: glyphs, invert
    before,       \* frame when the call was made       (history)
    finished      \* the call that ended last           (history)

rangeVars == <<scEnable, scStart, scEnd, scDirection>>
vars == <<frame, panel, flip, rangeVars, pc, srcIndex, text, before, finished>>

dstIndex == srcIndex + scDirection

None == [op |-> "none"]
NoText == [glyphs |-> <<>>, invert |-> FALSE]

-------------------------------------------------------------------------------
(* ssd1306_rotate_byte: the bits in the opposite order.                     *)
Rotate(byte) == {7 - bit : bit \in byte}

Turned(byte) == IF flip THEN Rotate(byte) ELSE byte

Inverted(byte, invert) == IF invert THEN Bits \ byte ELSE byte

(* On a flipped panel i2c_display_image counts the pages from the bottom.   *)
PanelPage(page) == IF flip THEN Pages - 1 - page ELSE page

BlankPage == [seg \in Segs |-> {}]

(* ssd1306_display_text from position 0: the rest of the page stays.  A     *)
(* text is cut at 16 characters, which fill the page.                       *)
Overlay(page, t, invert) ==
    [seg \in Segs |->
        IF seg < 8 * Len(t) THEN Turned(Inverted(t[(seg \div 8) + 1][seg % 8], invert))
                            ELSE page[seg]]

Show(page, contents) ==
    /\ frame' = [frame EXCEPT ![page] = contents]
    /\ panel' = [panel EXCEPT ![PanelPage(page)] = contents]

ShowText(page, t, invert) ==
    /\ frame' = [frame EXCEPT ![page] = Overlay(@, t, invert)]
    /\ panel' = [panel EXCEPT ![PanelPage(page)] = Overlay(@, t, invert)]

(* The caller has set a picture and shown it.                               *)
Init ==
    /\ frame \in Pictures
    /\ flip \in BOOLEAN
    /\ panel = [page \in PageIds |-> frame[PanelPage(page)]]
    /\ scEnable = FALSE /\ scStart = 0 /\ scEnd = 0 /\ scDirection = 0
    /\ pc = "idle" /\ srcIndex = 0 /\ text = NoText
    /\ before = frame
    /\ finished = None

DisplayText(page, t, invert) ==
    /\ pc = "idle"
    /\ ShowText(page, t, invert)
    /\ finished' = None
    /\ UNCHANGED <<flip, rangeVars, pc, srcIndex, text, before>>

(* Mutant: the comparison with the number of pages is off by one.           *)
ValidPageOrNext(page) == page \in 0 .. Pages

ValidPage(page) == page \in PageIds

(* ssd1306_software_scroll; a range that is no range disables scrolling.    *)
SoftwareScroll(start, end) ==
    /\ pc = "idle"
    /\ IF ValidPage(start) /\ ValidPage(end)
          THEN /\ scEnable' = TRUE
               /\ scStart' = start
               /\ scEnd' = end
               /\ scDirection' = IF start > end THEN -1 ELSE 1
          ELSE /\ scEnable' = FALSE
               /\ UNCHANGED <<scStart, scEnd, scDirection>>
    /\ finished' = None
    /\ UNCHANGED <<frame, panel, flip, pc, srcIndex, text, before>>

Call(loop, t) ==
    /\ pc = "idle" /\ scEnable
    /\ pc' = loop
    /\ srcIndex' = scEnd - scDirection
    /\ text' = t
    /\ before' = frame
    /\ finished' = None
    /\ UNCHANGED <<frame, panel, flip, rangeVars>>

ScrollText(t, invert) == Call("copy", [glyphs |-> t, invert |-> invert])

ScrollClear == Call("clear", NoText)

(* Mutant: the source is not moved on.                                      *)
StayOnPage == UNCHANGED srcIndex /\ IF srcIndex = scStart THEN pc' = "text" ELSE UNCHANGED pc

(* Where the loop of scroll_text goes after a page.                         *)
NextPage ==
    IF srcIndex = scStart
       THEN pc' = "text" /\ UNCHANGED srcIndex
       ELSE srcIndex' = srcIndex - scDirection /\ UNCHANGED pc

InBuffer == {srcIndex, dstIndex} \subseteq PageIds

(* Mutant: the page is copied the wrong way.                                *)
CopyPageBack ==
    /\ pc = "copy" /\ InBuffer
    /\ Show(srcIndex, frame[dstIndex])
    /\ NextPage
    /\ UNCHANGED <<flip, rangeVars, text, before, finished>>

(* One turn of the loop of ssd1306_scroll_text.                             *)
CopyPage ==
    /\ pc = "copy" /\ InBuffer
    /\ Show(dstIndex, frame[srcIndex])
    /\ NextPage
    /\ UNCHANGED <<flip, rangeVars, text, before, finished>>

(* The range of one page that software_scroll accepts: the loop starts past *)
(* its exit and runs through the pages before the range, then out of them.  *)
LeaveBuffer ==
    /\ pc = "copy" /\ ~ InBuffer
    /\ pc' = "beyond"
    /\ UNCHANGED <<frame, panel, flip, rangeVars, srcIndex, text, before, finished>>

WriteText ==
    /\ pc = "text"
    /\ ShowText(srcIndex, text.glyphs, text.invert)
    /\ pc' = "idle"
    /\ finished' = [op |-> "scroll_text"]
    /\ UNCHANGED <<flip, rangeVars, srcIndex, text, before>>

(* Mutant: the exit test of the other loop, on the source.                  *)
ClearedAtSource == srcIndex = scStart \/ dstIndex = scStart

Cleared == dstIndex = scStart

(* One turn of the loop of ssd1306_scroll_clear; clear_line from position 0 *)
(* writes a full page.                                                      *)
ClearLine ==
    /\ pc = "clear"
    /\ Show(dstIndex, BlankPage)
    /\ IF Cleared
          THEN pc' = "idle" /\ finished' = [op |-> "scroll_clear"] /\ UNCHANGED srcIndex
          ELSE srcIndex' = srcIndex - scDirection /\ UNCHANGED <<pc, finished>>
    /\ UNCHANGED <<flip, rangeVars, text, before>>

Loop == CopyPage \/ LeaveBuffer \/ WriteText \/ ClearLine

Next ==
    \/ \E page \in PageIds, t \in Texts, invert \in BOOLEAN : DisplayText(page, t, invert)
    \/ \E start, end \in -1 .. Pages : SoftwareScroll(start, end)
    \/ \E t \in Texts, invert \in BOOLEAN : ScrollText(t, invert)
    \/ ScrollClear
    \/ Loop

Spec == Init /\ [][Next]_vars

-------------------------------------------------------------------------------
(* The loops index pages of the frame buffer only, but for scroll_text on a *)
(* range of one page.                                                       *)
TypeOK ==
    /\ frame \in Frames /\ panel \in Frames
    /\ flip \in BOOLEAN
    /\ scEnable \in BOOLEAN /\ {scStart, scEnd} \subseteq PageIds
    /\ scDirection \in {-1, 0, 1}
    /\ pc \in {"idle", "copy", "text", "clear", "beyond"}
    /\ pc = "copy" /\ scStart # scEnd => InBuffer
    /\ pc = "beyond" => scStart = scEnd
    /\ pc = "text" => srcIndex \in PageIds
    /\ pc = "clear" => dstIndex \in PageIds

InRange(page) == \/ scStart <= page /\ page <= scEnd
                 \/ scEnd <= page /\ page <= scStart

(* A call of scroll_text moves each page of the range on by one, whatever   *)
(* its direction, smears none over two, writes the text into the first and  *)
(* leaves the pages outside of the range alone.                             *)
ScrollShifts ==
    finished.op = "scroll_text" =>
        \A page \in PageIds :
            frame[page] = IF page = scStart THEN Overlay(before[page], text.glyphs, text.invert)
                          ELSE IF InRange(page) THEN before[page - scDirection]
                          ELSE before[page]

(* A call of scroll_clear empties the pages of the range and no other.      *)
ClearsRange ==
    finished.op = "scroll_clear" =>
        \A page \in PageIds :
            frame[page] = IF InRange(page) THEN BlankPage ELSE before[page]
===============================================================================
