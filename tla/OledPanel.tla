------------------------------ MODULE OledPanel ------------------------------
(****************************************************************************)
(* What the SSD1306 panel and the frame buffer of oled_1306.c hold while    *)
(* init_oled and display_task of main.c write texts to them.  A cell is     *)
(* eight columns of a page, the place of one character.  The panel, with    *)
(* its memory and its address pointer, is external.  A transfer that fails  *)
(* may have arrived in part: "junk" is a cell that holds pieces of several  *)
(* images, or what it held when it was switched on.  The frame buffer       *)
(* dev._page[] is modelled as it lies in memory, in units of eight bytes:   *)
(* each PAGE_t is one unit of _valid and _segLen and sixteen of _segs.      *)
(****************************************************************************)
EXTENDS Naturals, Sequences

CONSTANTS
    Pages,        \* pages of the panel: 8 on a panel 64 pixels high, 4 on one of 32
    Values,       \* what "%.2f" prints: its characters and what they look like
    MaxFailures   \* bound: I2C transfers that fail

(* data_string[15] of display_task holds a value of at most 7 characters,   *)
(* its 7 spaces and the terminator.  "%.2f" prints at least 4.              *)
ASSUME ValuesAssumption ==
    \A value \in Values : /\ DOMAIN value = {"width", "image"}
                           /\ value.width \in 4 .. 7
                           /\ value.image \notin {"blank", "label", "junk"}
ASSUME PagesAssumption == Pages \in Nat /\ Pages >= 4
ASSUME FailuresAssumption == MaxFailures \in Nat

Cells == 16
Columns == 8 * Cells
Rows == 0 .. 2          \* Irms, Vrms and KWh
ValuePos == 6

VARIABLES
    ram,        \* the memory of the panel: page, cell
    pointer,    \* where the panel puts the next data: page, column
    frame,      \* dev._page[]
    script,     \* texts init_oled has still to write
    text,       \* the text ssd1306_display_text writes: page, pos, images
    i,          \* its loop variable
    step,       \* where display_image is: address, data, buffer
    shown,      \* the value display_task wrote last in a row     (history)
    whole,      \* the row was written without a failure, and none
                \* has met the panel's pointer in it since       (history)
    failures    \* transfers that failed (bound)

vars == <<ram, pointer, frame, script, text, i, step, shown, whole, failures>>

Contents == {value.image : value \in Values} \cup {"blank", "label", "junk"}

-------------------------------------------------------------------------------
Units == 0 .. ((Cells + 1) * Pages) - 1
Unit(page, cell) == ((Cells + 1) * page) + 1 + cell

Copies(image, n) == [k \in 1 .. n |-> image]

(* Mutant: too few spaces follow the value.                                 *)
ValueTextShort(row, value) ==
    [page |-> row, pos |-> ValuePos,
     images |-> Copies(value.image, value.width) \o Copies("blank", 2)]

(* sprintf("%.2f       ") of display_task: at most 14 characters, so the    *)
(* limit of 16 of ssd1306_display_text never cuts it.                       *)
ValueText(row, value) ==
    [page |-> row, pos |-> ValuePos,
     images |-> Copies(value.image, value.width) \o Copies("blank", 7)]

LabelLength(row) == IF row = 2 THEN 5 ELSE 6

LabelText(row) ==
    [page |-> row, pos |-> 0, images |-> Copies("label", LabelLength(row))]

(* Mutant: the screen is not cleared.                                       *)
InitScriptLabels == [n \in 1 .. 3 |-> LabelText(n - 1)]

(* ssd1306_clear_screen, then the three labels.                             *)
InitScript ==
    [page \in 1 .. Pages |-> [page |-> page - 1, pos |-> 0, images |-> Copies("blank", 16)]]
    \o [n \in 1 .. 3 |-> LabelText(n - 1)]

(* seg is a uint8_t, pos * 8 + 8 per character: it wraps after 32 cells.    *)
Cell == (text.pos + i - 1) % 32

Idle == i > Len(text.images)

None == [width |-> 0, image |-> "blank"]

(* The memory of the panel is arbitrary when it is switched on.             *)
Init ==
    /\ ram = [page \in 0 .. Pages - 1 |-> [cell \in 0 .. Cells - 1 |-> "junk"]]
    /\ pointer = [page |-> 0, seg |-> 0]
    /\ frame = [u \in Units |-> "blank"]
    /\ script = InitScript
    /\ text = [page |-> 0, pos |-> 0, images |-> <<>>]
    /\ i = 1
    /\ step = "address"
    /\ shown = [row \in Rows |-> None]
    /\ whole = [row \in Rows |-> TRUE]
    /\ failures = 0

-------------------------------------------------------------------------------
Write(t) ==
    /\ text' = t
    /\ i' = 1

InitText ==
    /\ Idle /\ script # <<>>
    /\ Write(Head(script))
    /\ script' = Tail(script)
    /\ UNCHANGED <<ram, pointer, frame, step, shown, whole, failures>>

(* display_task receives an item; its id selects the row.                   *)
DisplayValue(row, value) ==
    /\ Idle /\ script = <<>>
    /\ Write(ValueText(row, value))
    /\ shown' = [shown EXCEPT ![row] = value]
    /\ whole' = [whole EXCEPT ![row] = TRUE]
    /\ UNCHANGED <<ram, pointer, frame, script, step, failures>>

(* The result of i2c_master_cmd_begin is not looked at.                     *)
Fails ==
    /\ failures < MaxFailures
    /\ failures' = failures + 1
    /\ whole' = [row \in Rows |-> whole[row] /\ row \notin {text.page, pointer.page}]

Target == [page |-> text.page, seg |-> 8 * Cell]

(* Where the pointer may stand when only a part of the address has arrived: *)
(* the lower half of the column goes first, the page last.                  *)
PartsOfAddress ==
    {pointer,
     [pointer EXCEPT !.seg = (16 * (@ \div 16)) + (Target.seg % 16)],
     [pointer EXCEPT !.seg = Target.seg],
     Target}

SetsAddress ==
    \/ pointer' = Target /\ UNCHANGED <<whole, failures>>
    \/ Fails /\ pointer' \in PartsOfAddress

(* Mutant: the early return at the edge of the panel is missing.            *)
SendAddressAnywhere ==
    /\ ~ Idle /\ step = "address"
    /\ step' = "data"
    /\ SetsAddress
    /\ UNCHANGED <<ram, frame, script, text, i, shown>>

(* The first transfer of i2c_display_image sets column and page.            *)
SendAddress ==
    /\ ~ Idle /\ step = "address" /\ Cell < Cells
    /\ step' = "data"
    /\ SetsAddress
    /\ UNCHANGED <<ram, frame, script, text, i, shown>>

(* Its early return: seg >= dev->_width.                                    *)
BeyondEdge ==
    /\ ~ Idle /\ step = "address" /\ Cell >= Cells
    /\ step' = "buffer"
    /\ UNCHANGED <<ram, pointer, frame, script, text, i, shown, whole, failures>>

(* The cells that n bytes reach from where the pointer stands: the panel    *)
(* moves on with each, within the page.                                     *)
Reached(n) == {((pointer.seg + k) % Columns) \div 8 : k \in 0 .. n - 1}

Arrive(n) ==
    /\ ram' = [ram EXCEPT ![pointer.page] =
                  [cell \in 0 .. Cells - 1 |->
                      IF cell \notin Reached(n) THEN @[cell]
                      ELSE IF n = 8 /\ pointer.seg = 8 * cell THEN text.images[i]
                      ELSE "junk"]]
    /\ pointer' = [pointer EXCEPT !.seg = (@ + n) % Columns]

(* The second transfer, the eight columns of the character.                 *)
SendData ==
    /\ step = "data"
    /\ step' = "buffer"
    /\ \/ Arrive(8) /\ UNCHANGED <<whole, failures>>
       \/ Fails /\ \E n \in 0 .. 8 : Arrive(n)
    /\ UNCHANGED <<frame, script, text, i, shown>>

(* memcpy of ssd1306_display_image, which knows no edge.                    *)
SetBuffer ==
    /\ step = "buffer"
    /\ frame' = [frame EXCEPT ![Unit(text.page, Cell)] = text.images[i]]
    /\ i' = i + 1
    /\ step' = "address"
    /\ UNCHANGED <<ram, pointer, script, text, shown, whole, failures>>

Next ==
    \/ InitText
    \/ \E row \in Rows, value \in Values : DisplayValue(row, value)
    \/ SendAddress
    \/ BeyondEdge
    \/ SendData
    \/ SetBuffer

Spec == Init /\ [][Next]_vars

-------------------------------------------------------------------------------
TypeOK ==
    /\ ram \in [0 .. Pages - 1 -> [0 .. Cells - 1 -> Contents]]
    /\ pointer \in [page : 0 .. Pages - 1, seg : 0 .. Columns - 1]
    /\ frame \in [Units -> Contents]
    /\ step = "buffer" => Unit(text.page, Cell) \in Units
    /\ text.page \in 0 .. Pages - 1 /\ text.pos \in {0, ValuePos}
    /\ i \in 1 .. 17
    /\ step \in {"address", "data", "buffer"}
    /\ whole \in [Rows -> BOOLEAN]
    /\ failures \in 0 .. MaxFailures

(* What a row of values should look like: the value, then nothing left of   *)
(* a longer one before it.                                                  *)
ValueImage(row, cell) ==
    IF cell - ValuePos < shown[row].width THEN shown[row].image ELSE "blank"

(* A value stands in its row of the frame buffer with no remnant of the     *)
(* values before it, whatever fails.  It stands so on the panel if none of  *)
(* its transfers failed, whatever fails before it; afterwards only a        *)
(* failure that finds the panel's pointer still in its row may hurt it.     *)
ValuesStand ==
    \A row \in Rows :
        shown[row] # None /\ (Idle \/ text.page # row)
            => \A cell \in ValuePos .. Cells - 1 :
                  /\ frame[Unit(row, cell)] = ValueImage(row, cell)
                  /\ whole[row] => ram[row][cell] = ValueImage(row, cell)

(* If no transfer fails, the labels of init_oled stand for ever, and        *)
(* nothing stands where there is no label and no value.                     *)
LabelsStand ==
    script = <<>> /\ Idle /\ failures = 0
        => \A page \in 0 .. Pages - 1, cell \in 0 .. Cells - 1 :
              page \notin Rows \/ cell < ValuePos
                 => ram[page][cell] = IF page \in Rows /\ cell < LabelLength(page)
                                         THEN "label" ELSE "blank"

(* "Set to internal buffer" (oled_1306.c:217): if no transfer fails, the    *)
(* frame buffer holds what the panel shows.                                 *)
BufferIsPanel ==
    script = <<>> /\ Idle /\ failures = 0
        => \A page \in 0 .. Pages - 1, cell \in 0 .. Cells - 1 :
              frame[Unit(page, cell)] = ram[page][cell]
===============================================================================
