--------------------------- MODULE OledPanelProofs ---------------------------
(****************************************************************************)
(* Proofs about OledPanel, for any panel of four pages or more, any values  *)
(* and any number of transfers that fail.  PanelInv, below, is inductive;   *)
(* TypeOK, ValuesStand and LabelsStand follow from it.                      *)
(****************************************************************************)
EXTENDS OledPanel, SequenceTheorems, TLAPS

(* The texts that are ever written.                                         *)
BlankText(page) == [page |-> page, pos |-> 0, images |-> Copies("blank", 16)]

Texts == {BlankText(page) : page \in 0 .. Pages - 1} \cup {LabelText(row) : row \in Rows}
            \cup {ValueText(row, value) : row \in Rows, value \in Values}

NoText == [page |-> 0, pos |-> 0, images |-> <<>>]

ScriptLength == Pages + 3

(* The n-th text of init_oled.                                              *)
ScriptText(n) == IF n <= Pages THEN BlankText(n - 1) ELSE LabelText(n - Pages - 1)

(* Texts of init_oled begun.                                                *)
Begun == ScriptLength - Len(script)

Measuring == \E row \in Rows : shown[row] # None

FrameDone(cell) == cell < text.pos + i - 1
PanelDone(cell) == cell < text.pos + i - 1 \/ (cell = text.pos + i - 1 /\ step = "buffer")

TypeInv ==
    /\ ram \in [0 .. Pages - 1 -> [0 .. Cells - 1 -> Contents]]
    /\ pointer \in [page : 0 .. Pages - 1, seg : 0 .. Columns - 1]
    /\ frame \in [Units -> Contents]
    /\ script \in Seq(Texts)
    /\ text \in Texts \cup {NoText}
    /\ i \in Nat \ {0} /\ i <= Len(text.images) + 1
    /\ step \in {"address", "data", "buffer"}
    /\ shown \in [Rows -> Values \cup {None}]
    /\ whole \in [Rows -> BOOLEAN]
    /\ failures \in 0 .. MaxFailures

(* The texts of init_oled are written in their order, then values only.     *)
ScriptInv ==
    /\ Len(script) <= ScriptLength
    /\ \A n \in 1 .. Len(script) : script[n] = ScriptText(Begun + n)
    /\ IF Measuring
          THEN /\ script = <<>>
               /\ text.page \in Rows
               /\ shown[text.page] \in Values
               /\ text = ValueText(text.page, shown[text.page])
          ELSE text = IF Begun = 0 THEN NoText ELSE ScriptText(Begun)

(* Data are sent to the cell of the character, unless a failure has been    *)
(* reckoned to the row where they go and to the row where they should go.   *)
AddressInv ==
    /\ step # "address" => ~ Idle
    /\ step = "data" =>
          /\ Cell < Cells
          /\ failures = 0 => pointer = Target
          /\ \/ pointer = Target
             \/ \A row \in Rows \cap {text.page, pointer.page} : ~ whole[row]

(* What stands of each value while its text is written.                     *)
ValuesInv ==
    \A row \in Rows : shown[row] # None =>
        \A cell \in ValuePos .. Cells - 1 :
            /\ text.page # row \/ FrameDone(cell) => frame[Unit(row, cell)] = ValueImage(row, cell)
            /\ whole[row] /\ (text.page # row \/ PanelDone(cell))
                  => ram[row][cell] = ValueImage(row, cell)

(* Whether the n-th text of init_oled has reached a cell of its page.       *)
Past(n, cell) == Begun > n \/ (Begun = n /\ (Measuring \/ PanelDone(cell)))

LabelOrBlank(page, cell) ==
    IF page \in Rows /\ Past(Pages + 1 + page, cell) /\ cell < LabelLength(page)
       THEN "label" ELSE "blank"

(* While no transfer fails, every cell that a label may take is blank once  *)
(* it was cleared, and shows the label once that was written.               *)
LabelsInv ==
    failures = 0 =>
        \A page \in 0 .. Pages - 1, cell \in 0 .. Cells - 1 :
            (page \notin Rows \/ cell < ValuePos) /\ Past(page + 1, cell)
                => ram[page][cell] = LabelOrBlank(page, cell)

PanelInv == TypeInv /\ ScriptInv /\ AddressInv /\ ValuesInv /\ LabelsInv

-------------------------------------------------------------------------------
(* The texts.                                                               *)

(* A run of copies is a sequence of them.                                   *)
LEMMA CopiesAre ==
    ASSUME NEW image \in Contents, NEW n \in Nat
    PROVE  /\ Copies(image, n) \in Seq(Contents)
           /\ Len(Copies(image, n)) = n
           /\ \A k \in 1 .. n : Copies(image, n)[k] = image
BY DEF Copies

(* "%.2f" and its seven spaces: 11 to 14 characters, which leave the row    *)
(* from its position 6.                                                     *)
LEMMA ValueTextIs ==
    ASSUME NEW row \in Rows, NEW value \in Values
    PROVE  /\ ValueText(row, value).page = row
           /\ ValueText(row, value).pos = ValuePos
           /\ ValueText(row, value).images \in Seq(Contents)
           /\ 11 <= Len(ValueText(row, value).images)
           /\ Len(ValueText(row, value).images) <= 14
           /\ \A k \in 1 .. Len(ValueText(row, value).images) :
                 ValueText(row, value).images[k] =
                    IF k <= value.width THEN value.image ELSE "blank"
<1> DEFINE first == Copies(value.image, value.width)
           last  == Copies("blank", 7)
<1>1. /\ value.width \in 4 .. 7 /\ value.width \in Nat
      /\ value.image \in Contents /\ "blank" \in Contents
  BY ValuesAssumption DEF Contents
<1>2. /\ first \in Seq(Contents) /\ Len(first) = value.width
      /\ \A k \in 1 .. value.width : first[k] = value.image
  BY <1>1, CopiesAre
<1>3. /\ last \in Seq(Contents) /\ Len(last) = 7
      /\ \A k \in 1 .. 7 : last[k] = "blank"
  BY <1>1, CopiesAre
<1> HIDE DEF first, last
<1>4. /\ first \o last \in Seq(Contents)
      /\ Len(first \o last) = value.width + 7
      /\ \A k \in 1 .. value.width + 7 :
            (first \o last)[k] = IF k <= value.width THEN value.image ELSE "blank"
  <2>1. /\ first \o last \in Seq(Contents)
        /\ Len(first \o last) = value.width + 7
        /\ \A k \in 1 .. value.width + 7 :
              (first \o last)[k] = IF k <= value.width THEN first[k] ELSE last[k - value.width]
    <3>1. first \in Seq(Contents) /\ last \in Seq(Contents)
      BY <1>2, <1>3
    <3>2. /\ first \o last \in Seq(Contents)
          /\ Len(first \o last) = Len(first) + Len(last)
          /\ \A k \in 1 .. Len(first) + Len(last) :
                (first \o last)[k] = IF k <= Len(first) THEN first[k] ELSE last[k - Len(first)]
      BY <3>1, ConcatProperties
    <3>3. Len(first) = value.width /\ Len(last) = 7
      BY <1>2, <1>3
    <3> QED BY <3>2, <3>3
  <2> SUFFICES ASSUME NEW k \in 1 .. value.width + 7
               PROVE  (first \o last)[k] = IF k <= value.width THEN value.image ELSE "blank"
    BY <2>1
  <2>2. CASE k <= value.width
    BY <1>1, <1>2, <2>1, <2>2
  <2>3. CASE ~ (k <= value.width)
    <3>1. k - value.width \in 1 .. 7
      BY <1>1, <2>3
    <3> QED BY <3>1, <1>1, <1>3, <2>1, <2>3
  <2> QED BY <2>1, <2>2, <2>3
<1>5. ValueText(row, value) = [page |-> row, pos |-> ValuePos, images |-> first \o last]
  BY DEF ValueText, first, last
<1> QED BY <1>1, <1>4, <1>5

(* What the frame and the panel hold of a value is the image of its text.   *)
LEMMA ValueImageIs ==
    ASSUME NEW row \in Rows, shown[row] \in Values, NEW cell \in ValuePos .. Cells - 1
    PROVE  /\ cell - ValuePos + 1 \in 1 .. Len(ValueText(row, shown[row]).images)
           /\ ValueText(row, shown[row]).images[cell - ValuePos + 1] = ValueImage(row, cell)
<1>1. shown[row].width \in 4 .. 7
  BY ValuesAssumption
<1>2. cell - ValuePos + 1 \in 1 .. 10 /\ cell \in 6 .. 15
  BY DEF ValuePos, Cells
<1>3. cell - ValuePos + 1 \in 1 .. Len(ValueText(row, shown[row]).images)
  <2>1. 11 <= Len(ValueText(row, shown[row]).images)
    BY ValueTextIs
  <2>2. 1 .. 10 \subseteq 1 .. Len(ValueText(row, shown[row]).images)
    BY <2>1
  <2> QED BY <1>2, <2>2
<1>4. cell - ValuePos < shown[row].width <=> cell - ValuePos + 1 <= shown[row].width
  BY <1>1, <1>2 DEF ValuePos
<1> QED BY <1>3, <1>4, ValueTextIs DEF ValueImage

(* "Irms: " and the other labels: 5 or 6 characters, before the value.      *)
LEMMA LabelTextIs ==
    ASSUME NEW row \in Rows
    PROVE  /\ LabelText(row).page = row
           /\ LabelText(row).pos = 0
           /\ LabelText(row).images \in Seq(Contents)
           /\ Len(LabelText(row).images) = LabelLength(row)
           /\ LabelLength(row) \in 5 .. ValuePos
           /\ \A k \in 1 .. LabelLength(row) : LabelText(row).images[k] = "label"
<1>1. LabelLength(row) \in 5 .. ValuePos /\ "label" \in Contents
  BY DEF LabelLength, ValuePos, Contents
<1>2. LabelLength(row) \in Nat
  BY <1>1 DEF ValuePos
<1> QED BY <1>1, <1>2, CopiesAre DEF LabelText

(* A full row of spaces.                                                    *)
LEMMA BlankTextIs ==
    ASSUME NEW page
    PROVE  /\ BlankText(page).page = page
           /\ BlankText(page).pos = 0
           /\ BlankText(page).images \in Seq(Contents)
           /\ Len(BlankText(page).images) = 16
           /\ \A k \in 1 .. 16 : BlankText(page).images[k] = "blank"
<1>1. "blank" \in Contents /\ 16 \in Nat
  BY DEF Contents
<1> QED BY <1>1, CopiesAre DEF BlankText

(* No text is long enough to leave the frame buffer or to wrap uint8_t seg. *)
LEMMA TextsAre ==
    ASSUME NEW t \in Texts \cup {NoText}
    PROVE  /\ t.page \in 0 .. Pages - 1
           /\ t.pos \in {0, ValuePos}
           /\ t.images \in Seq(Contents)
           /\ Len(t.images) <= 16
           /\ t.pos + Len(t.images) <= IF t.page \in Rows THEN 20 ELSE Cells
<1>1. CASE t = NoText
  <2>1. 0 \in 0 .. Pages - 1 /\ <<>> \in Seq(Contents) /\ Len(<<>>) = 0
    BY PagesAssumption
  <2> QED BY <1>1, <2>1 DEF NoText, Cells
<1>2. ASSUME NEW page \in 0 .. Pages - 1, t = BlankText(page)
      PROVE  /\ t.page \in 0 .. Pages - 1 /\ t.pos = 0
             /\ t.images \in Seq(Contents) /\ Len(t.images) = 16
  BY <1>2, BlankTextIs
<1>3. ASSUME NEW row \in Rows, t = LabelText(row)
      PROVE  /\ t.page \in Rows /\ t.pos = 0
             /\ t.images \in Seq(Contents) /\ Len(t.images) <= 6
  <2>1. Len(t.images) = LabelLength(row) /\ LabelLength(row) \in 5 .. 6
    BY <1>3, LabelTextIs DEF ValuePos
  <2> QED BY <1>3, <2>1, LabelTextIs
<1>4. ASSUME NEW row \in Rows, NEW value \in Values, t = ValueText(row, value)
      PROVE  /\ t.page \in Rows /\ t.pos = ValuePos
             /\ t.images \in Seq(Contents) /\ Len(t.images) <= 14
  BY <1>4, ValueTextIs
<1>5. Rows \subseteq 0 .. Pages - 1
  BY PagesAssumption DEF Rows
<1>6. \/ t = NoText
      \/ \E page \in 0 .. Pages - 1 : t = BlankText(page)
      \/ \E row \in Rows : t = LabelText(row)
      \/ \E row \in Rows, value \in Values : t = ValueText(row, value)
  BY DEF Texts
<1>7. 0 \in {0, ValuePos} /\ ValuePos = 6 /\ Cells = 16
  BY DEF ValuePos, Cells
<1>8. CASE \E page \in 0 .. Pages - 1 : t = BlankText(page)
  <2>1. /\ t.page \in 0 .. Pages - 1 /\ t.pos = 0
        /\ t.images \in Seq(Contents) /\ Len(t.images) = 16
    BY <1>8, <1>2
  <2> QED BY <2>1, <1>7
<1>9. CASE \E row \in Rows : t = LabelText(row)
  <2>1. /\ t.page \in Rows /\ t.pos = 0
        /\ t.images \in Seq(Contents) /\ Len(t.images) <= 6
    BY <1>9, <1>3
  <2>2. t.pos + Len(t.images) <= 20 /\ Len(t.images) <= 16
    BY <2>1, <1>7
  <2> QED BY <2>1, <2>2, <1>5, <1>7
<1>10. CASE \E row \in Rows, value \in Values : t = ValueText(row, value)
  <2>1. /\ t.page \in Rows /\ t.pos = ValuePos
        /\ t.images \in Seq(Contents) /\ Len(t.images) <= 14
    BY <1>10, <1>4
  <2>2. t.pos + Len(t.images) <= 20 /\ Len(t.images) <= 16
    BY <2>1, <1>7
  <2> QED BY <2>1, <2>2, <1>5, <1>7
<1> QED BY <1>1, <1>6, <1>8, <1>9, <1>10

(* ssd1306_clear_screen and the labels, in the order of init_oled.          *)
LEMMA InitScriptIs ==
    /\ InitScript \in Seq(Texts)
    /\ Len(InitScript) = ScriptLength
    /\ \A n \in 1 .. ScriptLength : InitScript[n] = ScriptText(n) /\ ScriptText(n) \in Texts
<1> DEFINE first == [page \in 1 .. Pages |-> [page |-> page - 1, pos |-> 0, images |-> Copies("blank", 16)]]
           last  == [n \in 1 .. 3 |-> LabelText(n - 1)]
<1>1. Pages \in Nat /\ Pages >= 4
  BY PagesAssumption
<1>2. /\ first \in Seq(Texts) /\ Len(first) = Pages
      /\ \A n \in 1 .. Pages : first[n] = BlankText(n - 1)
  <2>1. \A n \in 1 .. Pages : n - 1 \in 0 .. Pages - 1 /\ first[n] = BlankText(n - 1)
    BY <1>1 DEF BlankText
  <2>2. \A n \in 1 .. Pages : first[n] \in Texts
    <3> TAKE n \in 1 .. Pages
    <3>1. first[n] = BlankText(n - 1) /\ n - 1 \in 0 .. Pages - 1
      BY <2>1
    <3> QED BY <3>1 DEF Texts
  <2>3. first \in [1 .. Pages -> Texts]
    BY <2>2
  <2> HIDE DEF first
  <2> QED BY <1>1, <2>1, <2>3
<1>3. /\ last \in Seq(Texts) /\ Len(last) = 3
      /\ \A n \in 1 .. 3 : last[n] = LabelText(n - 1)
  <2>1. \A n \in 1 .. 3 : n - 1 \in Rows /\ LabelText(n - 1) \in Texts
    BY DEF Texts, Rows
  <2> QED BY <2>1
<1> HIDE DEF first, last
<1>4. /\ first \o last \in Seq(Texts)
      /\ Len(first \o last) = Pages + 3
      /\ \A n \in 1 .. Pages + 3 : (first \o last)[n] = IF n <= Pages THEN first[n] ELSE last[n - Pages]
  <2>1. first \in Seq(Texts) /\ last \in Seq(Texts)
    BY <1>2, <1>3
  <2>2. /\ first \o last \in Seq(Texts)
        /\ Len(first \o last) = Len(first) + Len(last)
        /\ \A n \in 1 .. Len(first) + Len(last) :
              (first \o last)[n] = IF n <= Len(first) THEN first[n] ELSE last[n - Len(first)]
    BY <2>1, ConcatProperties
  <2>3. Len(first) = Pages /\ Len(last) = 3
    BY <1>2, <1>3
  <2> QED BY <2>2, <2>3
<1>5. InitScript = first \o last
  BY DEF InitScript, first, last
<1>6. \A n \in 1 .. Pages + 3 : InitScript[n] = ScriptText(n)
  <2> TAKE n \in 1 .. Pages + 3
  <2>1. CASE n <= Pages
    BY <2>1, <1>1, <1>2, <1>4, <1>5 DEF ScriptText
  <2>2. CASE n > Pages
    <3>1. n - Pages \in 1 .. 3 /\ (n - Pages) - 1 = n - Pages - 1
      BY <2>2, <1>1
    <3> QED BY <2>2, <3>1, <1>1, <1>3, <1>4, <1>5 DEF ScriptText
  <2> QED BY <2>1, <2>2, <1>1
<1>7. \A n \in 1 .. Pages + 3 : InitScript[n] \in Texts
  BY <1>4, <1>5, <1>1
<1> QED BY <1>1, <1>4, <1>5, <1>6, <1>7 DEF ScriptLength

-------------------------------------------------------------------------------
(* Where a character goes.                                                  *)

(* The character being written lies in a text, and uint8_t seg does not     *)
(* wrap.                                                                    *)
LEMMA CellIs ==
    ASSUME TypeInv, ~ Idle
    PROVE  /\ Cell = text.pos + i - 1
           /\ Cell \in Nat /\ Cell <= 19
           /\ text.page \notin Rows => Cell <= 15
           /\ text.page \in 0 .. Pages - 1
           /\ text.images[i] \in Contents
<1>1. /\ text.page \in 0 .. Pages - 1
      /\ text.pos \in {0, 6}
      /\ text.images \in Seq(Contents)
      /\ text.pos + Len(text.images) <= IF text.page \in Rows THEN 20 ELSE 16
  BY TextsAre DEF TypeInv, ValuePos, Cells
<1>2. i \in Nat \ {0} /\ i <= Len(text.images)
  BY <1>1 DEF TypeInv, Idle
<1>3. /\ text.pos + i - 1 \in Nat /\ text.pos + i - 1 <= 19
      /\ text.page \notin Rows => text.pos + i - 1 <= 15
  <2>1. CASE text.page \in Rows
    <3>1. text.pos + Len(text.images) <= 20
      BY <2>1, <1>1
    <3> QED BY <2>1, <3>1, <1>1, <1>2
  <2>2. CASE text.page \notin Rows
    <3>1. text.pos + Len(text.images) <= 16
      BY <2>2, <1>1
    <3> QED BY <2>2, <3>1, <1>1, <1>2
  <2> QED BY <2>1, <2>2
<1>4. Cell = text.pos + i - 1
  BY <1>3 DEF Cell
<1>5. text.images[i] \in Contents
  BY <1>1, <1>2
<1> QED BY <1>1, <1>3, <1>4, <1>5

(* A character that leaves its row stays in the frame buffer.               *)
LEMMA UnitInside ==
    ASSUME NEW page \in 0 .. Pages - 1, NEW cell \in Nat, cell <= 19,
           page \notin Rows => cell <= 15
    PROVE  Unit(page, cell) \in Units
<1>1. Pages \in Nat /\ Pages >= 4
  BY PagesAssumption
<1>2. CASE cell <= 15
  BY <1>1, <1>2 DEF Unit, Units, Cells
<1>3. CASE page \in Rows
  BY <1>1, <1>3 DEF Unit, Units, Cells, Rows
<1> QED BY <1>2, <1>3

(* The units that hold a value are not those that another text overruns.    *)
LEMMA UnitDiffers ==
    ASSUME NEW row \in Rows, NEW page \in 0 .. Pages - 1, row # page,
           NEW cell \in ValuePos .. Cells - 1, NEW other \in Nat, other <= 19
    PROVE  Unit(row, cell) # Unit(page, other)
<1>1. row \in Int /\ page \in Int /\ cell \in 6 .. 15
  BY PagesAssumption DEF Rows, ValuePos, Cells
<1>2. CASE row < page
  <2>1. row + 1 <= page
    BY <1>1, <1>2
  <2> QED BY <2>1, <1>1 DEF Unit, Cells
<1>3. CASE page < row
  <2>1. page + 1 <= row
    BY <1>1, <1>3
  <2> QED BY <2>1, <1>1 DEF Unit, Cells
<1> QED BY <1>1, <1>2, <1>3

(* Two characters of one row have two places.                               *)
LEMMA UnitSame ==
    ASSUME NEW row \in Rows, NEW cell \in Int, NEW other \in Int,
           Unit(row, cell) = Unit(row, other)
    PROVE  cell = other
BY DEF Unit, Cells, Rows

(* Eight bytes from the start of a cell fill this cell.                     *)
LEMMA ReachedIs ==
    ASSUME NEW cell \in 0 .. Cells - 1, pointer.seg = 8 * cell
    PROVE  Reached(8) = {cell}
<1>1. \A k \in 0 .. 7 : ((8 * cell + k) % 128) \div 8 = cell
  BY DEF Cells
<1> QED BY <1>1 DEF Reached, Columns, Cells

(* A column of which one half of the address arrived is a column of the panel. *)
LEMMA ColumnMixed ==
    ASSUME NEW seg \in 0 .. 127, NEW other \in 0 .. 127
    PROVE  (16 * (seg \div 16)) + (other % 16) \in 0 .. 127
<1>1. seg \div 16 \in 0 .. 7 /\ other % 16 \in 0 .. 15
  OBVIOUS
<1> QED BY <1>1

-------------------------------------------------------------------------------
(* Each part of PanelInv holds at first and is kept by every step.          *)

(* Every part of PanelInv holds before init_oled writes.                    *)
LEMMA PanelInit == Init => PanelInv
<1> SUFFICES ASSUME Init PROVE PanelInv
  OBVIOUS
<1>1. Pages \in Nat /\ Pages >= 4 /\ MaxFailures \in Nat
  BY PagesAssumption, FailuresAssumption
<1>2. InitScript \in Seq(Texts) /\ Len(InitScript) = ScriptLength
  BY InitScriptIs
<1>3. "blank" \in Contents /\ "junk" \in Contents
  BY DEF Contents
<1>4. TypeInv
  BY <1>1, <1>2, <1>3 DEF Init, TypeInv, NoText, Columns, Cells
<1>5. Begun = 0 /\ ~ Measuring
  BY <1>1, <1>2 DEF Init, Begun, ScriptLength, Measuring
<1>6. ScriptInv
  <2>1. \A n \in 1 .. Len(script) : script[n] = ScriptText(Begun + n)
    BY <1>2, <1>5, InitScriptIs DEF Init
  <2>2. Len(script) <= ScriptLength
    BY <1>1, <1>2 DEF Init, ScriptLength
  <2> QED BY <1>5, <2>1, <2>2 DEF ScriptInv, Init, NoText
<1>7. AddressInv
  BY DEF AddressInv, Init
<1>8. ValuesInv
  BY DEF ValuesInv, Init
<1>9. LabelsInv
  BY <1>5 DEF LabelsInv, Past
<1> QED BY <1>4, <1>6, <1>7, <1>8, <1>9 DEF PanelInv

(* A failure is counted within its bound.                                   *)
LEMMA FailsType ==
    ASSUME TypeInv, Fails
    PROVE  whole' \in [Rows -> BOOLEAN] /\ failures' \in 0 .. MaxFailures
<1>1. failures' \in 0 .. MaxFailures
  BY FailuresAssumption DEF Fails, TypeInv
<1>2. whole' = [row \in Rows |-> whole[row] /\ row \notin {text.page, pointer.page}]
  BY DEF Fails
<1>3. \A row \in Rows : (whole[row] /\ row \notin {text.page, pointer.page}) \in BOOLEAN
  OBVIOUS
<1> QED BY <1>1, <1>2, <1>3

(* The first transfer leaves the pointer on the panel, however much of the  *)
(* address arrives.                                                         *)
LEMMA AddressType ==
    ASSUME TypeInv, ~ Idle, Cell < Cells, SetsAddress
    PROVE  /\ pointer' \in [page : 0 .. Pages - 1, seg : 0 .. Columns - 1]
           /\ pointer'.page \in {text.page, pointer.page}
           /\ whole' \in [Rows -> BOOLEAN]
           /\ failures' \in 0 .. MaxFailures
<1>1. /\ text.page \in 0 .. Pages - 1
      /\ Cell \in 0 .. 15
  BY CellIs DEF Cells
<1>2. Target \in [page : 0 .. Pages - 1, seg : 0 .. Columns - 1]
  BY <1>1 DEF Target, Columns, Cells
<1>3. /\ pointer \in [page : {text.page, pointer.page}, seg : 0 .. 127]
      /\ pointer.page \in 0 .. Pages - 1 /\ pointer.seg \in 0 .. 127
      /\ Target.seg \in 0 .. 127
      /\ Target \in [page : {text.page, pointer.page}, seg : 0 .. 127]
  BY <1>1, <1>2 DEF TypeInv, Target, Columns, Cells
<1>4. (16 * (pointer.seg \div 16)) + (Target.seg % 16) \in 0 .. 127
  BY <1>3, ColumnMixed
<1>5. PartsOfAddress \subseteq [page : {text.page, pointer.page}, seg : 0 .. 127]
  <2>1. /\ [pointer EXCEPT !.seg = (16 * (@ \div 16)) + (Target.seg % 16)]
               \in [page : {text.page, pointer.page}, seg : 0 .. 127]
        /\ [pointer EXCEPT !.seg = Target.seg]
               \in [page : {text.page, pointer.page}, seg : 0 .. 127]
    BY <1>3, <1>4
  <2> QED BY <2>1, <1>3 DEF PartsOfAddress
<1>6. Target \in PartsOfAddress
  BY DEF PartsOfAddress
<1>7. pointer' \in PartsOfAddress
  BY <1>6 DEF SetsAddress
<1>8. whole' \in [Rows -> BOOLEAN] /\ failures' \in 0 .. MaxFailures
  BY FailsType DEF TypeInv, SetsAddress
<1> QED BY <1>1, <1>3, <1>5, <1>7, <1>8 DEF Columns, Cells

(* Whatever number of bytes arrives, the panel holds images and its pointer *)
(* stays in its page.                                                       *)
LEMMA ArriveType ==
    ASSUME TypeInv, ~ Idle, NEW n \in 0 .. 8, Arrive(n)
    PROVE  /\ ram' \in [0 .. Pages - 1 -> [0 .. Cells - 1 -> Contents]]
           /\ pointer' \in [page : 0 .. Pages - 1, seg : 0 .. Columns - 1]
           /\ pointer'.page = pointer.page
<1>1. /\ pointer \in [page : {pointer.page}, seg : 0 .. 127]
      /\ pointer.page \in 0 .. Pages - 1 /\ pointer.seg \in 0 .. 127
      /\ ram \in [0 .. Pages - 1 -> [0 .. Cells - 1 -> Contents]]
  BY DEF TypeInv, Columns, Cells
<1>2. (pointer.seg + n) % 128 \in 0 .. 127
  <2>1. \A seg \in 0 .. 127, m \in 0 .. 8 : (seg + m) % 128 \in 0 .. 127
    OBVIOUS
  <2> QED BY <1>1, <2>1
<1>3. text.images[i] \in Contents /\ "junk" \in Contents
  BY CellIs DEF Contents
<1>4. pointer' \in [page : {pointer.page}, seg : 0 .. 127]
  <2>1. pointer' = [pointer EXCEPT !.seg = (pointer.seg + n) % 128]
    BY DEF Arrive, Columns, Cells
  <2> QED BY <1>1, <1>2, <2>1
<1>5. ram' \in [0 .. Pages - 1 -> [0 .. Cells - 1 -> Contents]]
  BY <1>1, <1>3 DEF Arrive
<1> QED BY <1>1, <1>4, <1>5 DEF Columns, Cells

(* Every action keeps the types.                                            *)
LEMMA TypeStep == TypeInv /\ AddressInv /\ [Next]_vars => TypeInv'
<1> SUFFICES ASSUME TypeInv, AddressInv, [Next]_vars PROVE TypeInv'
  OBVIOUS
<1>1. CASE InitText
  <2>1. Head(script) \in Texts /\ Tail(script) \in Seq(Texts)
    BY <1>1 DEF InitText, TypeInv
  <2>2. Head(script).images \in Seq(Contents)
    BY <2>1, TextsAre
  <2>3. 1 <= Len(Head(script).images) + 1
    BY <2>2
  <2> QED BY <1>1, <2>1, <2>3 DEF InitText, Write, TypeInv
<1>2. ASSUME NEW row \in Rows, NEW value \in Values, DisplayValue(row, value)
      PROVE  TypeInv'
  <2>1. ValueText(row, value) \in Texts
    BY DEF Texts
  <2>2. 1 <= Len(ValueText(row, value).images) + 1
    BY ValueTextIs
  <2>3. shown' \in [Rows -> Values \cup {None}] /\ whole' \in [Rows -> BOOLEAN]
    BY <1>2 DEF DisplayValue, TypeInv
  <2>4. text' \in Texts \cup {NoText} /\ i' \in Nat \ {0} /\ i' <= Len(text'.images) + 1
    BY <1>2, <2>1, <2>2 DEF DisplayValue, Write
  <2> QED BY <1>2, <2>3, <2>4 DEF DisplayValue, TypeInv
<1>3. CASE SendAddress
  BY <1>3, AddressType DEF SendAddress, TypeInv
<1>4. CASE BeyondEdge
  BY <1>4 DEF BeyondEdge, TypeInv
<1>5. CASE SendData
  <2>1. ~ Idle
    BY <1>5 DEF SendData, AddressInv
  <2>2. PICK n \in 0 .. 8 : Arrive(n)
    BY <1>5 DEF SendData
  <2>3. whole' \in [Rows -> BOOLEAN] /\ failures' \in 0 .. MaxFailures
    BY <1>5, FailsType DEF SendData, TypeInv
  <2> QED BY <1>5, <2>1, <2>2, <2>3, ArriveType DEF SendData, TypeInv
<1>6. CASE SetBuffer
  <2>1. ~ Idle
    BY <1>6 DEF SetBuffer, AddressInv
  <2>2. frame' \in [Units -> Contents]
    BY <1>6, <2>1, CellIs DEF SetBuffer, TypeInv
  <2>3. text.images \in Seq(Contents)
    BY TextsAre DEF TypeInv
  <2>4. i' \in Nat \ {0} /\ i' <= Len(text.images) + 1
    BY <1>6, <2>1, <2>3 DEF SetBuffer, Idle, TypeInv
  <2> QED BY <1>6, <2>2, <2>4 DEF SetBuffer, TypeInv
<1>7. CASE UNCHANGED vars
  BY <1>7 DEF vars, TypeInv
<1> QED BY <1>1, <1>2, <1>3, <1>4, <1>5, <1>6, <1>7 DEF Next

(* None is no value.                                                        *)
LEMMA NoneIsNone == None \notin Values
BY ValuesAssumption DEF None

(* The transfers begun are no more than the transfers of init_oled. *)
LEMMA BegunType ==
    ASSUME TypeInv, ScriptInv
    PROVE  Begun \in Nat /\ Begun <= ScriptLength
<1>1. script \in Seq(Texts) /\ Len(script) <= ScriptLength /\ ScriptLength \in Nat
  BY PagesAssumption DEF TypeInv, ScriptInv, ScriptLength
<1> QED BY <1>1 DEF Begun

(* Every action keeps the order of the texts.                               *)
LEMMA ScriptStep == TypeInv /\ ScriptInv /\ [Next]_vars => ScriptInv'
<1> SUFFICES ASSUME TypeInv, ScriptInv, [Next]_vars PROVE ScriptInv'
  OBVIOUS
<1>0. Begun \in Nat /\ script \in Seq(Texts) /\ ScriptLength \in Nat
  BY BegunType, PagesAssumption DEF TypeInv, ScriptLength
<1>1. CASE InitText
  <2>1. script # <<>> /\ script' = Tail(script) /\ text' = Head(script) /\ shown' = shown
    BY <1>1 DEF InitText, Write
  <2>2. ~ Measuring /\ ~ Measuring'
    BY <2>1 DEF ScriptInv, Measuring
  <2>3. /\ Len(script') = Len(script) - 1
        /\ Len(script') <= ScriptLength
        /\ Begun' = Begun + 1
    BY <1>0, <2>1 DEF ScriptInv, Begun, ScriptLength
  <2>4. ASSUME NEW n \in 1 .. Len(script')
        PROVE  script'[n] = ScriptText(Begun' + n)
    <3>1. n + 1 \in 1 .. Len(script) /\ script'[n] = script[n + 1]
      BY <1>0, <2>1, <2>3
    <3>2. script[n + 1] = ScriptText(Begun + (n + 1))
      BY <3>1 DEF ScriptInv
    <3>3. Begun + (n + 1) = Begun' + n
      BY <1>0, <2>3
    <3> QED BY <3>1, <3>2, <3>3
  <2>5. text' = ScriptText(Begun')
    <3>1. 1 \in 1 .. Len(script) /\ Head(script) = script[1]
      BY <1>0, <2>1
    <3> QED BY <2>1, <2>3, <3>1 DEF ScriptInv
  <2>6. Begun' # 0
    BY <1>0, <2>3
  <2>7. \A n \in 1 .. Len(script') : script'[n] = ScriptText(Begun' + n)
    BY <2>4
  <2> QED BY <2>2, <2>3, <2>5, <2>6, <2>7 DEF ScriptInv, ScriptText, BlankText, LabelText
<1>2. ASSUME NEW row \in Rows, NEW value \in Values, DisplayValue(row, value)
      PROVE  ScriptInv'
  <2>1. script = <<>> /\ script' = script /\ text' = ValueText(row, value)
    BY <1>2 DEF DisplayValue, Write
  <2>2. shown'[row] = value /\ value # None
    BY <1>2, NoneIsNone DEF DisplayValue, TypeInv
  <2>3. Measuring'
    BY <2>2 DEF Measuring
  <2>4. text'.page = row
    BY <2>1, ValueTextIs
  <2>5. Begun' = Begun
    BY <2>1 DEF Begun, ScriptLength
  <2>6. /\ Len(script') <= ScriptLength
        /\ \A n \in 1 .. Len(script') : script'[n] = ScriptText(Begun' + n)
    BY <2>1, <2>5 DEF ScriptInv
  <2> QED BY <2>1, <2>2, <2>3, <2>4, <2>6 DEF ScriptInv, ScriptLength, ScriptText
<1>3. CASE UNCHANGED <<script, text, shown>>
  BY <1>3 DEF ScriptInv, Begun, Measuring, ScriptLength, ScriptText
<1>4. SendAddress \/ BeyondEdge \/ SendData \/ SetBuffer => UNCHANGED <<script, text, shown>>
  BY DEF SendAddress, BeyondEdge, SendData, SetBuffer
<1> QED BY <1>1, <1>2, <1>3, <1>4 DEF Next, vars

(* Every action sends data where they belong, or reckons the failure.       *)
LEMMA AddressStep == TypeInv /\ AddressInv /\ [Next]_vars => AddressInv'
<1> SUFFICES ASSUME TypeInv, AddressInv, [Next]_vars PROVE AddressInv'
  OBVIOUS
<1>1. CASE InitText
  BY <1>1 DEF InitText, AddressInv
<1>2. ASSUME NEW row \in Rows, NEW value \in Values, DisplayValue(row, value)
      PROVE  AddressInv'
  BY <1>2 DEF DisplayValue, AddressInv
<1>3. CASE SendAddress
  <2>1. /\ ~ Idle /\ Cell < Cells /\ step' = "data" /\ SetsAddress
        /\ Idle' = Idle /\ Cell' = Cell /\ Target' = Target /\ text' = text
    BY <1>3 DEF SendAddress, Idle, Cell, Target
  <2>2. CASE pointer' = Target /\ UNCHANGED <<whole, failures>>
    BY <2>1, <2>2 DEF AddressInv, Cells
  <2>3. CASE Fails
    <3>1. failures' # 0
      BY <2>3 DEF Fails, TypeInv
    <3>2. pointer'.page \in {text.page, pointer.page}
      BY <2>1, AddressType
    <3>3. \A row \in Rows \cap {text'.page, pointer'.page} : ~ whole'[row]
      BY <2>1, <2>3, <3>2 DEF Fails
    <3> QED BY <2>1, <3>1, <3>3 DEF AddressInv, Cells
  <2> QED BY <2>1, <2>2, <2>3 DEF SetsAddress
<1>4. CASE BeyondEdge
  BY <1>4 DEF BeyondEdge, AddressInv, Idle
<1>5. CASE SendData
  BY <1>5 DEF SendData, AddressInv, Idle
<1>6. CASE SetBuffer
  BY <1>6 DEF SetBuffer, AddressInv
<1>7. CASE UNCHANGED vars
  BY <1>7 DEF vars, AddressInv, Idle, Cell, Target, Cells
<1> QED BY <1>1, <1>2, <1>3, <1>4, <1>5, <1>6, <1>7 DEF Next

(* When a value's text is written, all of it that the row shows is.         *)
LEMMA ValueWritten ==
    ASSUME TypeInv, ScriptInv, Measuring, Idle
    PROVE  \A cell \in ValuePos .. Cells - 1 : FrameDone(cell) /\ PanelDone(cell)
<1>1. /\ text.page \in Rows /\ shown[text.page] \in Values
      /\ text = ValueText(text.page, shown[text.page])
  BY DEF ScriptInv
<1>2. /\ text.pos = 6 /\ text.images \in Seq(Contents)
      /\ 11 <= Len(text.images)
  BY <1>1, ValueTextIs DEF ValuePos
<1>3. i \in Nat /\ i > Len(text.images)
  BY DEF TypeInv, Idle
<1>4. i >= 12
  BY <1>2, <1>3
<1> SUFFICES ASSUME NEW cell \in 6 .. 15 PROVE cell < text.pos + i - 1
  BY DEF FrameDone, PanelDone, ValuePos, Cells
<1> QED BY <1>2, <1>3, <1>4

(* The character of a value's text is what the row should show in its       *)
(* cell.                                                                    *)
LEMMA ValueCharacter ==
    ASSUME TypeInv, ScriptInv, Measuring, ~ Idle, NEW cell \in ValuePos .. Cells - 1, cell = Cell
    PROVE  text.images[i] = ValueImage(text.page, cell)
<1>1. /\ text.page \in Rows /\ shown[text.page] \in Values
      /\ text = ValueText(text.page, shown[text.page])
  BY DEF ScriptInv
<1>2. text.pos = ValuePos
  BY <1>1, ValueTextIs
<1>3. cell = text.pos + i - 1 /\ i \in Int
  BY CellIs DEF TypeInv
<1>4. cell - ValuePos + 1 = i
  BY <1>2, <1>3 DEF ValuePos
<1>5. ValueText(text.page, shown[text.page]).images[cell - ValuePos + 1] = ValueImage(text.page, cell)
  BY <1>1, ValueImageIs
<1> QED BY <1>1, <1>4, <1>5

(* Data that arrive whole where they belong change one cell of the panel.   *)
LEMMA ArriveIs ==
    ASSUME TypeInv, ~ Idle, Cell < Cells, pointer = Target, Arrive(8)
    PROVE  /\ ram'[text.page][Cell] = text.images[i]
           /\ \A page \in 0 .. Pages - 1, cell \in 0 .. Cells - 1 :
                 page # text.page \/ cell # Cell => ram'[page][cell] = ram[page][cell]
<1>1. /\ Cell \in 0 .. Cells - 1 /\ text.page \in 0 .. Pages - 1
      /\ pointer.page = text.page /\ pointer.seg = 8 * Cell
  BY CellIs DEF Target, Cells
<1>2. Reached(8) = {Cell}
  BY <1>1, ReachedIs
<1>3. ram \in [0 .. Pages - 1 -> [0 .. Cells - 1 -> Contents]]
  BY DEF TypeInv
<1>4. ram' = [ram EXCEPT ![text.page] =
                [cell \in 0 .. Cells - 1 |->
                    IF cell \notin {Cell} THEN @[cell]
                    ELSE IF 8 * Cell = 8 * cell THEN text.images[i]
                    ELSE "junk"]]
  BY <1>1, <1>2 DEF Arrive
<1> HIDE DEF Cell
<1> QED BY <1>1, <1>3, <1>4

(* A failing transfer touches one page of the panel.                        *)
LEMMA ArriveElsewhere ==
    ASSUME TypeInv, NEW n \in 0 .. 8, Arrive(n), NEW page \in 0 .. Pages - 1, page # pointer.page
    PROVE  ram'[page] = ram[page]
BY DEF Arrive, TypeInv

(* Every action keeps what stands of the values: per action, for the row    *)
(* whose text is written and for the others.                                *)
LEMMA ValuesStep ==
    TypeInv /\ ScriptInv /\ AddressInv /\ ValuesInv /\ [Next]_vars => ValuesInv'
<1> SUFFICES ASSUME TypeInv, ScriptInv, AddressInv, ValuesInv, [Next]_vars,
                    NEW row \in Rows, shown'[row] # None, NEW cell \in ValuePos .. Cells - 1
             PROVE  /\ text'.page # row \/ FrameDone(cell)' => frame'[Unit(row, cell)] = ValueImage(row, cell)'
                    /\ whole'[row] /\ (text'.page # row \/ PanelDone(cell)')
                          => ram'[row][cell] = ValueImage(row, cell)'
  BY DEF ValuesInv
<1>0. /\ cell \in 6 .. 15 /\ cell \in 0 .. Cells - 1 /\ row \in 0 .. Pages - 1
      /\ i \in Nat \ {0} /\ text.pos \in {0, 6} /\ text.page \in 0 .. Pages - 1
  BY TextsAre, PagesAssumption DEF TypeInv, ValuePos, Cells, Rows
<1>1. CASE InitText
  <2>1. ~ Measuring /\ shown' = shown
    BY <1>1 DEF InitText, ScriptInv
  <2> QED BY <2>1 DEF Measuring
<1>2. ASSUME NEW r \in Rows, NEW value \in Values, DisplayValue(r, value)
      PROVE  /\ text'.page # row \/ FrameDone(cell)' => frame'[Unit(row, cell)] = ValueImage(row, cell)'
             /\ whole'[row] /\ (text'.page # row \/ PanelDone(cell)')
                   => ram'[row][cell] = ValueImage(row, cell)'
  <2>1. /\ Idle /\ step = "address" /\ step' = step /\ i' = 1
        /\ text' = ValueText(r, value) /\ frame' = frame /\ ram' = ram
        /\ whole' = [whole EXCEPT ![r] = TRUE] /\ shown' = [shown EXCEPT ![r] = value]
    BY <1>2 DEF DisplayValue, Write, AddressInv
  <2>2. text'.page = r /\ text'.pos = 6
    BY <2>1, ValueTextIs DEF ValuePos
  <2>3. CASE row = r
    <3>1. ~ FrameDone(cell)' /\ ~ PanelDone(cell)'
      BY <1>0, <2>1, <2>2 DEF FrameDone, PanelDone
    <3> QED BY <2>2, <2>3, <3>1
  <2>4. CASE row # r
    <3>1. shown'[row] = shown[row] /\ whole'[row] = whole[row]
      BY <2>1, <2>4 DEF TypeInv
    <3>2. Measuring
      BY <3>1 DEF Measuring
    <3>3. FrameDone(cell) /\ PanelDone(cell)
      BY <2>1, <3>2, ValueWritten
    <3>4. ValueImage(row, cell)' = ValueImage(row, cell)
      BY <3>1 DEF ValueImage
    <3> QED BY <2>1, <3>1, <3>3, <3>4 DEF ValuesInv
  <2> QED BY <2>3, <2>4
<1>3. CASE SendAddress \/ BeyondEdge
  <2>1. /\ UNCHANGED <<ram, frame, script, text, i, shown>> /\ step = "address"
        /\ ~ Idle
    BY <1>3 DEF SendAddress, BeyondEdge
  <2>2. PanelDone(cell)' => PanelDone(cell)
    <3>1. CASE SendAddress
      BY <2>1, <3>1 DEF SendAddress, PanelDone
    <3>2. CASE BeyondEdge
      <4>1. Cell >= Cells /\ Cell = text.pos + i - 1
        BY <2>1, <3>2, CellIs DEF BeyondEdge
      <4>2. cell # text.pos + i - 1
        BY <1>0, <4>1 DEF Cells
      <4> QED BY <2>1, <4>2 DEF PanelDone
    <3> QED BY <1>3, <3>1, <3>2
  <2>3. whole'[row] => whole[row]
    BY <1>3 DEF SendAddress, BeyondEdge, SetsAddress, Fails
  <2>4. ValueImage(row, cell)' = ValueImage(row, cell) /\ FrameDone(cell)' = FrameDone(cell)
    BY <2>1 DEF ValueImage, FrameDone
  <2> QED BY <2>1, <2>2, <2>3, <2>4 DEF ValuesInv
<1>4. CASE SendData
  <2>1. /\ UNCHANGED <<frame, script, text, i, shown>> /\ step = "data" /\ step' = "buffer"
        /\ ~ Idle /\ Cell < Cells
        /\ \/ pointer = Target
           \/ \A r \in Rows \cap {text.page, pointer.page} : ~ whole[r]
    BY <1>4 DEF SendData, AddressInv
  <2>2. ValueImage(row, cell)' = ValueImage(row, cell) /\ FrameDone(cell)' = FrameDone(cell)
    BY <2>1 DEF ValueImage, FrameDone
  <2>3. Measuring
    BY <2>1 DEF Measuring
  <2>4. ASSUME whole'[row], text.page # row \/ PanelDone(cell)'
        PROVE  ram'[row][cell] = ValueImage(row, cell)
    <3>1. CASE Arrive(8) /\ UNCHANGED whole
      <4>1. CASE row \in {text.page, pointer.page}
        <5>1. pointer = Target /\ row = text.page
          BY <2>1, <2>4, <3>1, <4>1 DEF Target
        <5>2. CASE cell = Cell
          BY <2>1, <2>3, <3>1, <5>1, <5>2, ArriveIs, ValueCharacter
        <5>3. CASE cell # Cell
          <6>1. PanelDone(cell)
            BY <2>1, <2>4, <5>1, <5>3, CellIs DEF PanelDone
          <6>2. ram'[row][cell] = ram[row][cell]
            BY <1>0, <2>1, <3>1, <5>1, <5>3, ArriveIs
          <6> QED BY <2>1, <2>4, <3>1, <6>1, <6>2 DEF ValuesInv
        <5> QED BY <5>2, <5>3
      <4>2. CASE row \notin {text.page, pointer.page}
        <5>1. ram'[row] = ram[row]
          BY <1>0, <3>1, <4>2, ArriveElsewhere
        <5> QED BY <2>1, <2>4, <3>1, <4>2, <5>1 DEF ValuesInv
      <4> QED BY <4>1, <4>2
    <3>2. CASE Fails /\ \E n \in 0 .. 8 : Arrive(n)
      <4>1. whole[row] /\ row \notin {text.page, pointer.page}
        BY <2>4, <3>2 DEF Fails
      <4>2. ram'[row] = ram[row]
        BY <1>0, <3>2, <4>1, ArriveElsewhere
      <4> QED BY <2>1, <4>1, <4>2 DEF ValuesInv
    <3> QED BY <1>4, <3>1, <3>2 DEF SendData
  <2> QED BY <2>1, <2>2, <2>4 DEF ValuesInv
<1>5. CASE SetBuffer
  <2>1. /\ UNCHANGED <<ram, pointer, script, text, shown, whole, failures>>
        /\ step = "buffer" /\ ~ Idle /\ i' = i + 1 /\ step' = "address"
        /\ frame' = [frame EXCEPT ![Unit(text.page, Cell)] = text.images[i]]
    BY <1>5 DEF SetBuffer, AddressInv
  <2>2. /\ Cell = text.pos + i - 1 /\ Cell \in Nat /\ Cell <= 19
        /\ text.page \notin Rows => Cell <= 15
    BY <2>1, CellIs
  <2>3. ValueImage(row, cell)' = ValueImage(row, cell) /\ Measuring
    BY <2>1 DEF ValueImage, Measuring
  <2>4. PanelDone(cell)' => PanelDone(cell)
    BY <1>0, <2>1 DEF PanelDone
  <2>5. ASSUME text.page # row \/ FrameDone(cell)'
        PROVE  frame'[Unit(row, cell)] = ValueImage(row, cell)
    <3>1. Unit(row, cell) \in Units /\ frame \in [Units -> Contents]
      BY <1>0, UnitInside DEF TypeInv
    <3>2. CASE text.page = row /\ cell = Cell
      BY <2>1, <2>3, <3>1, <3>2, ValueCharacter
    <3>3. CASE text.page = row /\ cell # Cell
      <4>1. FrameDone(cell)
        BY <1>0, <2>1, <2>2, <2>5, <3>3 DEF FrameDone
      <4>2. Unit(row, cell) # Unit(row, Cell)
        BY <1>0, <2>2, <3>3, UnitSame
      <4>3. frame'[Unit(row, cell)] = frame[Unit(row, cell)]
        BY <2>1, <3>1, <3>3, <4>2
      <4> QED BY <2>1, <4>1, <4>3 DEF ValuesInv
    <3>4. CASE text.page # row
      <4>1. Unit(row, cell) # Unit(text.page, Cell)
        BY <1>0, <2>2, <3>4, UnitDiffers
      <4>2. frame'[Unit(row, cell)] = frame[Unit(row, cell)]
        BY <2>1, <3>1, <4>1
      <4> QED BY <2>1, <3>4, <4>2 DEF ValuesInv
    <3> QED BY <3>2, <3>3, <3>4
  <2> QED BY <2>1, <2>3, <2>4, <2>5 DEF ValuesInv
<1>6. CASE UNCHANGED vars
  BY <1>6 DEF vars, ValuesInv, FrameDone, PanelDone, ValueImage
<1> QED BY <1>1, <1>2, <1>3, <1>4, <1>5, <1>6 DEF Next

(* The text of init_oled that is being written.                             *)
LEMMA CurrentText ==
    ASSUME TypeInv, ScriptInv, ~ Measuring, NEW page \in 0 .. Pages - 1
    PROVE  /\ Begun = page + 1 => text = BlankText(page)
           /\ page \in Rows /\ Begun = Pages + 1 + page => text = LabelText(page)
<1>1. Pages \in Nat /\ page \in Nat /\ page < Pages
  BY PagesAssumption
<1>2. ASSUME Begun = page + 1 PROVE text = BlankText(page)
  <2>1. Begun # 0 /\ Begun <= Pages /\ Begun - 1 = page
    BY <1>1, <1>2
  <2> QED BY <2>1 DEF ScriptInv, ScriptText
<1>3. ASSUME Begun = Pages + 1 + page PROVE text = LabelText(page)
  <2>1. Begun # 0 /\ ~ (Begun <= Pages) /\ Begun - Pages - 1 = page
    BY <1>1, <1>3
  <2> QED BY <2>1 DEF ScriptInv, ScriptText
<1> QED BY <1>2, <1>3

(* Between two texts, a text of init_oled that was begun has been written.  *)
LEMMA IdlePast ==
    ASSUME TypeInv, ScriptInv, Idle, NEW page \in 0 .. Pages - 1, NEW cell \in 0 .. Cells - 1
    PROVE  /\ Past(page + 1, cell) <=> Begun >= page + 1
           /\ page \in Rows /\ cell < LabelLength(page)
                => (Past(Pages + 1 + page, cell) <=> Begun >= Pages + 1 + page)
<1>1. /\ Pages \in Nat /\ page \in Nat /\ Begun \in Nat /\ cell \in 0 .. 15
      /\ i \in Nat /\ i > Len(text.images)
  BY PagesAssumption, BegunType DEF Cells, TypeInv, Idle
<1>2. ASSUME ~ Measuring, Begun = page + 1
      PROVE  PanelDone(cell)
  <2>1. text.pos = 0 /\ Len(text.images) = 16
    <3>1. text = BlankText(page)
      BY <1>2, CurrentText
    <3> QED BY <3>1, BlankTextIs
  <2>2. i > 16
    BY <1>1, <2>1
  <2> QED BY <1>1, <2>1, <2>2 DEF PanelDone
<1>3. ASSUME ~ Measuring, page \in Rows, Begun = Pages + 1 + page, cell < LabelLength(page)
      PROVE  PanelDone(cell)
  <2>1. text.pos = 0 /\ Len(text.images) = LabelLength(page) /\ LabelLength(page) \in 5 .. 6
    BY <1>3, CurrentText, LabelTextIs DEF ValuePos
  <2>2. i > LabelLength(page)
    BY <1>1, <2>1
  <2> QED BY <1>1, <1>3, <2>1, <2>2 DEF PanelDone
<1>4. Past(page + 1, cell) <=> Begun >= page + 1
  BY <1>1, <1>2 DEF Past
<1>5. ASSUME page \in Rows, cell < LabelLength(page)
      PROVE  Past(Pages + 1 + page, cell) <=> Begun >= Pages + 1 + page
  BY <1>1, <1>3, <1>5 DEF Past
<1> QED BY <1>4, <1>5

(* Every action keeps what stands of blanks and labels.                     *)
LEMMA LabelsStep ==
    TypeInv /\ ScriptInv /\ AddressInv /\ LabelsInv /\ [Next]_vars => LabelsInv'
<1> SUFFICES ASSUME TypeInv, ScriptInv, AddressInv, LabelsInv, [Next]_vars,
                    failures' = 0, NEW page \in 0 .. Pages - 1, NEW cell \in 0 .. Cells - 1,
                    page \notin Rows \/ cell < ValuePos, Past(page + 1, cell)'
             PROVE  ram'[page][cell] = LabelOrBlank(page, cell)'
  BY DEF LabelsInv
<1>0. /\ cell \in 0 .. 15 /\ i \in Nat \ {0} /\ text.pos \in {0, 6}
      /\ Pages \in Nat /\ Pages >= 4 /\ page \in Nat /\ page < Pages
      /\ Begun \in Nat
  BY TextsAre, PagesAssumption, BegunType DEF TypeInv, ValuePos, Cells
<1> DEFINE label == Pages + 1 + page
<1>1. ASSUME failures = 0, ram' = ram, Past(page + 1, cell)' => Past(page + 1, cell),
             page \in Rows /\ cell < LabelLength(page) => (Past(label, cell)' <=> Past(label, cell))
      PROVE  ram'[page][cell] = LabelOrBlank(page, cell)'
  BY <1>1 DEF LabelsInv, LabelOrBlank
<1>2. CASE InitText
  <2>1. /\ Idle /\ script # <<>> /\ script' = Tail(script) /\ text' = Head(script)
        /\ i' = 1 /\ step' = step /\ step = "address"
        /\ UNCHANGED <<ram, shown, failures>>
    BY <1>2 DEF InitText, Write, AddressInv
  <2>2. /\ script \in Seq(Texts) /\ Len(script') = Len(script) - 1
        /\ 1 \in 1 .. Len(script) /\ Head(script) = script[1]
    BY <2>1 DEF TypeInv
  <2>3. Begun' = Begun + 1
    BY <1>0, <2>2 DEF Begun, ScriptLength
  <2>4. ~ Measuring'
    BY <2>1 DEF ScriptInv, Measuring
  <2>5. text'.pos = 0
    <3>1. text' = ScriptText(Begun + 1)
      BY <2>1, <2>2 DEF ScriptInv
    <3> QED BY <3>1 DEF ScriptText, BlankText, LabelText
  <2>6. ~ PanelDone(cell)'
    BY <1>0, <2>1, <2>5 DEF PanelDone
  <2>7. ASSUME NEW n \in Nat PROVE Past(n, cell)' <=> Begun >= n
    BY <1>0, <2>3, <2>4, <2>6 DEF Past
  <2>8. /\ Past(page + 1, cell)' <=> Begun >= page + 1
        /\ Past(label, cell)' <=> Begun >= label
    BY <1>0, <2>7
  <2> HIDE DEF label
  <2>9. /\ Past(page + 1, cell) <=> Begun >= page + 1
        /\ page \in Rows /\ cell < LabelLength(page) => (Past(label, cell) <=> Begun >= label)
    BY <2>1, IdlePast DEF label
  <2> QED BY <1>1, <2>1, <2>8, <2>9
<1>3. ASSUME NEW row \in Rows, NEW value \in Values, DisplayValue(row, value)
      PROVE  ram'[page][cell] = LabelOrBlank(page, cell)'
  <2>1. /\ Idle /\ script' = script /\ UNCHANGED <<ram, failures>>
    BY <1>3 DEF DisplayValue
  <2>2. shown'[row] = value /\ value # None
    BY <1>3, NoneIsNone DEF DisplayValue, TypeInv
  <2>3. Measuring' /\ Begun' = Begun
    BY <2>1, <2>2 DEF Measuring, Begun, ScriptLength
  <2>4. ASSUME NEW n \in Nat PROVE Past(n, cell)' <=> Begun >= n
    BY <1>0, <2>3 DEF Past
  <2>5. /\ Past(page + 1, cell)' <=> Begun >= page + 1
        /\ Past(label, cell)' <=> Begun >= label
    BY <1>0, <2>4
  <2>6. /\ Past(page + 1, cell) <=> Begun >= page + 1
        /\ page \in Rows /\ cell < LabelLength(page) => (Past(label, cell) <=> Begun >= label)
    BY <2>1, IdlePast DEF label
  <2> QED BY <1>1, <2>1, <2>5, <2>6
<1>4. ASSUME UNCHANGED <<ram, script, text, shown>>, failures = 0, PanelDone(cell)' <=> PanelDone(cell)
      PROVE  ram'[page][cell] = LabelOrBlank(page, cell)'
  <2>1. ASSUME NEW n PROVE Past(n, cell)' <=> Past(n, cell)
    BY <1>4 DEF Past, Begun, ScriptLength, Measuring
  <2> QED BY <1>1, <1>4, <2>1
<1>5. CASE SendAddress
  <2>1. UNCHANGED <<ram, script, text, shown, i>> /\ step = "address" /\ step' = "data"
    BY <1>5 DEF SendAddress
  <2>2. failures = 0
    BY <1>5 DEF SendAddress, SetsAddress, Fails, TypeInv
  <2>3. PanelDone(cell)' <=> PanelDone(cell)
    BY <2>1 DEF PanelDone
  <2> QED BY <1>4, <2>1, <2>2, <2>3
<1>6. CASE BeyondEdge
  <2>1. /\ UNCHANGED <<ram, script, text, shown, i, failures>> /\ step = "address"
        /\ step' = "buffer" /\ ~ Idle /\ Cell >= 16
    BY <1>6 DEF BeyondEdge, Cells
  <2>2. cell # text.pos + i - 1
    BY <1>0, <2>1, CellIs
  <2>3. PanelDone(cell)' <=> PanelDone(cell)
    BY <2>1, <2>2 DEF PanelDone
  <2> QED BY <1>4, <2>1, <2>3
<1>7. CASE SendData
  <2>1. /\ UNCHANGED <<frame, script, text, i, shown>> /\ step = "data" /\ step' = "buffer"
        /\ ~ Idle /\ Cell < Cells
    BY <1>7 DEF SendData, AddressInv
  <2>2. failures = 0 /\ Arrive(8)
    BY <1>7 DEF SendData, Fails, TypeInv
  <2>3. pointer = Target
    BY <2>1, <2>2 DEF AddressInv
  <2>4. Cell = text.pos + i - 1 /\ Cell \in Nat
    BY <2>1, CellIs
  <2>5. Begun' = Begun /\ Measuring' = Measuring
    BY <2>1 DEF Begun, ScriptLength, Measuring
  <2>6. PanelDone(cell)' <=> PanelDone(cell) \/ cell = Cell
    BY <2>1, <2>4 DEF PanelDone
  <2>7. CASE page = text.page /\ cell = Cell
    <3>1. ram'[page][cell] = text.images[i]
      BY <2>1, <2>2, <2>3, <2>7, ArriveIs
    <3>2. ~ Measuring
      <4>1. ASSUME Measuring PROVE FALSE
        <5>1. text.page \in Rows /\ text.pos = 6
          BY <4>1, ValueTextIs DEF ScriptInv, ValuePos
        <5>2. cell >= 6
          BY <1>0, <2>4, <2>7, <5>1
        <5> QED BY <1>0, <2>7, <5>1, <5>2 DEF ValuePos
      <4> QED BY <4>1
    <3>3. /\ Begun # 0 /\ text = ScriptText(Begun) /\ Begun <= Pages + 3
      <4>1. text # NoText
        <5>1. Len(NoText.images) = 0
          BY DEF NoText
        <5> QED BY <1>0, <2>1, <5>1 DEF Idle
      <4> QED BY <3>2, <4>1, BegunType DEF ScriptInv, ScriptLength
    <3>4. text.images \in Seq(Contents) /\ i \in 1 .. Len(text.images)
      BY <1>0, <2>1, TextsAre DEF TypeInv, Idle
    <3>5. CASE Begun <= Pages
      <4>1. text = BlankText(page) /\ Begun = page + 1
        BY <1>0, <2>7, <3>3, <3>5, BlankTextIs DEF ScriptText
      <4>2. text.images[i] = "blank"
        BY <3>4, <4>1, BlankTextIs
      <4>3. ~ Past(label, cell)'
        BY <1>0, <2>5, <4>1 DEF Past
      <4> QED BY <3>1, <4>2, <4>3 DEF LabelOrBlank
    <3>6. CASE Begun > Pages
      <4>1. Begun - Pages - 1 \in Rows /\ ~ (Begun <= Pages)
        BY <1>0, <3>3, <3>6 DEF Rows
      <4>2. /\ text = LabelText(page) /\ page \in Rows /\ Begun - Pages - 1 = page
        BY <2>7, <3>3, <4>1, LabelTextIs DEF ScriptText
      <4>3. /\ text.images[i] = "label" /\ text.pos = 0
            /\ i \in Nat /\ i <= LabelLength(page) /\ LabelLength(page) \in Int
        BY <3>4, <4>2, LabelTextIs DEF ValuePos
      <4>4. cell < LabelLength(page)
        BY <1>0, <2>4, <2>7, <4>3
      <4>5. Past(label, cell)'
        BY <1>0, <2>5, <2>6, <2>7, <4>2 DEF Past
      <4> QED BY <3>1, <4>2, <4>3, <4>4, <4>5 DEF LabelOrBlank
    <3> QED BY <1>0, <3>5, <3>6
  <2>8. CASE ~ (page = text.page /\ cell = Cell)
    <3>1. ram'[page][cell] = ram[page][cell]
      BY <2>1, <2>2, <2>3, <2>8, ArriveIs
    <3>2. Past(page + 1, cell)
      <4>1. ASSUME ~ Measuring, Begun = page + 1 PROVE text.page = page
        BY <4>1, CurrentText, BlankTextIs
      <4> QED BY <2>5, <2>6, <2>8, <4>1 DEF Past
    <3>3. page \in Rows => (Past(label, cell)' <=> Past(label, cell))
      <4>1. ASSUME page \in Rows, ~ Measuring, Begun = label PROVE text.page = page
        BY <4>1, CurrentText, LabelTextIs
      <4> QED BY <2>5, <2>6, <2>8, <4>1 DEF Past
    <3> QED BY <2>2, <3>1, <3>2, <3>3 DEF LabelsInv, LabelOrBlank
  <2> QED BY <2>7, <2>8
<1>8. CASE SetBuffer
  <2>1. /\ UNCHANGED <<ram, script, text, shown, failures>>
        /\ step = "buffer" /\ step' = "address" /\ i' = i + 1
    BY <1>8 DEF SetBuffer
  <2>2. PanelDone(cell)' <=> PanelDone(cell)
    BY <1>0, <2>1 DEF PanelDone
  <2> QED BY <1>4, <2>1, <2>2
<1>9. CASE UNCHANGED vars
  <2>1. UNCHANGED <<ram, script, text, shown, failures>> /\ (PanelDone(cell)' <=> PanelDone(cell))
    BY <1>9 DEF vars, PanelDone
  <2> QED BY <1>4, <2>1
<1> QED BY <1>2, <1>3, <1>5, <1>6, <1>7, <1>8, <1>9 DEF Next

-------------------------------------------------------------------------------
(* Types, the order of the texts, the places where data go, the values and  *)
(* the labels together are inductive.                                       *)
THEOREM PanelInductive == Spec => []PanelInv
<1>1. PanelInv /\ [Next]_vars => PanelInv'
  BY TypeStep, ScriptStep, AddressStep, ValuesStep, LabelsStep DEF PanelInv
<1> QED BY PanelInit, <1>1, PTL DEF Spec

(* Whatever fails, the panel and its pointer keep their range and the       *)
(* memcpy of ssd1306_display_image stays inside dev._page[], although       *)
(* display_task overruns the rows.                                          *)
THEOREM TypeCorrect == Spec => []TypeOK
<1>1. PanelInv => TypeOK
  <2> SUFFICES ASSUME PanelInv PROVE TypeOK
    OBVIOUS
  <2>1. /\ text.page \in 0 .. Pages - 1 /\ text.pos \in {0, ValuePos}
        /\ text.images \in Seq(Contents) /\ Len(text.images) <= 16
    BY TextsAre DEF PanelInv, TypeInv
  <2>2. i \in 1 .. 17
    BY <2>1 DEF PanelInv, TypeInv
  <2>3. step = "buffer" => Unit(text.page, Cell) \in Units
    BY <2>1, CellIs, UnitInside DEF PanelInv, AddressInv
  <2> QED BY <2>1, <2>2, <2>3 DEF PanelInv, TypeInv, TypeOK
<1> QED BY PanelInductive, <1>1, PTL

(* A value stands with no remnant of others: in the frame buffer whatever   *)
(* fails, on the panel if its own transfers succeeded and no later failure  *)
(* met the pointer in its row.                                              *)
THEOREM ValuesShown == Spec => []ValuesStand
<1>1. PanelInv => ValuesStand
  <2> SUFFICES ASSUME PanelInv, NEW row \in Rows, shown[row] # None, Idle \/ text.page # row,
                      NEW cell \in ValuePos .. Cells - 1
               PROVE  /\ frame[Unit(row, cell)] = ValueImage(row, cell)
                      /\ whole[row] => ram[row][cell] = ValueImage(row, cell)
    BY DEF ValuesStand
  <2>1. Idle => FrameDone(cell) /\ PanelDone(cell)
    BY ValueWritten DEF PanelInv, Measuring
  <2> QED BY <2>1 DEF PanelInv, ValuesInv
<1> QED BY PanelInductive, <1>1, PTL

(* Without failures the labels stand for ever, with blanks around them,     *)
(* however many values are written.                                         *)
THEOREM LabelsShown == Spec => []LabelsStand
<1>1. PanelInv => LabelsStand
  <2> SUFFICES ASSUME PanelInv, script = <<>>, Idle, failures = 0,
                      NEW page \in 0 .. Pages - 1, NEW cell \in 0 .. Cells - 1,
                      page \notin Rows \/ cell < ValuePos
               PROVE  ram[page][cell] = IF page \in Rows /\ cell < LabelLength(page)
                                           THEN "label" ELSE "blank"
    BY DEF LabelsStand
  <2>1. Pages \in Nat /\ Pages >= 4 /\ page \in Nat /\ page < Pages
    BY PagesAssumption
  <2>2. Begun = Pages + 3
    BY <2>1 DEF Begun, ScriptLength
  <2>3. Past(page + 1, cell)
    BY <2>1, <2>2 DEF Past
  <2>4. page \in Rows /\ cell < LabelLength(page) => Past(Pages + 1 + page, cell)
    BY <2>1, <2>2, IdlePast DEF PanelInv, Rows
  <2> QED BY <2>3, <2>4 DEF PanelInv, LabelsInv, LabelOrBlank
<1> QED BY PanelInductive, <1>1, PTL
===============================================================================
