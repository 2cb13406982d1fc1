---------------------------- MODULE OledDrawProofs ----------------------------
(****************************************************************************)
(* Proofs about OledScroll and OledDraw, for a panel of any number of pages *)
(* and columns, any pictures, texts and bitmaps and any number of calls.    *)
(* DrawInv, below, is inductive.  The in-place loops of the driver are      *)
(* recursive functions in OledDraw; what they return is proved by the least *)
(* turn at which it could be otherwise (Smallest), since the induction      *)
(* theorems of the library cannot be used with these provers.               *)
(****************************************************************************)
EXTENDS OledDraw, WellFoundedInduction, TLAPS

(* A page of the range comes before another one, in the direction of the    *)
(* scrolling.                                                               *)
Precedes(p, q) == IF scDirection = 1 THEN p < q ELSE q < p

DrawTypes ==
    /\ frame \in Frames /\ panel \in Frames /\ before \in Frames
    /\ flip \in BOOLEAN
    /\ scEnable \in BOOLEAN /\ scStart \in PageIds /\ scEnd \in PageIds
    /\ scDirection \in {-1, 0, 1}
    /\ pc \in {"idle", "copy", "text", "clear", "beyond"}
    /\ srcIndex \in Int
    /\ text \in [glyphs : Texts \cup {<<>>}, invert : BOOLEAN]
    /\ unshown \subseteq PageIds
    /\ calls \in 0 .. MaxCalls

(* Where the loops are: inside of the range, but for scroll_text on a range *)
(* of one page, which starts past its exit.                                 *)
LoopInv ==
    /\ scEnable => scDirection = IF scStart > scEnd THEN -1 ELSE 1
    /\ pc # "idle" => scEnable /\ finished = None
    /\ pc = "copy" /\ scStart # scEnd => ~ Precedes(srcIndex, scStart)
    /\ pc = "copy" => ~ Precedes(scEnd, dstIndex)
    /\ pc = "text" => srcIndex = scStart /\ scStart # scEnd
    /\ pc = "clear" => ~ Precedes(dstIndex, scStart) /\ ~ Precedes(scEnd, dstIndex)
    /\ pc = "beyond" => scStart = scEnd

(* The page where the loop is has not been written yet.                     *)
Written(page) ==
    /\ ~ Precedes(scEnd, page)
    /\ Precedes(IF pc = "text" THEN srcIndex ELSE dstIndex, page)

(* The loop of scroll_text has moved the pages behind it, that of           *)
(* scroll_clear has emptied them.                                           *)
MovedInv ==
    /\ pc \in {"copy", "text"} =>
          \A page \in PageIds :
              frame[page] = IF Written(page) THEN before[page - scDirection] ELSE before[page]
    /\ pc = "clear" =>
          \A page \in PageIds :
              frame[page] = IF Written(page) THEN BlankPage ELSE before[page]

DrawInv ==
    DrawTypes /\ LoopInv /\ MovedInv /\ ScrollShifts /\ ClearsRange /\ PanelFollows

-------------------------------------------------------------------------------
(* Induction.                                                               *)

Less == {p \in Nat \X Nat : p[1] < p[2]}

(* A set of turns that is not empty has a first one.                        *)
LEMMA Smallest ==
    ASSUME NEW T, T \subseteq Nat, T # {}
    PROVE  \E m \in T : \A n \in T : ~ (n < m)
<1>1. OpToRel(<, Nat) = Less
  BY DEF OpToRel, Less
<1>2. IsWellFoundedOn(Less, Nat)
  BY <1>1, NatLessThanWellFounded
<1>3. \E x \in T : \A y \in T : ~ (<<y, x>> \in Less)
  BY <1>2, WFMin
<1> QED BY <1>3 DEF Less

(* A set with the first turn, and with the turn after each of its turns,    *)
(* has all turns.                                                           *)
LEMMA EveryTurn ==
    ASSUME NEW T, NEW N \in Nat, 0 \in T,
           \A n \in 1 .. N : n - 1 \in T => n \in T
    PROVE  \A n \in 0 .. N : n \in T
<1> DEFINE others == {n \in 0 .. N : n \notin T}
<1> SUFFICES ASSUME others # {} PROVE FALSE
  OBVIOUS
<1>1. others \subseteq Nat
  OBVIOUS
<1>2. PICK m \in others : \A n \in others : ~ (n < m)
  BY <1>1, Smallest
<1>3. m \in 1 .. N /\ m - 1 \in 0 .. N /\ m - 1 < m
  BY <1>2
<1>4. m - 1 \in T
  BY <1>2, <1>3
<1> QED BY <1>2, <1>3, <1>4

(* The executions of a loop of N turns, as functions of the turn.           *)
Executions(S, N, first, turn) ==
    {f \in [0 .. N -> S] : f[0] = first /\ \A n \in 1 .. N : f[n] = turn[<<n, f[n - 1]>>]}

(* A loop whose turns lead from S to S has an execution.                    *)
LEMMA LoopRuns ==
    ASSUME NEW S, NEW N \in Nat, NEW first \in S, NEW turn \in [(1 .. N) \X S -> S]
    PROVE  Executions(S, N, first, turn) # {}
<1> DEFINE Runs(n, f) == f[0] = first /\ \A k \in 1 .. n : f[k] = turn[<<k, f[k - 1]>>]
           T == {n \in 0 .. N : \E f \in [0 .. N -> S] : Runs(n, f)}
<1>1. 0 \in T
  <2> DEFINE f == [n \in 0 .. N |-> first]
  <2>1. f \in [0 .. N -> S] /\ f[0] = first
    OBVIOUS
  <2> HIDE DEF f
  <2>2. Runs(0, f)
    BY <2>1
  <2> QED BY <2>1, <2>2
<1>2. ASSUME NEW n \in 1 .. N, n - 1 \in T
      PROVE  n \in T
  <2>1. PICK f \in [0 .. N -> S] : Runs(n - 1, f)
    BY <1>2
  <2> DEFINE g == [f EXCEPT ![n] = turn[<<n, f[n - 1]>>]]
  <2>2. n - 1 \in 0 .. N /\ <<n, f[n - 1]>> \in (1 .. N) \X S
    BY <2>1
  <2>3. turn[<<n, f[n - 1]>>] \in S
    BY <2>2
  <2>4. /\ g \in [0 .. N -> S]
        /\ g[n] = turn[<<n, f[n - 1]>>]
        /\ \A k \in 0 .. n - 1 : g[k] = f[k]
    BY <2>3
  <2> HIDE DEF g
  <2>5. Runs(n, g)
    <3>1. g[0] = first
      BY <2>1, <2>4
    <3>2. ASSUME NEW k \in 1 .. n PROVE g[k] = turn[<<k, g[k - 1]>>]
      <4>1. k - 1 \in 0 .. n - 1 /\ g[k - 1] = f[k - 1]
        BY <2>4
      <4>2. CASE k = n
        BY <2>4, <4>1, <4>2
      <4>3. CASE k # n
        <5>1. k \in 1 .. n - 1 /\ k \in 0 .. n - 1
          BY <4>3
        <5>2. f[k] = turn[<<k, f[k - 1]>>]
          BY <2>1, <5>1
        <5> QED BY <2>4, <4>1, <5>1, <5>2
      <4> QED BY <4>2, <4>3
    <3> QED BY <3>1, <3>2
  <2> QED BY <2>4, <2>5
<1> HIDE DEF T
<1>3. N \in T
  BY <1>1, <1>2, EveryTurn
<1>4. PICK f \in [0 .. N -> S] : Runs(N, f)
  BY <1>3 DEF T
<1> QED BY <1>4 DEF Executions

-------------------------------------------------------------------------------
(* Bytes and pages.                                                         *)

Page == [Segs -> Byte]

(* The sizes of the panel are positive numbers. *)
LEMMA SizesAre == Pages \in Nat /\ Pages >= 1 /\ Width \in Nat /\ Width >= 1
BY SizesAssumption

(* Turning a byte twice gives it back, and the driver turns either no byte  *)
(* or every one.                                                            *)
LEMMA TurnedIs ==
    ASSUME NEW byte \in Byte
    PROVE  /\ Turned(byte) \in Byte
           /\ Turned(Turned(byte)) = byte
<1>1. ASSUME NEW b \in Byte PROVE Rotate(b) \in Byte
  BY DEF Rotate, Byte, Bits
<1>2. Rotate(Rotate(byte)) = byte
  <2>1. \A bit \in byte : bit \in 0 .. 7 /\ 7 - (7 - bit) = bit
    BY DEF Byte, Bits
  <2> QED BY <2>1 DEF Rotate
<1> QED BY <1>1, <1>2 DEF Turned

(* An inverted byte is a byte. *)
LEMMA InvertedType ==
    ASSUME NEW byte \in Byte, NEW invert
    PROVE  Inverted(byte, invert) \in Byte
BY DEF Inverted, Byte

(* Counting the pages from the bottom twice gives each page back.           *)
LEMMA PanelPageIs ==
    ASSUME NEW page \in PageIds
    PROVE  PanelPage(page) \in PageIds /\ PanelPage(PanelPage(page)) = page
BY SizesAre DEF PanelPage, PageIds

(* A blank page is a page. *)
LEMMA BlankPageType == BlankPage \in Page
BY DEF BlankPage, Page, Byte

(* Every glyph has its eight columns, so that a text over a page is a page. *)
LEMMA OverlayType ==
    ASSUME NEW page \in Page, NEW t \in Texts \cup {<<>>}, NEW invert
    PROVE  Overlay(page, t, invert) \in Page
<1>1. t \in Seq([Bits -> Byte])
  <2>1. CASE t \in Texts
    BY <2>1, TextsAssumption
  <2>2. CASE t = <<>>
    BY <2>2
  <2> QED BY <2>1, <2>2
<1>2. \A n \in Nat, seg \in Nat : seg < 8 * n => (seg \div 8) + 1 \in 1 .. n /\ seg % 8 \in Bits
  BY DEF Bits
<1>3. ASSUME NEW seg \in Segs, seg < 8 * Len(t)
      PROVE  Turned(Inverted(t[(seg \div 8) + 1][seg % 8], invert)) \in Byte
  <2>1. seg \in Nat /\ Len(t) \in Nat
    BY <1>1, SizesAre DEF Segs
  <2>2. (seg \div 8) + 1 \in 1 .. Len(t) /\ seg % 8 \in Bits
    BY <1>2, <1>3, <2>1
  <2>3. t[(seg \div 8) + 1] \in [Bits -> Byte]
    BY <1>1, <2>2
  <2>4. t[(seg \div 8) + 1][seg % 8] \in Byte
    BY <2>2, <2>3
  <2> QED BY <2>4, InvertedType, TurnedIs
<1> QED BY <1>3 DEF Overlay, Page

-------------------------------------------------------------------------------
(* The loops of wrap_arround over the pages.                                *)

(* The two shifts of a wrap by rows give bytes. *)
LEMMA ShiftType ==
    ASSUME NEW a \in Byte, NEW b \in Byte
    PROVE  ShiftUp(a, b) \in Byte /\ ShiftDown(a, b) \in Byte
<1>1. Turned(a) \in SUBSET Bits /\ Turned(b) \in SUBSET Bits
  BY TurnedIs DEF Byte
<1>2. {bit - 1 : bit \in Turned(a) \ {0}} \cup {bit + 7 : bit \in Turned(b) \cap {0}} \in Byte
  BY <1>1 DEF Byte, Bits
<1>3. {bit + 1 : bit \in Turned(a) \ {7}} \cup {bit - 7 : bit \in Turned(b) \cap {7}} \in Byte
  BY <1>1 DEF Byte, Bits
<1> QED BY <1>2, <1>3, TurnedIs DEF ShiftUp, ShiftDown

(* A turn of the loop: the page it writes, and what it writes.              *)
TurnPage(scroll, n) == IF scroll = "UP" THEN n - 1 ELSE Pages - n

Turn(scroll, columns, f, n) ==
    LET page == TurnPage(scroll, n)
        wk1  == IF scroll = "UP" THEN Source(f, frame[0], page + 1)
                                 ELSE Source(f, frame[Pages - 1], page - 1)
    IN [f EXCEPT ![page] =
          [seg \in Segs |->
              IF seg \notin columns THEN @[seg]
              ELSE IF scroll = "UP" THEN ShiftUp(@[seg], wk1[seg])
                                    ELSE ShiftDown(@[seg], wk1[seg])]]

(* A turn of the loop of a wrap gives a frame. *)
LEMMA TurnType ==
    ASSUME frame \in Frames, NEW scroll \in {"UP", "DOWN"}, NEW columns,
           NEW f \in Frames, NEW n \in 1 .. Pages
    PROVE  Turn(scroll, columns, f, n) \in Frames
<1>1. TurnPage(scroll, n) \in PageIds /\ 0 \in PageIds /\ Pages - 1 \in PageIds
  BY SizesAre DEF TurnPage, PageIds
<1>2. /\ frame[0] \in Page /\ frame[Pages - 1] \in Page
      /\ \A page \in PageIds : f[page] \in Page
  BY <1>1 DEF Frames, Page
<1> DEFINE page == TurnPage(scroll, n)
           wk1  == IF scroll = "UP" THEN Source(f, frame[0], page + 1)
                                    ELSE Source(f, frame[Pages - 1], page - 1)
           new  == [seg \in Segs |->
                       IF seg \notin columns THEN f[page][seg]
                       ELSE IF scroll = "UP" THEN ShiftUp(f[page][seg], wk1[seg])
                                             ELSE ShiftDown(f[page][seg], wk1[seg])]
<1>3. wk1 \in Page /\ f[page] \in Page
  BY <1>1, <1>2 DEF Source
<1>4. Turn(scroll, columns, f, n) = [f EXCEPT ![page] = new]
  BY <1>1 DEF Turn, Frames
<1> HIDE DEF wk1, page
<1>5. new \in Page
  BY <1>3, ShiftType DEF Page
<1> HIDE DEF new
<1> QED BY <1>4, <1>5 DEF Frames, Page

(* The frames that Pages turns lead to exist.                               *)
LEMMA TurnsExist ==
    ASSUME frame \in Frames, NEW scroll \in {"UP", "DOWN"}, NEW columns
    PROVE  \E f : f = [n \in 0 .. Pages |->
                          IF n = 0 THEN frame ELSE Turn(scroll, columns, f[n - 1], n)]
<1>0. Pages \in Nat
  BY SizesAre
<1> DEFINE turn == [p \in (1 .. Pages) \X Frames |-> Turn(scroll, columns, p[2], p[1])]
<1>1. turn \in [(1 .. Pages) \X Frames -> Frames]
  BY TurnType
<1>2. \A n \in 1 .. Pages, f \in Frames : turn[<<n, f>>] = Turn(scroll, columns, f, n)
  OBVIOUS
<1> HIDE DEF turn
<1>3. Executions(Frames, Pages, frame, turn) # {}
  BY <1>0, <1>1, LoopRuns
<1>4. PICK g \in [0 .. Pages -> Frames] :
         g[0] = frame /\ \A n \in 1 .. Pages : g[n] = turn[<<n, g[n - 1]>>]
  BY <1>3 DEF Executions
<1>5. ASSUME NEW n \in 1 .. Pages PROVE g[n] = Turn(scroll, columns, g[n - 1], n)
  <2>1. n - 1 \in 0 .. Pages
    BY <1>0
  <2>2. g[n - 1] \in Frames
    BY <1>4, <2>1
  <2> QED BY <1>2, <1>4, <2>2
<1>6. \A n \in 0 .. Pages : g[n] = IF n = 0 THEN frame ELSE Turn(scroll, columns, g[n - 1], n)
  <2> SUFFICES ASSUME NEW n \in 0 .. Pages
               PROVE  g[n] = IF n = 0 THEN frame ELSE Turn(scroll, columns, g[n - 1], n)
    OBVIOUS
  <2>1. n = 0 \/ n \in 1 .. Pages
    BY <1>0
  <2> QED BY <1>0, <1>4, <1>5, <2>1
<1>7. g = [n \in 0 .. Pages |-> IF n = 0 THEN frame ELSE Turn(scroll, columns, g[n - 1], n)]
  BY <1>4, <1>6
<1> QED BY <1>7

(* The loop ends in the frame that Pages turns lead to.                     *)
LEMMA TurnsRun ==
    ASSUME frame \in Frames, NEW scroll \in {"UP", "DOWN"}, NEW columns
    PROVE  \E f \in [0 .. Pages -> Frames] :
              /\ f[0] = frame
              /\ \A n \in 1 .. Pages : f[n] = Turn(scroll, columns, f[n - 1], n)
              /\ Turns(scroll, columns) = f[Pages]
<1>0. Pages \in Nat
  BY SizesAre
<1> DEFINE After[n \in 0 .. Pages] == IF n = 0 THEN frame ELSE Turn(scroll, columns, After[n - 1], n)
<1>1. After = [n \in 0 .. Pages |-> IF n = 0 THEN frame ELSE Turn(scroll, columns, After[n - 1], n)]
  <2>1. PICK f : f = [n \in 0 .. Pages |-> IF n = 0 THEN frame ELSE Turn(scroll, columns, f[n - 1], n)]
    BY TurnsExist
  <2> QED BY <2>1
<1>2. Turns(scroll, columns) = After[Pages]
  BY DEF Turns, Turn, TurnPage
<1> HIDE DEF After
<1>3. After[0] = frame
  BY <1>0, <1>1
<1>4. ASSUME NEW n \in 1 .. Pages PROVE After[n] = Turn(scroll, columns, After[n - 1], n)
  <2>1. n \in 0 .. Pages /\ n # 0
    BY <1>0
  <2> QED BY <1>1, <2>1
<1>5. \A n \in 0 .. Pages : After[n] \in Frames
  <2> DEFINE T == {n \in 0 .. Pages : After[n] \in Frames}
  <2>1. 0 \in T
    BY <1>0, <1>3
  <2>2. \A n \in 1 .. Pages : n - 1 \in T => n \in T
    BY <1>0, <1>4, TurnType
  <2> HIDE DEF T
  <2>3. \A n \in 0 .. Pages : n \in T
    BY <1>0, <2>1, <2>2, EveryTurn
  <2> QED BY <2>3 DEF T
<1>6. After \in [0 .. Pages -> Frames]
  BY <1>1, <1>5
<1> QED BY <1>2, <1>3, <1>4, <1>6

(* The page a pixel comes from when it enters another one.                  *)
Neighbour(scroll, page) ==
    IF scroll = "UP" THEN (IF page + 1 \in PageIds THEN page + 1 ELSE 0)
                     ELSE (IF page - 1 \in PageIds THEN page - 1 ELSE Pages - 1)

(* A page and its neighbour, both as they were before the loop.             *)
ShiftedPage(scroll, columns, page) ==
    [seg \in Segs |->
        IF seg \notin columns THEN frame[page][seg]
        ELSE IF scroll = "UP" THEN ShiftUp(frame[page][seg], frame[Neighbour(scroll, page)][seg])
                              ELSE ShiftDown(frame[page][seg], frame[Neighbour(scroll, page)][seg])]

(* Pages that the loop has written after n turns.                           *)
Passed(scroll, n) == {page \in PageIds : IF scroll = "UP" THEN page < n ELSE page >= Pages - n}

(* No turn reads a page that an earlier one has overwritten.                *)
LEMMA TurnsAre ==
    ASSUME frame \in Frames, NEW scroll \in {"UP", "DOWN"}, NEW columns
    PROVE  Turns(scroll, columns) = [page \in PageIds |-> ShiftedPage(scroll, columns, page)]
<1>0. Pages \in Nat /\ Pages >= 1 /\ 0 \in PageIds /\ Pages - 1 \in PageIds
  BY SizesAre DEF PageIds
<1>1. PICK f \in [0 .. Pages -> Frames] :
         /\ f[0] = frame
         /\ \A n \in 1 .. Pages : f[n] = Turn(scroll, columns, f[n - 1], n)
         /\ Turns(scroll, columns) = f[Pages]
  BY TurnsRun
<1> DEFINE Correct(n) == \A page \in PageIds :
                f[n][page] = IF page \in Passed(scroll, n) THEN ShiftedPage(scroll, columns, page)
                                                            ELSE frame[page]
           T == {n \in 0 .. Pages : Correct(n)}
<1>2. 0 \in T
  BY <1>0, <1>1 DEF Passed, PageIds
<1>3. ASSUME NEW n \in 1 .. Pages, n - 1 \in T
      PROVE  n \in T
  <2>0. n \in Nat /\ n >= 1 /\ n <= Pages /\ n - 1 \in 0 .. Pages
    BY <1>0
  <2> DEFINE page == TurnPage(scroll, n)
             g    == f[n - 1]
             wk1  == IF scroll = "UP" THEN Source(g, frame[0], page + 1)
                                      ELSE Source(g, frame[Pages - 1], page - 1)
             new  == [seg \in Segs |->
                         IF seg \notin columns THEN g[page][seg]
                         ELSE IF scroll = "UP" THEN ShiftUp(g[page][seg], wk1[seg])
                                               ELSE ShiftDown(g[page][seg], wk1[seg])]
  <2>1. /\ page \in PageIds /\ page \notin Passed(scroll, n - 1)
        /\ Passed(scroll, n) = Passed(scroll, n - 1) \cup {page}
    BY <1>0, <2>0 DEF TurnPage, Passed, PageIds
  <2>2. /\ g \in Frames
        /\ \A p \in PageIds : g[p] = IF p \in Passed(scroll, n - 1)
                                        THEN ShiftedPage(scroll, columns, p) ELSE frame[p]
    BY <1>1, <1>3, <2>0
  <2>3. f[n] = [g EXCEPT ![page] = new]
    BY <1>1, <2>1, <2>2 DEF Turn, Frames
  <2>4. g[page] = frame[page]
    BY <2>1, <2>2
  <2>5. wk1 = frame[Neighbour(scroll, page)]
    <3>1. CASE scroll = "UP"
      <4>1. page + 1 \in PageIds => page + 1 \notin Passed(scroll, n - 1)
        BY <1>0, <2>0, <3>1 DEF TurnPage, Passed, PageIds
      <4> HIDE DEF page, g
      <4> QED BY <2>2, <3>1, <4>1 DEF Source, Neighbour
    <3>2. CASE scroll # "UP"
      <4>1. page - 1 \in PageIds => page - 1 \notin Passed(scroll, n - 1)
        BY <1>0, <2>0, <3>2 DEF TurnPage, Passed, PageIds
      <4> HIDE DEF page, g
      <4> QED BY <2>2, <3>2, <4>1 DEF Source, Neighbour
    <3> QED BY <3>1, <3>2
  <2>6. new = ShiftedPage(scroll, columns, page)
    <3> HIDE DEF page, g, wk1
    <3> QED BY <2>4, <2>5 DEF ShiftedPage
  <2> HIDE DEF new, page, g, wk1
  <2>7. ASSUME NEW p \in PageIds
        PROVE  f[n][p] = IF p \in Passed(scroll, n) THEN ShiftedPage(scroll, columns, p) ELSE frame[p]
    <3>1. CASE p = page
      BY <2>1, <2>2, <2>3, <2>6, <3>1 DEF Frames
    <3>2. CASE p # page
      <4>1. f[n][p] = g[p]
        BY <2>2, <2>3, <3>2 DEF Frames
      <4> QED BY <2>1, <2>2, <3>2, <4>1
    <3> QED BY <3>1, <3>2
  <2> QED BY <2>0, <2>7
<1> HIDE DEF T
<1>4. Pages \in T
  BY <1>0, <1>2, <1>3, EveryTurn
<1>5. /\ f[Pages] \in Frames
      /\ \A page \in PageIds : f[Pages][page] = ShiftedPage(scroll, columns, page)
  <2>1. \A page \in PageIds : page \in Passed(scroll, Pages)
    BY <1>0 DEF Passed, PageIds
  <2>2. Correct(Pages)
    BY <1>4 DEF T
  <2> QED BY <1>0, <1>1, <2>1, <2>2
<1> QED BY <1>1, <1>5 DEF Frames

-------------------------------------------------------------------------------
(* The loops of bitmaps and lines.                                          *)

(* The page and the bit of a row are what the division by 8 makes of it. *)
LEMMA BitIs ==
    ASSUME NEW y \in Int
    PROVE  y % 8 \in Bits /\ y \div 8 \in Int
BY DEF Bits

(* Setting a pixel gives a frame. *)
LEMMA SetPixelType ==
    ASSUME NEW f \in Frames, NEW x \in Int, NEW y \in Int, NEW invert
    PROVE  SetPixel(f, x, y, invert) \in Frames
<1>1. y % 8 \in Bits
  BY BitIs
<1> DEFINE page == y \div 8
           old  == f[page][x]
           byte == Turned(IF invert THEN old \ {y % 8} ELSE old \cup {y % 8})
<1>2. SetPixel(f, x, y, invert) = [f EXCEPT ![page][x] = byte]
  BY DEF SetPixel
<1>3. ASSUME page \in PageIds, x \in Segs PROVE byte \in Byte
  <2>1. old \in Byte
    BY <1>3 DEF Frames
  <2> HIDE DEF old
  <2>2. (IF invert THEN old \ {y % 8} ELSE old \cup {y % 8}) \in Byte
    BY <1>1, <2>1 DEF Byte
  <2> QED BY <2>2, TurnedIs
<1> HIDE DEF byte, page
<1>4. \A p \in PageIds : f[p] \in [Segs -> Byte]
  BY DEF Frames
<1>5. \A p \in PageIds : [f EXCEPT ![page][x] = byte][p] \in [Segs -> Byte]
  BY <1>3, <1>4 DEF Frames
<1> QED BY <1>2, <1>5 DEF Frames

LineStates == [f : Frames, x : Int, y : Int, E : Int]

(* A turn of _ssd1306_line.                                                 *)
LineTurn(x1, y1, x2, y2, invert, s) ==
    LET dx == Distance(x1, x2)
        dy == Distance(y1, y2)
        major == IF dx > dy THEN dx ELSE dy
        minor == IF dx > dy THEN dy ELSE dx
        E    == s.E + (2 * minor)
        both == E >= 0
    IN [f |-> SetPixel(s.f, s.x, s.y, invert),
        x |-> IF dx > dy \/ both THEN s.x + Direction(x1, x2) ELSE s.x,
        y |-> IF ~(dx > dy) \/ both THEN s.y + Direction(y1, y2) ELSE s.y,
        E |-> IF both THEN E - (2 * major) ELSE E]

LineStart(x1, y1, x2, y2) ==
    [f |-> frame, x |-> x1, y |-> y1, E |-> FirstError(Major(x1, y1, x2, y2))]

(* The number of steps of a line is a natural number. *)
LEMMA MajorType ==
    ASSUME NEW x1 \in Int, NEW y1 \in Int, NEW x2 \in Int, NEW y2 \in Int
    PROVE  Major(x1, y1, x2, y2) \in Nat
BY DEF Major, Distance

(* A turn of the loop of a line gives a state of that loop. *)
LEMMA LineTurnType ==
    ASSUME NEW x1 \in Int, NEW y1 \in Int, NEW x2 \in Int, NEW y2 \in Int, NEW invert,
           NEW s \in LineStates
    PROVE  LineTurn(x1, y1, x2, y2, invert, s) \in LineStates
<1>1. /\ s.f \in Frames /\ s.x \in Int /\ s.y \in Int /\ s.E \in Int
      /\ Distance(x1, x2) \in Int /\ Distance(y1, y2) \in Int
      /\ Direction(x1, x2) \in Int /\ Direction(y1, y2) \in Int
  BY DEF LineStates, Distance, Direction
<1>2. SetPixel(s.f, s.x, s.y, invert) \in Frames
  BY <1>1, SetPixelType
<1> QED BY <1>1, <1>2 DEF LineTurn, LineStates

(* The loop of _ssd1306_line ends in the state its turns lead to.           *)
LEMMA LineRun ==
    ASSUME frame \in Frames, NEW x1 \in Int, NEW y1 \in Int, NEW x2 \in Int, NEW y2 \in Int,
           NEW invert, DrawLine(x1, y1, x2, y2, invert)
    PROVE  \E s \in [0 .. Major(x1, y1, x2, y2) + 1 -> LineStates] :
              /\ s[0] = LineStart(x1, y1, x2, y2)
              /\ \A n \in 1 .. Major(x1, y1, x2, y2) + 1 :
                    s[n] = LineTurn(x1, y1, x2, y2, invert, s[n - 1])
              /\ Draws([op |-> "line", x1 |-> x1, y1 |-> y1, x2 |-> x2, y2 |-> y2, invert |-> invert],
                       s[Major(x1, y1, x2, y2) + 1].f, panel)
<1> DEFINE N == Major(x1, y1, x2, y2) + 1
           start == LineStart(x1, y1, x2, y2)
           Next1(s) == LineTurn(x1, y1, x2, y2, invert, s)
           turn == [p \in (1 .. N) \X LineStates |-> Next1(p[2])]
<1>0. Major(x1, y1, x2, y2) \in Nat /\ N \in Nat /\ 0 \in 0 .. N
  <2>1. Major(x1, y1, x2, y2) \in Nat
    BY MajorType
  <2> QED BY <2>1
<1>1. start \in LineStates
  BY <1>0 DEF LineStart, LineStates, FirstError
<1>2. turn \in [(1 .. N) \X LineStates -> LineStates]
  BY LineTurnType
<1>3. \A n \in 1 .. N, s \in LineStates : turn[<<n, s>>] = Next1(s)
  OBVIOUS
<1> HIDE DEF turn, start, Next1
<1>4. \E g : g = [n \in 0 .. N |-> IF n = 0 THEN start ELSE Next1(g[n - 1])]
  <2> HIDE DEF N
  <2>1. Executions(LineStates, N, start, turn) # {}
    BY <1>0, <1>1, <1>2, LoopRuns
  <2>2. PICK g \in [0 .. N -> LineStates] :
           g[0] = start /\ \A n \in 1 .. N : g[n] = turn[<<n, g[n - 1]>>]
    BY <2>1 DEF Executions
  <2>3. ASSUME NEW n \in 1 .. N PROVE g[n] = Next1(g[n - 1])
    <3>1. n - 1 \in 0 .. N
      BY <1>0
    <3>2. g[n - 1] \in LineStates
      BY <2>2, <3>1
    <3> QED BY <1>3, <2>2, <3>2
  <2>4. \A n \in 0 .. N : g[n] = IF n = 0 THEN start ELSE Next1(g[n - 1])
    <3> SUFFICES ASSUME NEW n \in 0 .. N
                 PROVE  g[n] = IF n = 0 THEN start ELSE Next1(g[n - 1])
      OBVIOUS
    <3>1. n = 0 \/ n \in 1 .. N
      BY <1>0
    <3> QED BY <1>0, <2>2, <2>3, <3>1
  <2>5. g = [n \in 0 .. N |-> IF n = 0 THEN start ELSE Next1(g[n - 1])]
    BY <2>2, <2>4
  <2> QED BY <2>5
<1> DEFINE After[n \in 0 .. N] == IF n = 0 THEN start ELSE Next1(After[n - 1])
<1>5. After = [n \in 0 .. N |-> IF n = 0 THEN start ELSE Next1(After[n - 1])]
  <2>1. PICK g : g = [n \in 0 .. N |-> IF n = 0 THEN start ELSE Next1(g[n - 1])]
    BY <1>4
  <2> QED BY <2>1
<1>6. Draws([op |-> "line", x1 |-> x1, y1 |-> y1, x2 |-> x2, y2 |-> y2, invert |-> invert],
            After[N].f, panel)
  BY DEF DrawLine, start, Next1, LineStart, LineTurn, Major
<1> HIDE DEF After
<1>7. After[0] = start
  BY <1>0, <1>5
<1>8. ASSUME NEW n \in 1 .. N PROVE After[n] = Next1(After[n - 1])
  <2>1. n \in 0 .. N /\ n # 0
    BY <1>0
  <2> QED BY <1>5, <2>1
<1>9. \A n \in 0 .. N : After[n] \in LineStates
  <2> DEFINE T == {n \in 0 .. N : After[n] \in LineStates}
  <2>1. 0 \in T
    BY <1>0, <1>1, <1>7
  <2>2. \A n \in 1 .. N : n - 1 \in T => n \in T
    BY <1>0, <1>8, LineTurnType DEF Next1
  <2> HIDE DEF T, N
  <2>3. \A n \in 0 .. N : n \in T
    BY <1>0, <2>1, <2>2, EveryTurn
  <2> QED BY <2>3 DEF T
<1>10. After \in [0 .. N -> LineStates]
  BY <1>5, <1>9
<1> QED BY <1>6, <1>7, <1>8, <1>10 DEF start, Next1

BitmapStates == [f : Frames, page : Int, dstBits : Bits]

(* A row of ssd1306_bitmaps.                                                *)
BitmapRow(x, invert, f, page, dstBits, bytes) ==
    [f EXCEPT ![page] = [seg \in Segs |->
        IF seg \in x .. x + (8 * Len(bytes)) - 1
           THEN Turned(copy_bit(Inverted(bytes[((seg - x) \div 8) + 1], invert),
                                7 - ((seg - x) % 8), Turned(@[seg]), dstBits))
           ELSE @[seg]]]

BitmapTurn(x, bitmap, invert, s, n) ==
    [f |-> BitmapRow(x, invert, s.f, s.page, s.dstBits, bitmap[n]),
     page |-> PageAfter(s.page, s.dstBits),
     dstBits |-> (s.dstBits + 1) % 8]

BitmapStart(y) == [f |-> frame, page |-> y \div 8, dstBits |-> y % 8]

(* A row of a bitmap drawn gives a frame. *)
LEMMA BitmapRowType ==
    ASSUME NEW f \in Frames, NEW page \in Int, NEW dstBits \in Bits, NEW bytes, NEW x \in Int, NEW invert
    PROVE  BitmapRow(x, invert, f, page, dstBits, bytes) \in Frames
<1> DEFINE new == [seg \in Segs |->
        IF seg \in x .. x + (8 * Len(bytes)) - 1
           THEN Turned(copy_bit(Inverted(bytes[((seg - x) \div 8) + 1], invert),
                                7 - ((seg - x) % 8), Turned(f[page][seg]), dstBits))
           ELSE f[page][seg]]
<1>1. ASSUME page \in PageIds PROVE new \in [Segs -> Byte]
  <2>1. ASSUME NEW seg \in Segs, NEW src, NEW srcBits
        PROVE  f[page][seg] \in Byte /\ Turned(copy_bit(src, srcBits, Turned(f[page][seg]), dstBits)) \in Byte
    <3>1. f[page][seg] \in Byte
      BY <1>1 DEF Frames
    <3>2. Turned(f[page][seg]) \in Byte
      BY <3>1, TurnedIs
    <3>3. copy_bit(src, srcBits, Turned(f[page][seg]), dstBits) \in Byte
      BY <3>2 DEF copy_bit, Byte
    <3> QED BY <3>1, <3>3, TurnedIs
  <2>2. \A seg \in Segs : new[seg] \in Byte
    BY <2>1
  <2> QED BY <2>2
<1>2. CASE page \in PageIds
  <2>1. BitmapRow(x, invert, f, page, dstBits, bytes) = [f EXCEPT ![page] = new]
    BY <1>2 DEF BitmapRow, Frames
  <2> HIDE DEF new
  <2> QED BY <1>1, <1>2, <2>1 DEF Frames
<1>3. CASE page \notin PageIds
  <2>1. BitmapRow(x, invert, f, page, dstBits, bytes) = f
    BY <1>3 DEF BitmapRow, Frames
  <2> QED BY <2>1
<1> QED BY <1>2, <1>3

(* A turn of the loop of a bitmap gives a state of that loop. *)
LEMMA BitmapTurnType ==
    ASSUME NEW x \in Int, NEW bitmap, NEW invert, NEW s \in BitmapStates, NEW n
    PROVE  BitmapTurn(x, bitmap, invert, s, n) \in BitmapStates
<1>1. s.f \in Frames /\ s.page \in Int /\ s.dstBits \in Bits
  BY DEF BitmapStates
<1>2. BitmapRow(x, invert, s.f, s.page, s.dstBits, bitmap[n]) \in Frames
  BY <1>1, BitmapRowType
<1>3. PageAfter(s.page, s.dstBits) \in Int /\ (s.dstBits + 1) % 8 \in Bits
  BY <1>1 DEF PageAfter, Bits
<1> QED BY <1>2, <1>3 DEF BitmapTurn, BitmapStates

(* The loop of ssd1306_bitmaps ends in the state its rows lead to.          *)
LEMMA BitmapRun ==
    ASSUME frame \in Frames, NEW x \in Int, NEW y \in Int, NEW bitmap \in Seq(Seq(Byte)),
           NEW invert, DrawBitmap(x, y, bitmap, invert)
    PROVE  \E s \in [0 .. Len(bitmap) -> BitmapStates] :
              /\ s[0] = BitmapStart(y)
              /\ \A n \in 1 .. Len(bitmap) : s[n] = BitmapTurn(x, bitmap, invert, s[n - 1], n)
              /\ Draws([op |-> "bitmap", x |-> x, y |-> y, bitmap |-> bitmap, invert |-> invert],
                       s[Len(bitmap)].f, Shown(s[Len(bitmap)].f))
<1> DEFINE N == Len(bitmap)
           start == BitmapStart(y)
           Next1(s, n) == BitmapTurn(x, bitmap, invert, s, n)
           turn == [p \in (1 .. N) \X BitmapStates |-> Next1(p[2], p[1])]
<1>0. N \in Nat /\ 0 \in 0 .. N
  OBVIOUS
<1>1. start \in BitmapStates
  BY BitIs DEF BitmapStart, BitmapStates
<1>2. turn \in [(1 .. N) \X BitmapStates -> BitmapStates]
  BY BitmapTurnType
<1>3. \A n \in 1 .. N, s \in BitmapStates : turn[<<n, s>>] = Next1(s, n)
  OBVIOUS
<1> HIDE DEF turn, start, Next1
<1>4. \E g : g = [n \in 0 .. N |-> IF n = 0 THEN start ELSE Next1(g[n - 1], n)]
  <2> HIDE DEF N
  <2>1. Executions(BitmapStates, N, start, turn) # {}
    BY <1>0, <1>1, <1>2, LoopRuns
  <2>2. PICK g \in [0 .. N -> BitmapStates] :
           g[0] = start /\ \A n \in 1 .. N : g[n] = turn[<<n, g[n - 1]>>]
    BY <2>1 DEF Executions
  <2>3. ASSUME NEW n \in 1 .. N PROVE g[n] = Next1(g[n - 1], n)
    <3>1. n - 1 \in 0 .. N
      BY <1>0
    <3>2. g[n - 1] \in BitmapStates
      BY <2>2, <3>1
    <3> QED BY <1>3, <2>2, <3>2
  <2>4. \A n \in 0 .. N : g[n] = IF n = 0 THEN start ELSE Next1(g[n - 1], n)
    <3> SUFFICES ASSUME NEW n \in 0 .. N
                 PROVE  g[n] = IF n = 0 THEN start ELSE Next1(g[n - 1], n)
      OBVIOUS
    <3>1. n = 0 \/ n \in 1 .. N
      BY <1>0
    <3> QED BY <1>0, <2>2, <2>3, <3>1
  <2>5. g = [n \in 0 .. N |-> IF n = 0 THEN start ELSE Next1(g[n - 1], n)]
    BY <2>2, <2>4
  <2> QED BY <2>5
<1> DEFINE After[n \in 0 .. N] == IF n = 0 THEN start ELSE Next1(After[n - 1], n)
<1>5. After = [n \in 0 .. N |-> IF n = 0 THEN start ELSE Next1(After[n - 1], n)]
  <2>1. PICK g : g = [n \in 0 .. N |-> IF n = 0 THEN start ELSE Next1(g[n - 1], n)]
    BY <1>4
  <2> QED BY <2>1
<1>6. Draws([op |-> "bitmap", x |-> x, y |-> y, bitmap |-> bitmap, invert |-> invert],
            After[N].f, Shown(After[N].f))
  BY DEF DrawBitmap, start, Next1, BitmapStart, BitmapTurn, BitmapRow
<1> HIDE DEF After
<1>7. After[0] = start
  BY <1>0, <1>5
<1>8. ASSUME NEW n \in 1 .. N PROVE After[n] = Next1(After[n - 1], n)
  <2>1. n \in 0 .. N /\ n # 0
    BY <1>0
  <2> QED BY <1>5, <2>1
<1>9. \A n \in 0 .. N : After[n] \in BitmapStates
  <2> DEFINE T == {n \in 0 .. N : After[n] \in BitmapStates}
  <2>1. 0 \in T
    BY <1>0, <1>1, <1>7
  <2>2. \A n \in 1 .. N : n - 1 \in T => n \in T
    BY <1>0, <1>8, BitmapTurnType DEF Next1
  <2> HIDE DEF T, N
  <2>3. \A n \in 0 .. N : n \in T
    BY <1>0, <2>1, <2>2, EveryTurn
  <2> QED BY <2>3 DEF T
<1>10. After \in [0 .. N -> BitmapStates]
  BY <1>5, <1>9
<1> QED BY <1>6, <1>7, <1>8, <1>10 DEF start, Next1

-------------------------------------------------------------------------------
(* Calls that draw.                                                         *)

Drawings == {"set", "show", "pixel", "wrap", "bitmap", "line", "x3", "fadeout"}

(* A call that draws keeps the invariant if it leaves on the panel what it  *)
(* leaves in the buffer, but for the pages it is said not to show.          *)
LEMMA DrawsKeep ==
    ASSUME DrawInv, NEW call, call.op \in Drawings, NEW f \in Frames, NEW p \in Frames,
           Draws(call, f, p), \A page \in PageIds : page \in unshown' \/ p[PanelPage(page)] = f[page]
    PROVE  DrawInv'
<1>0. /\ frame \in Frames /\ flip \in BOOLEAN /\ calls \in Nat /\ calls <= MaxCalls
      /\ unshown \subseteq PageIds /\ pc = "idle" /\ calls < MaxCalls /\ MaxCalls \in Nat
  BY CallsAssumption DEF DrawInv, DrawTypes, Draws
<1>1. DrawTypes'
  <2>1. calls' \in 0 .. MaxCalls /\ unshown' \subseteq PageIds
    BY <1>0 DEF Draws
  <2> QED BY <1>0, <2>1 DEF DrawInv, DrawTypes, Draws, rangeVars
<1>2. LoopInv'
  BY <1>0 DEF DrawInv, LoopInv, Draws, rangeVars
<1>3. MovedInv'
  BY <1>0 DEF MovedInv, Draws
<1>4. ScrollShifts' /\ ClearsRange'
  BY DEF Draws, Drawings, ScrollShifts, ClearsRange
<1>5. PanelFollows'
  BY DEF PanelFollows, PanelPage, Draws
<1> QED BY <1>1, <1>2, <1>3, <1>4, <1>5 DEF DrawInv

(* What the loop that sends a frame leaves on the panel is a frame, and     *)
(* every page of it is where it should be.                                  *)
LEMMA ShownIs ==
    ASSUME NEW f \in Frames
    PROVE  Shown(f) \in Frames /\ \A page \in PageIds : Shown(f)[PanelPage(page)] = f[page]
BY PanelPageIs DEF Shown, Frames

(* A call that sends all of what it has drawn keeps the invariant. *)
LEMMA ShownKeeps ==
    ASSUME DrawInv, NEW call, call.op \in Drawings, NEW f \in Frames, Draws(call, f, Shown(f))
    PROVE  DrawInv'
BY ShownIs, DrawsKeep

(* So does a call that is said to draw in the buffer only, and does.        *)
LEMMA InternalKeeps ==
    ASSUME DrawInv, NEW call, call.op \in Drawings, Internal(call), NEW f \in Frames,
           Draws(call, f, panel)
    PROVE  DrawInv'
<1>1. panel \in Frames
  BY DEF DrawInv, DrawTypes
<1>2. ASSUME NEW page \in PageIds, page \notin unshown' PROVE panel[PanelPage(page)] = f[page]
  <2>1. page \notin unshown /\ f[page] = frame[page]
    BY <1>2 DEF Draws
  <2> QED BY <2>1 DEF DrawInv, PanelFollows
<1> QED BY <1>1, <1>2, DrawsKeep

(* wrap_arround keeps the invariant: it sends all of the frame, or nothing  *)
(* if it is told not to.                                                    *)
LEMMA WrapKeeps ==
    ASSUME DrawInv, NEW scroll, NEW start, NEW end, NEW delay \in Int, NEW f \in Frames,
           Wrap(scroll, start, end, f, delay)
    PROVE  DrawInv'
<1> DEFINE call == [op |-> "wrap", scroll |-> scroll, start |-> start, end |-> end, delay |-> delay]
<1>1. call.op \in Drawings /\ (delay < 0 => Internal(call))
  BY DEF Drawings, Internal
<1>2. Draws(call, f, IF Displays(delay) THEN Shown(f) ELSE panel)
  BY DEF Wrap
<1> HIDE DEF call
<1>3. CASE delay >= 0
  BY <1>1, <1>2, <1>3, ShownKeeps DEF Displays
<1>4. CASE delay < 0
  <2>1. ~ Displays(delay)
    BY <1>4 DEF Displays
  <2> QED BY <1>1, <1>2, <1>4, <2>1, InternalKeeps
<1> QED BY <1>3, <1>4

(* A wrap to the right or to the left keeps the invariant. *)
LEMMA WrapPagesKeep ==
    ASSUME DrawInv, NEW scroll, NEW start \in Int, NEW end \in Int, NEW delay \in Int,
           WrapPages(scroll, start, end, delay)
    PROVE  DrawInv'
<1> DEFINE Moved(page) ==
               IF scroll = "RIGHT" THEN [seg \in Segs |-> page[(seg + Width - 1) % Width]]
                                   ELSE [seg \in Segs |-> page[(seg + 1) % Width]]
           f == [page \in PageIds |-> IF page \in start .. Cut(end, Pages)
                                         THEN Moved(frame[page]) ELSE frame[page]]
<1>1. \A seg \in Segs : (seg + Width - 1) % Width \in Segs /\ (seg + 1) % Width \in Segs
  BY SizesAre DEF Segs
<1>2. \A page \in PageIds : frame[page] \in [Segs -> Byte]
  BY DEF DrawInv, DrawTypes, Frames
<1>3. \A page \in PageIds : Moved(frame[page]) \in [Segs -> Byte]
  BY <1>1, <1>2
<1>4. Wrap(scroll, start, end, f, delay)
  BY DEF WrapPages
<1>5. f \in Frames
  <2> HIDE DEF Moved
  <2> QED BY <1>2, <1>3 DEF Frames
<1> HIDE DEF f
<1> QED BY <1>4, <1>5, WrapKeeps

(* A wrap up or down keeps the invariant. *)
LEMMA WrapColumnsKeep ==
    ASSUME DrawInv, NEW scroll \in {"UP", "DOWN"}, NEW start, NEW end, NEW delay \in Int,
           WrapColumns(scroll, start, end, delay)
    PROVE  DrawInv'
<1> DEFINE f == Turns(scroll, start .. Cut(end, Width))
<1>1. frame \in Frames
  BY DEF DrawInv, DrawTypes
<1>2. Wrap(scroll, start, end, f, delay)
  BY DEF WrapColumns
<1>3. f \in Frames
  <2> DEFINE columns == start .. Cut(end, Width)
  <2> HIDE DEF columns
  <2>1. ASSUME NEW page \in PageIds PROVE ShiftedPage(scroll, columns, page) \in [Segs -> Byte]
    <3>1. Neighbour(scroll, page) \in PageIds
      BY SizesAre DEF Neighbour, PageIds
    <3>2. \A seg \in Segs : frame[page][seg] \in Byte /\ frame[Neighbour(scroll, page)][seg] \in Byte
      BY <1>1, <3>1 DEF Frames
    <3> QED BY <3>2, ShiftType DEF ShiftedPage
  <2>2. f = [page \in PageIds |-> ShiftedPage(scroll, columns, page)]
    BY <1>1, TurnsAre DEF columns
  <2> HIDE DEF f
  <2> QED BY <2>1, <2>2 DEF Frames
<1> HIDE DEF f
<1> QED BY <1>2, <1>3, WrapKeeps

(* _ssd1306_line keeps the invariant. *)
LEMMA LineKeeps ==
    ASSUME DrawInv, NEW x1 \in Int, NEW y1 \in Int, NEW x2 \in Int, NEW y2 \in Int, NEW invert,
           DrawLine(x1, y1, x2, y2, invert)
    PROVE  DrawInv'
<1> DEFINE N == Major(x1, y1, x2, y2) + 1
           call == [op |-> "line", x1 |-> x1, y1 |-> y1, x2 |-> x2, y2 |-> y2, invert |-> invert]
<1>1. frame \in Frames
  BY DEF DrawInv, DrawTypes
<1>2. PICK s \in [0 .. N -> LineStates] : Draws(call, s[N].f, panel)
  BY <1>1, LineRun
<1>3. N \in 0 .. N
  <2>1. Major(x1, y1, x2, y2) \in Nat
    BY MajorType
  <2> QED BY <2>1
<1>4. s[N].f \in Frames
  BY <1>2, <1>3 DEF LineStates
<1>5. call.op \in Drawings /\ Internal(call)
  BY DEF Drawings, Internal
<1> HIDE DEF N, call
<1> QED BY <1>2, <1>4, <1>5, InternalKeeps

(* ssd1306_bitmaps keeps the invariant. *)
LEMMA BitmapKeeps ==
    ASSUME DrawInv, NEW x \in Int, NEW y \in Int, NEW bitmap \in Bitmaps, NEW invert,
           DrawBitmap(x, y, bitmap, invert)
    PROVE  DrawInv'
<1> DEFINE N == Len(bitmap)
           call == [op |-> "bitmap", x |-> x, y |-> y, bitmap |-> bitmap, invert |-> invert]
<1>1. frame \in Frames
  BY DEF DrawInv, DrawTypes
<1>2. bitmap \in Seq(Seq(Byte))
  BY BitmapsAssumption
<1>3. PICK s \in [0 .. N -> BitmapStates] : Draws(call, s[N].f, Shown(s[N].f))
  BY <1>1, <1>2, BitmapRun
<1>4. N \in 0 .. N
  BY <1>2
<1>5. s[N].f \in Frames
  BY <1>3, <1>4 DEF BitmapStates
<1>6. call.op \in Drawings
  BY DEF Drawings
<1> HIDE DEF N, call
<1> QED BY <1>3, <1>5, <1>6, ShownKeeps

(* _ssd1306_pixel keeps the invariant. *)
LEMMA PixelKeeps ==
    ASSUME DrawInv, NEW x \in Int, NEW y \in Int, NEW invert, DrawPixel(x, y, invert)
    PROVE  DrawInv'
<1>1. frame \in Frames
  BY DEF DrawInv, DrawTypes
<1>2. SetPixel(frame, x, y, invert) \in Frames
  BY <1>1, SetPixelType
<1>3. [op |-> "pixel"].op \in Drawings /\ Internal([op |-> "pixel"])
  BY DEF Drawings, Internal
<1> QED BY <1>2, <1>3, InternalKeeps DEF DrawPixel

(* ssd1306_display_text_x3 keeps the invariant. *)
LEMMA EnlargedKeeps ==
    ASSUME DrawInv, NEW page \in PageIds, NEW t \in Texts, NEW invert,
           DisplayTextX3(page, t, invert)
    PROVE  DrawInv'
<1> DEFINE Image(yy, seg) ==
               Turned(Inverted(Piece(t[(seg \div 24) + 1][(seg % 24) \div 3], yy), invert))
           Over(q, contents) ==
               [seg \in Segs |-> IF q \in page .. page + 2 /\ seg < 24 * CutLength(t)
                                    THEN Image(q - page, seg) ELSE contents[seg]]
           f == [q \in PageIds |-> Over(q, frame[q])]
           p == [q \in PageIds |-> Over(PanelPage(q), panel[q])]
           call == [op |-> "x3", page |-> page, text |-> t, invert |-> invert]
<1>1. Draws(call, f, p)
  BY DEF DisplayTextX3
<1>2. \A q \in PageIds : frame[q] \in [Segs -> Byte] /\ panel[q] \in [Segs -> Byte]
  BY DEF DrawInv, DrawTypes, Frames
<1>3. \A yy, seg : Image(yy, seg) \in Byte
  <2>1. \A byte, yy : Piece(byte, yy) \in Byte
    BY DEF Piece, Byte
  <2> QED BY <2>1, InvertedType, TurnedIs
<1> HIDE DEF Image
<1>4. \A q, contents : contents \in [Segs -> Byte] => Over(q, contents) \in [Segs -> Byte]
  BY <1>3
<1> HIDE DEF Over
<1>5. f \in Frames /\ p \in Frames
  BY <1>2, <1>4 DEF Frames
<1>6. call.op \in Drawings /\ (Draws(call, f, p) => unshown' = unshown)
  BY DEF Drawings, Draws, Internal
<1>7. ASSUME NEW q \in PageIds, q \notin unshown PROVE p[PanelPage(q)] = f[q]
  BY <1>7, PanelPageIs DEF DrawInv, PanelFollows
<1> HIDE DEF f, p, call
<1> QED BY <1>1, <1>5, <1>6, <1>7, DrawsKeep

(* The loop of ssd1306_fadeout has an execution, as those above.            *)
LEMMA FadeoutKeeps ==
    ASSUME DrawInv, Fadeout
    PROVE  DrawInv'
<1> DEFINE Next1(byte) == IF flip THEN {bit - 1 : bit \in byte \ {0}}
                                  ELSE {bit + 1 : bit \in byte \ {7}}
           turn == [p \in (1 .. 8) \X Byte |-> Next1(p[2])]
           call == [op |-> "fadeout"]
<1>1. \A byte \in Byte : Next1(byte) \in Byte
  <2> SUFFICES ASSUME NEW byte \in SUBSET (0 .. 7) PROVE Next1(byte) \in SUBSET (0 .. 7)
    BY DEF Byte, Bits
  <2>1. /\ \A bit \in byte \ {0} : bit - 1 \in 0 .. 7
        /\ \A bit \in byte \ {7} : bit + 1 \in 0 .. 7
    OBVIOUS
  <2> QED BY <2>1
<1>2. turn \in [(1 .. 8) \X Byte -> Byte]
  BY <1>1
<1>3. \A n \in 1 .. 8, byte \in Byte : turn[<<n, byte>>] = Next1(byte)
  OBVIOUS
<1> HIDE DEF turn, Next1
<1>4. \E g : g = [line \in 0 .. 8 |-> IF line = 0 THEN Bits ELSE Next1(g[line - 1])]
  <2>1. Bits \in Byte
    BY DEF Byte
  <2>2. Executions(Byte, 8, Bits, turn) # {}
    BY <1>2, <2>1, LoopRuns
  <2>3. PICK g \in [0 .. 8 -> Byte] :
           g[0] = Bits /\ \A n \in 1 .. 8 : g[n] = turn[<<n, g[n - 1]>>]
    BY <2>2 DEF Executions
  <2>4. ASSUME NEW n \in 0 .. 8
        PROVE  g[n] = IF n = 0 THEN Bits ELSE Next1(g[n - 1])
    <3>1. CASE n = 0
      BY <2>3, <3>1
    <3>2. CASE n # 0
      <4>1. n \in 1 .. 8 /\ n - 1 \in 0 .. 8
        BY <3>2
      <4>2. g[n - 1] \in Byte
        BY <2>3, <4>1
      <4> QED BY <1>3, <2>3, <3>2, <4>1, <4>2
    <3> QED BY <3>1, <3>2
  <2>5. g = [n \in 0 .. 8 |-> IF n = 0 THEN Bits ELSE Next1(g[n - 1])]
    BY <2>3, <2>4
  <2> QED BY <2>5
<1> DEFINE Image[line \in 0 .. 8] == IF line = 0 THEN Bits ELSE Next1(Image[line - 1])
           f == [page \in PageIds |-> [seg \in Segs |-> Image[8]]]
<1>5. Image = [line \in 0 .. 8 |-> IF line = 0 THEN Bits ELSE Next1(Image[line - 1])]
  <2>1. PICK g : g = [line \in 0 .. 8 |-> IF line = 0 THEN Bits ELSE Next1(g[line - 1])]
    BY <1>4
  <2> QED BY <2>1
<1>6. Draws(call, f, f)
  BY DEF Fadeout, Next1
<1> HIDE DEF Image
<1>7. \A n \in 0 .. 8 : Image[n] \in Byte
  <2> DEFINE T == {n \in 0 .. 8 : Image[n] \in Byte}
  <2>1. 0 \in T
    BY <1>5 DEF Byte
  <2>2. \A n \in 1 .. 8 : n - 1 \in T => n \in T
    <3> SUFFICES ASSUME NEW n \in 1 .. 8, n - 1 \in T PROVE n \in T
      OBVIOUS
    <3>1. n \in 0 .. 8 /\ n # 0
      OBVIOUS
    <3> QED BY <1>1, <1>5, <3>1 DEF Next1
  <2> HIDE DEF T
  <2>3. \A n \in 0 .. 8 : n \in T
    BY <2>1, <2>2, EveryTurn
  <2> QED BY <2>3 DEF T
<1>8. f \in Frames
  <2>1. Image[8] \in Byte
    BY <1>7
  <2> QED BY <2>1 DEF Frames
<1>9. call.op \in Drawings /\ \A page \in PageIds : f[PanelPage(page)] = f[page]
  BY PanelPageIs DEF Drawings
<1> HIDE DEF f, call
<1> QED BY <1>6, <1>8, <1>9, DrawsKeep

(* Every call of OledDraw keeps the invariant. *)
LEMMA DrawStep ==
    ASSUME DrawInv, Draw
    PROVE  DrawInv'
<1>0. /\ frame \in Frames
      /\ Points \subseteq Int \X Int
  BY PointsAssumption, SizesAre DEF DrawInv, DrawTypes, Segs, Height
<1>1. ASSUME NEW picture \in Pictures, SetBuffer(picture) PROVE DrawInv'
  <2>1. [op |-> "set"].op \in Drawings /\ Internal([op |-> "set"])
    BY DEF Drawings, Internal
  <2> QED BY <1>1, <2>1, PicturesAssumption, InternalKeeps DEF SetBuffer
<1>2. CASE ShowBuffer
  <2>1. [op |-> "show"].op \in Drawings
    BY DEF Drawings
  <2> QED BY <1>0, <1>2, <2>1, ShownKeeps DEF ShowBuffer
<1>3. ASSUME NEW scroll \in {"RIGHT", "LEFT"}, NEW start \in PageIds, NEW end \in 0 .. Pages,
             NEW delay \in {-1, 0}, WrapPages(scroll, start, end, delay)
      PROVE  DrawInv'
  <2>1. start \in Int /\ end \in Int
    BY SizesAre DEF PageIds
  <2> QED BY <1>3, <2>1, WrapPagesKeep
<1>4. ASSUME NEW scroll \in {"UP", "DOWN"}, NEW start, NEW end, NEW delay \in {-1, 0},
             WrapColumns(scroll, start, end, delay)
      PROVE  DrawInv'
  BY <1>4, WrapColumnsKeep
<1>5. ASSUME NEW p \in Points, NEW invert, DrawPixel(p[1], p[2], invert)
      PROVE  DrawInv'
  <2>1. p[1] \in Int /\ p[2] \in Int
    BY <1>0
  <2> QED BY <1>5, <2>1, PixelKeeps
<1>6. ASSUME NEW p \in Points, NEW q \in Points, NEW invert, DrawLine(p[1], p[2], q[1], q[2], invert)
      PROVE  DrawInv'
  <2>1. p[1] \in Int /\ p[2] \in Int /\ q[1] \in Int /\ q[2] \in Int
    BY <1>0
  <2> QED BY <1>6, <2>1, LineKeeps
<1>7. ASSUME NEW p \in Points, NEW bitmap \in Bitmaps, NEW invert, DrawBitmap(p[1], p[2], bitmap, invert)
      PROVE  DrawInv'
  <2>1. p[1] \in Int /\ p[2] \in Int
    BY <1>0
  <2> QED BY <1>7, <2>1, BitmapKeeps
<1>8. ASSUME NEW page \in PageIds, NEW t \in Texts, NEW invert, DisplayTextX3(page, t, invert)
      PROVE  DrawInv'
  BY <1>8, EnlargedKeeps
<1>9. CASE Fadeout
  BY <1>9, FadeoutKeeps
<1> QED BY <1>1, <1>2, <1>3, <1>4, <1>5, <1>6, <1>7, <1>8, <1>9 DEF Draw

-------------------------------------------------------------------------------
(* Calls that scroll.                                                       *)

(* The loops index pages of the buffer only, whichever way they run, but    *)
(* for scroll_text on a range of one page.                                  *)
LEMMA LoopPages ==
    ASSUME DrawTypes, LoopInv, pc # "idle"
    PROVE  /\ scDirection = IF scStart > scEnd THEN -1 ELSE 1
           /\ pc = "copy" /\ scStart # scEnd => InBuffer
           /\ pc = "text" => srcIndex \in PageIds
           /\ pc = "clear" => dstIndex \in PageIds
<1>1. /\ scDirection = IF scStart > scEnd THEN -1 ELSE 1
      /\ scStart \in Int /\ 0 <= scStart /\ scStart <= Pages - 1
      /\ scEnd \in Int /\ 0 <= scEnd /\ scEnd <= Pages - 1
      /\ srcIndex \in Int /\ Pages \in Int
  BY SizesAre DEF DrawTypes, LoopInv, PageIds
<1>2. pc = "copy" /\ scStart # scEnd => srcIndex \in PageIds /\ dstIndex \in PageIds
  BY <1>1 DEF LoopInv, Precedes, dstIndex, PageIds
<1>3. pc = "clear" => dstIndex \in PageIds
  BY <1>1 DEF LoopInv, Precedes, dstIndex, PageIds
<1>4. pc = "text" => srcIndex \in PageIds
  BY DEF LoopInv, DrawTypes
<1> QED BY <1>1, <1>2, <1>3, <1>4 DEF InBuffer

(* A page that is written in full is the same in the buffer and on the      *)
(* panel.                                                                   *)
LEMMA ShowFollows ==
    ASSUME DrawTypes, PanelFollows, NEW page \in PageIds, NEW contents \in Page, Show(page, contents),
           flip' = flip, \A p \in PageIds : p \notin unshown' => p = page \/ p \notin unshown
    PROVE  frame' \in Frames /\ panel' \in Frames /\ PanelFollows'
<1>1. frame \in Frames /\ panel \in Frames
  BY DEF DrawTypes
<1>2. \A p \in PageIds : PanelPage(p) \in PageIds /\ PanelPage(PanelPage(p)) = p
  BY PanelPageIs
<1>3. frame' \in Frames /\ panel' \in Frames
  BY <1>1 DEF Show, Frames, Page
<1>4. ASSUME NEW p \in PageIds, p \notin unshown' PROVE panel'[PanelPage(p)] = frame'[p]
  <2>1. CASE p = page
    BY <1>1, <1>2, <2>1 DEF Show, Frames
  <2>2. CASE p # page
    <3>1. PanelPage(p) # PanelPage(page)
      BY <1>2, <2>2
    <3>2. panel[PanelPage(p)] = frame[p]
      BY <1>4, <2>2 DEF PanelFollows
    <3> QED BY <1>1, <1>2, <2>2, <3>1, <3>2 DEF Show, Frames
  <2> QED BY <2>1, <2>2
<1>5. \A p \in PageIds : PanelPage(p)' = PanelPage(p)
  BY DEF PanelPage
<1> QED BY <1>3, <1>4, <1>5 DEF PanelFollows

(* A text over a page leaves the rest of the page as it was on both.        *)
LEMMA ShowTextFollows ==
    ASSUME DrawTypes, PanelFollows, NEW page \in PageIds, NEW t \in Texts \cup {<<>>}, NEW invert,
           ShowText(page, t, invert), flip' = flip, unshown' = unshown
    PROVE  frame' \in Frames /\ panel' \in Frames /\ PanelFollows'
<1>1. frame \in Frames /\ panel \in Frames
  BY DEF DrawTypes
<1>2. \A p \in PageIds : PanelPage(p) \in PageIds /\ PanelPage(PanelPage(p)) = p
  BY PanelPageIs
<1>3. \A contents \in [Segs -> Byte] : Overlay(contents, t, invert) \in [Segs -> Byte]
  BY OverlayType DEF Page
<1>4. frame' \in Frames /\ panel' \in Frames
  BY <1>1, <1>2, <1>3 DEF ShowText, Frames
<1>5. ASSUME NEW p \in PageIds, p \notin unshown PROVE panel'[PanelPage(p)] = frame'[p]
  <2>1. panel[PanelPage(p)] = frame[p]
    BY <1>5 DEF PanelFollows
  <2>2. CASE p = page
    BY <1>1, <1>2, <2>1, <2>2 DEF ShowText, Frames
  <2>3. CASE p # page
    <3>1. PanelPage(p) # PanelPage(page)
      BY <1>2, <2>3
    <3> QED BY <1>1, <1>2, <2>1, <2>3, <3>1 DEF ShowText, Frames
  <2> QED BY <2>2, <2>3
<1>6. \A p \in PageIds : PanelPage(p)' = PanelPage(p)
  BY DEF PanelPage
<1> QED BY <1>4, <1>5, <1>6 DEF PanelFollows

(* What a step of a scroll call does to the history of unshown pages and to *)
(* the count of calls.                                                      *)
LEMMA ScrollCounts ==
    ASSUME DrawTypes, Scroll
    PROVE  /\ unshown' \subseteq unshown /\ calls' \in 0 .. MaxCalls
           /\ ~ ShowsPage => unshown' = unshown
           /\ \A p \in PageIds : p \notin unshown' => p = dstIndex \/ p \notin unshown
BY CallsAssumption DEF DrawTypes, Scroll

(* ssd1306_display_text keeps the invariant. *)
LEMMA DisplayTextKeeps ==
    ASSUME DrawInv, Scroll, NEW page \in PageIds, NEW t \in Texts, NEW invert,
           DisplayText(page, t, invert)
    PROVE  DrawInv'
<1>0. DrawTypes /\ LoopInv /\ PanelFollows /\ pc = "idle" /\ pc' = "idle" /\ finished' = None
  BY DEF DrawInv, DisplayText
<1>1. unshown' = unshown /\ calls' \in 0 .. MaxCalls
  BY <1>0, ScrollCounts DEF ShowsPage
<1>2. frame' \in Frames /\ panel' \in Frames /\ PanelFollows'
  BY <1>0, <1>1, ShowTextFollows DEF DisplayText
<1>3. DrawTypes'
  BY <1>0, <1>1, <1>2 DEF DrawTypes, DisplayText, rangeVars
<1>4. LoopInv' /\ MovedInv'
  BY <1>0 DEF LoopInv, MovedInv, DisplayText, rangeVars
<1>5. ScrollShifts' /\ ClearsRange'
  BY <1>0 DEF ScrollShifts, ClearsRange, None
<1> QED BY <1>2, <1>3, <1>4, <1>5 DEF DrawInv

(* ssd1306_software_scroll keeps the invariant. *)
LEMMA SoftwareScrollKeeps ==
    ASSUME DrawInv, Scroll, NEW start \in Int, NEW end \in Int, SoftwareScroll(start, end)
    PROVE  DrawInv'
<1>0. DrawTypes /\ LoopInv /\ PanelFollows /\ pc = "idle" /\ pc' = "idle" /\ finished' = None
  BY DEF DrawInv, SoftwareScroll
<1>1. unshown' = unshown /\ calls' \in 0 .. MaxCalls
  BY <1>0, ScrollCounts DEF ShowsPage
<1>2. DrawTypes'
  BY <1>0, <1>1 DEF DrawTypes, SoftwareScroll, ValidPage
<1>3. LoopInv' /\ MovedInv'
  BY <1>0 DEF LoopInv, MovedInv, SoftwareScroll
<1>4. ScrollShifts' /\ ClearsRange'
  BY <1>0 DEF ScrollShifts, ClearsRange, None
<1>5. PanelFollows'
  BY <1>0, <1>1 DEF PanelFollows, PanelPage, SoftwareScroll
<1> QED BY <1>2, <1>3, <1>4, <1>5 DEF DrawInv

(* Both loops begin at the end of the range, with no page written.          *)
LEMMA CallKeeps ==
    ASSUME DrawInv, Scroll, NEW loop \in {"copy", "clear"},
           NEW t \in [glyphs : Texts \cup {<<>>}, invert : BOOLEAN], Call(loop, t)
    PROVE  DrawInv'
<1>0. /\ DrawTypes /\ LoopInv /\ PanelFollows
      /\ pc = "idle" /\ pc' = loop /\ scEnable /\ finished' = None
      /\ scDirection = IF scStart > scEnd THEN -1 ELSE 1
  BY DEF DrawInv, Call, LoopInv
<1>1. unshown' = unshown /\ calls' \in 0 .. MaxCalls
  BY <1>0, ScrollCounts DEF ShowsPage
<1>2. /\ scStart \in Int /\ scEnd \in Int /\ scDirection \in Int
      /\ srcIndex' = scEnd - scDirection /\ dstIndex' = scEnd
  BY <1>0, SizesAre DEF Call, dstIndex, rangeVars, DrawTypes, PageIds
<1>3. DrawTypes'
  BY <1>0, <1>1, <1>2 DEF DrawTypes, Call, rangeVars
<1>4. LoopInv'
  BY <1>0, <1>2 DEF LoopInv, Precedes, Call, rangeVars
<1>5. MovedInv'
  <2>1. \A page \in PageIds : ~ Written(page)'
    BY <1>0, <1>2, SizesAre DEF Written, Precedes, Call, rangeVars, PageIds
  <2>2. frame' = before'
    BY DEF Call
  <2> QED BY <1>0, <2>1, <2>2 DEF MovedInv
<1>6. ScrollShifts' /\ ClearsRange'
  BY <1>0 DEF ScrollShifts, ClearsRange, None
<1>7. PanelFollows'
  BY <1>0, <1>1 DEF PanelFollows, PanelPage, Call
<1> QED BY <1>3, <1>4, <1>5, <1>6, <1>7 DEF DrawInv

(* The page that is read has not been written; the page that is written is  *)
(* the next one.                                                            *)
LEMMA CopyKeeps ==
    ASSUME DrawInv, Scroll, CopyPage
    PROVE  DrawInv'
<1>0. /\ DrawTypes /\ LoopInv /\ PanelFollows
      /\ pc = "copy" /\ pc' \in {"copy", "text"} /\ scEnable /\ finished = None /\ finished' = None
      /\ srcIndex \in PageIds /\ dstIndex \in PageIds
      /\ scDirection = IF scStart > scEnd THEN -1 ELSE 1
  BY LoopPages DEF DrawInv, CopyPage, NextPage, LoopInv, InBuffer
<1>1. /\ unshown' \subseteq unshown /\ calls' \in 0 .. MaxCalls
      /\ \A p \in PageIds : p \notin unshown' => p = dstIndex \/ p \notin unshown
  BY <1>0, ScrollCounts
<1>2. frame[srcIndex] \in Page
  BY <1>0 DEF DrawTypes, Frames, Page
<1>3. frame' \in Frames /\ panel' \in Frames /\ PanelFollows'
  BY <1>0, <1>1, <1>2, ShowFollows DEF CopyPage
<1>4. /\ scStart \in Int /\ scEnd \in Int /\ srcIndex \in Int
      /\ srcIndex' \in Int /\ scDirection \in Int /\ \A page \in PageIds : page \in Int
  BY <1>0, SizesAre DEF DrawTypes, PageIds, CopyPage, NextPage
<1>5. DrawTypes'
  BY <1>0, <1>1, <1>3, <1>4 DEF DrawTypes, CopyPage, rangeVars
<1>5a. /\ srcIndex # scStart => pc' = pc /\ srcIndex' = srcIndex - scDirection
      /\ scDirection' = scDirection
  BY DEF CopyPage, NextPage, rangeVars
<1>6. LoopInv'
  <2>1. CASE srcIndex = scStart
    BY <1>0, <1>4, <2>1 DEF LoopInv, Precedes, dstIndex, CopyPage, NextPage, rangeVars
  <2>2. CASE srcIndex # scStart
    <3>1. pc' = "copy" /\ dstIndex' = srcIndex
      <4>1. (srcIndex - scDirection) + scDirection = srcIndex
        BY <1>4
      <4> QED BY <1>0, <1>5a, <2>2, <4>1 DEF dstIndex
    <3>2. /\ scStart # scEnd => ~ Precedes(srcIndex - scDirection, scStart)
          /\ ~ Precedes(scEnd, srcIndex)
      BY <1>0, <1>4, <2>2 DEF LoopInv, Precedes, dstIndex
    <3> QED BY <1>0, <1>5a, <2>2, <3>1, <3>2 DEF LoopInv, Precedes, CopyPage, rangeVars
  <2> QED BY <2>1, <2>2
<1>7. MovedInv'
  <2> SUFFICES ASSUME NEW page \in PageIds
               PROVE  frame'[page] = IF Written(page)' THEN before[page - scDirection] ELSE before[page]
    BY <1>0 DEF MovedInv, CopyPage, rangeVars
  <2>1. Written(page)' <=> (Written(page) \/ page = dstIndex)
    <3>1. CASE srcIndex = scStart
      BY <1>0, <1>4, <3>1 DEF LoopInv, Written, Precedes, dstIndex, CopyPage, NextPage, rangeVars
    <3>2. CASE srcIndex # scStart
      <4>1. pc' = "copy" /\ dstIndex' = srcIndex
        <5>1. (srcIndex - scDirection) + scDirection = srcIndex
          BY <1>4
        <5> QED BY <1>0, <1>5a, <3>2, <5>1 DEF dstIndex
      <4>2. Precedes(srcIndex, page) <=> Precedes(dstIndex, page) \/ page = dstIndex
        BY <1>0, <1>4 DEF Precedes, dstIndex
      <4>3. ~ Precedes(scEnd, dstIndex)
        BY <1>0 DEF LoopInv
      <4> QED BY <1>0, <4>1, <4>2, <4>3 DEF Written, Precedes, CopyPage, rangeVars
    <3> QED BY <3>1, <3>2
  <2>2. \A p \in PageIds :
           frame[p] = IF Written(p) THEN before[p - scDirection] ELSE before[p]
    BY <1>0 DEF DrawInv, MovedInv
  <2>3. ~ Written(srcIndex) /\ ~ Written(dstIndex) /\ srcIndex = dstIndex - scDirection
    BY <1>0, <1>4 DEF Written, Precedes, dstIndex
  <2>4. frame'[page] = IF page = dstIndex THEN frame[srcIndex] ELSE frame[page]
    BY <1>0 DEF CopyPage, Show, DrawTypes, Frames
  <2> QED BY <1>0, <2>1, <2>2, <2>3, <2>4
<1>8. ScrollShifts' /\ ClearsRange'
  BY <1>0 DEF ScrollShifts, ClearsRange, None
<1> QED BY <1>3, <1>5, <1>6, <1>7, <1>8 DEF DrawInv

(* The loop that leaves the buffer writes nothing more that is modelled.    *)
LEMMA LeaveKeeps ==
    ASSUME DrawInv, Scroll, LeaveBuffer
    PROVE  DrawInv'
<1>0. /\ DrawTypes /\ LoopInv /\ PanelFollows
      /\ pc = "copy" /\ pc' = "beyond" /\ scEnable /\ finished = None /\ finished' = None
      /\ scStart = scEnd
  BY LoopPages DEF DrawInv, LeaveBuffer, LoopInv
<1>1. unshown' = unshown /\ calls' \in 0 .. MaxCalls
  BY <1>0, ScrollCounts DEF ShowsPage, LeaveBuffer
<1>2. DrawTypes'
  BY <1>0, <1>1 DEF DrawTypes, LeaveBuffer, rangeVars
<1>3. LoopInv' /\ MovedInv'
  BY <1>0 DEF LoopInv, MovedInv, LeaveBuffer, rangeVars
<1>4. ScrollShifts' /\ ClearsRange'
  BY <1>0 DEF ScrollShifts, ClearsRange, None
<1>5. PanelFollows'
  BY <1>0, <1>1 DEF PanelFollows, PanelPage, LeaveBuffer
<1> QED BY <1>2, <1>3, <1>4, <1>5 DEF DrawInv

(* All of the range is moved when the text is written.                      *)
LEMMA WriteTextKeeps ==
    ASSUME DrawInv, Scroll, WriteText
    PROVE  DrawInv'
<1>0. /\ DrawTypes /\ LoopInv /\ PanelFollows
      /\ pc = "text" /\ pc' = "idle" /\ scEnable /\ finished'.op = "scroll_text"
      /\ srcIndex \in PageIds /\ srcIndex = scStart /\ text.glyphs \in Texts \cup {<<>>}
      /\ scDirection = IF scStart > scEnd THEN -1 ELSE 1
  BY LoopPages DEF DrawInv, WriteText, LoopInv, DrawTypes
<1>1. unshown' = unshown /\ calls' \in 0 .. MaxCalls
  BY <1>0, ScrollCounts DEF ShowsPage
<1>2. frame' \in Frames /\ panel' \in Frames /\ PanelFollows'
  BY <1>0, <1>1, ShowTextFollows DEF WriteText
<1>3. DrawTypes'
  BY <1>0, <1>1, <1>2 DEF DrawTypes, WriteText, rangeVars
<1>4. LoopInv' /\ MovedInv'
  BY <1>0 DEF LoopInv, MovedInv, WriteText, rangeVars
<1>5. ClearsRange'
  BY <1>0 DEF ClearsRange
<1>6. ScrollShifts'
  <2> SUFFICES ASSUME NEW page \in PageIds
               PROVE  frame'[page] = IF page = scStart THEN Overlay(before[page], text.glyphs, text.invert)
                                     ELSE IF InRange(page) THEN before[page - scDirection]
                                     ELSE before[page]
    BY DEF ScrollShifts, WriteText, rangeVars, InRange, Overlay, Turned
  <2>1. \A p \in PageIds :
           frame[p] = IF Written(p) THEN before[p - scDirection] ELSE before[p]
    BY <1>0 DEF DrawInv, MovedInv
  <2>2. Written(page) <=> page # scStart /\ InRange(page)
    BY <1>0, SizesAre DEF Written, Precedes, InRange, DrawTypes, PageIds
  <2>3. frame'[page] = IF page = scStart THEN Overlay(frame[page], text.glyphs, text.invert)
                                         ELSE frame[page]
    BY <1>0 DEF WriteText, ShowText, DrawTypes, Frames
  <2> QED BY <2>1, <2>2, <2>3
<1> QED BY <1>2, <1>3, <1>4, <1>5, <1>6 DEF DrawInv

(* A turn of the loop of ssd1306_scroll_clear keeps the invariant. *)
LEMMA ClearKeeps ==
    ASSUME DrawInv, Scroll, ClearLine
    PROVE  DrawInv'
<1>0. /\ DrawTypes /\ LoopInv /\ PanelFollows
      /\ pc = "clear" /\ scEnable /\ finished = None /\ dstIndex \in PageIds
      /\ scDirection = IF scStart > scEnd THEN -1 ELSE 1
  BY LoopPages DEF DrawInv, ClearLine, LoopInv
<1>1. /\ unshown' \subseteq unshown /\ calls' \in 0 .. MaxCalls
      /\ \A p \in PageIds : p \notin unshown' => p = dstIndex \/ p \notin unshown
  BY <1>0, ScrollCounts
<1>2. frame' \in Frames /\ panel' \in Frames /\ PanelFollows'
  BY <1>0, <1>1, BlankPageType, ShowFollows DEF ClearLine
<1>3. /\ scStart \in Int /\ scEnd \in Int /\ srcIndex \in Int
      /\ srcIndex' \in Int /\ scDirection \in Int /\ \A page \in PageIds : page \in Int
  BY <1>0, SizesAre DEF DrawTypes, PageIds, ClearLine
<1>4. DrawTypes'
  BY <1>0, <1>1, <1>2, <1>3 DEF DrawTypes, ClearLine, rangeVars
<1>5. \A page \in PageIds :
         /\ frame[page] = IF Written(page) THEN BlankPage ELSE before[page]
         /\ frame'[page] = IF page = dstIndex THEN BlankPage ELSE frame[page]
  BY <1>0 DEF DrawInv, MovedInv, ClearLine, Show, DrawTypes, Frames
<1>6. CASE Cleared
  <2>1. pc' = "idle" /\ finished'.op = "scroll_clear"
    BY <1>6 DEF ClearLine
  <2>2. \A page \in PageIds : InRange(page) <=> Written(page) \/ page = dstIndex
    BY <1>0, <1>3, <1>6 DEF Written, Precedes, InRange, Cleared
  <2>3. LoopInv' /\ MovedInv' /\ ScrollShifts'
    BY <1>0, <2>1 DEF LoopInv, MovedInv, ScrollShifts, ClearLine, rangeVars
  <2>4. ClearsRange'
    <3>1. \A page \in PageIds : InRange(page)' = InRange(page)
      BY DEF InRange, ClearLine, rangeVars
    <3>2. before' = before
      BY DEF ClearLine
    <3> QED BY <1>5, <2>2, <3>1, <3>2 DEF ClearsRange, BlankPage
  <2> QED BY <1>2, <1>4, <2>3, <2>4 DEF DrawInv
<1>7. CASE ~ Cleared
  <2>1. /\ pc' = "clear" /\ finished' = None
        /\ srcIndex' = srcIndex - scDirection /\ scDirection' = scDirection
        /\ dstIndex' = dstIndex - scDirection
    <3>1. srcIndex' = srcIndex - scDirection /\ scDirection' = scDirection
      BY <1>7 DEF ClearLine, rangeVars
    <3>2. (srcIndex - scDirection) + scDirection = (srcIndex + scDirection) - scDirection
      BY <1>3
    <3> QED BY <1>0, <1>7, <3>1, <3>2 DEF ClearLine, dstIndex
  <2>2. LoopInv'
    BY <1>0, <1>3, <1>7, <2>1 DEF LoopInv, Precedes, Cleared, ClearLine, rangeVars, dstIndex
  <2>3. \A page \in PageIds : Written(page)' <=> Written(page) \/ page = dstIndex
    BY <1>0, <1>3, <2>1 DEF LoopInv, Written, Precedes, ClearLine, rangeVars, dstIndex
  <2>4. MovedInv'
    <3>1. before' = before
      BY DEF ClearLine
    <3> QED BY <1>5, <2>1, <2>3, <3>1 DEF MovedInv, BlankPage
  <2>5. ScrollShifts' /\ ClearsRange'
    BY <2>1 DEF ScrollShifts, ClearsRange, None
  <2> QED BY <1>2, <1>4, <2>2, <2>4, <2>5 DEF DrawInv
<1> QED BY <1>6, <1>7

(* Every call and every turn of OledScroll keeps the invariant. *)
LEMMA ScrollStep ==
    ASSUME DrawInv, Scroll
    PROVE  DrawInv'
<1>0. \A page \in -1 .. Pages : page \in Int
  BY SizesAre
<1>1. ASSUME NEW page \in PageIds, NEW t \in Texts, NEW invert, DisplayText(page, t, invert)
      PROVE  DrawInv'
  BY <1>1, DisplayTextKeeps
<1>2. ASSUME NEW start \in -1 .. Pages, NEW end \in -1 .. Pages, SoftwareScroll(start, end)
      PROVE  DrawInv'
  BY <1>0, <1>2, SoftwareScrollKeeps
<1>3. ASSUME NEW t \in Texts, NEW invert \in BOOLEAN, ScrollText(t, invert) PROVE DrawInv'
  BY <1>3, CallKeeps DEF ScrollText
<1>4. CASE ScrollClear
  BY <1>4, CallKeeps DEF ScrollClear, NoText
<1>5. CASE CopyPage
  BY <1>5, CopyKeeps
<1>6. CASE WriteText
  BY <1>6, WriteTextKeeps
<1>7. CASE ClearLine
  BY <1>7, ClearKeeps
<1>8. CASE LeaveBuffer
  BY <1>8, LeaveKeeps
<1> QED BY <1>1, <1>2, <1>3, <1>4, <1>5, <1>6, <1>7, <1>8 DEF Scroll, Next, Loop

(* The invariant holds before the first call. *)
LEMMA FirstKeeps ==
    ASSUME DrawInit
    PROVE  DrawInv
<1>1. /\ frame \in Frames /\ before = frame /\ flip \in BOOLEAN
      /\ panel = [page \in PageIds |-> frame[PanelPage(page)]]
      /\ pc = "idle" /\ finished = None /\ scEnable = FALSE
  BY PicturesAssumption DEF DrawInit, Init
<1>2. panel \in Frames
  <2>1. \A page \in PageIds : frame[PanelPage(page)] \in [Segs -> Byte]
    BY <1>1, PanelPageIs DEF Frames
  <2> QED BY <1>1, <2>1 DEF Frames
<1>3. DrawTypes
  <2>1. 0 \in PageIds /\ calls \in 0 .. MaxCalls
    BY SizesAre, CallsAssumption DEF PageIds, DrawInit
  <2> QED BY <1>1, <1>2, <2>1 DEF DrawTypes, DrawInit, Init, NoText
<1>4. LoopInv /\ MovedInv
  BY <1>1 DEF LoopInv, MovedInv
<1>5. ScrollShifts /\ ClearsRange
  BY <1>1 DEF ScrollShifts, ClearsRange, None
<1>6. PanelFollows
  BY <1>1, PanelPageIs DEF PanelFollows
<1> QED BY <1>3, <1>4, <1>5, <1>6 DEF DrawInv

(* Every step of the driver, and a step of its caller, keeps DrawInv.       *)
LEMMA DrawInvSteps ==
    ASSUME DrawInv, [DrawNext]_drawVars
    PROVE  DrawInv'
<1>1. CASE DrawNext
  BY <1>1, DrawStep, ScrollStep DEF DrawNext
<1>2. CASE UNCHANGED drawVars
  <2>1. DrawTypes' /\ LoopInv' /\ MovedInv'
    BY <1>2 DEF DrawInv, DrawTypes, LoopInv, MovedInv, Written, Precedes, dstIndex, drawVars, vars,
                rangeVars
  <2>2. ScrollShifts' /\ ClearsRange' /\ PanelFollows'
    BY <1>2 DEF DrawInv, ScrollShifts, ClearsRange, InRange, Overlay, Turned, PanelFollows, PanelPage,
                drawVars, vars, rangeVars
  <2> QED BY <2>1, <2>2 DEF DrawInv
<1> QED BY <1>1, <1>2

(* DrawInv is inductive: it holds at every step of the calls of OledDraw.   *)
THEOREM DrawInductive == DrawSpec => []DrawInv
<1>1. DrawInit => DrawInv
  BY FirstKeeps
<1>2. DrawInv /\ [DrawNext]_drawVars => DrawInv'
  BY DrawInvSteps
<1> QED BY <1>1, <1>2, PTL DEF DrawSpec

(* Over the calls of OledDraw, with the arguments it gives them, the loops  *)
(* of scroll_text and scroll_clear index pages of the buffer only, except   *)
(* that scroll_text on a range of one page leaves it, and the range stays   *)
(* one that software_scroll may accept.                                     *)
THEOREM DrawTypeCorrect == DrawSpec => []DrawTypeOK
<1>1. DrawInv => DrawTypeOK
  <2> SUFFICES ASSUME DrawInv PROVE DrawTypeOK
    OBVIOUS
  <2>1. /\ pc = "copy" /\ scStart # scEnd => InBuffer
        /\ pc = "text" => srcIndex \in PageIds
        /\ pc = "clear" => dstIndex \in PageIds
    BY LoopPages DEF DrawInv
  <2> QED BY <2>1 DEF DrawInv, DrawTypes, LoopInv, DrawTypeOK, TypeOK
<1> QED BY <1>1, DrawInductive, PTL

(* ssd1306_scroll_text moves each page of the range on by one, in either    *)
(* direction and for a range of any length, and writes the text into the    *)
(* first, inverted or not and cut at the edge of the page; if it ends.      *)
THEOREM ScrollMoves == DrawSpec => []ScrollShifts
<1>1. DrawInv => ScrollShifts
  BY DEF DrawInv
<1> QED BY <1>1, DrawInductive, PTL

(* ssd1306_scroll_clear empties the pages of the range and no other.        *)
THEOREM Clears == DrawSpec => []ClearsRange
<1>1. DrawInv => ClearsRange
  BY DEF DrawInv
<1> QED BY <1>1, DrawInductive, PTL

(* However calls that are to show what they draw are mixed with calls said  *)
(* to draw in "internal buffer" only, what each of them sends to the panel  *)
(* and what it writes to the buffer agree: a page differs only if a call of *)
(* the second kind changed it and none has shown it since.                  *)
THEOREM PanelShown == DrawSpec => []PanelFollows
<1>1. DrawInv => PanelFollows
  BY DEF DrawInv
<1> QED BY <1>1, DrawInductive, PTL

-------------------------------------------------------------------------------
(* What the calls that draw leave behind.                                   *)

(* A call that has drawn is the last one finished only until the next call  *)
(* is made: no step of a scroll call leaves it there.                       *)
LEMMA ScrollFinishes ==
    ASSUME DrawInv, Scroll
    PROVE  finished'.op \in {"none", "scroll_text", "scroll_clear"}
<1>1. pc # "idle" => finished = None
  BY DEF DrawInv, LoopInv
<1>2. ASSUME CopyPage \/ LeaveBuffer \/ WriteText \/ ClearLine
      PROVE  finished'.op \in {"none", "scroll_text", "scroll_clear"}
  <2>1. CASE CopyPage
    BY <1>1, <2>1 DEF CopyPage, None
  <2>2. CASE WriteText
    BY <2>2 DEF WriteText
  <2>4. CASE LeaveBuffer
    BY <1>1, <2>4 DEF LeaveBuffer, None
  <2>3. CASE ClearLine
    <3>1. finished' = finished \/ finished' = [op |-> "scroll_clear"]
      BY <2>3 DEF ClearLine
    <3>2. finished = None
      BY <1>1, <2>3 DEF ClearLine
    <3> QED BY <3>1, <3>2 DEF None
  <2> QED BY <1>2, <2>1, <2>2, <2>3, <2>4
<1>3. ASSUME NEW loop, NEW t, Call(loop, t)
      PROVE  finished'.op = "none"
  BY <1>3 DEF Call, None
<1>4. ASSUME NEW page, NEW t, NEW invert, DisplayText(page, t, invert)
      PROVE  finished'.op = "none"
  BY <1>4 DEF DisplayText, None
<1>5. ASSUME NEW start, NEW end, SoftwareScroll(start, end)
      PROVE  finished'.op = "none"
  BY <1>5 DEF SoftwareScroll, None
<1> QED BY <1>2, <1>3, <1>4, <1>5 DEF Scroll, Next, Loop, ScrollText, ScrollClear

(* Rows of pixels are pages of eight bits.                                  *)
LEMMA RowIs ==
    ASSUME NEW y \in 0 .. Height - 1
    PROVE  y \in Nat /\ y \div 8 \in PageIds /\ y % 8 \in Bits /\ y = (8 * (y \div 8)) + (y % 8)
BY SizesAre DEF Height, PageIds, Bits

(* Page and bit of the row that is bit r of page q. *)
LEMMA PageBit ==
    ASSUME NEW q \in Int, NEW r \in Bits
    PROVE  ((8 * q) + r) \div 8 = q /\ ((8 * q) + r) % 8 = r
BY DEF Bits

(* Going round n places from place a. *)
LEMMA Modulo ==
    ASSUME NEW n \in Nat, n >= 1, NEW a \in Nat, a < n
    PROVE  a % n = a /\ (a + n) % n = a /\ n % n = 0
OBVIOUS

(* The row below, around the edge of the panel.                             *)
LEMMA RowAfter ==
    ASSUME NEW y \in 0 .. Height - 1
    PROVE  /\ ((y + 1) % Height) \div 8 =
                 IF y % 8 < 7 THEN y \div 8 ELSE Neighbour("UP", y \div 8)
           /\ ((y + 1) % Height) % 8 = IF y % 8 < 7 THEN (y % 8) + 1 ELSE 0
<1> DEFINE q == y \div 8
           r == y % 8
<1>1. /\ y \in Nat /\ q \in PageIds /\ r \in Bits /\ y = (8 * q) + r
      /\ Pages \in Nat /\ Pages >= 1 /\ Height = 8 * Pages /\ Height \in Nat /\ Height >= 1
  BY RowIs, SizesAre DEF Height
<1> HIDE DEF q, r
<1>2. q \in Int /\ 0 <= q /\ q <= Pages - 1 /\ r \in Int /\ 0 <= r /\ r <= 7
  BY <1>1 DEF PageIds, Bits
<1>3. CASE r < 7
  <2>1. y + 1 = (8 * q) + (r + 1) /\ r + 1 \in Bits /\ y + 1 \in Nat /\ y + 1 < Height
    BY <1>1, <1>2, <1>3 DEF Bits
  <2>2. (y + 1) % Height = y + 1
    BY <1>1, <2>1, Modulo
  <2>3. (y + 1) \div 8 = q /\ (y + 1) % 8 = r + 1
    BY <1>2, <2>1, PageBit
  <2> QED BY <1>3, <2>2, <2>3 DEF q, r
<1>4. CASE ~ (r < 7) /\ q < Pages - 1
  <2>1. y + 1 = (8 * (q + 1)) + 0 /\ 0 \in Bits /\ y + 1 \in Nat /\ y + 1 < Height
    BY <1>1, <1>2, <1>4 DEF Bits
  <2>2. (y + 1) % Height = y + 1
    BY <1>1, <2>1, Modulo
  <2>3. (y + 1) \div 8 = q + 1 /\ (y + 1) % 8 = 0
    BY <1>2, <2>1, PageBit
  <2>4. Neighbour("UP", q) = q + 1
    BY <1>1, <1>2, <1>4 DEF Neighbour, PageIds
  <2> QED BY <1>4, <2>2, <2>3, <2>4 DEF q, r
<1>5. CASE ~ (r < 7) /\ ~ (q < Pages - 1)
  <2>1. y + 1 = Height
    BY <1>1, <1>2, <1>5
  <2>2. (y + 1) % Height = 0
    BY <1>1, <2>1, Modulo
  <2>3. 0 \div 8 = 0 /\ 0 % 8 = 0
    OBVIOUS
  <2>4. Neighbour("UP", q) = 0
    BY <1>1, <1>2, <1>5 DEF Neighbour, PageIds
  <2> QED BY <1>5, <2>2, <2>3, <2>4 DEF q, r
<1> QED BY <1>3, <1>4, <1>5

(* The row above.                                                           *)
LEMMA RowBefore ==
    ASSUME NEW y \in 0 .. Height - 1
    PROVE  /\ ((y + Height - 1) % Height) \div 8 =
                 IF y % 8 > 0 THEN y \div 8 ELSE Neighbour("DOWN", y \div 8)
           /\ ((y + Height - 1) % Height) % 8 = IF y % 8 > 0 THEN (y % 8) - 1 ELSE 7
<1> DEFINE q == y \div 8
           r == y % 8
<1>1. /\ y \in Nat /\ q \in PageIds /\ r \in Bits /\ y = (8 * q) + r
      /\ Pages \in Nat /\ Pages >= 1 /\ Height = 8 * Pages /\ Height \in Nat /\ Height >= 1
  BY RowIs, SizesAre DEF Height
<1> HIDE DEF q, r
<1>2. q \in Int /\ 0 <= q /\ q <= Pages - 1 /\ r \in Int /\ 0 <= r /\ r <= 7
  BY <1>1 DEF PageIds, Bits
<1>3. CASE r > 0
  <2>1. y - 1 = (8 * q) + (r - 1) /\ r - 1 \in Bits /\ y - 1 \in Nat /\ y - 1 < Height
    BY <1>1, <1>2, <1>3 DEF Bits
  <2>2. (y + Height - 1) % Height = y - 1
    <3>1. ((y - 1) + Height) % Height = y - 1
      BY <1>1, <2>1, Modulo
    <3>2. y + Height - 1 = (y - 1) + Height
      BY <1>1
    <3> QED BY <3>1, <3>2
  <2>3. (y - 1) \div 8 = q /\ (y - 1) % 8 = r - 1
    BY <1>2, <2>1, PageBit
  <2> QED BY <1>3, <2>2, <2>3 DEF q, r
<1>4. CASE ~ (r > 0) /\ q > 0
  <2>1. y - 1 = (8 * (q - 1)) + 7 /\ 7 \in Bits /\ y - 1 \in Nat /\ y - 1 < Height
    BY <1>1, <1>2, <1>4 DEF Bits
  <2>2. (y + Height - 1) % Height = y - 1
    <3>1. ((y - 1) + Height) % Height = y - 1
      BY <1>1, <2>1, Modulo
    <3>2. y + Height - 1 = (y - 1) + Height
      BY <1>1
    <3> QED BY <3>1, <3>2
  <2>3. (y - 1) \div 8 = q - 1 /\ (y - 1) % 8 = 7
    <3>1. q - 1 \in Int
      BY <1>2
    <3>2. ((8 * (q - 1)) + 7) \div 8 = q - 1 /\ ((8 * (q - 1)) + 7) % 8 = 7
      BY <2>1, <3>1, PageBit
    <3> QED BY <2>1, <3>2
  <2>4. Neighbour("DOWN", q) = q - 1
    BY <1>1, <1>2, <1>4 DEF Neighbour, PageIds
  <2> QED BY <1>4, <2>2, <2>3, <2>4 DEF q, r
<1>5. CASE ~ (r > 0) /\ ~ (q > 0)
  <2>1. y + Height - 1 = (8 * (Pages - 1)) + 7 /\ 7 \in Bits /\ y + Height - 1 \in Nat
        /\ y + Height - 1 < Height
    BY <1>1, <1>2, <1>5 DEF Bits
  <2>2. (y + Height - 1) % Height = y + Height - 1
    BY <1>1, <2>1, Modulo
  <2>3. (y + Height - 1) \div 8 = Pages - 1 /\ (y + Height - 1) % 8 = 7
    <3>1. Pages - 1 \in Int
      BY <1>1
    <3>2. ((8 * (Pages - 1)) + 7) \div 8 = Pages - 1 /\ ((8 * (Pages - 1)) + 7) % 8 = 7
      BY <2>1, <3>1, PageBit
    <3> QED BY <2>1, <3>2
  <2>4. Neighbour("DOWN", q) = Pages - 1
    BY <1>1, <1>2, <1>5 DEF Neighbour, PageIds
  <2> QED BY <1>5, <2>2, <2>3, <2>4 DEF q, r
<1> QED BY <1>3, <1>4, <1>5

(* A pixel of a shifted byte is its neighbour's, of the same byte or of the *)
(* byte that moves in.                                                      *)
LEMMA ShiftIs ==
    ASSUME NEW a \in Byte, NEW b \in Byte, NEW bit \in Bits
    PROVE  /\ bit \in Turned(ShiftUp(a, b)) <=>
                 IF bit < 7 THEN bit + 1 \in Turned(a) ELSE 0 \in Turned(b)
           /\ bit \in Turned(ShiftDown(a, b)) <=>
                 IF bit > 0 THEN bit - 1 \in Turned(a) ELSE 7 \in Turned(b)
<1> DEFINE up   == {c - 1 : c \in Turned(a) \ {0}} \cup {c + 7 : c \in Turned(b) \cap {0}}
           down == {c + 1 : c \in Turned(a) \ {7}} \cup {c - 7 : c \in Turned(b) \cap {7}}
<1>1. Turned(a) \in SUBSET (0 .. 7) /\ Turned(b) \in SUBSET (0 .. 7) /\ bit \in 0 .. 7
  BY TurnedIs DEF Byte, Bits
<1>2. up \in Byte /\ down \in Byte
  BY <1>1 DEF Byte, Bits
<1>3. Turned(ShiftUp(a, b)) = up /\ Turned(ShiftDown(a, b)) = down
  BY <1>2, TurnedIs DEF ShiftUp, ShiftDown
<1> DEFINE ta == Turned(a)
           tb == Turned(b)
<1> HIDE DEF ta, tb
<1>4. ta \in SUBSET (0 .. 7) /\ tb \in SUBSET (0 .. 7)
  BY <1>1 DEF ta, tb
<1>5. bit \in {c - 1 : c \in ta \ {0}} \cup {c + 7 : c \in tb \cap {0}} <=>
         IF bit < 7 THEN bit + 1 \in ta ELSE 0 \in tb
  BY <1>1, <1>4
<1>6. bit \in {c + 1 : c \in ta \ {7}} \cup {c - 7 : c \in tb \cap {7}} <=>
         IF bit > 0 THEN bit - 1 \in ta ELSE 7 \in tb
  BY <1>1, <1>4
<1> QED BY <1>3, <1>5, <1>6 DEF ta, tb

(* WrapTurns, of the frame that a call of wrap_arround leaves.              *)
Wrapped(scroll, start, end, f) ==
    \A x \in Segs, y \in 0 .. Height - 1 :
        IF Inside(scroll, start, end, x, y)
           THEN Lit(f, x, y) <=> Lit(frame, From(scroll, x, y)[1], From(scroll, x, y)[2])
           ELSE Lit(f, x, y) <=> Lit(frame, x, y)

(* A wrap whose frame has every pixel where it should be satisfies WrapTurns. *)
LEMMA WrappedTurns ==
    ASSUME NEW scroll, NEW start, NEW end, NEW delay, NEW f, Wrap(scroll, start, end, f, delay),
           Wrapped(scroll, start, end, f)
    PROVE  WrapTurns'
<1>1. /\ frame' = f /\ before' = frame /\ flip' = flip
      /\ finished'.scroll = scroll /\ finished'.start = start /\ finished'.end = end
  BY DEF Draws, Wrap
<1> QED BY <1>1 DEF Wrapped, WrapTurns, Same, Lit, Turned

(* A wrap to the right or to the left turns the columns of its pages round. *)
LEMMA PagesWrapped ==
    ASSUME frame \in Frames, NEW scroll \in {"RIGHT", "LEFT"}, NEW start \in PageIds,
           NEW end \in 0 .. Pages, NEW delay, WrapPages(scroll, start, end, delay)
    PROVE  WrapTurns'
<1> DEFINE Moved(page) ==
               IF scroll = "RIGHT" THEN [seg \in Segs |-> page[(seg + Width - 1) % Width]]
                                   ELSE [seg \in Segs |-> page[(seg + 1) % Width]]
           f == [page \in PageIds |-> IF page \in start .. Cut(end, Pages)
                                         THEN Moved(frame[page]) ELSE frame[page]]
<1>1. Wrap(scroll, start, end, f, delay)
  BY DEF WrapPages
<1>2. Wrapped(scroll, start, end, f)
  <2> SUFFICES ASSUME NEW x \in Segs, NEW y \in 0 .. Height - 1
               PROVE  IF Inside(scroll, start, end, x, y)
                         THEN Lit(f, x, y) <=> Lit(frame, From(scroll, x, y)[1], From(scroll, x, y)[2])
                         ELSE Lit(f, x, y) <=> Lit(frame, x, y)
    BY DEF Wrapped
  <2>1. y \div 8 \in PageIds
    BY RowIs
  <2>2. y \div 8 \in start .. Cut(end, Pages) <=> Inside(scroll, start, end, x, y)
    BY <2>1, SizesAre DEF Cut, Inside, PageIds
  <2>3. f[y \div 8] = IF Inside(scroll, start, end, x, y) THEN Moved(frame[y \div 8]) ELSE frame[y \div 8]
    BY <2>1, <2>2
  <2>4. Moved(frame[y \div 8])[x] = frame[y \div 8][From(scroll, x, y)[1]] /\ From(scroll, x, y)[2] = y
    BY DEF From
  <2> HIDE DEF Moved, f
  <2> QED BY <2>3, <2>4 DEF Lit
<1> HIDE DEF f
<1> QED BY <1>1, <1>2, WrappedTurns

(* A wrap up or down turns the rows of its columns round. *)
LEMMA ColumnsWrapped ==
    ASSUME frame \in Frames, NEW scroll \in {"UP", "DOWN"}, NEW start \in Segs, NEW end \in Nat,
           NEW delay, WrapColumns(scroll, start, end, delay)
    PROVE  WrapTurns'
<1> DEFINE columns == start .. Cut(end, Width)
           f == Turns(scroll, columns)
<1>1. Wrap(scroll, start, end, f, delay)
  BY DEF WrapColumns
<1>2. Wrapped(scroll, start, end, f)
  <2> SUFFICES ASSUME NEW x \in Segs, NEW y \in 0 .. Height - 1
               PROVE  IF Inside(scroll, start, end, x, y)
                         THEN Lit(f, x, y) <=> Lit(frame, From(scroll, x, y)[1], From(scroll, x, y)[2])
                         ELSE Lit(f, x, y) <=> Lit(frame, x, y)
    BY DEF Wrapped
  <2> DEFINE q == y \div 8
             r == y % 8
             old == frame[q][x]
             next == frame[Neighbour(scroll, q)][x]
  <2>1. q \in PageIds /\ r \in Bits
    BY RowIs
  <2>2. x \in columns <=> Inside(scroll, start, end, x, y)
    BY SizesAre DEF Cut, Inside, Segs
  <2>3. f[q] = ShiftedPage(scroll, columns, q)
    <3> HIDE DEF columns, q
    <3> QED BY <2>1, TurnsAre
  <2>4. f[q][x] = IF x \notin columns THEN old
                  ELSE IF scroll = "UP" THEN ShiftUp(old, next) ELSE ShiftDown(old, next)
    <3> HIDE DEF columns, f, q
    <3> QED BY <2>3 DEF ShiftedPage
  <2>5. old \in Byte /\ next \in Byte
    <3>1. Neighbour(scroll, q) \in PageIds
      BY <2>1, SizesAre DEF Neighbour, PageIds
    <3> HIDE DEF q
    <3> QED BY <2>1, <3>1 DEF Frames
  <2>6. CASE x \notin columns
    <3> HIDE DEF columns, f
    <3> QED BY <2>2, <2>4, <2>6 DEF Lit
  <2>7. CASE x \in columns /\ scroll = "UP"
    <3>1. From(scroll, x, y)[1] = x /\ From(scroll, x, y)[2] = (y + 1) % Height
      BY <2>7 DEF From
    <3>2. Lit(f, x, y) <=> r \in Turned(ShiftUp(old, next))
      <4> HIDE DEF columns, f, old, next
      <4> QED BY <2>4, <2>7 DEF Lit
    <3>3. Lit(f, x, y) <=> IF r < 7 THEN r + 1 \in Turned(old) ELSE 0 \in Turned(next)
      <4> HIDE DEF columns, f, old, next, r
      <4> QED BY <2>1, <2>5, <3>2, ShiftIs
    <3>4. Lit(frame, x, (y + 1) % Height) <=>
             IF r < 7 THEN r + 1 \in Turned(old) ELSE 0 \in Turned(next)
      <4>1. /\ ((y + 1) % Height) \div 8 = IF r < 7 THEN q ELSE Neighbour("UP", q)
            /\ ((y + 1) % Height) % 8 = IF r < 7 THEN r + 1 ELSE 0
        BY RowAfter
      <4> HIDE DEF q, r
      <4> QED BY <2>7, <4>1 DEF Lit
    <3> HIDE DEF columns, f, old, next
    <3> QED BY <2>2, <2>7, <3>1, <3>3, <3>4
  <2>8. CASE x \in columns /\ scroll = "DOWN"
    <3>1. From(scroll, x, y)[1] = x /\ From(scroll, x, y)[2] = (y + Height - 1) % Height
      BY <2>8 DEF From
    <3>2. Lit(f, x, y) <=> r \in Turned(ShiftDown(old, next))
      <4> HIDE DEF columns, f, old, next
      <4> QED BY <2>4, <2>8 DEF Lit
    <3>3. Lit(f, x, y) <=> IF r > 0 THEN r - 1 \in Turned(old) ELSE 7 \in Turned(next)
      <4> HIDE DEF columns, f, old, next, r
      <4> QED BY <2>1, <2>5, <3>2, ShiftIs
    <3>4. Lit(frame, x, (y + Height - 1) % Height) <=>
             IF r > 0 THEN r - 1 \in Turned(old) ELSE 7 \in Turned(next)
      <4>1. /\ ((y + Height - 1) % Height) \div 8 = IF r > 0 THEN q ELSE Neighbour("DOWN", q)
            /\ ((y + Height - 1) % Height) % 8 = IF r > 0 THEN r - 1 ELSE 7
        BY RowBefore
      <4> HIDE DEF q, r
      <4> QED BY <2>8, <4>1 DEF Lit
    <3> HIDE DEF columns, f, old, next
    <3> QED BY <2>2, <2>8, <3>1, <3>3, <3>4
  <2> QED BY <2>6, <2>7, <2>8
<1> HIDE DEF f
<1> QED BY <1>1, <1>2, WrappedTurns

(* The call that is finished is the one that was made. *)
LEMMA Finishes ==
    ASSUME NEW call, NEW f, NEW p, Draws(call, f, p)
    PROVE  finished'.op = call.op
BY DEF Draws

(* The calls that draw, by the name they leave in finished.                 *)
LEMMA DrawFinishes ==
    ASSUME frame \in Frames, Draw
    PROVE  \/ finished'.op \in {"set", "show", "pixel", "fadeout"}
           \/ /\ finished'.op = "wrap"
              /\ \E scroll \in {"RIGHT", "LEFT"}, start \in PageIds, end \in 0 .. Pages,
                    delay \in {-1, 0} : WrapPages(scroll, start, end, delay)
           \/ /\ finished'.op = "wrap"
              /\ \E scroll \in {"UP", "DOWN"}, start \in Segs, end \in Nat, delay \in {-1, 0} :
                    WrapColumns(scroll, start, end, delay)
           \/ /\ finished'.op = "line"
              /\ \E p, q \in Points, invert \in BOOLEAN : DrawLine(p[1], p[2], q[1], q[2], invert)
           \/ /\ finished'.op = "bitmap"
              /\ \E p \in Points, bitmap \in Bitmaps, invert \in BOOLEAN :
                    /\ p[1] + (8 * Len(bitmap[1])) <= Width /\ p[2] + Len(bitmap) <= Height
                    /\ DrawBitmap(p[1], p[2], bitmap, invert)
           \/ /\ finished'.op = "x3"
              /\ \E page \in PageIds, t \in Texts, invert \in BOOLEAN : DisplayTextX3(page, t, invert)
<1>1. ASSUME NEW picture, SetBuffer(picture) PROVE finished'.op = "set"
  BY <1>1, Finishes DEF SetBuffer
<1>2. ASSUME ShowBuffer PROVE finished'.op = "show"
  BY <1>2, Finishes DEF ShowBuffer
<1>3. ASSUME NEW x, NEW y, NEW invert, DrawPixel(x, y, invert) PROVE finished'.op = "pixel"
  BY <1>3, Finishes DEF DrawPixel
<1>4. ASSUME NEW p \in Points, NEW q \in Points, NEW invert, DrawLine(p[1], p[2], q[1], q[2], invert)
      PROVE  finished'.op = "line"
  <2> DEFINE N == Major(p[1], p[2], q[1], q[2]) + 1
             call == [op |-> "line", x1 |-> p[1], y1 |-> p[2], x2 |-> q[1], y2 |-> q[2],
                      invert |-> invert]
  <2>1. p[1] \in Int /\ p[2] \in Int /\ q[1] \in Int /\ q[2] \in Int
    BY PointsAssumption, SizesAre DEF Segs, Height
  <2>2. PICK s \in [0 .. N -> LineStates] : Draws(call, s[N].f, panel)
    BY <1>4, <2>1, LineRun
  <2> QED BY <2>2, Finishes
<1>5. ASSUME NEW p \in Points, NEW bitmap \in Bitmaps, NEW invert, DrawBitmap(p[1], p[2], bitmap, invert)
      PROVE  finished'.op = "bitmap"
  <2> DEFINE call == [op |-> "bitmap", x |-> p[1], y |-> p[2], bitmap |-> bitmap, invert |-> invert]
  <2>1. p[1] \in Int /\ p[2] \in Int /\ bitmap \in Seq(Seq(Byte))
    BY PointsAssumption, BitmapsAssumption, SizesAre DEF Segs, Height
  <2>2. PICK s \in [0 .. Len(bitmap) -> BitmapStates] :
           Draws(call, s[Len(bitmap)].f, Shown(s[Len(bitmap)].f))
    BY <1>5, <2>1, BitmapRun
  <2> QED BY <2>2, Finishes
<1>6. ASSUME NEW page, NEW t, NEW invert, DisplayTextX3(page, t, invert)
      PROVE  finished'.op = "x3"
  BY <1>6, Finishes DEF DisplayTextX3
<1>7. ASSUME Fadeout PROVE finished'.op = "fadeout"
  BY <1>7, Finishes DEF Fadeout
<1>8. ASSUME NEW scroll, NEW start, NEW end, NEW delay,
             WrapPages(scroll, start, end, delay) \/ WrapColumns(scroll, start, end, delay)
      PROVE  finished'.op = "wrap"
  <2>1. ASSUME NEW f, Wrap(scroll, start, end, f, delay) PROVE finished'.op = "wrap"
    BY <2>1, Finishes DEF Wrap
  <2> QED BY <1>8, <2>1 DEF WrapPages, WrapColumns
<1> QED BY <1>1, <1>2, <1>3, <1>4, <1>5, <1>6, <1>7, <1>8, ColumnsAssumption DEF Draw

(* wrap_arround moves every pixel of its range by one, in each of the four  *)
(* directions, on a panel of any size and flipped or not; the pixel at the  *)
(* edge comes back at the other edge, and nothing outside of the range      *)
(* moves.                                                                   *)
THEOREM Wraps == DrawSpec => []WrapTurns
<1>1. DrawInit => WrapTurns
  BY DEF DrawInit, Init, None, WrapTurns
<1>2. DrawInv /\ WrapTurns /\ [DrawNext]_drawVars => WrapTurns'
  <2> SUFFICES ASSUME DrawInv, WrapTurns, [DrawNext]_drawVars PROVE WrapTurns'
    OBVIOUS
  <2>0. frame \in Frames
    BY DEF DrawInv, DrawTypes
  <2>1. CASE Scroll
    BY <2>1, ScrollFinishes DEF WrapTurns
  <2>2. CASE Draw
    <3>1. \/ finished'.op # "wrap"
          \/ \E scroll \in {"RIGHT", "LEFT"}, start \in PageIds, end \in 0 .. Pages,
                delay \in {-1, 0} : WrapPages(scroll, start, end, delay)
          \/ \E scroll \in {"UP", "DOWN"}, start \in Segs, end \in Nat, delay \in {-1, 0} :
                WrapColumns(scroll, start, end, delay)
      BY <2>0, <2>2, DrawFinishes
    <3>2. CASE finished'.op # "wrap"
      BY <3>2 DEF WrapTurns
    <3> QED BY <2>0, <3>1, <3>2, PagesWrapped, ColumnsWrapped
  <2>3. CASE UNCHANGED drawVars
    BY <2>3 DEF WrapTurns, Same, Lit, Turned, drawVars, vars
  <2> QED BY <2>1, <2>2, <2>3 DEF DrawNext
<1> QED BY <1>1, <1>2, DrawInductive, PTL DEF DrawSpec

(* Each row of an enlarged character is a third of its pages.               *)
LEMMA Enlarges ==
    ASSUME frame \in Frames, NEW page \in PageIds, NEW t \in Texts, NEW invert \in BOOLEAN,
           DisplayTextX3(page, t, invert)
    PROVE  TextEnlarged'
<1> DEFINE Glyph(x) == t[(x \div 24) + 1][(x % 24) \div 3]
           Part(p, seg) == Turned(Inverted(Piece(Glyph(seg), p - page), invert))
           columns == 24 * CutLength(t)
           Over(p, contents) ==
               [seg \in Segs |-> IF p \in page .. page + 2 /\ seg < columns
                                    THEN Part(p, seg) ELSE contents[seg]]
           f == [p \in PageIds |-> Over(p, frame[p])]
           call == [op |-> "x3", page |-> page, text |-> t, invert |-> invert]
<1>1. Draws(call, f, [p \in PageIds |-> Over(PanelPage(p), panel[p])])
  BY DEF DisplayTextX3
<1>2. ASSUME NEW x \in Segs, NEW y \in 0 .. Height - 1
      PROVE  IF x < columns /\ y - (8 * page) \in 0 .. 23
                THEN Lit(f, x, y) <=> (((y - (8 * page)) \div 3 \in Glyph(x)) # invert)
                ELSE Lit(f, x, y) <=> Lit(frame, x, y)
  <2> DEFINE q == y \div 8
             r == y % 8
             yy == q - page
             row == y - (8 * page)
  <2>1. q \in PageIds /\ r \in Bits /\ y = (8 * q) + r /\ page \in Int /\ q \in Int
    BY RowIs, SizesAre DEF PageIds
  <2> HIDE DEF q, r
  <2>2. /\ row = (8 * yy) + r
        /\ row \in 0 .. 23 <=> q \in page .. page + 2
    BY <2>1 DEF Bits
  <2>3. f[q][x] = IF x < columns /\ row \in 0 .. 23 THEN Part(q, x) ELSE frame[q][x]
    <3> HIDE DEF Part, row, columns
    <3> QED BY <2>1, <2>2
  <2>4. r \in Turned(Part(q, x)) <=> ((row \div 3 \in Glyph(x)) # invert)
    <3> DEFINE piece == Piece(Glyph(x), yy)
    <3>1. piece \in Byte
      BY DEF Piece, Byte
    <3>2. r \in piece <=> row \div 3 \in Glyph(x)
      <4> HIDE DEF Glyph
      <4> QED BY <2>1, <2>2 DEF Piece
    <3> HIDE DEF piece
    <3>3. Turned(Turned(Inverted(piece, invert))) = Inverted(piece, invert)
      BY <3>1, InvertedType, TurnedIs
    <3>4. r \in Inverted(piece, invert) <=> ((r \in piece) # invert)
      BY <2>1, <3>1 DEF Inverted
    <3> QED BY <3>2, <3>3, <3>4 DEF piece
  <2> HIDE DEF Part, f, row, columns
  <2>5. CASE x < columns /\ row \in 0 .. 23
    BY <2>3, <2>4, <2>5 DEF Lit, q, r, row
  <2>6. CASE ~ (x < columns /\ row \in 0 .. 23)
    BY <2>3, <2>6 DEF Lit, q, r, row
  <2> QED BY <2>5, <2>6
<1> HIDE DEF f
<1>3. /\ frame' = f /\ before' = frame /\ flip' = flip
      /\ finished'.page = page /\ finished'.text = t /\ finished'.invert = invert
  BY <1>1 DEF Draws
<1> QED BY <1>2, <1>3 DEF TextEnlarged, Same, Lit, Turned

(* ssd1306_display_text_x3 makes every pixel of a character three by three  *)
(* pixels, across the three pages of the text and nowhere else.             *)
THEOREM Enlarged == DrawSpec => []TextEnlarged
<1>1. DrawInit => TextEnlarged
  BY DEF DrawInit, Init, None, TextEnlarged
<1>2. DrawInv /\ TextEnlarged /\ [DrawNext]_drawVars => TextEnlarged'
  <2> SUFFICES ASSUME DrawInv, TextEnlarged, [DrawNext]_drawVars PROVE TextEnlarged'
    OBVIOUS
  <2>0. frame \in Frames
    BY DEF DrawInv, DrawTypes
  <2>1. CASE Scroll
    BY <2>1, ScrollFinishes DEF TextEnlarged
  <2>2. CASE Draw
    <3>1. \/ finished'.op # "x3"
          \/ \E page \in PageIds, t \in Texts, invert \in BOOLEAN : DisplayTextX3(page, t, invert)
      BY <2>0, <2>2, DrawFinishes
    <3>2. CASE finished'.op # "x3"
      BY <3>2 DEF TextEnlarged
    <3> QED BY <2>0, <3>1, <3>2, Enlarges
  <2>3. CASE UNCHANGED drawVars
    BY <2>3 DEF TextEnlarged, Same, Lit, Turned, drawVars, vars
  <2> QED BY <2>1, <2>2, <2>3 DEF DrawNext
<1> QED BY <1>1, <1>2, DrawInductive, PTL DEF DrawSpec

(* A row of a bitmap sets the bits of one row of pixels and no other.       *)
LEMMA RowDrawn ==
    ASSUME NEW f \in Frames, NEW x \in Int, NEW q \in PageIds, NEW d \in Bits,
           NEW bytes \in Seq(Byte), NEW invert \in BOOLEAN,
           NEW u \in Segs, NEW v \in 0 .. Height - 1
    PROVE  Lit(BitmapRow(x, invert, f, q, d, bytes), u, v) <=>
              IF v \div 8 = q /\ v % 8 = d /\ u - x \in 0 .. (8 * Len(bytes)) - 1
                 THEN ((7 - ((u - x) % 8) \in bytes[((u - x) \div 8) + 1]) # invert)
                 ELSE Lit(f, u, v)
<1> DEFINE g == BitmapRow(x, invert, f, q, d, bytes)
           i == u - x
           n == Len(bytes)
           src == Inverted(bytes[(i \div 8) + 1], invert)
           old == f[v \div 8][u]
           new == Turned(copy_bit(src, 7 - (i % 8), Turned(old), d))
<1>1. v \div 8 \in PageIds /\ v % 8 \in Bits
  BY RowIs
<1>2. u \in Int /\ n \in Nat /\ i \in Int
  BY SizesAre DEF Segs
<1>3. u \in x .. x + (8 * n) - 1 <=> i \in 0 .. (8 * n) - 1
  BY <1>2
<1>4. old \in Byte /\ Turned(old) \in Byte
  <2>1. old \in Byte
    BY <1>1 DEF Frames
  <2> QED BY <2>1, TurnedIs
<1>5. CASE v \div 8 = q /\ i \in 0 .. (8 * n) - 1
  <2>1. g[v \div 8][u] = new
    BY <1>3, <1>5 DEF BitmapRow, Frames
  <2>2. Turned(new) = copy_bit(src, 7 - (i % 8), Turned(old), d)
    <3> HIDE DEF src, old
    <3>1. copy_bit(src, 7 - (i % 8), Turned(old), d) \in Byte
      BY <1>4 DEF copy_bit, Byte
    <3> QED BY <3>1, TurnedIs
  <2>3. v % 8 \in copy_bit(src, 7 - (i % 8), Turned(old), d) <=>
           IF v % 8 = d THEN 7 - (i % 8) \in src ELSE v % 8 \in Turned(old)
    <3> HIDE DEF src, old, i
    <3> QED BY DEF copy_bit
  <2>4. 7 - (i % 8) \in src <=> ((7 - (i % 8) \in bytes[(i \div 8) + 1]) # invert)
    <3>1. 7 - (i % 8) \in Bits
      BY <1>2 DEF Bits
    <3>2. (i \div 8) + 1 \in 1 .. n
      BY <1>2, <1>5
    <3>3. bytes[(i \div 8) + 1] \in Byte
      BY <3>2
    <3> HIDE DEF i
    <3> QED BY <3>1, <3>3 DEF Inverted
  <2> HIDE DEF g, new, src, old, i
  <2>5. Lit(g, u, v) <=> v % 8 \in Turned(new)
    BY <2>1 DEF Lit
  <2>6. Lit(f, u, v) <=> v % 8 \in Turned(old)
    BY DEF Lit, old
  <2> QED BY <1>5, <2>2, <2>3, <2>4, <2>5, <2>6 DEF i, g
<1>6. CASE ~ (v \div 8 = q /\ i \in 0 .. (8 * n) - 1)
  <2>1. g[v \div 8][u] = f[v \div 8][u]
    BY <1>1, <1>3, <1>6 DEF BitmapRow, Frames
  <2> HIDE DEF g, i
  <2>2. Lit(g, u, v) <=> Lit(f, u, v)
    BY <2>1 DEF Lit
  <2> QED BY <1>6, <2>2 DEF g, i
<1> QED BY <1>5, <1>6

(* The first n rows of a bitmap stand in f.                                 *)
Stands(x, y, bitmap, invert, n, f) ==
    \A u \in Segs, v \in 0 .. Height - 1 :
        Lit(f, u, v) <=>
           IF v - y \in 0 .. n - 1 /\ u - x \in 0 .. (8 * Len(bitmap[1])) - 1
              THEN ((7 - ((u - x) % 8) \in bitmap[(v - y) + 1][((u - x) \div 8) + 1]) # invert)
              ELSE Lit(frame, u, v)

(* After the last turn of the loop the whole bitmap stands in the frame, and nothing else has
   changed. *)
LEMMA BitmapStands ==
    ASSUME frame \in Frames, NEW x \in Int, NEW y \in 0 .. Height - 1, NEW bitmap \in Bitmaps,
           NEW invert \in BOOLEAN, y + Len(bitmap) <= Height,
           NEW s \in [0 .. Len(bitmap) -> BitmapStates], s[0] = BitmapStart(y),
           \A n \in 1 .. Len(bitmap) : s[n] = BitmapTurn(x, bitmap, invert, s[n - 1], n)
    PROVE  Stands(x, y, bitmap, invert, Len(bitmap), s[Len(bitmap)].f)
<1> DEFINE N == Len(bitmap)
           Correct(n) == /\ s[n].page = (y + n) \div 8 /\ s[n].dstBits = (y + n) % 8
                         /\ Stands(x, y, bitmap, invert, n, s[n].f)
           T == {n \in 0 .. N : Correct(n)}
<1>0. /\ bitmap \in Seq(Seq(Byte)) /\ N \in Nat
      /\ \A n \in 1 .. N : bitmap[n] \in Seq(Byte) /\ Len(bitmap[n]) = Len(bitmap[1])
      /\ y \in Nat
  BY BitmapsAssumption, RowIs
<1>1. 0 \in T
  <2>1. Stands(x, y, bitmap, invert, 0, frame)
    BY <1>0 DEF Stands
  <2> QED BY <1>0, <2>1 DEF BitmapStart
<1>2. ASSUME NEW n \in 1 .. N, n - 1 \in T
      PROVE  n \in T
  <2> DEFINE w == y + (n - 1)
             q == w \div 8
             d == w % 8
             f == s[n - 1].f
  <2>1. n - 1 \in 0 .. N /\ n \in Nat /\ w \in 0 .. Height - 1
    <3>1. Height \in Nat
      BY SizesAre DEF Height
    <3> QED BY <1>0, <3>1
  <2>2. /\ q \in PageIds /\ d \in Bits /\ w = (8 * q) + d
        /\ s[n - 1].page = q /\ s[n - 1].dstBits = d /\ f \in Frames
        /\ Stands(x, y, bitmap, invert, n - 1, f)
    <3>1. Correct(n - 1)
      BY <1>2
    <3>2. s[n - 1] \in BitmapStates
      BY <2>1
    <3> QED BY <2>1, <3>1, <3>2, RowIs DEF BitmapStates
  <2>3. s[n] = BitmapTurn(x, bitmap, invert, s[n - 1], n)
    OBVIOUS
  <2>4. s[n].page = (y + n) \div 8 /\ s[n].dstBits = (y + n) % 8
    <3> HIDE DEF q, d
    <3>1. y + n = (8 * q) + d + 1 /\ q \in Int /\ d \in 0 .. 7
      BY <1>0, <2>1, <2>2, SizesAre DEF PageIds, Bits
    <3>2. s[n].page = PageAfter(q, d) /\ s[n].dstBits = (d + 1) % 8
      BY <2>2, <2>3 DEF BitmapTurn
    <3>3. CASE d = 7
      <4>1. y + n = (8 * (q + 1)) + 0 /\ q + 1 \in Int /\ 0 \in Bits
        BY <3>1, <3>3 DEF Bits
      <4>2. (y + n) \div 8 = q + 1 /\ (y + n) % 8 = 0
        BY <4>1, PageBit
      <4> QED BY <3>2, <3>3, <4>2 DEF PageAfter
    <3>4. CASE d # 7
      <4>1. y + n = (8 * q) + (d + 1) /\ d + 1 \in Bits
        BY <3>1, <3>4 DEF Bits
      <4>2. (y + n) \div 8 = q /\ (y + n) % 8 = d + 1
        BY <3>1, <4>1, PageBit
      <4>3. (d + 1) % 8 = d + 1
        BY <3>1, <3>4
      <4> QED BY <3>2, <3>4, <4>2, <4>3 DEF PageAfter
    <3> QED BY <3>3, <3>4
  <2>5. s[n].f = BitmapRow(x, invert, f, q, d, bitmap[n])
    BY <2>2, <2>3 DEF BitmapTurn
  <2>6. Stands(x, y, bitmap, invert, n, s[n].f)
    <3> SUFFICES ASSUME NEW u \in Segs, NEW v \in 0 .. Height - 1
                 PROVE  Lit(s[n].f, u, v) <=>
                           IF v - y \in 0 .. n - 1 /\ u - x \in 0 .. (8 * Len(bitmap[1])) - 1
                              THEN ((7 - ((u - x) % 8) \in bitmap[(v - y) + 1][((u - x) \div 8) + 1]) # invert)
                              ELSE Lit(frame, u, v)
      BY DEF Stands
    <3> DEFINE i == u - x
    <3> HIDE DEF q, d, f
    <3>1. Lit(s[n].f, u, v) <=>
             IF v \div 8 = q /\ v % 8 = d /\ i \in 0 .. (8 * Len(bitmap[1])) - 1
                THEN ((7 - (i % 8) \in bitmap[n][(i \div 8) + 1]) # invert)
                ELSE Lit(f, u, v)
      <4>1. bitmap[n] \in Seq(Byte) /\ Len(bitmap[n]) = Len(bitmap[1])
        BY <1>0
      <4>2. Lit(BitmapRow(x, invert, f, q, d, bitmap[n]), u, v) <=>
               IF v \div 8 = q /\ v % 8 = d /\ u - x \in 0 .. (8 * Len(bitmap[n])) - 1
                  THEN ((7 - ((u - x) % 8) \in bitmap[n][((u - x) \div 8) + 1]) # invert)
                  ELSE Lit(f, u, v)
        <5> DEFINE bytes == bitmap[n]
        <5>1. bytes \in Seq(Byte) /\ q \in PageIds /\ d \in Bits /\ f \in Frames
          BY <2>2, <4>1
        <5> HIDE DEF bytes
        <5>2. Lit(BitmapRow(x, invert, f, q, d, bytes), u, v) <=>
                 IF v \div 8 = q /\ v % 8 = d /\ u - x \in 0 .. (8 * Len(bytes)) - 1
                    THEN ((7 - ((u - x) % 8) \in bytes[((u - x) \div 8) + 1]) # invert)
                    ELSE Lit(f, u, v)
          BY <5>1, RowDrawn
        <5> QED BY <5>2 DEF bytes
      <4> QED BY <2>5, <4>1, <4>2
    <3>2. v \div 8 = q /\ v % 8 = d <=> v - y = n - 1
      <4>1. v \in Nat /\ v = (8 * (v \div 8)) + (v % 8) /\ v \div 8 \in PageIds /\ v % 8 \in Bits
        BY RowIs
      <4> QED BY <1>0, <2>1, <2>2, <4>1 DEF q, d
    <3>3. Lit(f, u, v) <=>
             IF v - y \in 0 .. (n - 1) - 1 /\ i \in 0 .. (8 * Len(bitmap[1])) - 1
                THEN ((7 - (i % 8) \in bitmap[(v - y) + 1][(i \div 8) + 1]) # invert)
                ELSE Lit(frame, u, v)
      BY <2>2 DEF Stands
    <3>4. v - y \in 0 .. n - 1 <=> v - y \in 0 .. (n - 1) - 1 \/ v - y = n - 1
      BY <1>0, <2>1, RowIs
    <3>5. v - y = n - 1 => (v - y) + 1 = n /\ v - y \notin 0 .. (n - 1) - 1
      BY <2>1
    <3> HIDE DEF i
    <3>6. CASE v - y = n - 1
      BY <3>1, <3>2, <3>3, <3>4, <3>5, <3>6 DEF i
    <3>7. CASE v - y # n - 1
      BY <3>1, <3>2, <3>3, <3>4, <3>7 DEF i
    <3> QED BY <3>6, <3>7
  <2> QED BY <2>1, <2>4, <2>6
<1>3. \A n \in 0 .. N : n \in T
  <2> HIDE DEF T, N
  <2> QED BY <1>0, <1>1, <1>2, EveryTurn
<1>4. N \in T
  BY <1>0, <1>3
<1> QED BY <1>4

(* ssd1306_bitmaps draws each row of a bitmap where it belongs, also where  *)
(* the bitmap begins in the middle of a page, normal or inverted and on a   *)
(* flipped panel too, and changes no other pixel.                           *)
THEOREM Bitmapped == DrawSpec => []BitmapDrawn
<1>1. DrawInit => BitmapDrawn
  BY DEF DrawInit, Init, None, BitmapDrawn
<1>2. DrawInv /\ BitmapDrawn /\ [DrawNext]_drawVars => BitmapDrawn'
  <2> SUFFICES ASSUME DrawInv, BitmapDrawn, [DrawNext]_drawVars PROVE BitmapDrawn'
    OBVIOUS
  <2>0. frame \in Frames
    BY DEF DrawInv, DrawTypes
  <2>1. CASE Scroll
    BY <2>1, ScrollFinishes DEF BitmapDrawn
  <2>2. CASE Draw
    <3>1. CASE finished'.op # "bitmap"
      BY <3>1 DEF BitmapDrawn
    <3>2. ASSUME NEW p \in Points, NEW bitmap \in Bitmaps, NEW invert \in BOOLEAN,
                 p[2] + Len(bitmap) <= Height, DrawBitmap(p[1], p[2], bitmap, invert)
          PROVE  BitmapDrawn'
      <4> DEFINE x == p[1]
                 y == p[2]
                 call == [op |-> "bitmap", x |-> x, y |-> y, bitmap |-> bitmap, invert |-> invert]
      <4>1. x \in Int /\ y \in Int /\ y \in 0 .. Height - 1 /\ bitmap \in Seq(Seq(Byte))
        BY PointsAssumption, BitmapsAssumption, SizesAre DEF Segs, Height
      <4>2. DrawBitmap(x, y, bitmap, invert)
        BY <3>2
      <4> HIDE DEF x, y
      <4>3. PICK s \in [0 .. Len(bitmap) -> BitmapStates] :
               /\ s[0] = BitmapStart(y)
               /\ \A n \in 1 .. Len(bitmap) : s[n] = BitmapTurn(x, bitmap, invert, s[n - 1], n)
               /\ Draws(call, s[Len(bitmap)].f, Shown(s[Len(bitmap)].f))
        BY <2>0, <4>1, <4>2, BitmapRun
      <4>4. Stands(x, y, bitmap, invert, Len(bitmap), s[Len(bitmap)].f)
        <5>1. y + Len(bitmap) <= Height
          BY <3>2 DEF y
        <5> QED BY <2>0, <4>1, <4>3, <5>1, BitmapStands
      <4>5. /\ frame' = s[Len(bitmap)].f /\ before' = frame /\ flip' = flip
            /\ finished'.x = x /\ finished'.y = y /\ finished'.bitmap = bitmap
            /\ finished'.invert = invert
        BY <4>3 DEF Draws
      <4> QED BY <4>4, <4>5 DEF BitmapDrawn, Stands, Same, Lit, Turned
    <3> QED BY <2>0, <2>2, <3>1, <3>2, DrawFinishes
  <2>3. CASE UNCHANGED drawVars
    BY <2>3 DEF BitmapDrawn, Same, Lit, Turned, drawVars, vars
  <2> QED BY <2>1, <2>2, <2>3 DEF DrawNext
<1> QED BY <1>1, <1>2, DrawInductive, PTL DEF DrawSpec

-------------------------------------------------------------------------------
(* The line of Bresenham.                                                   *)

(* The way LineDrawn says that a coordinate lies between two others. *)
LEMMA Between ==
    ASSUME NEW a \in Int, NEW b \in Int, NEW c \in Int
    PROVE  (a - b) * (a - c) <= 0 <=> (b <= a /\ a <= c) \/ (c <= a /\ a <= b)
OBVIOUS

(* A place between two is some steps from the one towards the other.        *)
LEMMA OnTheWay ==
    ASSUME NEW b \in Int, NEW c \in Int, NEW a \in Int, (b <= a /\ a <= c) \/ (c <= a /\ a <= b)
    PROVE  /\ Distance(b, a) \in Int /\ 0 <= Distance(b, a) /\ Distance(b, a) <= Distance(b, c)
           /\ a = b + (Direction(b, c) * Distance(b, a))
<1>1. CASE c > b
  <2>1. Direction(b, c) = 1 /\ Distance(b, a) = a - b /\ Distance(b, c) = c - b
    BY <1>1 DEF Direction, Distance
  <2> QED BY <1>1, <2>1
<1>2. CASE ~ (c > b)
  <2>1. Direction(b, c) = -1 /\ Distance(b, a) = b - a /\ Distance(b, c) = b - c
    BY <1>2 DEF Direction, Distance
  <2> QED BY <1>2, <2>1
<1> QED BY <1>1, <1>2

Minor(x1, y1, x2, y2) ==
    IF Distance(x1, x2) > Distance(y1, y2) THEN Distance(y1, y2) ELSE Distance(x1, x2)

(* The loop after n turns: n steps along the longer side and m along the    *)
(* other, and an error E that is bounded.                                   *)
OnLine(x1, y1, x2, y2, s, n) ==
    \E m \in Nat :
        /\ n = 0 => m = 0
        /\ s.x = IF Distance(x1, x2) > Distance(y1, y2) THEN x1 + (Direction(x1, x2) * n)
                                                        ELSE x1 + (Direction(x1, x2) * m)
        /\ s.y = IF Distance(x1, x2) > Distance(y1, y2) THEN y1 + (Direction(y1, y2) * m)
                                                        ELSE y1 + (Direction(y1, y2) * n)
        /\ s.E = (2 * (Minor(x1, y1, x2, y2) * n)) - (2 * (Major(x1, y1, x2, y2) * m))
                   - Major(x1, y1, x2, y2)
        /\ -2 * Major(x1, y1, x2, y2) <= s.E /\ s.E <= 0

(* The two sides and the directions of a line, whichever way it runs. *)
LEMMA SidesAre ==
    ASSUME NEW x1 \in Int, NEW y1 \in Int, NEW x2 \in Int, NEW y2 \in Int
    PROVE  /\ Major(x1, y1, x2, y2) \in Nat /\ Minor(x1, y1, x2, y2) \in Nat
           /\ Minor(x1, y1, x2, y2) <= Major(x1, y1, x2, y2)
           /\ Direction(x1, x2) \in {-1, 1} /\ Direction(y1, y2) \in {-1, 1}
BY DEF Major, Minor, Distance, Direction

(* A line starts at its first point with the error term at its start. *)
LEMMA LineStarts ==
    ASSUME NEW x1 \in Int, NEW y1 \in Int, NEW x2 \in Int, NEW y2 \in Int
    PROVE  OnLine(x1, y1, x2, y2, LineStart(x1, y1, x2, y2), 0)
<1> DEFINE M == Major(x1, y1, x2, y2)
           K == Minor(x1, y1, x2, y2)
           a == Direction(x1, x2)
           b == Direction(y1, y2)
<1>1. M \in Nat /\ K \in Nat /\ a \in Int /\ b \in Int
  <2>1. M \in Nat /\ K \in Nat /\ a \in {-1, 1} /\ b \in {-1, 1}
    BY SidesAre
  <2> HIDE DEF M, K, a, b
  <2> QED BY <2>1
<1> HIDE DEF M, K, a, b
<1>2. x1 + (a * 0) = x1 /\ y1 + (b * 0) = y1 /\ -M = (2 * (K * 0)) - (2 * (M * 0)) - M
  BY <1>1
<1>3. -2 * M <= -M /\ -M <= 0
  BY <1>1
<1> QED BY <1>2, <1>3 DEF OnLine, LineStart, FirstError, M, K, a, b

(* The error stays bounded: a step along the other side is made when it is  *)
(* due, and one at most.                                                    *)
LEMMA LineGoesOn ==
    ASSUME NEW x1 \in Int, NEW y1 \in Int, NEW x2 \in Int, NEW y2 \in Int, NEW invert,
           NEW s \in LineStates, NEW n \in Nat, OnLine(x1, y1, x2, y2, s, n)
    PROVE  OnLine(x1, y1, x2, y2, LineTurn(x1, y1, x2, y2, invert, s), n + 1)
<1> DEFINE M == Major(x1, y1, x2, y2)
           K == Minor(x1, y1, x2, y2)
           a == Direction(x1, x2)
           b == Direction(y1, y2)
           wide == Distance(x1, x2) > Distance(y1, y2)
           t == LineTurn(x1, y1, x2, y2, invert, s)
           both == s.E + (2 * K) >= 0
<1>1. M \in Nat /\ K \in Nat /\ K <= M /\ a \in Int /\ b \in Int /\ s.E \in Int /\ s.x \in Int /\ s.y \in Int
  <2>1. M \in Nat /\ K \in Nat /\ K <= M /\ a \in {-1, 1} /\ b \in {-1, 1}
    BY SidesAre
  <2> HIDE DEF M, K, a, b
  <2> QED BY <2>1 DEF LineStates
<1>2. PICK m \in Nat :
         /\ n = 0 => m = 0
         /\ s.x = IF wide THEN x1 + (a * n) ELSE x1 + (a * m)
         /\ s.y = IF wide THEN y1 + (b * m) ELSE y1 + (b * n)
         /\ s.E = (2 * (K * n)) - (2 * (M * m)) - M
         /\ -2 * M <= s.E /\ s.E <= 0
  BY DEF OnLine
<1>3. /\ t.x = IF wide \/ both THEN s.x + a ELSE s.x
      /\ t.y = IF ~wide \/ both THEN s.y + b ELSE s.y
      /\ t.E = IF both THEN (s.E + (2 * K)) - (2 * M) ELSE s.E + (2 * K)
  BY DEF LineTurn, Major, Minor
<1> DEFINE k == IF both THEN m + 1 ELSE m
<1> HIDE DEF M, K, a, b, wide, t
<1>4. k \in Nat /\ n + 1 # 0
  OBVIOUS
<1>5. /\ a * (n + 1) = (a * n) + a /\ a * (m + 1) = (a * m) + a
      /\ b * (n + 1) = (b * n) + b /\ b * (m + 1) = (b * m) + b
      /\ K * (n + 1) = (K * n) + K /\ M * (m + 1) = (M * m) + M
  BY <1>1
<1>6. /\ a * n \in Int /\ a * m \in Int /\ b * n \in Int /\ b * m \in Int /\ K * n \in Int /\ M * m \in Int
  BY <1>1
<1>7. /\ t.x = IF wide THEN x1 + (a * (n + 1)) ELSE x1 + (a * k)
      /\ t.y = IF wide THEN y1 + (b * k) ELSE y1 + (b * (n + 1))
  BY <1>1, <1>2, <1>3, <1>5, <1>6
<1>8. t.E = (2 * (K * (n + 1))) - (2 * (M * k)) - M /\ -2 * M <= t.E /\ t.E <= 0
  BY <1>1, <1>2, <1>3, <1>5, <1>6
<1> HIDE DEF k
<1> QED BY <1>4, <1>7, <1>8 DEF OnLine, M, K, a, b, wide, t

(* A bounded error keeps the pixels between the two ends and within half a  *)
(* pixel of the line.                                                       *)
LEMMA Bounded ==
    ASSUME NEW M \in Nat, NEW K \in Nat, K <= M, NEW n \in Nat, n <= M, NEW m \in Nat, n = 0 => m = 0,
           NEW E \in Int, E = (2 * (K * n)) - (2 * (M * m)) - M, -2 * M <= E, E <= 0
    PROVE  m <= K /\ 2 * Distance(M * m, K * n) <= M /\ 2 * Distance(K * n, M * m) <= M
<1>1. K * n \in Int /\ M * m \in Int /\ K * M \in Int
  OBVIOUS
<1>2. m <= K
  <2>1. CASE M = 0
    BY <2>1
  <2>2. CASE M > 0 /\ m >= K + 1
    <3>1. K * n <= K * M /\ M * m >= M * (K + 1) /\ M * (K + 1) = (K * M) + M
      BY <2>2
    <3> QED BY <1>1, <2>2, <3>1
  <2> QED BY <2>1, <2>2
<1> QED BY <1>1, <1>2 DEF Distance

(* A pixel of the loop is on the panel and near the line, and its place     *)
(* along the longer side is its turn.                                       *)
LEMMA OnLineNear ==
    ASSUME NEW x1 \in Segs, NEW y1 \in 0 .. Height - 1, NEW x2 \in Segs, NEW y2 \in 0 .. Height - 1,
           NEW s \in LineStates, NEW n \in 0 .. Major(x1, y1, x2, y2), OnLine(x1, y1, x2, y2, s, n)
    PROVE  /\ <<s.x, s.y>> \in Near(x1, y1, x2, y2)
           /\ s.x \in Segs /\ s.y \in 0 .. Height - 1
           /\ Step(x1, y1, x2, y2, <<s.x, s.y>>) =
                 IF Distance(x1, x2) > Distance(y1, y2) THEN x1 + (Direction(x1, x2) * n)
                                                        ELSE y1 + (Direction(y1, y2) * n)
<1> DEFINE M == Major(x1, y1, x2, y2)
           K == Minor(x1, y1, x2, y2)
           a == Direction(x1, x2)
           b == Direction(y1, y2)
           wide == Distance(x1, x2) > Distance(y1, y2)
<1>0. /\ x1 \in Int /\ 0 <= x1 /\ x1 < Width /\ x2 \in Int /\ 0 <= x2 /\ x2 < Width
      /\ y1 \in Int /\ 0 <= y1 /\ y1 < Height /\ y2 \in Int /\ 0 <= y2 /\ y2 < Height
      /\ Width \in Int /\ Height \in Int
  BY SizesAre DEF Segs, Height
<1>1. M \in Nat /\ K \in Nat /\ K <= M /\ a \in {-1, 1} /\ b \in {-1, 1}
  BY <1>0, SidesAre
<1>2. n \in Nat /\ n <= M
  BY <1>1
<1>3. PICK m \in Nat :
         /\ n = 0 => m = 0
         /\ s.x = IF wide THEN x1 + (a * n) ELSE x1 + (a * m)
         /\ s.y = IF wide THEN y1 + (b * m) ELSE y1 + (b * n)
         /\ s.E = (2 * (K * n)) - (2 * (M * m)) - M
         /\ -2 * M <= s.E /\ s.E <= 0
  BY DEF OnLine
<1>4. m <= K /\ 2 * Distance(M * m, K * n) <= M /\ 2 * Distance(K * n, M * m) <= M
  <2>1. s.E \in Int
    BY DEF LineStates
  <2> HIDE DEF M, K
  <2> QED BY <1>1, <1>2, <1>3, <2>1, Bounded
<1>5. /\ x2 - x1 = IF wide THEN a * M ELSE a * K
      /\ y2 - y1 = IF wide THEN b * K ELSE b * M
  BY <1>0 DEF Major, Minor, Distance, Direction
<1> HIDE DEF M, K, a, b, wide
<1> DEFINE dx == s.x - x1
           dy == s.y - y1
<1>6. /\ dx = IF wide THEN a * n ELSE a * m
      /\ dy = IF wide THEN b * m ELSE b * n
      /\ a * n \in Int /\ a * m \in Int /\ b * n \in Int /\ b * m \in Int
      /\ s.x \in Int /\ s.y \in Int
  BY <1>0, <1>1, <1>2, <1>3
<1>7. /\ (x1 <= s.x /\ s.x <= x2) \/ (x2 <= s.x /\ s.x <= x1)
      /\ (y1 <= s.y /\ s.y <= y2) \/ (y2 <= s.y /\ s.y <= y1)
  BY <1>0, <1>1, <1>2, <1>3, <1>4, <1>5
<1>8. s.x \in Segs /\ s.y \in 0 .. Height - 1
  BY <1>0, <1>6, <1>7 DEF Segs
<1>9. 2 * Distance((x2 - x1) * dy, (y2 - y1) * dx) <= M
  <2>1. M * m \in Int /\ K * n \in Int
    BY <1>1, <1>2
  <2>2. CASE wide
    <3>1. (x2 - x1) * dy = (a * b) * (M * m) /\ (y2 - y1) * dx = (a * b) * (K * n)
      BY <1>1, <1>2, <1>5, <1>6, <2>2
    <3>2. a * b \in {-1, 1}
      BY <1>1
    <3> HIDE DEF dx, dy
    <3> QED BY <1>1, <1>4, <2>1, <3>1, <3>2 DEF Distance
  <2>3. CASE ~wide
    <3>1. (x2 - x1) * dy = (a * b) * (K * n) /\ (y2 - y1) * dx = (a * b) * (M * m)
      BY <1>1, <1>2, <1>5, <1>6, <2>3
    <3>2. a * b \in {-1, 1}
      BY <1>1
    <3> HIDE DEF dx, dy
    <3> QED BY <1>1, <1>4, <2>1, <3>1, <3>2 DEF Distance
  <2> QED BY <2>2, <2>3
<1>10. (s.x - x1) * (s.x - x2) <= 0 /\ (s.y - y1) * (s.y - y2) <= 0
  BY <1>0, <1>6, <1>7, Between
<1> QED BY <1>3, <1>8, <1>9, <1>10 DEF Near, Step, M, wide, a, b

(* On a panel that is not flipped, setting a pixel changes that pixel and no other. *)
LEMMA PixelSet ==
    ASSUME ~flip, NEW f \in Frames, NEW x \in Segs, NEW y \in 0 .. Height - 1, NEW invert \in BOOLEAN,
           NEW u \in Segs, NEW v \in 0 .. Height - 1
    PROVE  Lit(SetPixel(f, x, y, invert), u, v) <=> IF u = x /\ v = y THEN ~invert ELSE Lit(f, u, v)
<1>1. /\ y \div 8 \in PageIds /\ v \div 8 \in PageIds
      /\ v = y <=> v \div 8 = y \div 8 /\ v % 8 = y % 8
  <2>1. y \div 8 \in PageIds /\ y = (8 * (y \div 8)) + (y % 8)
    BY RowIs
  <2>2. v \div 8 \in PageIds /\ v = (8 * (v \div 8)) + (v % 8)
    BY RowIs
  <2> QED BY <2>1, <2>2
<1> DEFINE old == f[y \div 8][x]
           new == IF invert THEN old \ {y % 8} ELSE old \cup {y % 8}
           g   == SetPixel(f, x, y, invert)
<1>2. g = [f EXCEPT ![y \div 8][x] = new]
  BY DEF SetPixel, Turned
<1>3. CASE v \div 8 = y \div 8 /\ u = x
  <2>1. g[v \div 8][u] = new
    <3> HIDE DEF new, g
    <3> QED BY <1>1, <1>2, <1>3 DEF Frames
  <2>2. Lit(g, u, v) <=> v % 8 \in new
    BY <2>1 DEF Lit, Turned
  <2>3. Lit(f, u, v) <=> v % 8 \in old
    BY <1>3 DEF Lit, Turned
  <2>4. v % 8 \in new <=> IF v % 8 = y % 8 THEN ~invert ELSE v % 8 \in old
    <3> HIDE DEF old
    <3> QED OBVIOUS
  <2> HIDE DEF g, new, old
  <2> QED BY <1>1, <1>3, <2>2, <2>3, <2>4 DEF g
<1>4. CASE ~ (v \div 8 = y \div 8 /\ u = x)
  <2>1. g[v \div 8][u] = f[v \div 8][u]
    <3> HIDE DEF new, g
    <3> QED BY <1>1, <1>2, <1>4 DEF Frames
  <2> HIDE DEF g
  <2> QED BY <1>1, <1>4, <2>1 DEF Lit, g
<1> QED BY <1>3, <1>4

(* The pixels of the first n turns are set in the frame after them.         *)
Path(s, n) == {<<s[k].x, s[k].y>> : k \in 0 .. n - 1}

Traced(s, n, invert) ==
    \A u \in Segs, v \in 0 .. Height - 1 :
        Lit(s[n].f, u, v) <=> IF <<u, v>> \in Path(s, n) THEN ~invert ELSE Lit(frame, u, v)

(* All turns of the loop stay on the line, and the frame holds the pixels of those made. *)
LEMMA LineTraced ==
    ASSUME frame \in Frames, ~flip, NEW x1 \in Segs, NEW y1 \in 0 .. Height - 1,
           NEW x2 \in Segs, NEW y2 \in 0 .. Height - 1, NEW invert \in BOOLEAN,
           NEW s \in [0 .. Major(x1, y1, x2, y2) + 1 -> LineStates],
           s[0] = LineStart(x1, y1, x2, y2),
           \A n \in 1 .. Major(x1, y1, x2, y2) + 1 : s[n] = LineTurn(x1, y1, x2, y2, invert, s[n - 1])
    PROVE  /\ \A n \in 0 .. Major(x1, y1, x2, y2) : OnLine(x1, y1, x2, y2, s[n], n)
           /\ Traced(s, Major(x1, y1, x2, y2) + 1, invert)
<1> DEFINE M == Major(x1, y1, x2, y2)
           N == M + 1
           T == {n \in 0 .. N : OnLine(x1, y1, x2, y2, s[n], n) /\ Traced(s, n, invert)}
<1>0. /\ x1 \in Int /\ y1 \in Int /\ x2 \in Int /\ y2 \in Int
  BY SizesAre DEF Segs, Height
<1>1. M \in Nat
  BY <1>0, SidesAre
<1>2. 0 \in T
  <2>1. OnLine(x1, y1, x2, y2, s[0], 0)
    BY <1>0, LineStarts
  <2>2. Traced(s, 0, invert)
    <3>1. Path(s, 0) = {} /\ s[0].f = frame
      BY DEF Path, LineStart
    <3> QED BY <3>1 DEF Traced
  <2> HIDE DEF M
  <2> QED BY <1>1, <2>1, <2>2
<1>3. ASSUME NEW n \in 1 .. N, n - 1 \in T
      PROVE  n \in T
  <2> DEFINE r == s[n - 1]
  <2>1. n - 1 \in 0 .. M /\ n \in 0 .. N /\ n - 1 \in Nat /\ n \in Nat
    <3> HIDE DEF M
    <3> QED BY <1>1
  <2>2. r \in LineStates /\ r.f \in Frames
    <3>1. n - 1 \in 0 .. N
      <4> HIDE DEF M
      <4> QED BY <1>1
    <3>2. r \in LineStates
      BY <3>1
    <3> QED BY <3>2 DEF LineStates
  <2>3. s[n] = LineTurn(x1, y1, x2, y2, invert, r)
    OBVIOUS
  <2>4. OnLine(x1, y1, x2, y2, r, n - 1) /\ Traced(s, n - 1, invert)
    BY <1>3
  <2> HIDE DEF r
  <2>5. OnLine(x1, y1, x2, y2, s[n], n)
    <3>1. OnLine(x1, y1, x2, y2, LineTurn(x1, y1, x2, y2, invert, r), (n - 1) + 1)
      BY <1>0, <2>1, <2>2, <2>4, LineGoesOn
    <3> QED BY <2>1, <2>3, <3>1
  <2>6. r.x \in Segs /\ r.y \in 0 .. Height - 1
    BY <2>1, <2>2, <2>4, OnLineNear
  <2>7. s[n].f = SetPixel(r.f, r.x, r.y, invert)
    BY <2>3 DEF LineTurn
  <2>8. Path(s, n) = Path(s, n - 1) \cup {<<r.x, r.y>>}
    BY <2>1 DEF Path, r
  <2>9. Traced(s, n, invert)
    <3> SUFFICES ASSUME NEW u \in Segs, NEW v \in 0 .. Height - 1
                 PROVE  Lit(s[n].f, u, v) <=>
                           IF <<u, v>> \in Path(s, n) THEN ~invert ELSE Lit(frame, u, v)
      BY DEF Traced
    <3>1. Lit(s[n].f, u, v) <=> IF u = r.x /\ v = r.y THEN ~invert ELSE Lit(r.f, u, v)
      BY <2>2, <2>6, <2>7, PixelSet
    <3>2. Lit(r.f, u, v) <=> IF <<u, v>> \in Path(s, n - 1) THEN ~invert ELSE Lit(frame, u, v)
      BY <2>4 DEF Traced, r
    <3> QED BY <2>8, <3>1, <3>2
  <2> QED BY <2>1, <2>5, <2>9
<1>4. \A n \in 0 .. N : n \in T
  <2>1. N \in Nat
    BY <1>1
  <2> HIDE DEF T, N
  <2> QED BY <1>2, <1>3, <2>1, EveryTurn
<1>5. N \in 0 .. N /\ \A n \in 0 .. M : n \in 0 .. N
  <2> HIDE DEF M
  <2> QED BY <1>1
<1> QED BY <1>4, <1>5

(* LineDrawn, of the frame that a call of _ssd1306_line leaves.             *)
Joined(x1, y1, x2, y2, invert, f) ==
    LET near     == Near(x1, y1, x2, y2)
        Along(p) == Step(x1, y1, x2, y2, p)
        drawn    == {p \in near : Lit(f, p[1], p[2]) # invert}
        changed  == {p \in drawn : ~ (Lit(f, p[1], p[2]) <=> Lit(frame, p[1], p[2]))}
    IN /\ \A x \in Segs, y \in 0 .. Height - 1 :
             <<x, y>> \notin near => (Lit(f, x, y) <=> Lit(frame, x, y))
       /\ \A p \in near : \E q \in drawn : Along(q) = Along(p)
       /\ \A p, q \in changed : Along(p) = Along(q) => p = q

(* After the last turn the line joins its two points and nothing else has changed. *)
LEMMA LineStands ==
    ASSUME frame \in Frames, ~flip, NEW x1 \in Segs, NEW y1 \in 0 .. Height - 1,
           NEW x2 \in Segs, NEW y2 \in 0 .. Height - 1, NEW invert \in BOOLEAN,
           NEW s \in [0 .. Major(x1, y1, x2, y2) + 1 -> LineStates],
           s[0] = LineStart(x1, y1, x2, y2),
           \A n \in 1 .. Major(x1, y1, x2, y2) + 1 : s[n] = LineTurn(x1, y1, x2, y2, invert, s[n - 1])
    PROVE  Joined(x1, y1, x2, y2, invert, s[Major(x1, y1, x2, y2) + 1].f)
<1> DEFINE M        == Major(x1, y1, x2, y2)
           wide     == Distance(x1, x2) > Distance(y1, y2)
           a        == IF wide THEN Direction(x1, x2) ELSE Direction(y1, y2)
           z        == IF wide THEN x1 ELSE y1
           f        == s[M + 1].f
           near     == Near(x1, y1, x2, y2)
           Along(p) == Step(x1, y1, x2, y2, p)
           drawn    == {p \in near : Lit(f, p[1], p[2]) # invert}
           changed  == {p \in drawn : ~ (Lit(f, p[1], p[2]) <=> Lit(frame, p[1], p[2]))}
           point(n) == <<s[n].x, s[n].y>>
<1>0. /\ x1 \in Int /\ y1 \in Int /\ x2 \in Int /\ y2 \in Int
  BY SizesAre DEF Segs, Height
<1>1. M \in Nat /\ a \in {-1, 1} /\ z \in Int
  BY <1>0, SidesAre
<1>2. ASSUME NEW n \in 0 .. M
      PROVE  /\ point(n) \in near /\ point(n) \in Segs \X (0 .. Height - 1)
             /\ Along(point(n)) = z + (a * n)
  <2>1. OnLine(x1, y1, x2, y2, s[n], n)
    BY LineTraced
  <2>2. n \in 0 .. M + 1
    BY <1>1
  <2>3. s[n] \in LineStates
    BY <2>2
  <2> QED BY <2>1, <2>3, OnLineNear
<1>3. \A u \in Segs, v \in 0 .. Height - 1 :
         Lit(f, u, v) <=> IF \E n \in 0 .. M : <<u, v>> = point(n) THEN ~invert ELSE Lit(frame, u, v)
  <2>1. Traced(s, M + 1, invert)
    BY LineTraced
  <2>2. (M + 1) - 1 = M
    BY <1>1
  <2> HIDE DEF M
  <2> QED BY <2>1, <2>2 DEF Traced, Path
<1>4. near \subseteq Segs \X (0 .. Height - 1)
  BY DEF Near
<1>5. \A p \in near : \E n \in 0 .. M : Along(p) = z + (a * n)
  <2> SUFFICES ASSUME NEW p \in near PROVE \E n \in 0 .. M : Along(p) = z + (a * n)
    OBVIOUS
  <2>1. /\ p[1] \in Int /\ p[2] \in Int
        /\ (p[1] - x1) * (p[1] - x2) <= 0 /\ (p[2] - y1) * (p[2] - y2) <= 0
    BY SizesAre DEF Near, Segs, Height
  <2>2. /\ (x1 <= p[1] /\ p[1] <= x2) \/ (x2 <= p[1] /\ p[1] <= x1)
        /\ (y1 <= p[2] /\ p[2] <= y2) \/ (y2 <= p[2] /\ p[2] <= y1)
    BY <1>0, <2>1, Between
  <2>3. CASE wide
    <3> DEFINE n == Distance(x1, p[1])
    <3>1. M = Distance(x1, x2) /\ a = Direction(x1, x2)
      BY <2>3 DEF Major
    <3>2. n \in Int /\ 0 <= n /\ n <= Distance(x1, x2) /\ p[1] = x1 + (Direction(x1, x2) * n)
      BY <1>0, <2>1, <2>2, OnTheWay
    <3> HIDE DEF n, M, a
    <3>3. n \in 0 .. M /\ p[1] = x1 + (a * n)
      BY <1>1, <3>1, <3>2
    <3> QED BY <2>3, <3>3 DEF Step, a
  <2>4. CASE ~wide
    <3> DEFINE n == Distance(y1, p[2])
    <3>1. M = Distance(y1, y2) /\ a = Direction(y1, y2)
      BY <2>4 DEF Major
    <3>2. n \in Int /\ 0 <= n /\ n <= Distance(y1, y2) /\ p[2] = y1 + (Direction(y1, y2) * n)
      BY <1>0, <2>1, <2>2, OnTheWay
    <3> HIDE DEF n, M, a
    <3>3. n \in 0 .. M /\ p[2] = y1 + (a * n)
      BY <1>1, <3>1, <3>2
    <3> QED BY <2>4, <3>3 DEF Step, a
  <2> QED BY <2>3, <2>4
<1> HIDE DEF M, a, z, f, near, Along, point, wide
<1>6. \A x \in Segs, y \in 0 .. Height - 1 :
         <<x, y>> \notin near => (Lit(f, x, y) <=> Lit(frame, x, y))
  BY <1>2, <1>3
<1>7. \A p \in near : \E q \in drawn : Along(q) = Along(p)
  <2> SUFFICES ASSUME NEW p \in near PROVE \E q \in drawn : Along(q) = Along(p)
    OBVIOUS
  <2>1. PICK n \in 0 .. M : Along(p) = z + (a * n)
    BY <1>5
  <2> DEFINE q == point(n)
  <2>2. q \in near /\ q \in Segs \X (0 .. Height - 1) /\ Along(q) = Along(p)
    BY <1>2, <2>1
  <2>3. Lit(f, q[1], q[2]) <=> ~invert
    <3>1. q[1] \in Segs /\ q[2] \in 0 .. Height - 1 /\ <<q[1], q[2]>> = point(n)
      BY <2>2
    <3> HIDE DEF q
    <3> QED BY <1>3, <3>1
  <2>4. q \in drawn
    BY <2>2, <2>3
  <2> QED BY <2>2, <2>4
<1>8. \A p, q \in changed : Along(p) = Along(q) => p = q
  <2> SUFFICES ASSUME NEW p \in changed, NEW q \in changed, Along(p) = Along(q) PROVE p = q
    OBVIOUS
  <2>1. \A w \in changed : \E n \in 0 .. M : w = point(n)
    <3> SUFFICES ASSUME NEW w \in changed PROVE \E n \in 0 .. M : w = point(n)
      OBVIOUS
    <3>1. w[1] \in Segs /\ w[2] \in 0 .. Height - 1 /\ w = <<w[1], w[2]>>
      BY <1>4
    <3> QED BY <1>3, <3>1
  <2>2. PICK n \in 0 .. M : p = point(n)
    BY <2>1
  <2>3. PICK k \in 0 .. M : q = point(k)
    BY <2>1
  <2>4. z + (a * n) = z + (a * k)
    BY <1>2, <2>2, <2>3
  <2>5. n = k
    BY <1>1, <2>4
  <2> QED BY <2>2, <2>3, <2>5
<1> QED BY <1>6, <1>7, <1>8 DEF Joined, M, f, near, Along

(* _ssd1306_line draws, between any two points of a panel that is not       *)
(* flipped, one pixel for each step along the longer side, none further     *)
(* than half a pixel from the straight line, and changes no other pixel.    *)
THEOREM Lines == DrawSpec => []LineDrawn
<1>1. DrawInit => LineDrawn
  BY DEF DrawInit, Init, None, LineDrawn
<1>2. DrawInv /\ LineDrawn /\ [DrawNext]_drawVars => LineDrawn'
  <2> SUFFICES ASSUME DrawInv, LineDrawn, [DrawNext]_drawVars PROVE LineDrawn'
    OBVIOUS
  <2>0. frame \in Frames
    BY DEF DrawInv, DrawTypes
  <2>1. CASE Scroll
    BY <2>1, ScrollFinishes DEF LineDrawn
  <2>2. CASE Draw
    <3>1. CASE finished'.op # "line" \/ flip'
      BY <3>1 DEF LineDrawn
    <3>2. ASSUME NEW p \in Points, NEW q \in Points, NEW invert \in BOOLEAN, ~flip',
                 DrawLine(p[1], p[2], q[1], q[2], invert)
          PROVE  LineDrawn'
      <4> DEFINE x1 == p[1]
                 y1 == p[2]
                 x2 == q[1]
                 y2 == q[2]
                 N  == Major(x1, y1, x2, y2) + 1
                 call == [op |-> "line", x1 |-> x1, y1 |-> y1, x2 |-> x2, y2 |-> y2,
                          invert |-> invert]
      <4>1. /\ x1 \in Segs /\ x2 \in Segs /\ y1 \in 0 .. Height - 1 /\ y2 \in 0 .. Height - 1
            /\ x1 \in Int /\ x2 \in Int /\ y1 \in Int /\ y2 \in Int
        BY PointsAssumption, SizesAre DEF Segs, Height
      <4>2. DrawLine(x1, y1, x2, y2, invert)
        BY <3>2
      <4> HIDE DEF x1, y1, x2, y2
      <4>3. PICK s \in [0 .. N -> LineStates] :
               /\ s[0] = LineStart(x1, y1, x2, y2)
               /\ \A n \in 1 .. N : s[n] = LineTurn(x1, y1, x2, y2, invert, s[n - 1])
               /\ Draws(call, s[N].f, panel)
        BY <2>0, <4>1, <4>2, LineRun
      <4>4. /\ frame' = s[N].f /\ before' = frame /\ flip' = flip
            /\ finished'.x1 = x1 /\ finished'.y1 = y1 /\ finished'.x2 = x2 /\ finished'.y2 = y2
            /\ finished'.invert = invert
        BY <4>3 DEF Draws
      <4>5. Joined(x1, y1, x2, y2, invert, s[N].f)
        <5>1. ~flip
          BY <3>2, <4>4
        <5> QED BY <2>0, <4>1, <4>3, <5>1, LineStands
      <4> DEFINE f == s[N].f
      <4> HIDE DEF f
      <4>6. frame' = f /\ Joined(x1, y1, x2, y2, invert, f)
        BY <4>4, <4>5 DEF f
      <4> QED BY <4>4, <4>6 DEF LineDrawn, Joined, Same, Lit, Turned
    <3> QED BY <2>0, <2>2, <3>1, <3>2, DrawFinishes
  <2>3. CASE UNCHANGED drawVars
    BY <2>3 DEF LineDrawn, Same, Lit, Turned, drawVars, vars
  <2> QED BY <2>1, <2>2, <2>3 DEF DrawNext
<1> QED BY <1>1, <1>2, DrawInductive, PTL DEF DrawSpec
===============================================================================
