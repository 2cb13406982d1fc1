------------------------------ MODULE MCOledDraw ------------------------------
(* A panel of three pages, wide enough for three characters or a large one; *)
(* a text that fits and one that is cut.                                    *)
EXTENDS OledDraw

Glyph == [col \in Bits |-> {bit \in Bits : (col * col) + (3 * bit) \in {0, 3, 7, 10, 12, 21, 25, 37}}]
MCTexts == {<<Glyph>>, <<Glyph, Glyph, Glyph, Glyph>>}

Picture(a, b) ==
    [page \in PageIds |-> [seg \in Segs |-> {bit \in Bits : ((a * seg) + (b * (8 * page + bit))) % 7 < 3}]]
MCPictures == {[page \in PageIds |-> BlankPage], Picture(3, 5)}

MCPoints == {<<0, 0>>, <<5, 3>>, <<14, 14>>, <<23, 8>>, <<2, 23>>}
MCColumns == {0, 4, 24}
MCBitmaps == {<<<<{0, 1, 6}>>, <<{7, 3}>>, <<{4, 5, 0}>>>>}
===============================================================================
