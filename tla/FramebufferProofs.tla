-------------------------- MODULE FramebufferProofs --------------------------
(* The framebuffer tools keep to the screen, and a bar shows its line, for *)
(* every screen, font and number of bars.                                  *)
EXTENDS Framebuffer, SequenceTheorems, TLAPS

-----------------------------------------------------------------------------
(* Coordinates.                                                            *)

LEMMA DivFacts ==
  ASSUME NEW n \in Nat, NEW w \in Nat \ {0}
  PROVE  /\ n \div w \in Nat
         /\ (n \div w) * w <= n
         /\ n < (n \div w) * w + w
OBVIOUS

LEMMA DivBound ==
  ASSUME NEW n \in Nat, NEW w \in Nat \ {0}, NEW k \in Nat
  PROVE  n <= k * w - 1 <=> n \div w + 1 <= k
<1> DEFINE q == n \div w
<1>1. /\ q \in Nat /\ q * w <= n /\ n < q * w + w
  BY DivFacts
<1> HIDE DEF q
<1>2. \A i \in Nat : \A j \in Nat : i <= j => i * w <= j * w
  OBVIOUS
<1>3. ASSUME q + 1 <= k PROVE n <= k * w - 1
  <2>1. (q + 1) * w <= k * w
    BY <1>1, <1>2, <1>3
  <2>2. (q + 1) * w = q * w + w
    BY <1>1
  <2> QED
    BY <1>1, <2>1, <2>2
<1>4. ASSUME ~(q + 1 <= k) PROVE ~(n <= k * w - 1)
  <2>1. k * w <= q * w
    BY <1>1, <1>2, <1>4
  <2>2. k * w \in Int
    OBVIOUS
  <2>3. q * w \in Int
    BY <1>1
  <2> QED
    BY <1>1, <2>1, <2>2, <2>3
<1> QED
  BY <1>3, <1>4 DEF q

(* Where 16 bits are enough, draw_pixel clips exactly.                     *)
LEMMA Sizes ==
  /\ Xres \in Int /\ 1 <= Xres /\ Xres < 65536
  /\ Yres \in Int /\ 1 <= Yres /\ Yres < 65536
BY ScreenAssumption

LEMMA Low16 ==
  ASSUME NEW n \in Int, -65536 <= n, n < 65536
  PROVE  U16(n) = IF n >= 0 THEN n ELSE n + 65536
<1>1. CASE n >= 0
  BY <1>1 DEF U16
<1>2. CASE n < 0
  <2>1. n % 65536 >= 0 /\ n % 65536 < 65536
    OBVIOUS
  <2>2. n = 65536 * (n \div 65536) + (n % 65536) /\ n \div 65536 \in Int
    OBVIOUS
  <2>3. n \div 65536 = -1
    BY <1>2, <2>1, <2>2
  <2> QED
    BY <1>2, <2>2, <2>3 DEF U16
<1> QED
  BY <1>1, <1>2

LEMMA ClipExact ==
  ASSUME NEW x \in Int, NEW y \in Int,
         0 <= x, x < 65536, Yres - 65536 <= y, y < 65536
  PROVE  Clip(<<x, y>>) <=> <<x, y>> \in Pixels
<1>1. <<x, y>> \in Pixels <=> x \in 0 .. Xres - 1 /\ y \in 0 .. Yres - 1
  BY DEF Pixels
<1>2. Clip(<<x, y>>) <=> U16(x) < Xres /\ U16(y) < Yres
  BY DEF Clip
<1>3. U16(x) < Xres <=> x \in 0 .. Xres - 1
  BY Low16, Sizes
<1>4. U16(y) = IF y >= 0 THEN y ELSE y + 65536
  BY Low16, Sizes
<1>5. U16(y) < Yres <=> y \in 0 .. Yres - 1
  BY <1>4, Sizes
<1> QED
  BY <1>1, <1>2, <1>3, <1>5

LEMMA ScreenClip ==
  ASSUME NEW p \in Pixels
  PROVE  /\ Clip(p) /\ p = <<p[1], p[2]>>
         /\ p[1] \in 0 .. Xres - 1 /\ p[2] \in 0 .. Yres - 1
<1>1. /\ p = <<p[1], p[2]>>
      /\ p[1] \in 0 .. Xres - 1 /\ p[2] \in 0 .. Yres - 1
  BY DEF Pixels
<1>2. /\ p[1] \in Int /\ 0 <= p[1] /\ p[1] < 65536
      /\ p[2] \in Int /\ Yres - 65536 <= p[2] /\ p[2] < 65536
  BY <1>1, Sizes
<1>3. Clip(<<p[1], p[2]>>) <=> <<p[1], p[2]>> \in Pixels
  BY <1>2, ClipExact
<1> QED
  BY <1>1, <1>3

(* A paint with coordinates in range stays on the screen.                  *)
LEMMA NoStray ==
  ASSUME NEW x0 \in Int, NEW x1 \in Int, NEW y0 \in Int, NEW y1 \in Int,
         0 <= x0, x1 < 65536, Yres - 65536 <= y0, y1 < 65536,
         NEW p \in Rectangle(x0, y0, x1, y1), Clip(p)
  PROVE  p \in Pixels
<1>1. /\ p = <<p[1], p[2]>>
      /\ p[1] \in x0 .. x1 /\ p[2] \in y0 .. y1
  BY DEF Rectangle
<1>2. /\ p[1] \in Int /\ 0 <= p[1] /\ p[1] < 65536
      /\ p[2] \in Int /\ Yres - 65536 <= p[2] /\ p[2] < 65536
  BY <1>1, Sizes
<1>3. Clip(<<p[1], p[2]>>) <=> <<p[1], p[2]>> \in Pixels
  BY <1>2, ClipExact
<1> QED
  BY <1>1, <1>3

-----------------------------------------------------------------------------
(* Lines.                                                                  *)

LEMMA Limit ==
  /\ Columns \in Nat /\ FgetsLimit \in Nat /\ FgetsLimit > 0
  /\ FgetsLimit < Columns /\ Columns * FontW <= Xres
<1> DEFINE w == FontW
<1>1. w \in Nat \ {0} /\ Xres \div w > 2
  BY FontAssumption
<1>2. Xres \in Nat
  BY Sizes
<1> HIDE DEF w
<1>3. /\ Xres \div w \in Nat /\ (Xres \div w) * w <= Xres
  BY <1>1, <1>2, DivFacts
<1>4. /\ Columns \in Nat /\ Columns * w <= Xres /\ Columns > 2
  BY <1>1, <1>3 DEF Columns, w
<1>5. /\ FgetsLimit \in Nat /\ FgetsLimit > 0
      /\ Columns = FgetsLimit + 2
  BY <1>4 DEF FgetsLimit
<1> QED
  BY <1>4, <1>5 DEF w

LEMMA WholeText ==
  ASSUME NEW S, NEW text \in Seq(S)
  PROVE  /\ SubSeq(text, 1, Len(text)) = text
         /\ SubSeq(text, Len(text) + 1, Len(text)) = <<>>
<1>1. SubSeq(text, 1, Len(text)) = text
  BY SubSeqFull
<1>2. SubSeq(text, Len(text) + 1, Len(text)) = <<>>
  BY SubSeqEmpty
<1> QED
  BY <1>1, <1>2

LEMMA ReadTypes ==
  ASSUME bar \in [Bars -> BarState], NEW b \in Bars,
         NEW line \in Lines \cup {NoLine}, NEW text \in Text, Fgets(b, line, text)
  PROVE  /\ bar' \in [Bars -> BarState]
         /\ \A c \in Bars \ {b} : bar'[c] = bar[c]
         /\ bar'[b].stage = "clear" /\ bar'[b].line = line
         /\ Len(bar'[b].buf) <= FgetsLimit
         /\ Len(text) <= FgetsLimit =>
              bar'[b].buf = text /\ bar'[b].rest = <<>>
<1> DEFINE n == IF Len(text) < FgetsLimit THEN Len(text) ELSE FgetsLimit
           new == [stage |-> "clear", line |-> line, buf |-> SubSeq(text, 1, n),
                   rest |-> SubSeq(text, n + 1, Len(text))]
<1>1. bar' = [bar EXCEPT ![b] = new]
  BY DEF Fgets
<1>2. Len(text) \in Nat /\ FgetsLimit \in Nat
  BY Limit DEF Text
<1>3. n \in Nat /\ n <= Len(text) /\ n <= FgetsLimit
  BY <1>2
<1>4. \A i \in 1 .. Len(text) : text[i] \in Characters \cup {Newline}
  BY DEF Text
<1>5. /\ SubSeq(text, 1, n) \in Text
      /\ Len(SubSeq(text, 1, n)) <= FgetsLimit
  <2>1. \A i \in 1 .. n : text[i] \in Characters \cup {Newline}
    BY <1>2, <1>3, <1>4
  <2>2. /\ SubSeq(text, 1, n) \in Seq(Characters \cup {Newline})
        /\ Len(SubSeq(text, 1, n)) = IF 1 <= n THEN n - 1 + 1 ELSE 0
    BY <1>3, <2>1, SubSeqProperties
  <2> QED
    BY <1>2, <1>3, <2>2 DEF Text
<1>6. SubSeq(text, n + 1, Len(text)) \in Text
  <2>1. \A i \in n + 1 .. Len(text) : text[i] \in Characters \cup {Newline}
    BY <1>2, <1>3, <1>4
  <2> QED
    BY <1>2, <1>3, <2>1, SubSeqProperties DEF Text
<1>7. Len(text) <= FgetsLimit =>
        SubSeq(text, 1, n) = text /\ SubSeq(text, n + 1, Len(text)) = <<>>
  <2> SUFFICES ASSUME Len(text) <= FgetsLimit
               PROVE  SubSeq(text, 1, n) = text /\ SubSeq(text, n + 1, Len(text)) = <<>>
    OBVIOUS
  <2>1. n = Len(text)
    BY <1>2
  <2> QED
    BY <2>1, WholeText DEF Text
<1> HIDE DEF n
<1>8. new \in BarState
  BY <1>5, <1>6 DEF BarState
<1>9. bar'[b] = new /\ \A c \in Bars \ {b} : bar'[c] = bar[c]
  BY <1>1
<1> QED
  BY <1>1, <1>5, <1>7, <1>8, <1>9

-----------------------------------------------------------------------------
(* Paints.                                                                 *)

LEMMA StrPaint ==
  ASSUME NEW x, NEW y, NEW fg, NEW bg, NEW s
  PROVE  /\ DOMAIN Str(x, y, fg, bg, s) \subseteq
              Rectangle(x, y, x + Len(s) * FontW - 1, y + FontH - 1)
         /\ \A p \in DOMAIN Str(x, y, fg, bg, s) : Str(x, y, fg, bg, s)[p] \in {fg, bg}
BY DEF Str

LEMMA SolidPaint ==
  ASSUME NEW b \in Bars
  PROVE  /\ DOMAIN BarBackground(b) = Rectangle(0, BarY[b], Xres, BarY[b] + FontH)
         /\ \A p \in DOMAIN BarBackground(b) : BarBackground(b)[p] = Bg[b]
BY DEF BarBackground, Solid

LEMMA TileColours ==
  ASSUME NEW k \in 1 .. 8, NEW p
  PROVE  TileColour(k, p) \in Colours
<1>1. Names[k] \in Colours
  BY DEF Colours
<1>2. "BLACK" \in Colours /\ "WHITE" \in Colours
  <2>1. Names[8] = "BLACK" /\ 8 \in 1 .. 8
    BY DEF Names
  <2> QED
    BY <2>1 DEF Colours
<1> QED
  BY <1>1, <1>2 DEF TileColour

LEMMA TilePaint ==
  ASSUME NEW k \in 1 .. 8
  PROVE  /\ DOMAIN Over(TileLabel(k), Tile(k)) = DOMAIN TileLabel(k) \cup TileArea(k)
         /\ \A p \in DOMAIN Over(TileLabel(k), Tile(k)) :
              Over(TileLabel(k), Tile(k))[p] \in Colours
<1>1. DOMAIN Over(TileLabel(k), Tile(k)) = DOMAIN TileLabel(k) \cup TileArea(k)
  BY DEF Tile, Over
<1>2. ASSUME NEW p \in DOMAIN Over(TileLabel(k), Tile(k))
      PROVE  Over(TileLabel(k), Tile(k))[p] \in Colours
  <2>1. CASE p \in DOMAIN TileLabel(k)
    <3>1. Over(TileLabel(k), Tile(k))[p] = TileLabel(k)[p]
      BY <2>1 DEF Over
    <3>2. TileLabel(k)[p] \in {"BLACK", "WHITE"}
      BY <2>1, StrPaint DEF TileLabel
    <3>3. "BLACK" \in Colours /\ "WHITE" \in Colours
      <4>1. Names[8] = "BLACK" /\ 8 \in 1 .. 8
        BY DEF Names
      <4> QED
        BY <4>1 DEF Colours
    <3> QED
      BY <3>1, <3>2, <3>3
  <2>2. CASE p \notin DOMAIN TileLabel(k)
    <3>1. p \in TileArea(k)
      BY <1>1, <1>2, <2>2
    <3>2. Over(TileLabel(k), Tile(k))[p] = TileColour(k, p)
      BY <2>2, <3>1 DEF Over, Tile
    <3> QED
      BY <3>2, TileColours
  <2> QED
    BY <2>1, <2>2
<1> QED
  BY <1>1, <1>2

LEMMA DrawTypes ==
  ASSUME screen \in [Pixels -> Colours], stray \in BOOLEAN,
         NEW paint, \A p \in DOMAIN paint : paint[p] \in Colours, Draw(paint)
  PROVE  screen' \in [Pixels -> Colours] /\ stray' \in BOOLEAN
BY DEF Draw

(* A paint that no pixel of leaves the screen is no stray.                 *)
LEMMA DrawStays ==
  ASSUME ~stray, NEW paint,
         \A p \in DOMAIN paint : Clip(p) => p \in Pixels, Draw(paint)
  PROVE  ~stray'
BY DEF Draw

LEMMA DrawElsewhere ==
  ASSUME NEW b \in Bars, NEW paint, DOMAIN paint \cap BarPixels(b) = {}, Draw(paint)
  PROVE  \A p \in BarPixels(b) : screen'[p] = screen[p]
BY DEF Draw, BarPixels

-----------------------------------------------------------------------------
(* Types.                                                                  *)

LEMMA TypeInit == Init => TypeOK
<1> SUFFICES ASSUME Init PROVE TypeOK
  OBVIOUS
<1>1. <<>> \in Text /\ Len(<<>>) = 0
  BY DEF Text
<1>2. screen \in [Pixels -> Colours]
  BY DEF Init, Colours
<1>3. bar \in [Bars -> BarState]
  BY <1>1 DEF Init, BarState
<1>4. \A b \in Bars : Len(bar[b].buf) < Columns
  BY <1>1, Limit DEF Init
<1>5. stray \in BOOLEAN
  BY DEF Init
<1>6. tile \in NotStarted .. Finished
  BY DEF Init, NotStarted, Finished
<1> QED
  BY <1>2, <1>3, <1>4, <1>5, <1>6 DEF TypeOK

LEMMA TypeStep == TypeOK /\ [Next]_vars => TypeOK'
<1> SUFFICES ASSUME TypeOK, [Next]_vars PROVE TypeOK'
  OBVIOUS
<1>0. /\ screen \in [Pixels -> Colours] /\ stray \in BOOLEAN
      /\ bar \in [Bars -> BarState] /\ tile \in NotStarted .. Finished
      /\ \A b \in Bars : Len(bar[b].buf) < Columns
  BY DEF TypeOK
<1>a. ASSUME NEW b \in Bars, NEW st \in {"read", "write", "exited"},
             bar' = [bar EXCEPT ![b].stage = st]
      PROVE  /\ bar' \in [Bars -> BarState]
             /\ \A c \in Bars : Len(bar'[c].buf) < Columns
  BY <1>0, <1>a DEF BarState
<1>1. CASE UNCHANGED vars
  BY <1>1, <1>0 DEF vars, TypeOK
<1>2. ASSUME NEW b \in Bars, NEW line \in Lines \cup {NoLine}, NEW text \in Text,
             Fgets(b, line, text), UNCHANGED <<screen, stray, tile>>
      PROVE  TypeOK'
  <2>1. /\ bar' \in [Bars -> BarState]
        /\ \A c \in Bars \ {b} : bar'[c] = bar[c]
        /\ Len(bar'[b].buf) <= FgetsLimit /\ bar'[b].buf \in Text
    BY <1>0, <1>2, ReadTypes DEF BarState
  <2>2. Len(bar'[b].buf) < Columns
    BY <2>1, Limit DEF Text
  <2> QED
    BY <1>0, <1>2, <2>1, <2>2 DEF TypeOK
<1>3. ASSUME NEW b \in Bars, ReadLine(b) PROVE TypeOK'
  <2>1. PICK line \in Lines : Fgets(b, line, Append(line, Newline))
    BY <1>3 DEF ReadLine
  <2>2. Append(line, Newline) \in Text
    BY TextAssumption DEF Text
  <2> QED
    BY <1>2, <1>3, <2>1, <2>2 DEF ReadLine
<1>4. ASSUME NEW b \in Bars, ReadRest(b) PROVE TypeOK'
  <2>1. bar[b].line \in Lines \cup {NoLine} /\ bar[b].rest \in Text
    BY <1>0 DEF BarState
  <2> QED
    BY <1>2, <1>4, <2>1 DEF ReadRest
<1>5. ASSUME NEW b \in Bars, Eof(b) PROVE TypeOK'
  BY <1>0, <1>a, <1>5 DEF Eof, TypeOK
<1>5a. ASSUME NEW b \in Bars, FgetsFails(b) PROVE TypeOK'
  <2> DEFINE spaces == [k \in 1 .. Columns - 1 |-> Space]
             new == [stage |-> "clear", line |-> NoLine, buf |-> spaces, rest |-> <<>>]
  <2>1. bar' = [bar EXCEPT ![b] = new]
    BY <1>5a DEF FgetsFails
  <2>2. spaces \in Text /\ <<>> \in Text /\ Len(spaces) < Columns
    <3>1. Columns - 1 \in Nat /\ Columns - 1 < Columns
      BY Limit
    <3>2. Space \in Characters \cup {Newline}
      BY TextAssumption
    <3> QED
      BY <3>1, <3>2 DEF Text
  <2> HIDE DEF spaces
  <2>3. new \in BarState /\ new.buf = spaces
    BY <2>2 DEF BarState
  <2> HIDE DEF new
  <2>4. /\ bar' \in [Bars -> BarState]
        /\ \A c \in Bars : Len(bar'[c].buf) < Columns
    BY <1>0, <2>1, <2>2, <2>3
  <2> QED
    BY <1>0, <1>5a, <2>4 DEF FgetsFails, TypeOK
<1>6. ASSUME NEW b \in Bars, Clear(b) PROVE TypeOK'
  <2>1. \A p \in DOMAIN BarBackground(b) : BarBackground(b)[p] \in Colours
    BY SolidPaint DEF Colours
  <2>2. screen' \in [Pixels -> Colours] /\ stray' \in BOOLEAN
    BY <1>0, <1>6, <2>1, DrawTypes DEF Clear
  <2> QED
    BY <1>0, <1>a, <1>6, <2>2 DEF Clear, TypeOK
<1>7. ASSUME NEW b \in Bars, Write(b) PROVE TypeOK'
  <2> DEFINE paint == Str(0, BarY[b], Fg[b], Bg[b], bar[b].buf)
  <2>1. \A p \in DOMAIN paint : paint[p] \in Colours
    BY StrPaint DEF Colours
  <2>2. screen' \in [Pixels -> Colours] /\ stray' \in BOOLEAN
    <3> HIDE DEF paint
    <3> QED
      BY <1>0, <1>7, <2>1, DrawTypes DEF Write, paint
  <2> QED
    BY <1>0, <1>a, <1>7, <2>2 DEF Write, TypeOK
<1>8. CASE StartPattern
  BY <1>0, <1>8 DEF StartPattern, TypeOK, NotStarted, Finished
<1>9. CASE DrawTile
  <2>1. tile \in 1 .. 8
    BY <1>9 DEF DrawTile
  <2>2. screen' \in [Pixels -> Colours] /\ stray' \in BOOLEAN
    BY <1>0, <1>9, <2>1, TilePaint, DrawTypes DEF DrawTile
  <2> QED
    BY <1>0, <1>9, <2>1, <2>2 DEF DrawTile, TypeOK, NotStarted, Finished
<1> QED
  BY <1>1, <1>3, <1>4, <1>5, <1>5a, <1>6, <1>7, <1>8, <1>9 DEF Next

(* The variables keep their types.                                         *)
THEOREM TypeCorrect == Spec => []TypeOK
  BY TypeInit, TypeStep, PTL DEF Spec

-----------------------------------------------------------------------------
(* Every store is to the screen.                                           *)

RowsInRange == \A b \in Bars : InRange(BarY[b])

LEMMA ClearStays ==
  ASSUME RowsInRange, NEW b \in Bars, NEW p \in DOMAIN BarBackground(b), Clip(p)
  PROVE  p \in Pixels
<1>1. p \in Rectangle(0, BarY[b], Xres, BarY[b] + FontH)
  BY SolidPaint
<1>2. /\ BarY[b] \in Int /\ FontH \in Nat
      /\ Yres - 65536 <= BarY[b] /\ BarY[b] + FontH < 65536
  BY BarAssumption, FontAssumption DEF RowsInRange, InRange
<1> QED
  BY <1>1, <1>2, Sizes, NoStray

LEMMA WriteStays ==
  ASSUME RowsInRange, TypeOK, NEW b \in Bars,
         NEW p \in DOMAIN Str(0, BarY[b], Fg[b], Bg[b], bar[b].buf), Clip(p)
  PROVE  p \in Pixels
<1> DEFINE len == Len(bar[b].buf)
<1>1. p \in Rectangle(0, BarY[b], 0 + len * FontW - 1, BarY[b] + FontH - 1)
  BY StrPaint
<1>2. len \in Nat /\ len <= Columns
  BY Limit DEF TypeOK, BarState, Text
<1>3. /\ BarY[b] \in Int /\ FontH \in Nat /\ FontW \in Nat
      /\ Yres - 65536 <= BarY[b] /\ BarY[b] + FontH - 1 < 65536
  BY BarAssumption, FontAssumption DEF RowsInRange, InRange
<1>4. \A m, n, w \in Nat : m <= n => m * w <= n * w /\ m * w \in Nat /\ n * w \in Nat
  OBVIOUS
<1>5. /\ len * FontW <= Columns * FontW
      /\ len * FontW \in Nat /\ Columns * FontW \in Nat
  BY <1>2, <1>3, <1>4, Limit
<1>6. /\ 0 + len * FontW - 1 \in Int /\ 0 + len * FontW - 1 < 65536
  BY <1>5, Limit, Sizes
<1>7. BarY[b] + FontH - 1 \in Int
  BY <1>3
<1> HIDE DEF len
<1> QED
  BY <1>1, <1>3, <1>6, <1>7, NoStray

LEMMA TilePlace ==
  ASSUME NEW k \in 1 .. 8
  PROVE  /\ TileX(k) \in Int /\ 0 <= TileX(k) /\ TileX(k) + PatSize <= Xres
         /\ TileY(k) \in Int /\ Yres - 2 * PatSize <= TileY(k)
         /\ TileY(k) + PatSize <= Yres
         /\ PatSize \in Nat /\ Yres - 65536 <= Yres - 2 * PatSize
<1>1. PatSize \in Nat /\ 8 * PatSize <= Xres
  BY Sizes DEF PatSize
<1>2. (k + 1) % 2 \in {0, 1}
  OBVIOUS
<1>3. ((k + 1) % 2) * PatSize \in {0, PatSize}
  BY <1>1, <1>2
<1> QED
  BY <1>1, <1>3, Sizes DEF TileX, TileY

(* A tile takes PatSize columns and rows, or one more of either.           *)
LEMMA AreaShape ==
  ASSUME NEW k \in 1 .. 8
  PROVE  \E c, d \in {0, 1} :
           TileArea(k) = Rectangle(TileX(k), TileY(k),
                                   TileX(k) + PatSize - c, TileY(k) + PatSize - d)
<1> DEFINE c == IF Names[k] \in {"VLINE", "CHESS"} THEN 1 ELSE 0
           d == IF Names[k] \in {"HLINE", "CHESS"} THEN 1 ELSE 0
<1>1. TileArea(k) = Rectangle(TileX(k), TileY(k),
                              TileX(k) + PatSize - c, TileY(k) + PatSize - d)
  BY DEF TileArea
<1>2. c \in {0, 1} /\ d \in {0, 1}
  OBVIOUS
<1> HIDE DEF c, d
<1> QED
  BY <1>1, <1>2

LEMMA TileRows ==
  ASSUME NEW k \in 1 .. 8, NEW p \in DOMAIN Over(TileLabel(k), Tile(k))
  PROVE  /\ p[2] \in Int /\ Yres - 2 * PatSize <= p[2]
         /\ Clip(p) => p \in Pixels
<1> DEFINE len == Len(Label[k])
           x == TileX(k)
           y == TileY(k)
<1>1. /\ x \in Int /\ 0 <= x /\ x + PatSize <= Xres
      /\ y \in Int /\ Yres - 2 * PatSize <= y /\ y + PatSize <= Yres
      /\ PatSize \in Nat /\ Yres - 65536 <= Yres - 2 * PatSize
  BY TilePlace
<1>2. /\ len * FontW \in Nat /\ Xres + len * FontW <= 65536
      /\ FontH \in Nat /\ Yres + FontH <= 65536
  <2>1. len \in Nat
    BY LabelAssumption
  <2> HIDE DEF len
  <2>2. len * FontW \in Nat
    BY <2>1, FontAssumption
  <2>3. Xres + len * FontW <= 65536
    BY LabelAssumption DEF len
  <2>4. FontH \in Nat
    BY FontAssumption
  <2>5. Yres + FontH <= 65536
    BY LabelAssumption
  <2> QED
    BY <2>2, <2>3, <2>4, <2>5
<1>3. p \in DOMAIN TileLabel(k) \/ p \in TileArea(k)
  BY TilePaint
<1> HIDE DEF len, x, y
<1>4. CASE p \in DOMAIN TileLabel(k)
  <2>1. p \in Rectangle(x, y, x + len * FontW - 1, y + FontH - 1)
    BY <1>4, StrPaint DEF TileLabel, x, y, len
  <2>2. /\ x + len * FontW - 1 \in Int /\ x + len * FontW - 1 < 65536
        /\ y + FontH - 1 \in Int /\ y + FontH - 1 < 65536
        /\ Yres - 65536 <= y
    BY <1>1, <1>2, Sizes
  <2>3. Clip(p) => p \in Pixels
    BY <1>1, <2>1, <2>2, NoStray
  <2>4. p[2] \in y .. y + FontH - 1
    BY <2>1 DEF Rectangle
  <2> QED
    BY <1>1, <1>2, <2>3, <2>4, Sizes
<1>5. CASE p \in TileArea(k)
  <2>1. p \in Rectangle(x, y, x + PatSize, y + PatSize)
    <3>1. PICK c \in {0, 1}, d \in {0, 1} :
            TileArea(k) = Rectangle(x, y, x + PatSize - c, y + PatSize - d)
      BY AreaShape DEF x, y
    <3>2. /\ p[1] \in x .. x + PatSize - c /\ p[2] \in y .. y + PatSize - d
          /\ p = <<p[1], p[2]>>
      BY <1>5, <3>1 DEF Rectangle
    <3>3. p[1] \in x .. x + PatSize /\ p[2] \in y .. y + PatSize
      BY <1>1, <3>2
    <3> QED
      BY <3>2, <3>3 DEF Rectangle
  <2>2. /\ x + PatSize \in Int /\ x + PatSize < 65536
        /\ y + PatSize \in Int /\ y + PatSize < 65536
        /\ Yres - 65536 <= y
    BY <1>1, Sizes
  <2>3. Clip(p) => p \in Pixels
    BY <1>1, <2>1, <2>2, NoStray
  <2>4. p[2] \in y .. y + PatSize
    BY <2>1 DEF Rectangle
  <2> QED
    BY <1>1, <2>3, <2>4, Sizes
<1> QED
  BY <1>3, <1>4, <1>5

StrayInv == TypeOK /\ ~stray

LEMMA StrayStep == RowsInRange /\ StrayInv /\ [Next]_vars => StrayInv'
<1> SUFFICES ASSUME RowsInRange, StrayInv, [Next]_vars PROVE ~stray'
  BY TypeStep DEF StrayInv
<1>1. ASSUME NEW b \in Bars, Clear(b) PROVE ~stray'
  <2>1. \A p \in DOMAIN BarBackground(b) : Clip(p) => p \in Pixels
    BY ClearStays
  <2> QED
    BY <1>1, <2>1, DrawStays DEF Clear, StrayInv
<1>2. ASSUME NEW b \in Bars, Write(b) PROVE ~stray'
  <2> DEFINE paint == Str(0, BarY[b], Fg[b], Bg[b], bar[b].buf)
  <2>1. \A p \in DOMAIN paint : Clip(p) => p \in Pixels
    BY WriteStays DEF StrayInv
  <2>2. Draw(paint)
    BY <1>2 DEF Write
  <2> HIDE DEF paint
  <2> QED
    BY <2>1, <2>2, DrawStays DEF StrayInv
<1>3. CASE DrawTile
  <2>1. tile \in 1 .. 8 /\ Draw(Over(TileLabel(tile), Tile(tile)))
    BY <1>3 DEF DrawTile
  <2>2. \A p \in DOMAIN Over(TileLabel(tile), Tile(tile)) : Clip(p) => p \in Pixels
    BY <2>1, TileRows
  <2> QED
    BY <2>1, <2>2, DrawStays DEF StrayInv
<1>4. CASE UNCHANGED stray
  BY <1>4 DEF StrayInv
<1> QED
  BY <1>1, <1>2, <1>3, <1>4
     DEF Next, vars, ReadLine, ReadRest, FgetsFails, Eof, StartPattern

(* While the rows of all bars fit 16 bits, nothing beside the screen is    *)
(* written, whatever is drawn.                                             *)
THEOREM NothingStrayAlways == Spec => []NothingStray
<1>1. CASE RowsInRange
  <2>1. Init => StrayInv
    BY TypeInit DEF Init, StrayInv
  <2>2. StrayInv /\ [Next]_vars => StrayInv'
    BY <1>1, StrayStep
  <2>3. StrayInv => NothingStray
    BY DEF StrayInv, NothingStray
  <2> QED
    BY <2>1, <2>2, <2>3, PTL DEF Spec
<1>2. CASE ~RowsInRange
  <2>1. NothingStray
    BY <1>2 DEF NothingStray, RowsInRange
  <2> QED
    BY <2>1, PTL
<1> QED
  BY <1>1, <1>2

-----------------------------------------------------------------------------
(* A bar shows its line.                                                   *)

Cleared(b) == \A p \in BarPixels(b) : screen[p] = Bg[b]

WholeLine(b) ==
  bar[b].line # NoLine /\ Short(bar[b].line) =>
    bar[b].buf = Append(bar[b].line, Newline) /\ bar[b].rest = <<>>

(* How far a bar has come with its line.                                   *)
Progress(b) ==
  /\ WholeLine(b)
  /\ bar[b].stage = "write" /\ Undisturbed(b) => Cleared(b)
  /\ bar[b].stage = "read" /\ bar[b].line # NoLine /\ Short(bar[b].line)
       /\ Undisturbed(b) => ShowsLine(b)

BarInv == TypeOK /\ \A b \in Bars : Progress(b)

LEMMA BarPixel ==
  ASSUME NEW b \in Bars, NEW p \in BarPixels(b)
  PROVE  /\ p \in Pixels /\ p = <<p[1], p[2]>> /\ Clip(p)
         /\ p[1] \in Nat /\ p[1] \in 0 .. Xres - 1
         /\ p[2] \in Int /\ BarY[b] <= p[2] /\ p[2] <= BarY[b] + FontH - 1
         /\ BarY[b] \in Int /\ FontH \in Nat
<1>1. BarY[b] \in Int /\ FontH \in Nat
  BY BarAssumption, FontAssumption
<1>2. p \in Pixels /\ p \in Rectangle(0, BarY[b], Xres - 1, BarY[b] + FontH - 1)
  BY DEF BarPixels
<1>3. p[1] \in 0 .. Xres - 1 /\ p = <<p[1], p[2]>> /\ Clip(p)
  BY <1>2, ScreenClip
<1>4. p[2] \in BarY[b] .. BarY[b] + FontH - 1
  BY <1>2 DEF Rectangle
<1> QED
  BY <1>1, <1>2, <1>3, <1>4, Sizes

(* What others draw stays off the rows of b.                               *)
LEMMA OthersApart ==
  ASSUME NEW b \in Bars, Undisturbed(b), NEW c \in Bars \ {b},
         NEW x1, NEW n \in Int, n <= FontH
  PROVE  Rectangle(0, BarY[c], x1, BarY[c] + n) \cap BarPixels(b) = {}
<1> SUFFICES ASSUME NEW p \in BarPixels(b),
                    p \in Rectangle(0, BarY[c], x1, BarY[c] + n)
             PROVE  FALSE
  OBVIOUS
<1>1. /\ p[2] \in Int /\ BarY[b] <= p[2] /\ p[2] <= BarY[b] + FontH - 1
      /\ BarY[b] \in Int /\ FontH \in Nat
  BY BarPixel
<1>2. BarY[c] \in Int
  BY BarAssumption
<1>3. p[2] \in BarY[c] .. BarY[c] + n
  BY DEF Rectangle
<1>4. BarY[c] + FontH < BarY[b] \/ BarY[b] + FontH <= BarY[c]
  BY DEF Undisturbed
<1> QED
  BY <1>1, <1>2, <1>3, <1>4

LEMMA ClearApart ==
  ASSUME NEW b \in Bars, Undisturbed(b), NEW c \in Bars \ {b}
  PROVE  DOMAIN BarBackground(c) \cap BarPixels(b) = {}
<1>1. FontH \in Int
  BY FontAssumption
<1> QED
  BY <1>1, SolidPaint, OthersApart

LEMMA WriteApart ==
  ASSUME NEW b \in Bars, Undisturbed(b), NEW c \in Bars \ {b}
  PROVE  DOMAIN Str(0, BarY[c], Fg[c], Bg[c], bar[c].buf) \cap BarPixels(b) = {}
<1> DEFINE x1 == 0 + Len(bar[c].buf) * FontW - 1
<1>1. DOMAIN Str(0, BarY[c], Fg[c], Bg[c], bar[c].buf)
        \subseteq Rectangle(0, BarY[c], x1, BarY[c] + FontH - 1)
  BY StrPaint
<1> HIDE DEF x1
<1>2. FontH \in Int /\ BarY[c] \in Int
  BY FontAssumption, BarAssumption
<1>3. Rectangle(0, BarY[c], x1, BarY[c] + (FontH - 1)) \cap BarPixels(b) = {}
  <2>1. FontH - 1 \in Int /\ FontH - 1 <= FontH
    BY <1>2
  <2> QED
    BY <2>1, OthersApart
<1>4. BarY[c] + FontH - 1 = BarY[c] + (FontH - 1)
  BY <1>2
<1> QED
  BY <1>1, <1>3, <1>4

LEMMA TileApart ==
  ASSUME NEW b \in Bars, Undisturbed(b), NEW k \in 1 .. 8
  PROVE  DOMAIN Over(TileLabel(k), Tile(k)) \cap BarPixels(b) = {}
<1> SUFFICES ASSUME NEW p \in BarPixels(b), p \in DOMAIN Over(TileLabel(k), Tile(k))
             PROVE  FALSE
  OBVIOUS
<1>1. /\ p[2] \in Int /\ p[2] <= BarY[b] + FontH - 1
      /\ BarY[b] \in Int /\ FontH \in Nat
  BY BarPixel
<1>2. Yres - 2 * PatSize <= p[2]
  BY TileRows
<1>3. BarY[b] + FontH <= Yres - 2 * PatSize
  BY DEF Undisturbed
<1>4. PatSize \in Nat /\ Yres \in Int
  BY TilePlace, Sizes
<1> QED
  BY <1>1, <1>2, <1>3, <1>4

(* A step that leaves the state of b, and its pixels, alone.               *)
LEMMA ProgressKept ==
  ASSUME NEW b \in Bars, Progress(b), bar'[b] = bar[b],
         Undisturbed(b) => \A p \in BarPixels(b) : screen'[p] = screen[p]
  PROVE  Progress(b)'
<1>1. WholeLine(b)'
  BY DEF Progress, WholeLine
<1>2. ASSUME bar'[b].stage = "write", Undisturbed(b) PROVE Cleared(b)'
  BY <1>2 DEF Progress, Cleared, BarPixels
<1>3. ASSUME bar'[b].stage = "read", bar'[b].line # NoLine,
             Short(bar'[b].line), Undisturbed(b)
      PROVE  ShowsLine(b)'
  <2>1. ShowsLine(b)
    BY <1>3 DEF Progress
  <2> QED
    BY <1>3, <2>1 DEF ShowsLine, BarPixels
<1> QED
  BY <1>1, <1>2, <1>3 DEF Progress, Undisturbed

(* Write puts the line on the cleared bar.                                 *)
LEMMA WriteShows ==
  ASSUME TypeOK, NEW b \in Bars, Cleared(b), NEW line, line = bar[b].line,
         bar[b].buf = Append(line, Newline),
         Draw(Str(0, BarY[b], Fg[b], Bg[b], bar[b].buf)), NEW p \in BarPixels(b)
  PROVE  LET i == p[1] \div FontW + 1
         IN screen'[p] = IF /\ i \in DOMAIN line /\ line[i] \in DOMAIN Font
                            /\ Lit(line[i], p[1] % FontW, p[2] - BarY[b])
                         THEN Fg[b] ELSE Bg[b]
<1> DEFINE i == p[1] \div FontW + 1
           buf == bar[b].buf
           x1 == 0 + Len(buf) * FontW - 1
           paint == Str(0, BarY[b], Fg[b], Bg[b], buf)
<1>1. /\ p \in Pixels /\ p = <<p[1], p[2]>> /\ Clip(p)
      /\ p[1] \in Nat /\ p[2] \in Int
      /\ BarY[b] <= p[2] /\ p[2] <= BarY[b] + FontH - 1
      /\ BarY[b] \in Int /\ FontH \in Nat
  BY BarPixel
<1>2. FontW \in Nat \ {0}
  BY FontAssumption
<1>3. /\ Len(line) \in Nat /\ DOMAIN line = 1 .. Len(line)
      /\ Len(buf) = Len(line) + 1 /\ buf[Len(line) + 1] = Newline
      /\ \A j \in 1 .. Len(line) : buf[j] = line[j]
  <2>1. line \in Seq(Characters \cup {Newline})
    <3>1. line \in Lines \cup {NoLine}
      BY DEF TypeOK, BarState
    <3>2. line \in Seq(Characters) \/ line = NoLine
      BY <3>1, TextAssumption
    <3> QED
      BY <3>2 DEF NoLine
  <2> QED
    BY <2>1
<1>4. i \in Nat /\ 1 <= i
  BY <1>1, <1>2, DivFacts
<1>5. p[1] <= Len(buf) * FontW - 1 <=> i <= Len(buf)
  <2>1. Len(buf) \in Nat
    BY <1>3
  <2> HIDE DEF buf
  <2> QED
    BY <1>1, <1>2, <2>1, DivBound
<1>6. screen[p] = Bg[b]
  BY DEF Cleared
<1>7. screen'[p] = IF p \in DOMAIN paint THEN paint[p] ELSE Bg[b]
  BY <1>1, <1>6 DEF Draw
<1>8. p[1] - 0 = p[1]
  BY <1>1
<1>9. CharAt(0, buf, p) = buf[i]
  BY <1>8 DEF CharAt
<1>10. p \in Rectangle(0, BarY[b], x1, BarY[b] + FontH - 1) <=> i <= Len(buf)
  <2>1. Len(buf) * FontW \in Int
    BY <1>2, <1>3
  <2>2. x1 = Len(buf) * FontW - 1
    BY <2>1
  <2>3. p[2] \in BarY[b] .. BarY[b] + FontH - 1
    BY <1>1
  <2>4. p[1] \in 0 .. x1 <=> i <= Len(buf)
    <3> DEFINE lw == Len(buf) * FontW
    <3>1. lw \in Int /\ x1 = lw - 1 /\ (p[1] <= lw - 1 <=> i <= Len(buf))
      BY <1>5, <2>1, <2>2
    <3> HIDE DEF lw, x1, i, buf
    <3> QED
      BY <1>1, <3>1
  <2> HIDE DEF x1
  <2>5. p \in Rectangle(0, BarY[b], x1, BarY[b] + FontH - 1)
          <=> p[1] \in 0 .. x1 /\ p[2] \in BarY[b] .. BarY[b] + FontH - 1
    BY <1>1 DEF Rectangle
  <2> QED
    BY <2>3, <2>4, <2>5
<1>11. p \in DOMAIN paint <=> i <= Len(buf) /\ buf[i] \in DOMAIN Font
  <2>1. DOMAIN paint = {q \in Rectangle(0, BarY[b], x1, BarY[b] + FontH - 1) :
                           CharAt(0, buf, q) \in DOMAIN Font}
    BY DEF Str
  <2> HIDE DEF paint
  <2> QED
    BY <1>9, <1>10, <2>1
<1>12. p \in DOMAIN paint <=> i \in DOMAIN line /\ line[i] \in DOMAIN Font
  <2> HIDE DEF i, buf, paint
  <2>1. CASE i <= Len(line)
    <3>1. i \in DOMAIN line /\ buf[i] = line[i] /\ i <= Len(buf)
      BY <1>3, <1>4, <2>1
    <3> QED
      BY <1>11, <3>1
  <2>2. CASE i = Len(line) + 1
    <3>1. i \notin DOMAIN line /\ buf[i] = Newline
      BY <1>3, <1>4, <2>2
    <3> QED
      BY <1>11, <3>1, TextAssumption
  <2>3. CASE i > Len(line) + 1
    <3>1. i \notin DOMAIN line /\ ~(i <= Len(buf))
      BY <1>3, <1>4, <2>3
    <3> QED
      BY <1>11, <3>1
  <2> QED
    BY <1>3, <1>4, <2>1, <2>2, <2>3
<1>13. p \in DOMAIN paint =>
         paint[p] = IF Lit(line[i], p[1] % FontW, p[2] - BarY[b]) THEN Fg[b] ELSE Bg[b]
  <2> SUFFICES ASSUME p \in DOMAIN paint
               PROVE  paint[p] = IF Lit(line[i], p[1] % FontW, p[2] - BarY[b])
                                 THEN Fg[b] ELSE Bg[b]
    OBVIOUS
  <2>1. i \in DOMAIN line
    BY <1>12
  <2>2. CharAt(0, buf, p) = line[i]
    BY <1>3, <1>9, <2>1
  <2>3. paint[p] = IF Lit(CharAt(0, buf, p), (p[1] - 0) % FontW, p[2] - BarY[b])
                   THEN Fg[b] ELSE Bg[b]
    BY DEF Str
  <2> HIDE DEF paint, i, buf
  <2> QED
    BY <1>8, <2>2, <2>3
<1> HIDE DEF paint
<1> QED
  BY <1>7, <1>12, <1>13

LEMMA BarStep ==
  ASSUME TypeOK, NEW b \in Bars, Progress(b), Next
  PROVE  Progress(b)'
<1>0. /\ bar \in [Bars -> BarState] /\ \A c \in Bars : bar[c] \in BarState
  BY DEF TypeOK
<1>a. ASSUME NEW c \in Bars, NEW st, bar' = [bar EXCEPT ![c].stage = st]
      PROVE  /\ \A d \in Bars \ {c} : bar'[d] = bar[d]
             /\ bar'[c].stage = st /\ bar'[c].line = bar[c].line
             /\ bar'[c].buf = bar[c].buf /\ bar'[c].rest = bar[c].rest
  BY <1>0, <1>a DEF BarState
<1>1. ASSUME ReadLine(b) PROVE Progress(b)'
  <2>1. PICK line \in Lines : Fgets(b, line, Append(line, Newline))
    BY <1>1 DEF ReadLine
  <2>2. line \in Seq(Characters) /\ Append(line, Newline) \in Text
    BY TextAssumption DEF Text
  <2>3. /\ bar'[b].stage = "clear" /\ bar'[b].line = line
        /\ Len(Append(line, Newline)) <= FgetsLimit =>
             bar'[b].buf = Append(line, Newline) /\ bar'[b].rest = <<>>
    BY <1>0, <2>1, <2>2, ReadTypes
  <2>4. Short(line) => Len(Append(line, Newline)) <= FgetsLimit
    BY <2>2, Limit DEF Short
  <2> QED
    BY <2>3, <2>4 DEF Progress, WholeLine
<1>2. ASSUME ReadRest(b) PROVE Progress(b)'
  <2>1. /\ bar[b].rest # <<>> /\ bar[b].line \in Lines \cup {NoLine}
        /\ bar[b].rest \in Text /\ Fgets(b, bar[b].line, bar[b].rest)
    BY <1>0, <1>2 DEF ReadRest, BarState
  <2>2. bar'[b].stage = "clear" /\ bar'[b].line = bar[b].line
    BY <1>0, <2>1, ReadTypes
  <2>3. ~(bar[b].line # NoLine /\ Short(bar[b].line))
    BY <2>1 DEF Progress, WholeLine
  <2> QED
    BY <2>2, <2>3 DEF Progress, WholeLine
<1>3. ASSUME Eof(b) PROVE Progress(b)'
  <2>1. /\ bar'[b].stage = "exited" /\ bar'[b].line = bar[b].line
        /\ bar'[b].buf = bar[b].buf /\ bar'[b].rest = bar[b].rest
    BY <1>3, <1>a DEF Eof
  <2> QED
    BY <2>1 DEF Progress, WholeLine
<1>3a. ASSUME FgetsFails(b) PROVE Progress(b)'
  <2>1. bar'[b].stage = "clear" /\ bar'[b].line = NoLine
    BY <1>0, <1>3a DEF FgetsFails
  <2> QED
    BY <2>1 DEF Progress, WholeLine
<1>4. ASSUME Clear(b) PROVE Progress(b)'
  <2>1. /\ bar'[b].stage = "write" /\ bar'[b].line = bar[b].line
        /\ bar'[b].buf = bar[b].buf /\ bar'[b].rest = bar[b].rest
    BY <1>4, <1>a DEF Clear
  <2>2. ASSUME NEW p \in BarPixels(b) PROVE screen'[p] = Bg[b]
    <3>1. /\ p \in Pixels /\ p = <<p[1], p[2]>> /\ Clip(p)
          /\ p[1] \in 0 .. Xres - 1
          /\ p[2] \in Int /\ BarY[b] <= p[2] /\ p[2] <= BarY[b] + FontH - 1
          /\ BarY[b] \in Int /\ FontH \in Nat
      BY BarPixel
    <3>2. p[1] \in 0 .. Xres /\ p[2] \in BarY[b] .. BarY[b] + FontH
      BY <3>1, Sizes
    <3>3. p \in DOMAIN BarBackground(b)
      BY <3>1, <3>2, SolidPaint DEF Rectangle
    <3> QED
      BY <1>4, <3>1, <3>3, SolidPaint DEF Clear, Draw
  <2> QED
    BY <2>1, <2>2 DEF Progress, WholeLine, Cleared, BarPixels
<1>5. ASSUME Write(b) PROVE Progress(b)'
  <2>1. /\ bar'[b].stage = "read" /\ bar'[b].line = bar[b].line
        /\ bar'[b].buf = bar[b].buf /\ bar'[b].rest = bar[b].rest
    BY <1>5, <1>a DEF Write
  <2>2. ASSUME bar[b].line # NoLine, Short(bar[b].line), Undisturbed(b)
        PROVE  ShowsLine(b)'
    <3>1. Cleared(b) /\ bar[b].buf = Append(bar[b].line, Newline)
      BY <1>5, <2>2 DEF Progress, WholeLine, Write
    <3>2. Draw(Str(0, BarY[b], Fg[b], Bg[b], bar[b].buf))
      BY <1>5 DEF Write
    <3>3. ASSUME NEW p \in BarPixels(b)
          PROVE  LET i == p[1] \div FontW + 1
                     line == bar[b].line
                 IN screen'[p] = IF /\ i \in DOMAIN line /\ line[i] \in DOMAIN Font
                                    /\ Lit(line[i], p[1] % FontW, p[2] - BarY[b])
                                 THEN Fg[b] ELSE Bg[b]
      BY <3>1, <3>2, WriteShows
    <3> QED
      BY <2>1, <3>3 DEF ShowsLine, BarPixels
  <2> QED
    BY <2>1, <2>2 DEF Progress, WholeLine, Undisturbed
<1>6. ASSUME NEW c \in Bars \ {b},
             ReadLine(c) \/ ReadRest(c) \/ FgetsFails(c) \/ Eof(c)
      PROVE  Progress(b)'
  <2>1. bar'[b] = bar[b] /\ screen' = screen
    BY <1>0, <1>6 DEF ReadLine, ReadRest, FgetsFails, Eof, Fgets
  <2> QED
    BY <2>1, ProgressKept
<1>7. ASSUME NEW c \in Bars \ {b}, Clear(c) PROVE Progress(b)'
  <2>1. Draw(BarBackground(c)) /\ bar'[b] = bar[b]
    BY <1>7 DEF Clear
  <2>2. Undisturbed(b) => \A p \in BarPixels(b) : screen'[p] = screen[p]
    BY <2>1, ClearApart, DrawElsewhere
  <2> QED
    BY <2>1, <2>2, ProgressKept
<1>8. ASSUME NEW c \in Bars \ {b}, Write(c) PROVE Progress(b)'
  <2> DEFINE paint == Str(0, BarY[c], Fg[c], Bg[c], bar[c].buf)
  <2>1. Draw(paint) /\ bar'[b] = bar[b]
    BY <1>8 DEF Write
  <2>2. Undisturbed(b) => DOMAIN paint \cap BarPixels(b) = {}
    BY WriteApart
  <2> HIDE DEF paint
  <2>3. Undisturbed(b) => \A p \in BarPixels(b) : screen'[p] = screen[p]
    BY <2>1, <2>2, DrawElsewhere
  <2> QED
    BY <2>1, <2>3, ProgressKept
<1>9. CASE StartPattern
  BY <1>9, ProgressKept DEF StartPattern
<1>10. CASE DrawTile
  <2> DEFINE paint == Over(TileLabel(tile), Tile(tile))
  <2>1. tile \in 1 .. 8 /\ Draw(paint) /\ bar'[b] = bar[b]
    BY <1>10 DEF DrawTile
  <2>2. Undisturbed(b) => DOMAIN paint \cap BarPixels(b) = {}
    BY <2>1, TileApart
  <2> HIDE DEF paint
  <2>3. Undisturbed(b) => \A p \in BarPixels(b) : screen'[p] = screen[p]
    BY <2>1, <2>2, DrawElsewhere
  <2> QED
    BY <2>1, <2>3, ProgressKept
<1> QED
  BY <1>1, <1>2, <1>3, <1>3a, <1>4, <1>5, <1>6, <1>7, <1>8, <1>9, <1>10 DEF Next

(* Whatever else is drawn elsewhere, a bar that waits for input shows the  *)
(* last line it read, for any number of bars, of any length that fits.     *)
THEOREM BarShowsLineAlways == Spec => []BarShowsLine
<1>1. Init => BarInv
  <2> SUFFICES ASSUME Init, NEW b \in Bars PROVE Progress(b)
    BY TypeInit DEF BarInv
  <2>1. bar[b].line = NoLine /\ bar[b].stage = "read"
    BY DEF Init
  <2> QED
    BY <2>1 DEF Progress, WholeLine
<1>2. BarInv /\ [Next]_vars => BarInv'
  <2> SUFFICES ASSUME BarInv, [Next]_vars, NEW b \in Bars PROVE Progress(b)'
    BY TypeStep DEF BarInv
  <2>1. CASE Next
    BY <2>1, BarStep DEF BarInv
  <2>2. CASE UNCHANGED vars
    BY <2>2, ProgressKept DEF BarInv, vars
  <2> QED
    BY <2>1, <2>2
<1>3. BarInv => BarShowsLine
  BY DEF BarInv, BarShowsLine, Progress
<1> QED
  BY <1>1, <1>2, <1>3, PTL DEF Spec

-----------------------------------------------------------------------------
(* The pattern.  A tile and its label draw only right of and below the     *)
(* tile's upper left corner, and every earlier tile ends above or left of  *)
(* it: whatever spills over, spills over tiles that are still to come.     *)

TileBody(k) ==
  Rectangle(TileX(k), TileY(k), TileX(k) + PatSize - 1, TileY(k) + PatSize - 1)

TileShown(k) ==
  \A p \in (TileBody(k) \cap Pixels) \ DOMAIN TileLabel(k) :
    screen[p] = TileColour(k, p)

BarsAbove == \A b \in Bars : BarY[b] + FontH < Yres - 2 * PatSize

PatternInv ==
  /\ tile \in NotStarted .. Finished
  /\ BarsAbove => \A k \in 1 .. 8 : k < tile => TileShown(k)

LEMMA BodyPlace ==
  ASSUME NEW k \in 1 .. 8, NEW p \in TileBody(k)
  PROVE  /\ p = <<p[1], p[2]>> /\ p[1] \in Int /\ p[2] \in Int
         /\ TileX(k) <= p[1] /\ p[1] < TileX(k) + PatSize
         /\ TileY(k) <= p[2] /\ p[2] < TileY(k) + PatSize
<1>1. p \in (TileX(k) .. TileX(k) + PatSize - 1) \X (TileY(k) .. TileY(k) + PatSize - 1)
  BY DEF TileBody, Rectangle
<1>2. /\ TileX(k) \in Int /\ TileY(k) \in Int /\ PatSize \in Int
  BY TilePlace
<1> QED
  BY <1>1, <1>2

(* A tile and its label are right of and below the corner.                 *)
LEMMA PaintPlace ==
  ASSUME NEW k \in 1 .. 8, NEW p \in DOMAIN Over(TileLabel(k), Tile(k))
  PROVE  p[1] >= TileX(k) /\ p[2] >= TileY(k)
<1>1. PICK x1, y1 : p \in Rectangle(TileX(k), TileY(k), x1, y1)
  <2>1. CASE p \in DOMAIN TileLabel(k)
    BY <2>1, StrPaint DEF TileLabel
  <2>2. CASE p \in TileArea(k)
    BY <2>2 DEF TileArea
  <2> QED
    BY <2>1, <2>2, TilePaint
<1>2. p[1] \in TileX(k) .. x1 /\ p[2] \in TileY(k) .. y1
  BY <1>1 DEF Rectangle
<1> QED
  BY <1>2

(* Earlier tiles end left of or above a corner.                            *)
LEMMA EarlierApart ==
  ASSUME NEW j \in 1 .. 8, NEW k \in 1 .. 8, j < k
  PROVE  TileX(j) + PatSize <= TileX(k) \/ TileY(j) + PatSize <= TileY(k)
<1>1. PatSize \in Nat /\ 8 * PatSize <= Xres /\ Xres \in Nat /\ Yres \in Nat
  BY Sizes DEF PatSize
<1>2. /\ TileX(1) = 0 /\ TileX(2) = PatSize /\ TileX(3) = 0 /\ TileX(4) = PatSize
      /\ TileX(5) = Xres - 2 * PatSize /\ TileX(6) = Xres - 2 * PatSize + PatSize
      /\ TileX(7) = Xres - 2 * PatSize /\ TileX(8) = Xres - 2 * PatSize + PatSize
  BY <1>1 DEF TileX
<1>3. /\ \A i \in {1, 2, 5, 6} : TileY(i) = Yres - 2 * PatSize
      /\ \A i \in {3, 4, 7, 8} : TileY(i) = Yres - 1 * PatSize
  BY DEF TileY
<1> HIDE DEF TileX, TileY
<1>4. CASE j \in {1, 2, 3, 4} /\ k \in {5, 6, 7, 8}
  BY <1>1, <1>2, <1>4
<1>5. CASE \/ j \in {1, 2} /\ k \in {3, 4}
           \/ j \in {5, 6} /\ k \in {7, 8}
  BY <1>1, <1>3, <1>5
<1>6. CASE \/ j = 1 /\ k = 2
           \/ j = 3 /\ k = 4
           \/ j = 5 /\ k = 6
           \/ j = 7 /\ k = 8
  BY <1>1, <1>2, <1>6
<1> QED
  BY <1>4, <1>5, <1>6

LEMMA SpillsForwards ==
  ASSUME NEW j \in 1 .. 8, NEW k \in 1 .. 8, j < k
  PROVE  DOMAIN Over(TileLabel(k), Tile(k)) \cap TileBody(j) = {}
<1> SUFFICES ASSUME NEW p \in TileBody(j), p \in DOMAIN Over(TileLabel(k), Tile(k))
             PROVE  FALSE
  OBVIOUS
<1>1. p[1] >= TileX(k) /\ p[2] >= TileY(k)
  BY PaintPlace
<1>2. /\ p[1] \in Int /\ p[1] < TileX(j) + PatSize
      /\ p[2] \in Int /\ p[2] < TileY(j) + PatSize
  BY BodyPlace
<1>3. /\ TileX(j) \in Int /\ TileX(k) \in Int
      /\ TileY(j) \in Int /\ TileY(k) \in Int /\ PatSize \in Int
  BY TilePlace
<1> QED
  BY <1>1, <1>2, <1>3, EarlierApart

(* Just drawn, a tile is shown.                                            *)
LEMMA TileDrawn ==
  ASSUME NEW k \in 1 .. 8, Draw(Over(TileLabel(k), Tile(k)))
  PROVE  TileShown(k)'
<1> SUFFICES ASSUME NEW p \in (TileBody(k) \cap Pixels) \ DOMAIN TileLabel(k)
             PROVE  screen'[p] = TileColour(k, p)
  BY DEF TileShown
<1>1. p \in TileArea(k)
  <2>1. /\ p = <<p[1], p[2]>> /\ p[1] \in Int /\ p[2] \in Int
        /\ TileX(k) <= p[1] /\ p[1] < TileX(k) + PatSize
        /\ TileY(k) <= p[2] /\ p[2] < TileY(k) + PatSize
    BY BodyPlace
  <2>2. TileX(k) \in Int /\ TileY(k) \in Int /\ PatSize \in Int
    BY TilePlace
  <2>3. PICK c \in {0, 1}, d \in {0, 1} :
          TileArea(k) = Rectangle(TileX(k), TileY(k),
                                  TileX(k) + PatSize - c, TileY(k) + PatSize - d)
    BY AreaShape
  <2>4. /\ p[1] \in TileX(k) .. TileX(k) + PatSize - c
        /\ p[2] \in TileY(k) .. TileY(k) + PatSize - d
    BY <2>1, <2>2
  <2> QED
    BY <2>1, <2>3, <2>4 DEF Rectangle
<1>2. Clip(p)
  BY ScreenClip
<1>3. /\ p \in DOMAIN Over(TileLabel(k), Tile(k))
      /\ Over(TileLabel(k), Tile(k))[p] = TileColour(k, p)
  BY <1>1 DEF Over, Tile
<1> QED
  BY <1>2, <1>3 DEF Draw

LEMMA ShownKept ==
  ASSUME NEW k \in 1 .. 8, TileShown(k),
         \A p \in TileBody(k) \cap Pixels : screen'[p] = screen[p]
  PROVE  TileShown(k)'
BY DEF TileShown

LEMMA DrawOutside ==
  ASSUME NEW paint, NEW k \in 1 .. 8, DOMAIN paint \cap TileBody(k) = {}, Draw(paint)
  PROVE  \A p \in TileBody(k) \cap Pixels : screen'[p] = screen[p]
BY DEF Draw

LEMMA BarAboveTile ==
  ASSUME BarsAbove, NEW b \in Bars, NEW k \in 1 .. 8, NEW x1, NEW n \in Int, n <= FontH
  PROVE  Rectangle(0, BarY[b], x1, BarY[b] + n) \cap TileBody(k) = {}
<1> SUFFICES ASSUME NEW p \in TileBody(k), p \in Rectangle(0, BarY[b], x1, BarY[b] + n)
             PROVE  FALSE
  OBVIOUS
<1>1. p[2] \in Int /\ TileY(k) <= p[2]
  BY BodyPlace
<1>2. /\ TileY(k) \in Int /\ Yres - 2 * PatSize <= TileY(k)
      /\ PatSize \in Int /\ Yres \in Int
  BY TilePlace, Sizes
<1>3. /\ BarY[b] \in Int /\ FontH \in Nat
      /\ BarY[b] + FontH < Yres - 2 * PatSize
  BY BarAssumption, FontAssumption DEF BarsAbove
<1>4. p[2] \in BarY[b] .. BarY[b] + n
  BY DEF Rectangle
<1> QED
  BY <1>1, <1>2, <1>3, <1>4

LEMMA PatternStep == PatternInv /\ [Next]_vars => PatternInv'
<1> SUFFICES ASSUME PatternInv, [Next]_vars PROVE PatternInv'
  OBVIOUS
<1> USE DEF NotStarted, Finished
<1>1. ASSUME tile' = tile,
             ASSUME BarsAbove, NEW k \in 1 .. 8
             PROVE  \A p \in TileBody(k) \cap Pixels : screen'[p] = screen[p]
      PROVE  PatternInv'
  <2> SUFFICES ASSUME BarsAbove, NEW k \in 1 .. 8, k < tile PROVE TileShown(k)'
    BY <1>1 DEF PatternInv, BarsAbove
  <2> QED
    BY <1>1, ShownKept DEF PatternInv
<1>2. CASE UNCHANGED vars
  BY <1>1, <1>2 DEF vars
<1>3. ASSUME NEW b \in Bars, ReadLine(b) \/ ReadRest(b) \/ FgetsFails(b) \/ Eof(b)
      PROVE  PatternInv'
  BY <1>1, <1>3 DEF ReadLine, ReadRest, FgetsFails, Eof
<1>4. ASSUME NEW b \in Bars, Clear(b) PROVE PatternInv'
  <2>1. Draw(BarBackground(b)) /\ tile' = tile
    BY <1>4 DEF Clear
  <2>2. ASSUME BarsAbove, NEW k \in 1 .. 8
        PROVE  \A p \in TileBody(k) \cap Pixels : screen'[p] = screen[p]
    <3>1. FontH \in Int
      BY FontAssumption
    <3>2. DOMAIN BarBackground(b) \cap TileBody(k) = {}
      BY <2>2, <3>1, SolidPaint, BarAboveTile
    <3> QED
      BY <2>1, <3>2, DrawOutside
  <2> QED
    BY <1>1, <2>1, <2>2
<1>5. ASSUME NEW b \in Bars, Write(b) PROVE PatternInv'
  <2> DEFINE paint == Str(0, BarY[b], Fg[b], Bg[b], bar[b].buf)
  <2>1. Draw(paint) /\ tile' = tile
    BY <1>5 DEF Write
  <2>2. ASSUME BarsAbove, NEW k \in 1 .. 8
        PROVE  \A p \in TileBody(k) \cap Pixels : screen'[p] = screen[p]
    <3>1. PICK x1 : DOMAIN paint \subseteq Rectangle(0, BarY[b], x1, BarY[b] + FontH - 1)
      BY StrPaint
    <3>2. FontH - 1 \in Int /\ FontH - 1 <= FontH /\ BarY[b] + FontH - 1 = BarY[b] + (FontH - 1)
      BY FontAssumption, BarAssumption
    <3>3. Rectangle(0, BarY[b], x1, BarY[b] + (FontH - 1)) \cap TileBody(k) = {}
      BY <2>2, <3>2, BarAboveTile
    <3> HIDE DEF paint
    <3>4. DOMAIN paint \cap TileBody(k) = {}
      BY <3>1, <3>2, <3>3
    <3> QED
      BY <2>1, <3>4, DrawOutside
  <2> HIDE DEF paint
  <2> QED
    BY <1>1, <2>1, <2>2
<1>6. CASE StartPattern
  BY <1>6 DEF StartPattern, PatternInv
<1>7. CASE DrawTile
  <2>1. /\ tile \in 1 .. 8 /\ tile' = tile + 1
        /\ Draw(Over(TileLabel(tile), Tile(tile)))
    BY <1>7 DEF DrawTile
  <2> SUFFICES ASSUME BarsAbove, NEW k \in 1 .. 8, k < tile + 1
               PROVE  TileShown(k)'
    BY <2>1 DEF PatternInv, BarsAbove
  <2>2. CASE k = tile
    BY <2>1, <2>2, TileDrawn
  <2>3. CASE k < tile
    <3>1. DOMAIN Over(TileLabel(tile), Tile(tile)) \cap TileBody(k) = {}
      BY <2>1, <2>3, SpillsForwards
    <3>2. TileShown(k)
      BY <2>3 DEF PatternInv
    <3> QED
      BY <2>1, <3>1, <3>2, DrawOutside, ShownKept
  <2> QED
    BY <2>1, <2>2, <2>3
<1> QED
  BY <1>2, <1>3, <1>4, <1>5, <1>6, <1>7 DEF Next

(* A finished pattern shows every tile in its colour but for its label, for*)
(* every screen, font and labels, and as often as it is drawn again, while *)
(* bars above it come and go.                                              *)
THEOREM PatternShownAlways == Spec => []PatternShown
<1>1. Init => PatternInv
  BY DEF Init, PatternInv, NotStarted, Finished
<1>2. PatternInv => PatternShown
  <2> SUFFICES ASSUME PatternInv, tile = Finished, BarsAbove, NEW k \in 1 .. 8
               PROVE  TileShown(k)
    BY DEF PatternShown, BarsAbove, TileShown, TileBody
  <2> QED
    BY DEF PatternInv, Finished
<1> QED
  BY <1>1, <1>2, PatternStep, PTL DEF Spec
=============================================================================
