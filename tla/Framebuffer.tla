----------------------------- MODULE Framebuffer -----------------------------
(***************************************************************************)
(* The framebuffer tools.  Any number of fbbar processes, each showing the *)
(* lines of its standard input in a bar of text, and fbpattern, a test     *)
(* pattern, draw on the same memory.  A drawing operation is a paint: the  *)
(* pixels it stores to, each with its colour.  Coordinates are ints;       *)
(* draw_pixel clips what is left of them in 16 bits and stores at the      *)
(* address of all of them.                                                 *)
(***************************************************************************)
EXTENDS Integers, Sequences

CONSTANTS
  Xres, Yres,    \* var_info
  FontW, FontH,  \* the size of a character
  Font,          \* the rows of each code point that has a glyph, as bits
  Bars,          \* the fbbar processes,
  BarY,          \*   the first row of each,
  Fg, Bg,        \*   and its colours
  Characters,
  Lines,         \* lines of text that may be written to a bar
  Newline,       \* the character that ends them
  Space,
  Label          \* the text on each tile of the pattern

ASSUME ScreenAssumption ==
  /\ Xres \in Nat \ {0} /\ Xres < 65536
  /\ Yres \in Nat \ {0} /\ Yres < 65536

(* fbbar never returns from fgets on a narrower screen.                    *)
ASSUME FontAssumption ==
  /\ FontW \in Nat \ {0} /\ FontH \in Nat \ {0}
  /\ Xres \div FontW > 2

ASSUME TextAssumption ==
  /\ Newline \notin DOMAIN Font /\ Space \in Characters
  /\ Lines \subseteq Seq(Characters)

ASSUME BarAssumption == BarY \in [Bars -> Int]

(* The labels end within what 16 bits can tell.                            *)
ASSUME LabelAssumption ==
  /\ Label \in [1 .. 8 -> Seq(Characters)]
  /\ Yres + FontH <= 65536
  /\ \A k \in 1 .. 8 : Xres + Len(Label[k]) * FontW <= 65536

VARIABLES
  screen,  \* the colour of each pixel
  stray,   \* has anything been stored beside the screen
  bar,     \* the state of each fbbar
  tile     \* the tile fbpattern draws next

vars == <<screen, stray, bar, tile>>

Pixels == (0 .. Xres - 1) \X (0 .. Yres - 1)
Rectangle(x0, y0, x1, y1) == (x0 .. x1) \X (y0 .. y1)

-----------------------------------------------------------------------------
(* fbabgr8888.h                                                            *)

U16(n) == n % 65536

(* Mutant: the first pixel after the end of a row and a column gets through.*)
ClipsLate(p) == U16(p[1]) <= Xres /\ U16(p[2]) <= Yres

(* draw_pixel does not return early.                                       *)
Clip(p) == U16(p[1]) < Xres /\ U16(p[2]) < Yres

(* A paint reaches the screen, or else memory that is not part of it.      *)
Draw(paint) ==
  /\ screen' = [p \in Pixels |->
       IF p \in DOMAIN paint /\ Clip(p) THEN paint[p] ELSE screen[p]]
  /\ stray' = (stray \/ \E p \in DOMAIN paint \ Pixels : Clip(p))

(* One paint after another.                                                *)
Over(later, paint) ==
  [p \in DOMAIN later \cup DOMAIN paint |->
     IF p \in DOMAIN later THEN later[p] ELSE paint[p]]

Solid(x0, y0, x1, y1, colour) == [p \in Rectangle(x0, y0, x1, y1) |-> colour]

Bit(row, n) == (row \div 2^n) % 2 = 1
Lit(c, xf, yf) == Bit(Font[c][yf], FontW - xf)

(* The pixels of a string; a character without a glyph takes its room and  *)
(* draws nothing.                                                          *)
CharAt(x, s, p) == s[(p[1] - x) \div FontW + 1]
Str(x, y, fg, bg, s) ==
  [p \in {q \in Rectangle(x, y, x + Len(s) * FontW - 1, y + FontH - 1) :
            CharAt(x, s, q) \in DOMAIN Font} |->
     IF Lit(CharAt(x, s, p), (p[1] - x) % FontW, p[2] - y) THEN fg ELSE bg]

-----------------------------------------------------------------------------
(* fbbar                                                                   *)

Columns == Xres \div FontW

(* Mutant: the end of the string has no room in the buffer.                *)
ForgetsTheEnd == Columns

(* What fgets may read at once: its size argument is one less than the     *)
(* buffer's, and the last byte is for the end of the string.               *)
FgetsLimit == Columns - 2

NoLine == <<Newline>>

(* fgets: text waits on standard input, the first part of it is read.      *)
Fgets(b, line, text) ==
  LET n == IF Len(text) < FgetsLimit THEN Len(text) ELSE FgetsLimit
  IN bar' = [bar EXCEPT ![b] =
       [stage |-> "clear", line |-> line,
        buf |-> SubSeq(text, 1, n),
        rest |-> SubSeq(text, n + 1, Len(text))]]

ReadLine(b) ==
  /\ bar[b].stage = "read" /\ bar[b].rest = <<>>
  /\ \E line \in Lines : Fgets(b, line, Append(line, Newline))
  /\ UNCHANGED <<screen, stray, tile>>

ReadRest(b) ==
  /\ bar[b].stage = "read" /\ bar[b].rest # <<>>
  /\ Fgets(b, bar[b].line, bar[b].rest)
  /\ UNCHANGED <<screen, stray, tile>>

Eof(b) ==
  /\ bar[b].stage = "read" /\ bar[b].rest = <<>>
  /\ bar' = [bar EXCEPT ![b].stage = "exited"]
  /\ UNCHANGED <<screen, stray, tile>>

(* A read error is reported, and what memset has put into the buffer drawn.*)
FgetsFails(b) ==
  /\ bar[b].stage = "read" /\ bar[b].rest = <<>>
  /\ bar' = [bar EXCEPT ![b] =
       [stage |-> "clear", line |-> NoLine,
        buf |-> [i \in 1 .. Columns - 1 |-> Space], rest |-> <<>>]]
  /\ UNCHANGED <<screen, stray, tile>>

(* Mutant: only what the text will cover is cleared.                       *)
ClearsTextOnly(b) ==
  Solid(0, BarY[b], Len(bar[b].buf) * FontW, BarY[b] + FontH, Bg[b])

BarBackground(b) == Solid(0, BarY[b], Xres, BarY[b] + FontH, Bg[b])

Clear(b) ==
  /\ bar[b].stage = "clear"
  /\ Draw(BarBackground(b))
  /\ bar' = [bar EXCEPT ![b].stage = "write"]
  /\ UNCHANGED tile

Write(b) ==
  /\ bar[b].stage = "write"
  /\ Draw(Str(0, BarY[b], Fg[b], Bg[b], bar[b].buf))
  /\ bar' = [bar EXCEPT ![b].stage = "read"]
  /\ UNCHANGED tile

-----------------------------------------------------------------------------
(* fbpattern: eight tiles in the lower corners, each with its label.       *)

PatSize == Xres \div 8
Names == <<"RED", "GREEN", "BLUE", "WHITE", "VLINE", "HLINE", "CHESS", "BLACK">>

(* The upper left corner of each tile.                                     *)
TileX(k) == (IF k > 4 THEN Xres - 2 * PatSize ELSE 0) + ((k + 1) % 2) * PatSize
TileY(k) == Yres - (IF k \in {1, 2, 5, 6} THEN 2 ELSE 1) * PatSize

TileColour(k, p) ==
  LET Striped(n) == IF n % 2 = 1 THEN "BLACK" ELSE "WHITE"
  IN CASE Names[k] = "VLINE" -> Striped(p[1])
       [] Names[k] = "HLINE" -> Striped(p[2])
       [] Names[k] = "CHESS" -> Striped(p[1] + p[2])
       [] OTHER -> Names[k]

(* Lines and solids include their last row and column; loops do not.       *)
TileArea(k) ==
  Rectangle(TileX(k), TileY(k),
    TileX(k) + PatSize - (IF Names[k] \in {"VLINE", "CHESS"} THEN 1 ELSE 0),
    TileY(k) + PatSize - (IF Names[k] \in {"HLINE", "CHESS"} THEN 1 ELSE 0))

Tile(k) == [p \in TileArea(k) |-> TileColour(k, p)]
TileLabel(k) == Str(TileX(k), TileY(k), "BLACK", "WHITE", Label[k])

NotStarted == 0
Finished == 9

StartPattern ==
  /\ tile \in {NotStarted, Finished}
  /\ tile' = 1
  /\ UNCHANGED <<screen, stray, bar>>

(* Mutant: the tiles in the opposite order.                                *)
DrawsBackwards ==
  /\ tile \in 1 .. 8
  /\ Draw(Over(TileLabel(9 - tile), Tile(9 - tile)))
  /\ tile' = tile + 1
  /\ UNCHANGED bar

DrawTile ==
  /\ tile \in 1 .. 8
  /\ Draw(Over(TileLabel(tile), Tile(tile)))
  /\ tile' = tile + 1
  /\ UNCHANGED bar

-----------------------------------------------------------------------------
Init ==
  /\ screen = [p \in Pixels |-> "blank"]
  /\ stray = FALSE
  /\ bar = [b \in Bars |->
       [stage |-> "read", line |-> NoLine, buf |-> <<>>, rest |-> <<>>]]
  /\ tile = NotStarted

Next ==
  \/ \E b \in Bars : \/ ReadLine(b) \/ ReadRest(b) \/ FgetsFails(b) \/ Eof(b)
                     \/ Clear(b) \/ Write(b)
  \/ StartPattern \/ DrawTile

Spec == Init /\ [][Next]_vars

-----------------------------------------------------------------------------
(* Properties.                                                             *)

Colours == {"blank", "WHITE"} \cup {Names[k] : k \in 1 .. 8}
             \cup {Fg[b] : b \in Bars} \cup {Bg[b] : b \in Bars}

Text == Seq(Characters \cup {Newline})

BarState == [stage : {"read", "clear", "write", "exited"},
             line : Lines \cup {NoLine}, buf : Text, rest : Text]

(* The variables keep their types, and a text and its end fit the buffer,  *)
(* whatever is read and however it is cut.                                 *)
TypeOK ==
  /\ screen \in [Pixels -> Colours]
  /\ stray \in BOOLEAN
  /\ bar \in [Bars -> BarState]
  /\ \A b \in Bars : Len(bar[b].buf) < Columns
  /\ tile \in NotStarted .. Finished

(* The rows 16 bits tell from those of the screen.                         *)
InRange(y) == y >= Yres - 65536 /\ y + FontH < 65536

(* Clipping keeps every store on the screen, also that of a bar that is    *)
(* partly or wholly above or below it, as long as its row fits 16 bits.    *)
NothingStray == (\A b \in Bars : InRange(BarY[b])) => ~stray

(* Nothing else draws on the rows of b: a bar clears a row more than it    *)
(* writes, and so do the tiles.                                            *)
Undisturbed(b) ==
  /\ \A c \in Bars \ {b} :
       BarY[c] + FontH < BarY[b] \/ BarY[b] + FontH <= BarY[c]
  /\ BarY[b] + FontH <= Yres - 2 * PatSize

(* The line and its newline are read at once.                              *)
Short(line) == Len(line) < FgetsLimit

BarPixels(b) == Rectangle(0, BarY[b], Xres - 1, BarY[b] + FontH - 1) \cap Pixels

(* A bar shows the last line written to it, and nothing of an earlier one, *)
(* whatever other bars and the pattern draw at the same time elsewhere.    *)
ShowsLine(b) ==
  \A p \in BarPixels(b) :
    LET i == p[1] \div FontW + 1
        line == bar[b].line
    IN screen[p] = IF /\ i \in DOMAIN line /\ line[i] \in DOMAIN Font
                      /\ Lit(line[i], p[1] % FontW, p[2] - BarY[b])
                     THEN Fg[b] ELSE Bg[b]

BarShowsLine ==
  \A b \in Bars :
    bar[b].stage = "read" /\ bar[b].line # NoLine /\ Short(bar[b].line)
      /\ Undisturbed(b)
        => ShowsLine(b)

(* The finished pattern shows every tile whole, in its colour but for its  *)
(* own label, although tiles are drawn a pixel too large and labels spill  *)
(* over the tiles beside and below them.                                   *)
PatternShown ==
  tile = Finished /\ (\A b \in Bars : BarY[b] + FontH < Yres - 2 * PatSize) =>
    \A k \in 1 .. 8 :
      \A p \in (Rectangle(TileX(k), TileY(k), TileX(k) + PatSize - 1,
                          TileY(k) + PatSize - 1) \cap Pixels) \ DOMAIN TileLabel(k) :
        screen[p] = TileColour(k, p)

(* A character looks as the font draws it: the highest of the FontW bits   *)
(* of a row is its first pixel.                                            *)
AsInFont(b) ==
  \A p \in BarPixels(b) :
    LET i == p[1] \div FontW + 1
        line == bar[b].line
    IN i \in DOMAIN line /\ line[i] \in DOMAIN Font =>
         (screen[p] = Fg[b] <=>
            Bit(Font[line[i]][p[2] - BarY[b]], FontW - 1 - (p[1] % FontW)))

GlyphsWhole ==
  \A b \in Bars :
    bar[b].stage = "read" /\ bar[b].line # NoLine /\ Short(bar[b].line)
      /\ Undisturbed(b)
        => AsInFont(b)
=============================================================================
