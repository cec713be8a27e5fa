------------------------------ MODULE MCDisplay ------------------------------
(* The memory map that is built for a board, and the framebuffer tools     *)
(* that later run on it.                                                   *)
(*                                                                         *)
(* A screen of 24 by 11 pixels: eight columns of three by two pixels, of   *)
(* which fgets fills six, and tiles of three by three.  The first bar is   *)
(* cut by the upper edge of the screen; the second keeps its distance from *)
(* the first and from the pattern, but not a row more.                     *)
EXTENDS Framebuffer, MemoryMap

Y == [upper |-> -1, middle |-> 2]
SomeBarY == [b \in Bars |-> Y[b]]
SomeFg == [b \in Bars |-> "ink"]
SomeBg == [b \in Bars |-> "paper"]

(* A glyph with all bits of its upper row, another with its lower left.    *)
SomeFont == [i |-> <<7, 0>>, j |-> <<0, 4>>, space |-> <<0, 0>>]
Rows == [c \in DOMAIN SomeFont |-> [r \in 0 .. 1 |-> SomeFont[c][r + 1]]]

NoGlyph == "tab"
SomeCharacters == DOMAIN SomeFont \cup {NoGlyph}
(* A short line, the longest that fgets reads at once, and a longer one.   *)
SomeLines == {<<"i", "j">>, <<"j", NoGlyph, "i", "j", "j">>,
              <<"i", "i", "i", "i", "j", "j", "i">>}
SomeLabel == [k \in 1 .. 8 |-> <<"i", "j">>]

(* What happens on the screen does not depend on the map, so one of the    *)
(* maps that can be built is followed to the device.                       *)
OnDevice == build = "built" /\ config = DefaultConfig

DisplayInit == MapInit /\ Init
DisplayNext ==
  \/ Init /\ MapNext /\ UNCHANGED vars
  \/ OnDevice /\ Next /\ UNCHANGED mapVars
DisplaySpec == DisplayInit /\ [][DisplayNext]_<<vars, mapVars>>
=============================================================================
