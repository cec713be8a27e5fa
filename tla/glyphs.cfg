SPECIFICATION DisplaySpec
CONSTANTS
  Xres = 24
  Yres = 11
  FontW = 3
  FontH = 2
  Font <- Rows
  Bars = {"upper", "middle"}
  BarY <- SomeBarY
  Fg <- SomeFg
  Bg <- SomeBg
  Characters <- SomeCharacters
  Lines <- SomeLines
  Newline = "newline"
  Space = "space"
  Label <- SomeLabel
  Heaps = {0, 2, 75, 208, 209, 214, 215}
INVARIANT GlyphsWhole
