\* The display, the pin multiplexer and the USB gadget, each followed on its own.
\* Of the classes cvg is left out, which is counted as mass_storage is.
SPECIFICATION ToolsSpec
CONSTANTS
  Xres = 24
  Yres = 11
  FontW = 3
  FontH = 2
  Font <- Rows
  Bars = {"upper", "middle"}
  BarY <- SomeBarY
  Fg <- SomeFg
  Bg <- SomeBg
  Characters <- SomeCharacters
  Lines <- SomeLines
  Newline = "newline"
  Space = "space"
  Label <- SomeLabel
  Heaps = {0, 2, 75, 208, 209, 214, 215}
  Pins <- ToolPins
  Table <- ToolTable
  Values <- RegisterValues
  Boot <- BootRegisters
  Options <- WriteOptions
  Missing = Missing
  Garbage = Garbage
  Classes = {"acm", "mass_storage", "ncm", "rndis", "uvc", "uac1", "ffs.adb"}
  MaxEp = 4
  Obligations = {"adb-last", "probe-unbound", "udc-for-adb"}
INVARIANTS TypeOK NothingStray BarShowsLine PatternShown MapSound PinTypeOK
INVARIANTS GadgetTypeOK StartsWhole StopLeavesMountsOnly CompositeDevice
PROPERTIES WriteThenRead ForeignRefused AcceptedComesUp
