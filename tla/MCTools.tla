------------------------------ MODULE MCTools ------------------------------
(***************************************************************************)
(* The tools and scripts on the image: the memory map of the build and the *)
(* framebuffer tools as in MCDisplay, cvi_pinmux with its own tables on a  *)
(* reCamera whose boot loader has set up the pins, and the scripts of the  *)
(* USB gadget.  None of them reads what another writes: each is followed on*)
(* its own.                                                                *)
(***************************************************************************)
EXTENDS MCDisplay, PinMux, PinTable, UsbGadget

ToolPins == CvPins
ToolTable == CvPinFunc
RegisterValues == 0 .. 7

Name(stem, digits) == [stem |-> stem, digits |-> digits]
D1 == Name("VIVO_D", <<1>>)
D10 == Name("VIVO_D", <<1, 0>>)
Aux0 == Name("AUX", <<0>>)
SpkEn == Name("SPK_EN", <<>>)

(* The registers are 0 after a reset; then cvi_board_init runs.  The value *)
(* of a function is its place among those of the pin.                      *)
BoardValue(p) ==
  LET d == CHOOSE i \in DOMAIN Described : Described[i].name = p
      functions == Described[d].functions
  IN (CHOOSE v \in DOMAIN functions :
        [name |-> p, func |-> functions[v]] \in CviBoardInit) - 1

BoardPins == {set.name : set \in CviBoardInit}

AfterBoardInit ==
  [p \in CvPins |-> IF p \in BoardPins THEN BoardValue(p) ELSE 0]

BootRegisters == {AfterBoardInit}

Argument(p, f) == [pin |-> p, func |-> f]

(* Functions of VIVO_D1, of VIVO_D10 and of both's neighbours, a pin that  *)
(* does not exist, and arguments that lack a part.                         *)
WriteOptions ==
  {Argument(D1, "VI2_D_1"), Argument(D1, "VI1_D_1"), Argument(D1, "PWM_1"),
   Argument(D10, "VI1_D_10"), Argument(D10, "PWM_1"), Argument(D10, "VI2_D_1"),
   Argument(Aux0, "XGPIOA_30"), Argument(Aux0, "AUX0"),
   Argument(SpkEn, "XGPIOA_15"), Argument(Aux0, "PWM_1"),
   Argument(Name("VIVO_D", <<>>), "PWM_1"), Argument(D10, "NONE"),
   Argument(D10, Missing), Argument(Missing, Missing)}

(* Each function the boot loader selects is one the tool knows for the pin.*)
ASSUME BoardFunctionsKnown ==
  \A set \in CviBoardInit :
    set.name \in ToolPins /\ set.func \in FunctionsOf(set.name)

(* Only VIVO_D1 begins another pin's name, and only VIVO_D10 reads like a  *)
(* row.                                                                    *)
ASSUME OnlyVivoAmbiguous == {p \in ToolPins : Ambiguous(p)} = {D1, D10}

ToolsInit == DisplayInit /\ PinInit /\ GadgetInit
ToolsNext ==
  \/ GadgetInit /\ PinInit /\ DisplayNext /\ UNCHANGED <<pinVars, gadgetVars>>
  \/ GadgetInit /\ DisplayInit /\ PinNext /\ UNCHANGED <<vars, mapVars, gadgetVars>>
  \/ PinInit /\ DisplayInit /\ GadgetNext /\ UNCHANGED <<vars, mapVars, pinVars>>
ToolsSpec == ToolsInit /\ [][ToolsNext]_<<vars, mapVars, pinVars, gadgetVars>>
=============================================================================
