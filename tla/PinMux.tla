------------------------------- MODULE PinMux -------------------------------
(***************************************************************************)
(* cvi_pinmux, which selects the function of a pin.  A function's name is  *)
(* looked up in a table of rows "pin followed by value", function; pins    *)
(* are compared with the rows as strings, once by prefix and once exactly. *)
(* One run of the tool handles its options one after the other, and the    *)
(* buffers an option is parsed into keep their contents for the next.      *)
(*                                                                         *)
(* A name is split into its stem and the digits it ends with, so that one  *)
(* can begin another as VIVO_D1 begins VIVO_D10.                           *)
(***************************************************************************)
EXTENDS Integers, Sequences, SequencesExt, FiniteSetsExt

CONSTANTS
  Pins,    \* the names in cv181x_pin
  Table,   \* cv181x_pin_func, a sequence of [name, func]
  Values,  \* what a register may hold
  Boot,    \* what the registers may hold when the system is up
  Options, \* the arguments of -w, as [pin, func]
  Missing, \* a part of an argument that is not there
  Garbage  \* what an uninitialised buffer holds, if no name

PinNames == [stem : STRING, digits : Seq(Nat)]

(* strncmp(n, p, strlen(p)) == 0                                           *)
Begins(p, n) == p.stem = n.stem /\ IsPrefix(p.digits, n.digits)

(* The name of a pin's row for value v, and the pin of row i.              *)
Row(p, v) == [p EXCEPT !.digits = Append(@, v)]
Owner(i) == [Table[i].name EXCEPT !.digits = Front(@)]

(* Each row is a name, of a pin that need not be in cv181x_pin, and a value*)
(* of its register, which has one function.                                *)
ASSUME TableAssumption ==
  /\ Values \subseteq Nat /\ Pins \subseteq PinNames
  /\ Boot \subseteq [Pins -> Values]
  /\ Table \in Seq([name : PinNames, func : STRING])
  /\ \A i \in DOMAIN Table :
       Table[i].name.digits # <<>> /\ Last(Table[i].name.digits) \in Values
  /\ \A i, j \in DOMAIN Table : Table[i].name = Table[j].name => i = j

(* No other row for a pin's function begins with the pin's name.           *)
ASSUME FunctionsApart ==
  \A i, j \in DOMAIN Table :
    Table[i].func = Table[j].func /\ Begins(Owner(i), Table[j].name) => i = j

VARIABLES
  reg,      \* the register of each pin
  running,  \* is the tool running
  pin, func \* main's buffers

pinVars == <<reg, running, pin, func>>

PinTexts == ({o.pin : o \in Options} \ {Missing}) \cup {Garbage}
FuncTexts == ({o.func : o \in Options} \ {Missing}) \cup {Garbage}

PinInit ==
  /\ reg \in Boot
  /\ running = FALSE
  /\ pin = Garbage /\ func = Garbage

-----------------------------------------------------------------------------
(* The two lookups.                                                        *)

(* Mutant: the pin is not compared.                                        *)
AnyPin(p, f) == {i \in DOMAIN Table : Table[i].func = f}

(* convert_func_to_value: the rows that strcmp and strncmp accept.         *)
Candidates(p, f) ==
  {i \in DOMAIN Table : Table[i].func = f /\ Begins(p, Table[i].name)}

Convert(p, f) == Last(Table[Min(Candidates(p, f))].name.digits)

(* print_fun: the functions it prints as [v].                              *)
Marked(p, v) ==
  {Table[i].func : i \in {j \in DOMAIN Table : Table[j].name = Row(p, v)}}

-----------------------------------------------------------------------------
(* main.  The buffers are not initialised.                                 *)

Invoke ==
  /\ ~running
  /\ running' = TRUE
  /\ pin' \in PinTexts /\ func' \in FuncTexts
  /\ UNCHANGED reg

(* Mutant: what is missing is stored as well.                              *)
StoresMissing(arg) == pin' = arg.pin /\ func' = arg.func

(* sscanf stops at the first part it does not find.                        *)
Scan(arg) ==
  /\ pin' = IF arg.pin = Missing THEN pin ELSE arg.pin
  /\ func' = IF Missing \in {arg.pin, arg.func} THEN func ELSE arg.func

(* devmem_writel: a /dev/mem that cannot be opened or mapped is reported,  *)
(* and nothing is written.                                                 *)
DevmemWrite(p, v) == reg' \in {reg, [reg EXCEPT ![p] = v]}

(* -w: an unknown pin is reported, an unknown function ends the run.       *)
WriteOption(arg) ==
  /\ running
  /\ Scan(arg)
  /\ IF pin' \notin Pins
       THEN UNCHANGED <<reg, running>>
       ELSE IF Candidates(pin', func') = {}
         THEN running' = FALSE /\ UNCHANGED reg
         ELSE /\ DevmemWrite(pin', Convert(pin', func'))
              /\ UNCHANGED running

(* -r, -l, -p and -h only print.  The last option ends the run.            *)
Return ==
  /\ running
  /\ running' = FALSE
  /\ UNCHANGED <<reg, pin, func>>

PinNext ==
  \/ Invoke
  \/ \E arg \in Options : WriteOption(arg)
  \/ Return

PinSpec == PinInit /\ [][PinNext]_pinVars

-----------------------------------------------------------------------------
(* Properties.                                                             *)

PinTypeOK ==
  /\ reg \in [Pins -> Values]
  /\ running \in BOOLEAN
  /\ pin \in PinTexts /\ func \in FuncTexts

(* The functions a pin really has.                                         *)
FunctionsOf(p) == UNION {Marked(p, v) : v \in Values}

Changed(p) == reg'[p] # reg[p]

(* -w pin/func for a function the pin has, then -r pin, shows that function*)
(* and no other: the lookup by prefix and the exact one agree, although one*)
(* pin's name may begin another's, a row may read like a pin, and several  *)
(* pins may have the function.                                             *)
WriteThenRead ==
  [][reg' # reg =>
       \A p \in Pins : Changed(p) /\ func' \in FunctionsOf(p)
         => Marked(p, reg'[p]) = {func'}]_pinVars

(* A pin is ambiguous when its name begins another pin's, or is itself a   *)
(* row of another pin.                                                     *)
Ambiguous(p) ==
  \E i \in DOMAIN Table :
    Table[i].name = p \/ (Owner(i) # p /\ Begins(p, Owner(i)))

(* A pin is only ever set to a function of its own, whatever the arguments *)
(* and whatever earlier ones left in the buffers.  Ambiguous pins are      *)
(* exempt: VIVO_D1 takes VIVO_D10's functions for its own.                 *)
ForeignRefused ==
  [][reg' # reg =>
       \A p \in Pins : Changed(p) /\ ~Ambiguous(p)
         => func' \in FunctionsOf(p)]_pinVars
=============================================================================
