----------------------------- MODULE MCStartup -----------------------------
(***************************************************************************)
(* Instances of Startup for TLC.  The factory image and its updates expect *)
(* different file systems, as the releases before and after the change to  *)
(* f2fs do, or all the same.                                               *)
(***************************************************************************)
EXTENDS Startup, MCFirmwareUpdate

FsChanges == [i \in Images |-> IF i = Factory THEN "ext4" ELSE "f2fs"]
FsStays == [i \in Images |-> "f2fs"]
=============================================================================
