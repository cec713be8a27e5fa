---------------------------- MODULE MCCameraPage ----------------------------
(* A picture with a person and one with nobody.                            *)
EXTENDS CameraPage

SomeScenes ==
  {[frame |-> "street", results |-> Empty],
   [frame |-> "visitor", results |-> "person"]}
=============================================================================
