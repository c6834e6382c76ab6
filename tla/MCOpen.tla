-------------------------------- MODULE MCOpen --------------------------------
(* Small instances of OpenDatabase: apps of two or three versions.         *)
EXTENDS OpenDatabase, TLC
CONSTANTS old, new, newer
Apps  == old :> 1 @@ new :> 2
Apps3 == old :> 1 @@ new :> 2 @@ newer :> 3
=============================================================================
