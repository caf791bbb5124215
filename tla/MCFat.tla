------------------------------- MODULE MCFat -------------------------------
(* Instances of the disk file system for TLC.  A device either writes in   *)
(* order, with the table over two sectors, or has a write cache, with all  *)
(* the entries in use in one sector of the table; MCSplit has both the     *)
(* cache and the two sectors.                                              *)
EXTENDS Fat

MCWidth == "f" :> 1 @@ "g" :> 1 @@ "d" :> 2
OneSector == [c \in Clus |-> 0]
TwoSectors == [c \in Clus |-> IF c <= 3 THEN 0 ELSE 1]
MCDevices == {[cache |-> FALSE, fatsec |-> TwoSectors],
              [cache |-> TRUE, fatsec |-> OneSector]}
MCSplit == {[cache |-> TRUE, fatsec |-> TwoSectors]}

MCWrites == {<<0, 1>>, <<0, 3>>, <<2, 1>>}
Vol(f, g, long) == [size |-> "f" :> f @@ "g" :> g, long |-> long]
MCVolumes == {Vol(1, 0, {}), Vol(2, -1, {"f"}), Vol(-1, 2, {})}
MCTwoFiles == {Vol(1, 0, {})}
=============================================================================
