---------------------------- MODULE MCVolumeManager ----------------------------
(* Two large requests, one that fits in a stride, one of less than a sector  *)
(* and the deletion of a file.                                               *)
EXTENDS VolumeManager

CONSTANTS read, write, short, tiny, deletion

MCSectors == [r \in Requests |->
    CASE r = read -> 5 [] r = write -> 4 [] r = short -> 1 [] OTHER -> 0]
================================================================================
