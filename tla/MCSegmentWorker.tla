--------------------------- MODULE MCSegmentWorker ---------------------------
(***************************************************************************)
(* Videos of a few frames with every set of key frames, at offset 0 and    *)
(* one later, cut at every target from 0 to a length no segment reaches.   *)
(***************************************************************************)
EXTENDS SegmentWorker, SequencesExt

CONSTANTS Lengths, Offsets

MCSources ==
  UNION { { [frames |-> n, keys |-> SetToSortSeq(K, LAMBDA a, b : a < b), offset |-> o] :
              K \in SUBSET (0 .. n - 1), o \in Offsets } : n \in Lengths }
=============================================================================
