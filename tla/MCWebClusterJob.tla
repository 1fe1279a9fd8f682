-------------------------- MODULE MCWebClusterJob ---------------------------
(***************************************************************************)
(* Short sources whose groups are shorter and longer than the four frames  *)
(* a piece is asked to have, some of them off the target rate, and one     *)
(* with more pieces than numbers of one digit in the base of the instance. *)
(***************************************************************************)
EXTENDS WebClusterJob, TLC

CONSTANTS Offset

Group(frames, size) == [frames |-> frames, size |-> size]

Even == << Group(4, 300), Group(2, 150), Group(2, 150) >>
Late == << Group(6, 500), Group(1, 100), Group(3, 600) >>
Three == << Group(4, 300), Group(4, 900), Group(4, 300) >>
Lone == << Group(3, 200) >>
Long == << Group(4, 300), Group(4, 300), Group(4, 900), Group(4, 300) >>

Request(groups, mode, tolerance, bound) ==
  [source |-> [groups |-> groups, offset |-> Offset, codec |-> "h264",
               profile |-> "high", pix_fmt |-> "yuv420p"],
   config |-> [mode |-> mode, encoder |-> "libx264", tolerance |-> tolerance],
   tries |-> bound]

MCRequests ==
  { Request(Even, "smart", 30, 2), Request(Three, "smart", 30, 0), Request(Late, "smart-auto", 30, 2),
    Request(Lone, "smart", 3, 3), Request(Lone, "smart-auto", 3, 0), Request(Long, "smart", 30, 0) }

NodeSymmetry == Permutations(Nodes)
=============================================================================
