--------------------------- MODULE MCWebLocalJob ---------------------------
(***************************************************************************)
(* A source of nine frames in four groups of different rates, cut at every *)
(* combination of them (with an offset, into at most three segments); and  *)
(* one with a group of a single frame, with a profile that some encoders   *)
(* cannot copy.  With Base = Width = 2 the names of four segments have     *)
(* their digits.                                                           *)
(***************************************************************************)
EXTENDS WebLocalJob

CONSTANTS Flags

Group(frames, size) == [frames |-> frames, size |-> size]
Long == << Group(2, 100), Group(2, 60), Group(2, 128), Group(3, 600) >>
Short == << Group(2, 100), Group(1, 50), Group(2, 100) >>

Source(groups, starts, offset, profile) ==
  [groups |-> groups, starts |-> starts, offset |-> offset,
   codec |-> "h264", profile |-> profile, pix_fmt |-> "yuv420p"]

Invocation(flags, format, encoder, most) ==
  [flags |-> flags, format |-> format, encoder |-> encoder, tolerance |-> most]

Cuts == { Source(Long, S \union {1}, 0, "main") : S \in SUBSET {2, 3, 4} }
          \union { Source(Long, {1} \union S, 2, "main") : S \in SUBSET {2, 3, 4} \ {{2, 3, 4}} }
Thirds == Source(Long, {1, 2, 4}, 0, "main")
Lone == Source(<<Group(2, 100)>>, {1}, 0, "main")
HighProfile == Source(Short, {1, 2, 3}, 0, "high")

MCLaunches ==
  { [video |-> v, args |-> Invocation({"smart"}, "hls", "libx264", 30)] : v \in Cuts }
    \union { [video |-> Thirds, args |-> Invocation(f, "hls", "libx264", 30)] : f \in Flags }
    \union { [video |-> HighProfile, args |-> Invocation({"smart"}, "mp4", e, 30)] :
               e \in {"libx264", "h264_videotoolbox"} }
    \union { [video |-> Lone, args |-> Invocation({"smart-auto"}, f, "libx264", 3)] :
               f \in {"mp4", "avi"} }
    \union { [video |-> Lone, args |-> Invocation({"fast"}, "avi", "libx264", 30)] }

MCFlags == { {}, {"fast"}, {"copy"}, {"smart"}, {"smart-auto"}, {"smart-report"} }
BothFlags == { {"copy", "smart"}, {"copy", "smart-auto"} }
=============================================================================
