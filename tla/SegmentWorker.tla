---------------------------- MODULE SegmentWorker ----------------------------
(***************************************************************************)
(* The worker process (worker/src/main.rs) on the segments of Segmenter:   *)
(* for each segment it reads packets, decodes, keeps the frames of the     *)
(* segment, encodes them and copies the audio.  The processes of different *)
(* segments share nothing, so they are taken here in the order of the      *)
(* segments; CoordinatorPipeline has their interleavings and failures.     *)
(*                                                                         *)
(* A file holds a video packet and an audio packet per frame.  The decoder *)
(* returns a frame only when Delay later ones have entered it, in order;   *)
(* the encoder and the muxer are the sequence of what they are given: the  *)
(* p-th frame of out[k] has time stamp p - 1 (process_frame counts).       *)
(***************************************************************************)
EXTENDS Segmenter, FiniteSets

CONSTANTS
  Modes,     \* of "seek" (the full source), "split" and "copy" (a cut file)
  Delay,     \* frames the decoder holds back
  Near,      \* the last tick within a tenth of a second of time zero
  HwDecode,  \* --hw-decode: frames come through av_hwframe_transfer_data
  MaxLost    \* bound: transfers that fail

ASSUME WorkerAssumption ==
  /\ Modes \subseteq {"seek", "split", "copy"}
  /\ Delay \in Nat /\ Near \in Nat /\ MaxLost \in Nat
  /\ HwDecode \in BOOLEAN

VARIABLES
  mode,      \* --presplit, --copy
  phase,     \* of the current process: "open", "read", "flush" or "end"
  next,      \* the next packet of its input
  held,      \* the frames inside the decoder
  reached,   \* reached_segment
  out,       \* out[k]: the video frames in the output of segment k, in order
  sound,     \* sound[k]: its audio packets, [frame, at]
  lost       \* frames whose transfer failed

workerVars == <<mode, phase, next, held, reached, out, sound, lost>>
vars == <<segVars, workerVars>>

Here == segs[Len(out)]

(* presplit_segments: ffmpeg -ss from -to to -c copy.  Both times count     *)
(* from the start of the file, so frame f is at f; the cut starts at the    *)
(* key frame at or before the first and ends before the second.             *)
KeysUpTo(t) == { i \in 1..Len(src.keys) : src.keys[i] <= t }
LastOf(I) == CHOOSE i \in I : \A k \in I : k <= i
SeekTo(t) == IF KeysUpTo(t) = {} THEN 0 ELSE src.keys[LastOf(KeysUpTo(t))]

FirstPacket(g) ==
  CASE mode # "seek" -> SeekTo(g.from)
    [] mode = "seek" /\ g.from > Near -> SeekTo(g.from - src.offset)
    [] OTHER -> 0

(* Mutant: a cut past the end of the source is as long as was asked for. *)
EndOfInputAsAsked(g) == IF mode = "seek" THEN src.frames ELSE g.to

EndOfInput(g) ==
  IF mode = "seek" \/ g.to > src.frames THEN src.frames ELSE g.to

(* The instant output frame 0 stands for (video_origin_secs). *)
Origin(g) == IF mode = "seek" THEN g.from ELSE Time(SeekTo(g.from))

Init ==
  /\ SegInit
  /\ mode \in Modes
  /\ phase = "end" /\ next = 0 /\ held = <<>> /\ reached = FALSE
  /\ out = <<>> /\ sound = <<>> /\ lost = {}

(* The fast analysis goes with cut files, the full one with the full source. *)
Segmenting ==
  /\ \/ mode = "seek" /\ AnalyzeFull
     \/ mode # "seek" /\ AnalyzeFast
     \/ Start \/ CutRest \/ CutAtNearest \/ CutAtNext
  /\ UNCHANGED workerVars

(* The process of the next segment opens its input, adds its output streams *)
(* and seeks.                                                               *)
Open ==
  /\ pc = "done" /\ phase = "end" /\ Len(out) < Len(segs)
  /\ LET g == segs[Len(out) + 1] IN
       /\ next' = FirstPacket(g)
       /\ reached' = (mode # "seek" \/ g.from <= Near)
  /\ phase' = "read" /\ held' = <<>>
  /\ out' = Append(out, <<>>) /\ sound' = Append(sound, {})
  /\ UNCHANGED <<segVars, mode, lost>>

-----------------------------------------------------------------------------
(* One packet *)

Put(f) == out' = [out EXCEPT ![Len(out)] = Append(@, f)] /\ UNCHANGED lost
Skip == UNCHANGED <<out, lost>>

(* The transfer from the GPU fails: a warning, and the frame is skipped.    *)
(* The coordinator asks for hardware decoding of cut files only.            *)
TransferFails(f) ==
  /\ HwDecode /\ mode = "split"
  /\ Cardinality(lost) < MaxLost
  /\ lost' = lost \union {f}
  /\ UNCHANGED out

(* Mutant: the window of copy_audio_packet is taken to be the file's. *)
CopyAudioUnbased(f) ==
  LET g == Here
      inWindow == mode # "seek" \/ (g.from <= Time(f) /\ Time(f) <= g.to)
  IN sound' = IF inWindow
              THEN [sound EXCEPT ![Len(out)] = @ \union {[frame |-> f, at |-> Time(f)]}]
              ELSE sound

(* copy_audio_packet: dropped outside the window of the segment when the    *)
(* input is the full source, re-based, and dropped if before the origin.    *)
CopyAudio(f) ==
  LET g == Here
      at == Time(f) - Origin(g)
      inWindow == mode # "seek" \/ (g.from <= Time(f) /\ Time(f) <= g.to)
  IN sound' = IF inWindow /\ at >= 0
              THEN [sound EXCEPT ![Len(out)] = @ \union {[frame |-> f, at |-> at]}]
              ELSE sound

(* Mutant: the end of the segment is not looked at while reading. *)
DecodedPastEnd(f) ==
  LET g == Here IN
    /\ reached' = (reached \/ Time(f) >= g.from)
    /\ IF reached' THEN Put(f) ELSE Skip

(* A frame leaves the decoder in the reading loop.  Past the end of the     *)
(* segment it is dropped; reading goes on to the end of the file.           *)
Decoded(f) ==
  \/ TransferFails(f) /\ UNCHANGED reached
  \/ LET g == Here IN
       /\ reached' = (reached \/ Time(f) >= g.from)
       /\ \/ mode = "split" /\ Put(f)
          \/ mode = "seek" /\ reached' /\ Time(f) <= g.to /\ Put(f)
          \/ mode = "seek" /\ (~reached' \/ Time(f) > g.to) /\ Skip

(* Mutant: a packet the full decoder does not take is dropped. *)
ReadPacketRefused ==
  /\ phase = "read" /\ next < EndOfInput(Here)
  /\ next' = next + 1
  /\ CopyAudio(next)
  /\ \/ /\ mode = "copy"
        /\ Put(next) /\ UNCHANGED <<held, reached>>
     \/ /\ mode # "copy" /\ Len(held) < Delay
        /\ held' = Append(held, next)
        /\ Skip /\ UNCHANGED reached
     \/ /\ mode # "copy" /\ Len(held) >= Delay
        /\ held' = Tail(held)
        /\ Decoded(Head(held))
  /\ UNCHANGED <<segVars, mode, phase>>

ReadPacket ==
  /\ phase = "read" /\ next < EndOfInput(Here)
  /\ next' = next + 1
  /\ CopyAudio(next)
  /\ \/ /\ mode = "copy"                     \* copy_segment: no decoder
        /\ Put(next) /\ UNCHANGED <<held, reached>>
     \/ /\ mode # "copy" /\ Len(held) < Delay
        /\ held' = Append(held, next)
        /\ Skip /\ UNCHANGED reached
     \/ /\ mode # "copy" /\ Len(held) >= Delay
        /\ held' = Tail(Append(held, next))
        /\ Decoded(Head(Append(held, next)))
  /\ UNCHANGED <<segVars, mode, phase>>

(* Mutant: reading goes on until a frame of the segment has been seen. *)
EndOfFileReached ==
  /\ phase = "read" /\ next >= EndOfInput(Here) /\ reached
  /\ phase' = "flush"
  /\ UNCHANGED <<segVars, mode, next, held, reached, out, sound, lost>>

EndOfFile ==
  /\ phase = "read" /\ next >= EndOfInput(Here)
  /\ phase' = "flush"
  /\ UNCHANGED <<segVars, mode, next, held, reached, out, sound, lost>>

(* Mutant: what the decoder still holds is not asked for. *)
FlushNothing ==
  /\ phase = "flush"
  /\ phase' = "end" /\ held' = <<>>
  /\ UNCHANGED <<segVars, mode, next, reached, out, sound, lost>>

(* Flush decoder: a frame of a segment that was not reached while reading   *)
(* is skipped, a frame past the end ends the loop.                          *)
Flush ==
  /\ phase = "flush"
  /\ \/ /\ held = <<>>
        /\ phase' = "end"
        /\ Skip /\ UNCHANGED held
     \/ /\ held # <<>> /\ mode = "seek" /\ reached /\ Time(Head(held)) > Here.to
        /\ phase' = "end" /\ held' = <<>>
        /\ Skip
     \/ /\ held # <<>>
        /\ held' = Tail(held)
        /\ \/ TransferFails(Head(held))
           \/ mode # "seek" /\ Put(Head(held))
           \/ mode = "seek" /\ ~reached /\ Skip
           \/ mode = "seek" /\ reached /\ Time(Head(held)) <= Here.to /\ Put(Head(held))
        /\ UNCHANGED phase
  /\ UNCHANGED <<segVars, mode, next, reached, sound>>

WorkerNext == Open \/ ReadPacket \/ EndOfFile \/ Flush

Next == Segmenting \/ WorkerNext

Spec == Init /\ [][Next]_vars /\ WF_vars(Next)

-----------------------------------------------------------------------------
(* Properties *)

Ended == pc = "done" /\ Len(out) = Len(segs) /\ phase = "end"
FramesOf(k) == { out[k][p] : p \in 1..Len(out[k]) }

(* A segment the worker must get whole: the frames after its start outlast  *)
(* the decoder's delay, and the source starts at time zero, so that the     *)
(* last segment's end, the duration, is the end of the source too.          *)
Plain(k) ==
  /\ src.offset = 0
  /\ lost = {}
  /\ mode = "seek" => segs[k].from <= Near \/ src.frames - segs[k].first > Delay

WorkerTypeOK ==
  /\ mode \in Modes
  /\ phase \in {"read", "flush", "end"}
  /\ next \in 0..src.frames
  /\ held \in Seq(0..src.frames)
  /\ reached \in BOOLEAN
  /\ out \in Seq(Seq(0..src.frames)) /\ Len(out) <= Len(segs)
  /\ sound \in Seq(SUBSET [frame : 0..src.frames, at : Nat]) /\ Len(sound) = Len(out)
  /\ lost \subseteq 0..src.frames

(* Every frame the segmenter gave to a segment is in its output, whatever   *)
(* the decoder held when the input ended.                                   *)
NoFrameLost ==
  Ended => \A k \in 1..Len(segs) :
    Plain(k) => { f \in 0..src.frames - 1 :
                    segs[k].first <= f /\ f <= segs[k].last } \subseteq FramesOf(k)

(* A frame is in two outputs only when it is the frame the second starts    *)
(* with, which the inclusive end of the window takes for the first as well, *)
(* or lies in the first tenth of a second of the source; a cut file never   *)
(* gives it twice.                                                          *)
OnlyBoundariesTwice ==
  Ended => \A k, l \in 1..Len(segs) : \A f \in FramesOf(k) \intersect FramesOf(l) :
    k < l /\ src.offset = 0 =>
      mode = "seek" /\ (f = segs[l].first \/ segs[l].from <= Near)

(* Within an output the frames are consecutive and in order unless the      *)
(* transfer of one failed.                                                  *)
InOrderWithoutGaps ==
  \A k \in 1..Len(out) : \A p \in 1..Len(out[k]) - 1 :
    /\ out[k][p] < out[k][p + 1]
    /\ \A f \in out[k][p] + 1 .. out[k][p + 1] - 1 : f \in lost

(* Audio stays with its frame: an audio packet is written at the time its   *)
(* frame gets in the same output, unless frames were skipped before it or   *)
(* the segment starts so early that the frames before it were kept.         *)
AudioInSync ==
  Ended /\ lost = {} =>
    \A k \in 1..Len(segs) : \A a \in sound[k] : \A p \in 1..Len(out[k]) :
      out[k][p] = a.frame /\ (mode = "seek" => segs[k].from > Near \/ segs[k].from <= src.offset)
        => a.at = p - 1

(* Every segment is encoded in the end. *)
AllEncoded == <>(pc = "failed" \/ Ended)
=============================================================================
