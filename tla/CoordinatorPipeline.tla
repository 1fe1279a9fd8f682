------------------------- MODULE CoordinatorPipeline -------------------------
(***************************************************************************)
(* The coordinator process (coordinator/src/main.rs) after the analysis:   *)
(* cut the source, decide per segment, run the workers, put the output     *)
(* together.  Two pools run child processes concurrently: at most          *)
(* Splitters ffmpeg processes that cut, at most Workers workers that       *)
(* encode; both are buffer_unordered streams whose results are collected   *)
(* in the order in which the children end.                                 *)
(*                                                                         *)
(* A file's content is the segment whose frames it holds and whether they  *)
(* were copied or encoded; Segmenter says where segments begin and         *)
(* SegmentWorker what is in one.  The children of phase 4 (subtitles,      *)
(* concat) are part of the step that assembles, and subtitles are left out. *)
(***************************************************************************)
EXTENDS SegmentPlan, FileNames

CONSTANTS
  Launches,   \* video (groups, offset, starts, codec, profile, pix_fmt)
              \* and args (flags, format, encoder, tolerance)
  Splitters,  \* 8 in the code
  Workers     \* --workers

ASSUME PipelineAssumption ==
  /\ Splitters \in Nat \ {0} /\ Workers \in Nat \ {0}
  /\ \A l \in Launches :
       /\ l = [video |-> l.video, args |-> l.args]
       /\ IsSource(l.video)
       /\ l.video.starts \subseteq 1..Len(l.video.groups)   \* groups that start a segment

VARIABLES
  video,      \* the source
  args,       \* the command line
  gops,       \* metadata.gop_stats
  stage,      \* how far main() has come
  pool,       \* the current stream: todo, running, results
  files,      \* the files of the output and the temporary directory
  paths,      \* presplit_paths
  copied,     \* plan.copy
  tolerance,  \* plan.tolerance
  completed,  \* completed: id and output_path
  playlist    \* what the playlist or the concat list names

pipelineVars == <<video, args, gops, stage, pool, files, paths, copied, tolerance, completed, playlist>>

-----------------------------------------------------------------------------
(* Segments and names *)

Count == Cardinality(video.starts)
Ids == 0..Count - 1
First(id) ==
  Before(video.groups, CHOOSE s \in video.starts : Cardinality({ t \in video.starts : t < s }) = id)
Frames == Before(video.groups, Len(video.groups) + 1)
Last(id) == IF id = Count - 1 THEN Frames - 1 ELSE First(id + 1) - 1

(* The ranges create_segments makes: the last one ends with the duration,   *)
(* which does not contain the offset.                                       *)
Ranges ==
  [i \in 1..Count |->
     [from |-> video.offset + First(i - 1),
      to   |-> IF i = Count THEN Frames ELSE video.offset + First(i)]]

Has(flag) == flag \in args.flags
Smart == Has("smart") \/ Has("smart-auto") \/ Has("smart-report")
Fast == Has("fast") \/ Has("copy") \/ Smart

ModeFromArgs ==
  CASE Has("smart-auto") -> "smart-auto"
    [] ~Has("smart-auto") /\ (Has("smart") \/ Has("smart-report")) -> "smart"
    [] Has("copy") /\ ~Smart -> "copy"
    [] OTHER -> "normal"

(* segment_NNNN.ts in the output directory; presplit_NNNN.ts in a temporary *)
(* one, or with --copy segment_NNNN.ts again.                               *)
SegmentFile(id) == <<"segment", id>>
CutFile(id) == IF Has("copy") THEN SegmentFile(id) ELSE <<"presplit", id>>
Names == {"segment", "presplit"} \X Ids

Nothing == [seg |-> -1, how |-> "none"]
Part == [seg |-> -1, how |-> "part"]     \* empty or cut short
Cut(id) == [seg |-> id, how |-> "copy"]
Encoded(content) == [seg |-> content.seg, how |-> "encode"]

SortedPaths ==
  [i \in 1..Count |->
     CutFile(CHOOSE id \in Ids : Cardinality({ k \in Ids : NameBefore(k, id) }) = i - 1)]

-----------------------------------------------------------------------------
(* buffer_unordered(cap) *)

NewPool(ids) == [todo |-> Ascending(ids), running |-> {}, results |-> <<>>]

Cap == IF stage = "split" THEN Splitters ELSE Workers
Drained == pool.todo = <<>> /\ pool.running = {}
Ends(id, ok) ==
  pool' = [pool EXCEPT !.running = @ \ {id}, !.results = Append(@, [id |-> id, ok |-> ok])]
AnyFailed == \E i \in 1..Len(pool.results) : ~pool.results[i].ok

Init ==
  /\ \E l \in Launches : video = l.video /\ args = l.args
  /\ stage = "analyze" /\ gops = <<>>
  /\ pool = NewPool({})
  /\ files = [n \in Names |-> Nothing]
  /\ paths = <<>> /\ copied = <<>> /\ tolerance = 0 /\ completed = <<>>
  /\ playlist = <<>>

Fail == stage' = "failed"

(* Phases 1 and 2 succeed or end the process.  Only the fast analysis fills *)
(* gop_stats.  The report needs no cut.                                     *)
Analyze ==
  /\ stage = "analyze"
  /\ gops' = IF Fast THEN GopStats(video.groups, video.offset) ELSE <<>>
  /\ \/ /\ Fast /\ ~Has("smart-report")
        /\ stage' = "split" /\ pool' = NewPool(Ids)
     \/ /\ ~Fast \/ Has("smart-report")
        /\ stage' = "plan" /\ UNCHANGED pool
     \/ Fail /\ UNCHANGED pool
  /\ UNCHANGED <<video, args, files, paths, copied, tolerance, completed, playlist>>

(* Mutant: one child more than the pool has room for. *)
StartsOneMore ==
  /\ stage \in {"split", "encode"}
  /\ pool.todo # <<>> /\ Cardinality(pool.running) <= Cap
  /\ pool' = [pool EXCEPT !.todo = Tail(@), !.running = @ \union {Head(pool.todo)}]
  /\ UNCHANGED <<video, args, gops, stage, files, paths, copied, tolerance, completed, playlist>>

(* Mutant: nothing is started any more once a child has failed. *)
StartsUnlessFailed ==
  /\ stage \in {"split", "encode"}
  /\ pool.todo # <<>> /\ Cardinality(pool.running) < Cap /\ ~AnyFailed
  /\ pool' = [pool EXCEPT !.todo = Tail(@), !.running = @ \union {Head(pool.todo)}]
  /\ UNCHANGED <<video, args, gops, stage, files, paths, copied, tolerance, completed, playlist>>

Starts ==
  /\ stage \in {"split", "encode"}
  /\ pool.todo # <<>> /\ Cardinality(pool.running) < Cap
  /\ pool' = [pool EXCEPT !.todo = Tail(@), !.running = @ \union {Head(pool.todo)}]
  /\ UNCHANGED <<video, args, gops, stage, files, paths, copied, tolerance, completed, playlist>>

-----------------------------------------------------------------------------
(* presplit_segments *)

(* What a child that fails leaves of its output: what was there, or a part. *)
Broken(name) == files' \in {files, [files EXCEPT ![name] = Part]}

(* The ffmpeg process of a segment ends, well or with an error.             *)
SplitEnds(id) ==
  /\ stage = "split" /\ id \in pool.running
  /\ \/ Ends(id, TRUE) /\ files' = [files EXCEPT ![CutFile(id)] = Cut(id)]
     \/ Ends(id, FALSE) /\ Broken(CutFile(id))
  /\ UNCHANGED <<video, args, gops, stage, paths, copied, tolerance, completed, playlist>>

(* Mutant: the first error ends the process at once. *)
SplitDoneAtFailure ==
  /\ stage = "split"
  /\ \/ AnyFailed /\ Fail /\ UNCHANGED paths
     \/ Drained /\ ~AnyFailed /\ paths' = SortedPaths /\ stage' = "plan"
  /\ UNCHANGED <<video, args, gops, pool, files, copied, tolerance, completed, playlist>>

(* All results are collected before the first error among them is returned, *)
(* and the paths are sorted as strings.                                     *)
SplitDone ==
  /\ stage = "split" /\ Drained
  /\ \/ AnyFailed /\ Fail /\ UNCHANGED paths
     \/ ~AnyFailed /\ paths' = SortedPaths /\ stage' = "plan"
  /\ UNCHANGED <<video, args, gops, pool, files, copied, tolerance, completed, playlist>>

-----------------------------------------------------------------------------
(* The decision, and the segments that are copied *)

Decide ==
  /\ stage = "plan"
  /\ \/ PlanPanics(gops, ModeFromArgs, args.tolerance) /\ Fail /\ UNCHANGED <<copied, tolerance>>
     \/ /\ ~PlanPanics(gops, ModeFromArgs, args.tolerance)
        /\ tolerance' = Tolerance(gops, ModeFromArgs, args.tolerance)
        /\ copied' = PlanSegments(video, gops, Ranges, ModeFromArgs, args.encoder, tolerance')
        /\ stage' = IF Has("smart-report") THEN "done" ELSE "copy"
  /\ UNCHANGED <<video, args, gops, pool, files, paths, completed, playlist>>

ToCopy == { id \in Ids : copied[id + 1] /\ paths # <<>> }
ToEncode == { id \in Ids : ~copied[id + 1] }

(* fs::copy opens the target with truncation before it reads: a file copied *)
(* onto itself is empty.                                                    *)
CopyOf(from, to) == IF from = to THEN Part ELSE files[from]

(* Smart modes copy the cut to its final name; in copy mode it has it.      *)
CopiesOf(ids) ==
  [n \in Names |-> IF Smart /\ n[1] = "segment" /\ n[2] \in ids
                   THEN CopyOf(paths[n[2] + 1], n) ELSE files[n]]

(* One after the other; the first copy that fails ends the process.         *)
CopySegments ==
  /\ stage = "copy"
  /\ \/ /\ files' = CopiesOf(ToCopy)
        /\ LET order == Ascending(ToCopy) IN
             completed' = [i \in 1..Len(order) |->
                             [id |-> order[i],
                              file |-> IF Smart THEN SegmentFile(order[i]) ELSE paths[order[i] + 1]]]
        /\ stage' = "find"
     \/ /\ Smart /\ Fail /\ UNCHANGED completed
        /\ \E id \in ToCopy :
             LET copies == CopiesOf({ k \in ToCopy : k < id }) IN
               files' \in {copies, [copies EXCEPT ![SegmentFile(id)] = Part]}
  /\ UNCHANGED <<video, args, gops, pool, paths, copied, tolerance, playlist>>

(* find_worker_binary, only if there is something to encode. *)
FindWorker ==
  /\ stage = "find"
  /\ \/ ToEncode = {} /\ stage' = "collected" /\ pool' = NewPool({})
     \/ ToEncode # {} /\ stage' = "encode" /\ pool' = NewPool(ToEncode)
     \/ ToEncode # {} /\ Fail /\ UNCHANGED pool
  /\ UNCHANGED <<video, args, gops, files, paths, copied, tolerance, completed, playlist>>

-----------------------------------------------------------------------------
(* spawn_worker *)

(* What the worker of a segment reads: its cut, if there is one. *)
InputOf(id) == IF paths = <<>> THEN Cut(id) ELSE files[paths[id + 1]]
InPlace(id) == paths # <<>> /\ paths[id + 1] = SegmentFile(id)

(* A worker process fails (it cannot be started, exits with an error, or    *)
(* prints no result) or writes its output; opening the output empties the   *)
(* input if they are one file.                                              *)
WorkerEnds(id) ==
  /\ stage = "encode" /\ id \in pool.running
  /\ \/ /\ Ends(id, TRUE)
        /\ files' = [files EXCEPT ![SegmentFile(id)] =
                       IF InPlace(id) THEN Part ELSE Encoded(InputOf(id))]
     \/ Ends(id, FALSE) /\ Broken(SegmentFile(id))
  /\ UNCHANGED <<video, args, gops, stage, paths, copied, tolerance, completed, playlist>>

Successes == At(pool.results, { i \in 1..Len(pool.results) : pool.results[i].ok })

Collect ==
  /\ stage = "encode" /\ Drained
  /\ completed' = completed \o [i \in 1..Len(Successes) |->
                     [id |-> Successes[i].id, file |-> SegmentFile(Successes[i].id)]]
  /\ IF AnyFailed THEN Fail ELSE stage' = "collected"
  /\ UNCHANGED <<video, args, gops, pool, files, paths, copied, tolerance, playlist>>

-----------------------------------------------------------------------------
(* Phase 4 *)

(* Mutant: the segments are listed as they came. *)
InOrderAsTheyCame == completed

(* completed.sort_by_key(segment_id) *)
InOrder ==
  [i \in 1..Len(completed) |->
     completed[CHOOSE k \in 1..Len(completed) :
                 Cardinality({ j \in 1..Len(completed) : completed[j].id < completed[k].id }) = i - 1]]

Listed == [i \in 1..Len(InOrder) |-> InOrder[i].file]

(* generate_hls_playlist names the files and concatenate_mp4 lists them for *)
(* ffmpeg, which copies what they hold.                                     *)
Assemble ==
  /\ stage = "collected"
  /\ \/ args.format \in {"hls", "mp4"} /\ playlist' = Listed /\ stage' = "done"
     \/ Fail /\ UNCHANGED playlist
  /\ UNCHANGED <<video, args, gops, pool, files, paths, copied, tolerance, completed>>

CoordinatorNext ==
  \/ Analyze \/ Starts \/ SplitDone \/ Decide \/ CopySegments
  \/ FindWorker \/ Collect \/ Assemble
  \/ \E id \in Ids : SplitEnds(id) \/ WorkerEnds(id)

-----------------------------------------------------------------------------
(* Properties *)

TypeOK ==
  /\ [video |-> video, args |-> args] \in Launches
  /\ stage \in {"analyze", "split", "plan", "copy", "find", "encode", "collected", "done", "failed"}
  /\ pool.running \subseteq Ids
  /\ stage \in {"split", "encode"} => Cardinality(pool.running) <= Cap
  /\ files \in [Names -> [seg : Ids \union {-1}, how : {"none", "part", "copy", "encode"}]]
  /\ paths \in Seq(Names) /\ copied \in Seq(BOOLEAN)
  /\ completed \in Seq([id : Ids, file : Names])

Written == stage = "done" /\ ~Has("smart-report")

Whole ==
  /\ Len(playlist) = Count
  /\ \A i \in 1..Count :
       files[playlist[i]] =
         [seg |-> i - 1, how |-> IF copied[i] THEN "copy" ELSE "encode"]

(* What "Smart flags win over --copy, as they always have" at               *)
(* mode_from_args says: with both flags the output is whole as with one.    *)
SmartWinsOverCopy ==
  Written /\ Has("copy") /\ Smart => Whole

(* When the coordinator ends, well or not, no child process it started is   *)
(* still writing to its directories.                                        *)
NothingRunsAfterExit == stage \in {"done", "failed"} => pool.running = {}

(* A smart plan decides each segment by the groups of pictures whose frames *)
(* are in the segment and by no other, though it finds them by time.  The   *)
(* end of the last range is off by the offset, and a group of one frame has *)
(* no duration or, if it is the first, only the offset for one.             *)
OwnGroupsDecide ==
  stage = "copy" /\ Smart /\ (\A k \in 1..Len(gops) : gops[k].last > gops[k].first) =>
    \A i \in 1..Count : (i < Count \/ video.offset = 0) =>
      LET own == At(gops, { k \in 1..Len(gops) :
                              First(i - 1) <= gops[k].first /\ gops[k].first <= Last(i - 1) })
      IN  copied[i] <=> Blockers(video, args.encoder) = {} /\ OnTarget(own, tolerance)
=============================================================================
