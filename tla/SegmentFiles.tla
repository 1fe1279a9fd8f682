---------------------------- MODULE SegmentFiles ----------------------------
(***************************************************************************)
(* The files of one cluster job with an object store (cluster/src/main.rs):*)
(* the master cuts the source into pieces and uploads them, nodes fetch a  *)
(* piece, run the worker on it and upload the result, and the master joins *)
(* the results.  JobScheduling says who is given which segment and when;   *)
(* here any node may be given any segment at any time, again too.          *)
(*                                                                         *)
(* The unit of time is a frame.  The content of a file is the piece of the *)
(* source it holds and how it came about; a file that is being written is  *)
(* a part of one.                                                          *)
(***************************************************************************)
EXTENDS SegmentPlan, FileNames

CONSTANTS
  Requests,     \* source (groups, offset, codec, profile, pix_fmt) and
                \* config (mode, encoder, tolerance) of a job, and the bound
                \* tries, how often its segments are assigned in all
  SegmentTime,  \* K8S_SEGMENT_DURATION_SECS
  Nodes

ASSUME FilesAssumption ==
  /\ SegmentTime \in Nat \ {0}
  /\ \A r \in Requests : IsSource(r.source) /\ r.source.groups # <<>> /\ r.tries \in Nat

VARIABLES
  source, config, tries,
  phase,     \* of segment_and_upload
  uploaded,  \* pieces uploaded so far
  descs,     \* the descriptors: from, to, copy
  store,     \* the object store: inputs and outputs of the job
  tmp,       \* the temporary files of the nodes
  runs,      \* runs[a]: a call of spawn_worker
  met,       \* two of them were at work on one segment on one node (history)
  uris,      \* output_uris of the job's context
  failed,    \* the segments marked failed
  joined,    \* assemble_output: its stage and the parts it has fetched
  told       \* what the master sent about the job, in order

planVars == <<source, config, tries, phase, uploaded, descs>>
runVars == <<tmp, runs, met>>
bookVars == <<uris, failed, joined, told>>
filesVars == <<planVars, store, runVars, bookVars>>

Attempts == 1..tries

-----------------------------------------------------------------------------
(* The source and its pieces *)

Groups == source.groups
Duration == Before(Groups, Len(Groups) + 1)

(* ffmpeg -f segment: the piece a group goes to.  A piece ends at the first *)
(* key frame at or after SegmentTime times the number of pieces, so after a *)
(* long group the next one starts a piece whatever its length.              *)
PieceOf ==
  LET piece[k \in 1..Len(Groups)] ==
        IF k = 1 THEN 0
        ELSE IF Before(Groups, k) >= SegmentTime * (piece[k - 1] + 1)
             THEN piece[k - 1] + 1 ELSE piece[k - 1]
  IN piece

Count == PieceOf[Len(Groups)] + 1
Ids == 0..Count - 1
Starts(i) == Before(Groups, Min({ k \in 1..Len(Groups) : PieceOf[k] = i }))

Nothing == [piece |-> -1, how |-> "none"]
Part == [piece |-> -1, how |-> "part"]
Piece(i) == [piece |-> i, how |-> "source"]

(* Mutant: the files are taken in an order the directory may have. *)
FilesAsRead == [i \in 1..Count |-> Count - i]

(* segment_files.sort(): the numbers of the pieces in the order of their    *)
(* names.                                                                   *)
FilesInOrder ==
  [i \in 1..Count |->
     CHOOSE id \in Ids : Cardinality({ k \in Ids : NameBefore(k, id) }) = i - 1]

Init ==
  /\ \E r \in Requests : source = r.source /\ config = r.config /\ tries = r.tries
  /\ phase = "new" /\ uploaded = 0 /\ descs = <<>>
  /\ store = [k \in {"input", "output"} \X Ids |-> Nothing]
  /\ tmp = [f \in Nodes \X Ids \X {"in", "out"} |-> Nothing]
  /\ runs = [a \in Attempts |-> [at |-> "idle"]] /\ met = FALSE
  /\ uris = {} /\ failed = {}
  /\ joined = [stage |-> "none", parts |-> <<>>]
  /\ told = <<>>

Tell(what) == told' = Append(told, what)

-----------------------------------------------------------------------------
(* segment_and_upload *)

Refuse == phase' = "refused" /\ Tell("refused")

(* The source is fetched, probed and cut, or the job is refused.            *)
CutSource ==
  /\ phase = "new"
  /\ \/ phase' = "upload" /\ UNCHANGED told
     \/ Refuse
  /\ UNCHANGED <<source, config, tries, uploaded, descs, store, runVars, uris, failed, joined>>

UploadPiece ==
  /\ phase = "upload" /\ uploaded < Count
  /\ \/ /\ store' = [store EXCEPT ![<<"input", uploaded>>] = Piece(FilesInOrder[uploaded + 1])]
        /\ uploaded' = uploaded + 1
        /\ UNCHANGED <<phase, told>>
     \/ Refuse /\ UNCHANGED <<store, uploaded>>
  /\ UNCHANGED <<source, config, tries, descs, runVars, uris, failed, joined>>

(* Mutant: a piece is taken to start where it ends. *)
NominalLate ==
  [i \in 1..Count |->
     [from |-> i * SegmentTime,
      to   |-> Min({(i + 1) * SegmentTime, Duration})]]

(* The times of a descriptor are those the cut was asked for, not those of  *)
(* the piece.                                                               *)
Nominal ==
  [i \in 1..Count |->
     [from |-> (i - 1) * SegmentTime,
      to   |-> Min({i * SegmentTime, Duration})]]

(* Mutant: the offset is added the wrong way round. *)
PlanRangesEarly(gops) ==
  [i \in 1..Count |-> [from |-> Nominal[i].from - gops[1].to, to |-> Nominal[i].to - gops[1].to]]

(* The ranges handed to plan_segments: shifted by the start of the first    *)
(* group, which the analysis always reports as 0.                           *)
PlanRanges(gops) ==
  [i \in 1..Count |-> [from |-> Nominal[i].from + gops[1].from, to |-> Nominal[i].to + gops[1].from]]

Described(plan) == [i \in 1..Count |->
                      [from |-> Nominal[i].from, to |-> Nominal[i].to, copy |-> plan[i]]]
EncodeAll == [i \in 1..Count |-> FALSE]
Smart == config.mode \in {"smart", "smart-auto"}

(* Without an analysis every segment is encoded; a tolerance below the      *)
(* minimum panics in the event loop, and with it the master.                *)
Describe ==
  /\ phase = "upload" /\ uploaded = Count
  /\ LET gops == GopStats(Groups, source.offset)
         accept(plan) == descs' = Described(plan) /\ phase' = "ready" /\ Tell("accepted")
     IN  \/ /\ Smart /\ PlanPanics(gops, config.mode, config.tolerance)
            /\ phase' = "crashed" /\ UNCHANGED <<descs, told>>
         \/ /\ ~(Smart /\ PlanPanics(gops, config.mode, config.tolerance))
            /\ accept(PlanSegments(source, gops, PlanRanges(gops), config.mode, config.encoder,
                                   Tolerance(gops, config.mode, config.tolerance)))
         \/ Smart /\ accept(EncodeAll)
  /\ UNCHANGED <<source, config, tries, uploaded, store, runVars, uris, failed, joined>>

-----------------------------------------------------------------------------
(* spawn_worker *)

AtWork(a) == runs[a].at \in {"write", "upload"}
Again(seg) == \E a \in Attempts : runs[a].at # "idle" /\ runs[a].seg = seg
Goto(a, at) == runs' = [runs EXCEPT ![a].at = at]
File(a, kind) == <<runs[a].node, runs[a].seg, kind>>

(* The assignment is received, the piece downloaded, and the worker process *)
(* opens its output.  A segment assigned again carries the placeholder of   *)
(* reassign_from_node.                                                      *)
Assign(a, node, seg) ==
  /\ phase = "ready" /\ runs[a].at = "idle"
  /\ \A b \in Attempts : b < a => runs[b].at # "idle"
  /\ \E copy \in {descs[seg + 1].copy} \union (IF Again(seg) THEN {FALSE} ELSE {}) :
       runs' = [runs EXCEPT ![a] = [at |-> "write", node |-> node, seg |-> seg, copy |-> copy]]
  /\ tmp' = [tmp EXCEPT ![<<node, seg, "in">>] = store[<<"input", seg>>],
                        ![<<node, seg, "out">>] = Part]
  /\ met' = (met \/ \E b \in Attempts : AtWork(b) /\ runs[b].node = node /\ runs[b].seg = seg)
  /\ UNCHANGED <<planVars, store, bookVars>>

WorkerEnds(a) ==
  /\ runs[a].at = "write"
  /\ tmp' = [tmp EXCEPT ![File(a, "out")] =
               [piece |-> tmp[File(a, "in")].piece,
                how |-> IF runs[a].copy THEN "copy" ELSE "encode"]]
  /\ Goto(a, "upload")
  /\ UNCHANGED <<planVars, store, met, bookVars>>

Upload(a) ==
  /\ runs[a].at = "upload"
  /\ store' = [store EXCEPT ![<<"output", runs[a].seg>>] = tmp[File(a, "out")]]
  /\ Goto(a, "sent")
  /\ UNCHANGED <<planVars, tmp, met, bookVars>>

(* A transfer or the process fails: what it wrote stays where it is.        *)
RunFails(a) ==
  /\ AtWork(a)
  /\ Goto(a, "failed")
  /\ UNCHANGED <<planVars, store, tmp, met, bookVars>>

-----------------------------------------------------------------------------
(* The results at the master, and assemble_output *)

(* check_job_completion, with what the handler made of the outputs and the  *)
(* failures.  The job has a context until it is finished for the first time.*)
CheckJobCompletion(out, bad) ==
  LET finished == Cardinality(out) + Cardinality(bad) >= Count
  IN  \/ ~finished /\ UNCHANGED <<joined, told>>
      \/ /\ finished /\ bad # {}
         /\ joined' = [joined EXCEPT !.stage = IF @ = "none" THEN "failed" ELSE @]
         /\ Tell("failed")
      \/ /\ finished /\ bad = {} /\ joined.stage = "none"
         /\ joined' = [joined EXCEPT !.stage = "fetch"] /\ UNCHANGED told
      \/ finished /\ bad = {} /\ joined.stage # "none" /\ Tell("complete") /\ UNCHANGED joined

(* Mutant: segments are counted from one. *)
RecordedFromOne(a) ==
  /\ runs[a].at = "sent"
  /\ Goto(a, "over")
  /\ uris' = IF joined.stage = "none" THEN uris \union {runs[a].seg + 1} ELSE uris
  /\ CheckJobCompletion(uris', failed)
  /\ UNCHANGED <<planVars, store, tmp, met, failed>>

Recorded(a) ==
  /\ runs[a].at = "sent"
  /\ Goto(a, "over")
  /\ uris' = IF joined.stage = "none" THEN uris \union {runs[a].seg} ELSE uris
  /\ CheckJobCompletion(uris', failed)
  /\ UNCHANGED <<planVars, store, tmp, met, failed>>

Reported(a) ==
  /\ runs[a].at = "failed"
  /\ Goto(a, "over")
  /\ failed' = failed \union {runs[a].seg}
  /\ CheckJobCompletion(uris, failed')
  /\ UNCHANGED <<planVars, store, tmp, met, uris>>

(* Mutant: the parts are joined in the order of the hash map. *)
NextPartHashed == Count - 1 - Len(joined.parts)

(* uris.sort_by_key(id) *)
NextPart == Len(joined.parts)

FetchPart ==
  /\ joined.stage = "fetch"
  /\ joined' = [joined EXCEPT !.parts = Append(@, store[<<"output", NextPart>>]),
                              !.stage = IF Len(joined.parts) + 1 = Count THEN "join" ELSE "fetch"]
  /\ UNCHANGED <<planVars, store, runVars, uris, failed, told>>

(* join_segments and the upload of the output, or an error at any point.    *)
Join ==
  /\ \/ joined.stage = "join" /\ joined' = [joined EXCEPT !.stage = "uploaded"]
     \/ joined.stage \in {"fetch", "join"} /\ joined' = [joined EXCEPT !.stage = "broken"]
  /\ UNCHANGED <<planVars, store, runVars, uris, failed, told>>

(* poll_assembly_results *)
PollAssembly ==
  /\ \/ joined.stage = "uploaded" /\ joined' = [joined EXCEPT !.stage = "done"] /\ Tell("output")
     \/ joined.stage = "broken" /\ joined' = [joined EXCEPT !.stage = "failed"] /\ Tell("failed")
  /\ UNCHANGED <<planVars, store, runVars, uris, failed>>

FilesNext ==
  \/ UploadPiece \/ Describe \/ FetchPart \/ Join \/ PollAssembly
  \/ \E a \in Attempts :
       \/ \E node \in Nodes, seg \in Ids : Assign(a, node, seg)
       \/ WorkerEnds(a) \/ Upload(a) \/ RunFails(a)
       \/ Recorded(a) \/ Reported(a)

-----------------------------------------------------------------------------
(* Properties *)

FilesTypeOK ==
  /\ phase \in {"new", "upload", "ready", "refused", "crashed"}
  /\ uploaded \in 0..Count
  /\ \A k \in DOMAIN store : store[k] \in [piece : Ids \union {-1},
                                           how : {"none", "part", "source", "copy", "encode"}]
  /\ uris \subseteq Ids
  /\ failed \subseteq Ids
  /\ joined.stage \in {"none", "fetch", "join", "uploaded", "broken", "done", "failed"}
  /\ Len(joined.parts) <= Count
  /\ told \in Seq({"accepted", "refused", "output", "complete", "failed"})

(* The object the scheduler gives out for a segment is that piece of the    *)
(* source in time, exactly as long as the numbers have not outgrown their   *)
(* digits: pieces are stored under the rank of their names.                 *)
PiecesInOrder ==
  phase = "ready" =>
    ((\A i \in Ids : store[<<"input", i>>] = Piece(i)) <=> Count <= Power[Width])

(* However long the groups of the source are, a nominal range is not empty  *)
(* and begins no later than the piece it stands for.                        *)
RangesAreNotEmpty ==
  \A i \in 1..Len(descs) :
    descs[i].from < descs[i].to /\ descs[i].from <= Starts(i - 1)

CutAsAsked == \A i \in Ids : Starts(i) = i * SegmentTime
EveryGroupLasts == \A k \in 1..Len(Groups) : Groups[k].frames > 1

(* A segment is copied exactly if copy mode says so, or nothing rules out   *)
(* copying the source and the groups of the piece that its node is given    *)
(* are on target; after a failed analysis nothing is copied.                *)
PieceDecides ==
  LET gops == GopStats(Groups, source.offset)
      tolerance == Tolerance(gops, config.mode, config.tolerance)
      own(i) == At(gops, { k \in 1..Len(Groups) : PieceOf[k] = store[<<"input", i>>].piece })
      wanted(i) == \/ config.mode = "copy"
                   \/ /\ Smart /\ Blockers(source, config.encoder) = {}
                      /\ OnTarget(own(i), tolerance)
  IN  \/ Smart /\ \A i \in Ids : ~descs[i + 1].copy
      \/ \A i \in Ids : descs[i + 1].copy <=> wanted(i)

(* The plan decides each segment by the piece stored for it, and by nothing *)
(* beside it, if the numbers fit their digits, the key frames let the cut   *)
(* fall where it was asked, no group is a single frame and the source       *)
(* starts at time zero.                                                     *)
PlanReadsItsPiece ==
  /\ phase = "ready" /\ Count <= Power[Width]
  /\ CutAsAsked /\ EveryGroupLasts /\ source.offset = 0
  => PieceDecides

(* What the comment "the probe's GOPs carry the source's own start offset"  *)
(* says: the plan decides by its piece whenever the source starts.          *)
PlanFollowsTheClock ==
  /\ phase = "ready" /\ Count <= Power[Width]
  /\ CutAsAsked /\ EveryGroupLasts
  => PieceDecides

(* The output joins every piece of the source once, whole and in order, and *)
(* copies only what was planned to be copied, through failed and repeated   *)
(* attempts, and late ones that overwrite their objects, unless two         *)
(* attempts at a segment were at work on one node, where they share their   *)
(* temporary files.                                                         *)
FinalIsWhole ==
  joined.stage = "done" /\ Count <= Power[Width] /\ ~met =>
    /\ Len(joined.parts) = Count
    /\ \A i \in 1..Count :
         /\ joined.parts[i].piece = i - 1
         /\ joined.parts[i].how = "encode" \/ descs[i].copy
=============================================================================
