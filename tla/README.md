# A TLA+ model of parallel-transcoder

parallel-transcoder cuts a video into segments, encodes them at the same time
and joins the results. It runs in three ways: one machine (the coordinator
spawns worker processes), a LAN cluster of nodes that elect a master, and a
Kubernetes cluster in which pod 0 is the master and an object store carries the
data. A web server starts local jobs, submits cluster jobs and scales workers.

This directory models the way of a video through all three: where it is cut, who
encodes which piece and when, what is in each file, what is joined, and what the
web server says of it. TLC checks the modules on small instances, and TLAPS
proves every safety property of the passing runs, and that the master keeps its
promise to a submitter, for every value of the constants.

## The system

| component | state | operations | hard behaviour | what makes it correct |
|---|---|---|---|---|
| Cluster job scheduling: `cluster/src/scheduler.rs`, `node.rs`, `main.rs` | per job: queue, segment to node, completed, failed, context, outputs, assembly; per node: status, load, peer handle; per worker: `local_workers`, `pending_results` | JobSubmit, schedule tick, SegmentAssign, worker end, result relay, SegmentComplete/Failed, completion check, assembly, heartbeat, health check, NodeLeave | stale load, lost connections between filter and send, late results of dead nodes, crashes, loss of the master role, segment ids shared by jobs | no segment lost or queued twice; success only when all is encoded; one verdict; every job ends |
| Master election: `cluster/src/election.rs`, `main.rs` | role, leader, `received_alive`, two timers; node table | handshake, ElectionStart/Alive/Victory, timeouts, NodeLeave, missed heartbeats | star topology without relay, crossing messages, crash of a candidate | connected nodes never both lead; a winner outranks its peers; a master exists |
| Transport: `transport.rs` | peer handles, a queue and a writer task each | connect, send_to, broadcast, close | half-dead connections, no reconnect | order per connection |
| Source preparation: `segment_and_upload`, `analyze_video`, `media.rs` | temporary files, descriptors | download, cut, upload, plan copy or encode | order of names, unknown durations, minutes inside the event loop | segments cover the source once, in order |
| Segment execution: `spawn_worker`, `srt.rs`, `object_store.rs` | port counter, temporary files, child process | fetch, encode, publish | counter wraps, failures half-way | one outcome per assignment |
| Output assembly: `assemble_output`, `join_segments` | temporary files | fetch all, join, add audio, upload | order, partial failure | segment order is output order |
| Analysis requests: `handle_analyze_request`, `poll_analysis_results` | `pending_analysis` | request, answer | requester gone, duplicate ids | one answer per request |
| Worker process: `worker/src/main.rs` | libav pipeline | encode or copy one segment | timestamps | starts at zero, keeps every packet |
| Coordinator: `segmenter.rs`, `analyzer.rs`, `main.rs` | segments, worker pool | analyse, cut, encode, join; or submit to a cluster | first failure in the pool, broadcasts of other jobs | no gap, no overlap, all or nothing |
| Web server: `web/server.js` | jobs, subscribers, tickets, source cache, resize target, readiness cache | upload, transcode, cancel, delete, cluster submission, scale, tickets, WebSocket | callbacks after cancellation, timeouts against late answers, lost sockets, concurrent scale requests | one end per job, no zombie job, pool equals replicas |
| Web helpers, desktop shell, MCP server, policy tools | small tables or none | validation, kubectl, child processes | a busy flag | not modelled: pure data, or one call at a time |

The components interact by messages (nodes, coordinator, web server), by the
object store (master, workers, web server) and by child processes (workers,
coordinator). `PROJECT.json` lists each with its files and its status, and under
"hazards" every place where a test would hardly reach, with its line.

## Modules

| module | models |
|---|---|
| `JobScheduling` | the master's scheduler, node table and handlers, the workers' assignment tables and the connections between them |
| `JobPromise` | what a submitter is promised: an abstract specification that `JobScheduling` implements |
| `BullyElection` | the election, handshake and node-loss handlers of every node of a cluster |
| `Segmenter` | the analysis as far as the cut needs it, and the loop of create_segments |
| `SegmentWorker` | the worker process, packet by packet, on the segments of `Segmenter` |
| `SegmentPlan` | statistics of groups of pictures, copy compatibility, auto-tuning and plan_segments, as functions |
| `FileNames` | zero-padded numbers and the order of their names as strings |
| `CoordinatorPipeline` | `main` of the coordinator after the segmentation, with its two pools of child processes |
| `WebLocalJob` | a local job of the web server around a `CoordinatorPipeline` |
| `SegmentFiles` | the pieces, objects and temporary files of a cluster job with an object store, from the cut to the joined output |
| `WebClusterJob` | a cluster job as the web server sees it, around `SegmentFiles` |
| `JobScheduling_proofs` | theorems: the master's queues, successes and holders |
| `JobOutcome_proofs` | theorems on top of those: one verdict, no stranded assignment, the refinement of `JobPromise` |
| `BullyElection_proofs` | theorems: the election |
| `SegmentWorker_proofs` | theorems: the cut |
| `WorkerOutput_proofs` | theorems on top of those: what the workers write |
| `SegmentLists_proofs` | lemmas on names, filters and sums, shared by the next two |
| `WebLocalJob_proofs` | theorems: a local job's plan, output, status and directory |
| `WebClusterJob_proofs` | theorems: a cluster job's pieces, files and status |
| `MCJobScheduling`, `MCBullyElection`, `MCSegmentWorker`, `MCWebLocalJob`, `MCWebClusterJob` | small instances |

`SegmentPlan` and `FileNames` are shared: the coordinator and the master plan
with the same functions of `media.rs` and both rely on the order of names, with
four digits and with three. `JobScheduling` says which node is given which
segment and when; `SegmentFiles` says what is in the files, and there any node may
be given any segment at any time, which is more than the scheduler does.

### JobScheduling

One action is one turn of `tokio::select!`: a message handler or a tick, with
every call it makes. The correspondence of state:

| variable | code |
|---|---|
| `isMaster` | `election.is_leader()` of the node that schedules |
| `known`, `pending`, `assigned`, `completed`, `failed` | `Scheduler.jobs` and the fields of `JobSchedule` |
| `ctx`, `uris` | `App.job_contexts`, `JobContext.output_uris` |
| `assembly` | the spawned assembly and its entry in `pending_assembly` |
| `told` | JobComplete and JobFailed broadcasts, in order |
| `status`, `load`, `connected` | `NodeInfo.status`, `NodeInfo.load`, a tagged peer handle |
| `slot` | `pending_results` and `local_workers` of a worker, keyed by segment id as there |
| `toWorker`, `toMaster`, `leaving` | messages in flight |

Actions: `Join` (handle_identified), `JobSubmit`, `ScheduleTick` (run_scheduler,
then poll_assembly_results, as in the select arm; the same tick on a worker is
`PollWorkerResults`), `RecvResult`, `AssemblyEnds`, `DeclareDead`
(check_health), `RecvLeave`, `Heartbeat`, `RecvAssign`, `WorkerEnds`,
`PollWorkerResults`, `Leave` and `Crash` of a worker, `Disconnect`,
`LoseInFlight`, `StepDown` and `StepUp` (the election takes the role and gives
it back).

`Scheduler::schedule` is not transliterated: `IsPlan` says which node each
prefix of a queue may go to (slots not exceeded, none left while a segment
waits, best node first, jobs drained one by one in an arbitrary order, because
HashMap iteration is arbitrary). `ScheduleTick` chooses any plan, and any set of
connections that are lost between the filter and the end of the sends: run_scheduler
sends one segment after the other, so from some segment on the sends of a job to such
a node fail (`Failures`) and their segments are requeued. Which of the segments sent
before the loss still arrive is `LoseInFlight`.

Abstractions, each named in the module: a descriptor is its id and whether it
is the one the analysis made; time is nondeterministic; a connection is a bag
per direction, because no handler depends on the order of two results; a
spawned task ends well or badly and does not panic. A job is submitted once.
The master's scheduler survives the loss of the role, as it does in the code
(it is never cleared); what another node schedules in the meantime is that
node's own instance.

### JobPromise

`accepted`, `encoded`, `verdict`: an accepted job gets at most one verdict,
failure at any time, success only when every segment has been encoded, and no
encoding is taken back. `KeepsPromise` in `JobScheduling` maps `known`,
`completed` and `told` to these.

### BullyElection

Every node runs the same handlers. All joiners connect to the bootstrap node,
the hub, and broadcasts are not relayed, so two joiners never talk. Connections
are queues. `Join` is `main()` with `--join`; `HandleHello` to `HandleNodeLeave`
are the message handlers; `ElectionTimeout` and `VictoryTimeout` are the two
outcomes of check_timeout; `CheckHealth` is the heartbeat deadline of a stopped
node; `Stop` with or without a last NodeLeave, and `LoseLast` for what a crash
cuts off.

A timeout is in time if what it waits for is over (`After`): the messages to and from
a candidate, at the three seconds of its election; all of them, at the five and ten
seconds of the other two. That is milliseconds on a network that works, but a LAN
cluster that is given an object store awaits `segment_and_upload` inside the event
loop, and its master then answers nobody for minutes. So a timeout may also fire
early, which `late` counts, and a leader that runs may be taken for dead
(`Suspect`). `LeadersApart` is stated of all these behaviours; `VictoryIsEarned`, that
only the highest of the connected nodes wins, of the timeouts that are in time.
Even without any of this nothing guarantees that somebody leads (below).

In Kubernetes mode pod 0 is forced leader and no election starts; this module
does not apply there, and `JobScheduling` applies with the role never lost.

### Segmenter and SegmentWorker

The unit of time is a frame, so a tolerance of a millisecond is none. A video is
its number of frames, its key frames and the time stamp of its first frame
(`offset`); the duration the container reports does not contain the offset. The
frame rate is constant: of a source with a variable one, fast_analyze_video may
compute a number of frames (duration times r_frame_rate, media.rs:137 and 151-154)
that is off by more than one, and such sources are not in the model.
`AnalyzeFull` is analyze_video of the coordinator, `AnalyzeFast` is
fast_analyze_video, whose number of frames may be one off and which inserts a
key frame at 0. `CutRest`, `CutAtNearest` and `CutAtNext` are the three branches
of the loop in create_segments, and `CutAt` contains the end of the loop at the
last key frame.

| variable | code |
|---|---|
| `total`, `kf` | `VideoMetadata.total_frames`, `keyframe_positions`, `keyframe_timestamps` |
| `segs`, `cur` | `segments`, `seg_start_idx` |
| `mode` | `--presplit` and `--copy` of the worker |
| `next`, `held` | the packets read so far, the frames inside the decoder |
| `reached` | `reached_segment` |
| `out`, `sound` | what was written per segment: frames in order, audio packets with their time |

`Open` is the seek and the header, `ReadPacket` one turn of the loop over
packets (audio through `CopyAudio`, a frame through `Decoded`), `EndOfFile` and
`Flush` the rest of transcode_segment. The presplit files are what ffmpeg's
`-ss -to -c copy` makes of the source: from the key frame at or before the start
to the end asked for. The decoder returns a frame when `Delay` later ones have
entered it; a frame whose transfer from the GPU fails is skipped (`lost`).
The worker processes of a coordinator share nothing, so here they run one after
the other.

### SegmentPlan and FileNames

Rates are in percent of the target rate. `GopStats` keeps the two odd points of
the code: a group ends with the time stamp of its last packet, so a group of one
packet has rate 0, and the first group starts at time 0. `AutoTunePanics` is
`f64::clamp` with a maximum below its minimum. `NameBefore` compares numbers
padded to `Width` digits as strings do.

### CoordinatorPipeline and WebLocalJob

`stage` is how far `main` has come. `pool` is a `buffer_unordered` stream: what
is not yet started, what runs, the results in the order in which children end;
`Starts` fills a free place, `SplitEnds` and `WorkerEnds` are children that end
well or not, `SplitDone` and `Collect` take all the results once the stream is
empty. `files` maps each name in the output and the temporary directory to the
segment it holds and how it was made. A child that fails, or a copy, leaves its file
as it was or a part of it (`Broken`, `Part`). `CopySegments` is fs::copy with its
truncation, one file after the other; `Assemble` is the playlist or the concat list.
The children of that last phase (subtitle extraction, concat) are part of one step:
a coordinator killed among them would leave one more child that writes into the
directory, the case `DeletedIsGone` excepts.

`WebLocalJob` adds the job of the web server: `Transcode` spawns the process (or
gets its error event), `Close` is the close event, `Delete` is the two DELETE
requests, `Clear` and `Remove` the two halves of fsp.rm. A killed coordinator
takes no further step. Its children are not killed: tokio's `Command` without
kill_on_drop, and a process that dies of SIGTERM runs no destructor. They are
`orphans` and end on their own, with what they write. Launches the web server
would not write are started from a shell and have no job.

### SegmentFiles and WebClusterJob

`CutSource`, `UploadPiece` and `Describe` are segment_and_upload with the failures
it returns; `Assign`, `WorkerEnds`, `Upload` and `RunFails` are spawn_worker in the
order in which it touches files, with the paths it shares with another attempt
at the same segment on the same node; `Recorded` and `Reported` are the master's
handlers with check_job_completion; `FetchPart` and `Join` are assemble_output.
`told` is what the master sends about the job, in order.

`WebClusterJob` reads `told` through a socket that may break or be closing.
`Submit` lists the job, `UploadFails` and `Connect` are the two ends of the awaited
upload of its source: in between the job runs and has no socket.
Each `Hear` action is one branch of the message handler in submitClusterJob,
`Timeout` its timer, `FetchEnds` the end of finalizeClusterJob, `Delete` the
deletion of the job while any of this is under way.

## Runs

| run | configuration | what it shows |
|---|---|---|
| `job_faults` | 1 job, 2 segments, 2 equal workers with one slot, object store, 1 fault of any kind | `TypeOK`, `NoSegmentForgotten`, `NoSegmentQueuedTwice`, `HolderIsWatched`, `SuccessMeansAllEncoded`, `OutputIsAnnounced`, `NoStrandedAssignment`, `OneOutcome`, `AttemptsStayApart` |
| `job_live` | 2 jobs of 1 segment with the same id, unequal workers, 1 fault that is not a false suspicion, fairness | `JobsEnd`, `KeepsPromise`, `NoStrandedAssignment` with the shared id |
| `job_late_result` | as `job_faults` | violated: a late duplicate announces a job complete with no output |
| `job_placeholder` | as `job_faults`, no false suspicion | violated: a reassigned segment carries a placeholder |
| `job_replaced` | 2 jobs of 1 segment, no fault, no object store | violated: the second job's receiver replaces the first's |
| `election` | hub, one joiner below and two above, 1 fault (a stop, a timeout that is early, a leader taken for dead), fairness | `TypeOK`, `LeadersApart`, `VictoryIsEarned`, `HubFindsMaster` |
| `election_crossing` | hub, one joiner on each side, no stop, fairness | violated: the cluster stays without a master |
| `segment_worker` | every video of 1, 4 or 6 frames with every set of key frames, offset 0 or 2; targets 0 to 7; the three modes; a decoder that holds back one frame; one failed transfer | `Contiguous`, `Covering`: no gap, no overlap; `NoFrameLost`, `OnlyBoundariesTwice`, `InOrderWithoutGaps`: what is in the outputs; `AudioInSync`; `AllEncoded`; `WorkerTypeOK` |
| `local_job` | 25 launches: a video of 9 frames in 4 groups cut in every way, at offset 0 and 2, every flag; one with a group of a single frame and encoders that cannot take its profile; a tolerance below the minimum; an unknown format | `OutputIsWhole`, `OwnGroupsDecide`: the output; `NothingRunsAfterExit`, `EverythingEnds`: the children and the end; `StatusIsTrue`, `DeletedIsGone`: the job and its directory; `TypeOK` |
| `coordinator_both` | the same video, --copy with a smart flag | violated: segments copied onto themselves |
| `web_cluster_job` | 6 requests, sources of 1 to 4 pieces with groups shorter and longer than a piece; 2 nodes; up to 3 attempts at segments | `PiecesInOrder`, `RangesAreNotEmpty`, `PlanReadsItsPiece`: what the master plans; `FinalIsWhole`: what it joins; `CompleteIsTrue`, `EndIsHeard`: what the web server says; `FilesTypeOK` |
| `plan_offset` | the same requests with a source that starts at time 3 | violated: the plan reads groups before its piece |

Bounds. Two workers suffice for one to take over from the other; two segments
for a queue with an order and a count below its total; two jobs with one segment
for the shared id, and for jobs drained one after the other. `MaxWorkers = 1`
makes a worker full at once, the case in which the load is stale. `MaxFaults`
bounds wrong suspicions, lost connections, stopped workers and lost roles
together; one is enough for each hazard listed, and the theorems below hold for
any number. `MaxSuspects` bounds the nodes declared dead while a message of
theirs may arrive; properties that such a late message breaks (`OneOutcome`,
`OutputIsAnnounced`) say so in their hypothesis, `KeepsPromise` and `JobsEnd`
are checked with none. Symmetry (workers, segments, jobs) is used only in
`job_faults`, whose cores are equal and which has no temporal property. In
`election` four nodes give the hub joiners on both sides and two joiners that
do not see each other; its `MaxFaults` bounds stops and early timeouts together, for
without a bound elections restart without end and queues grow. The theorems have no
such bound. Deadlock is checked in the job runs (a heartbeat is always possible, or
the health check of a silent node); the election runs may come to rest and switch it
off.

The bounds of the other runs. Six frames and every set of key frames give
segments of one frame, of one group and of several, a target below, at and above
the distance of the key frames, a last key frame that is the last frame, and no
key frame at all; the decoder's delay of one frame is enough for a frame to come
out after the input has ended. With `Base = 2` and `Width = 2` the names of up to
four files have their digits, and `Base = 3`, `Width = 1` lets the four pieces of
one request outgrow theirs: the case of the ten thousandth and the thousandth file
in the code. `Workers = 2` and `Splitters = 3` are below the number of segments, so
a pool is full, and children end in every order. `tries` bounds how often the
segments of one request are given out in all: two attempts for sources of two
pieces and three for one of a single piece, so that an attempt fails, is repeated,
overlaps its repetition or comes late after the job is over; requests without
any are there for their plans. Nodes are symmetric in `web_cluster_job`, which has
no temporal property. These three runs switch deadlock off: jobs come to an end.

Fairness. The select loop takes each ready arm again and again, so every tick
and every handler of a message that is there is weakly fair; a spawned task
ends; the health check is weakly fair only towards a node that is really
silent. Submissions and faults are not fair. `AssemblyEnds` and `WorkerEnds`
are fair as a choice of outcome: nothing forces success. In the election
the timeouts are fair as far as they are in time; no fault has to happen.
`ElectionTimeout` is strongly fair: the three seconds a candidate needs pass between two
restarts by a lower node, which are five seconds apart.

In `segment_worker` the worker is a sequential program that reads a file
of finite length: `Next` is weakly fair. In `local_job`, `Run` is weakly fair because child
processes end and `main` awaits nothing else, `Close` because node emits the event
of an exit, `Clear` and `Remove` because the removal was started and awaits only the
file system. No user has to start or delete a job. `SegmentFiles` and
`WebClusterJob` state no liveness and assume no fairness: after a broken socket
there is none to state.

Every property has a mutant in the module it is about: a definition that
stands just before the one it replaces and is a plausible slip in that code.

## Theorems

Every safety property of the passing runs is a theorem of its specification, for
all values of the constants that satisfy the assumptions named in the modules.
Hardly any of them is inductive; what follows names for each module the invariant
that is, and why its parts are needed. The safety of a specification does not
depend on its fairness, and no proof uses it.

`JobScheduling_proofs`, from `ConstAssumption` alone (finite sets, at
least one segment, at least one slot per node), for any workers, jobs,
segments and any number of faults:

* `TypeCorrect`: `TypeOK`. Inductive as it stands, with lemmas on
  bags, on the orderings of a finite set and on the queues a plan cuts.
* `SegmentsAreTracked` and `SegmentsAreQueuedOnce`: `NoSegmentForgotten` and
  `NoSegmentQueuedTwice`. They need each other (`Queues`): that a segment of a
  plan leaves the queue for the table only once, or comes back after a failed
  send without a twin, depends on what was queued before the tick.
* `SuccessIsEarned`: `SuccessMeansAllEncoded`. The strengthening is
  `Succeeding`, which the tick, the results and the assembly maintain
  separately; the key fact is that the two counts reach the total with no
  failure only if the completed set is all of `Segs`.
* `HoldersAreWatched`: `HolderIsWatched`. From `Watched`: only nodes of
  `Available` are given segments and both ways out of that set reassign.

`JobOutcome_proofs`, from the same assumption and the theorems above:

* `DecidedOnce`, `OutputsAreAnnounced` and `AttemptsAreApart`: `OneOutcome`,
  `OutputIsAnnounced` (a job whose segments are all encoded is being assembled or has
  been announced, and never complete without its output) and `AttemptsStayApart`.
  `OutcomeInv` says where a result can be. A segment is a token: its message to a
  node, its place in the node's table or its result on the way back, never two of
  them and only at the node the master has it assigned to (`Tokens`); what waits or
  is assigned has no result yet (`Outstanding`), so no result counts twice, and the
  counts reach the total once (`Verdict`). That a reassigned segment leaves no token
  behind needs nodes that were never suspected, and ended processes that hold nothing
  (`Resting`). After a wrong suspicion they fail, and with them
  what `job_late_result` shows violated.
* `PromiseIsKept`: `Spec /\ [](suspects = 0) => KeepsPromise`, the refinement of
  `JobPromise`: a submission is `Accept`, a result that counts encodes a segment,
  decides the job or leaves the promise alone, a tick decides the jobs whose
  assemblies have ended, and every other step is a stutter.
* `NothingIsStranded`: `NoStrandedAssignment`, inductive with `ctx \subseteq known`
  and `Watched`, for any number of wrong suspicions.

`BullyElection_proofs`, from `ElectionAssumption` (the hub is a node, priorities
differ), for any nodes, priorities, stops and crashes:

* `ElectionTypeCorrect`, `OneOfTwoGivesWay` and `VictoriesAreEarned`: `TypeOK`,
  `LeadersApart`, whichever timeouts fire early, and `VictoryIsEarned`. `ElectionInv`
  adds which messages a connection can carry in which direction (`Routed`), that a joiner that leads has announced
  itself after its last ElectionStart (`Announced`), that between a joiner that leads
  and a hub that leads or follows nobody there is a message that makes one give way
  (`Rivals`), and that every connected node above a candidate without an
  answer has been asked, has answered, or asks itself (`HigherAsked`). The steps are proved
  against one lemma, `StepKeeps`, on what a handler takes, sends and becomes.

`SegmentWorker_proofs`, from `SourcesAssumption` and `WorkerAssumption`
(key frames in order and inside the video), for videos and targets of any length:

* `SegmentsAreContiguous` and `SegmentsCoverTheVideo`: `Contiguous` and
  `Covering`. That a piece is not empty
  needs the key frames in order, and where the loop may stop depends on the
  last segment ending where the current key frame starts. `SegInv` adds these:
  `kf` is strictly increasing from what either analysis returns, the current key
  frame exists while the loop runs, the segments so far end just before it in
  frames and at it in time, and one that is done ends as `Covering` says. The proof
  has a lemma per branch of the loop and one for the steps of the worker, which leave
  the segments alone.

`WorkerOutput_proofs`, from the same assumptions, for any delay of the decoder and
any number of failed transfers:

* `WorkerTypeCorrect`, `EveryFrameIsKept`, `BoundariesAtMost`, `OutputsHaveNoGaps`
  and `AudioStaysInSync`: the type invariant, `NoFrameLost`, `OnlyBoundariesTwice`,
  `InOrderWithoutGaps`, `AudioInSync`. `WorkerInv` adds `CutInv`, the times of the
  segments and that they do not overlap, and `OutInv`: what an output that is
  finished holds, and of the one that is being written how far the input was read,
  which frames the decoder still holds, and that what was written and what is held
  follow one another without a gap.

`SegmentLists_proofs` has no theorem of a specification, only lemmas. Recursion is a
function here (`Power`, `Total`, and `PieceOf` in `SegmentFiles`). TLAPS does not
know that such a definition has a solution; `Recursion` constructs one from the
well-ordering of the numbers, and from it come `Power[d + e] = Power[d] * Power[e]`, the
growth of `Before`, and the order of names: numbers that fit `Width` digits sort as
numbers (`NamesFollowNumbers`), and the first that does not fit sorts before the last
that does (`NamesOutgrowNumbers`), in every base. The latter uses `Power[Width] > 2`,
true of the code's 10^4 and 10^3.

`WebLocalJob_proofs`, from `PipelineAssumption` and `NamesAssumption` (a source has an
offset and groups with frames, segments start at groups, the pools have a place), for
any launches and sizes of the pools:

* `NoChildOutlivesMain`: `NothingRunsAfterExit`. The strengthening is `PoolInv`:
  outside the two streams nothing runs, since both are drained before their
  results are looked at, failures included.
* `DeletedLeavesNothing`: `DeletedIsGone`. The strengthening, `DirInv`, is about
  who can still write into the directory: the handle of a listed job is set
  exactly while its coordinator lives, so a deletion kills it if it is at work;
  after that only orphans write, and there are some only if it was killed with
  children; in a directory that is gone no file can be made.
* `PipelineTypeCorrect` and `SegmentsDecideByTheirOwn`: `TypeOK` and `OwnGroupsDecide`.
  `PlanInv` ties the plan to the analysis it was made from; the rest is a fact about
  times and frames, since `Before` grows with the groups.
* `OutputComesOutWhole` and `ListTellsTheTruth`: `OutputIsWhole` and `StatusIsTrue`.
  `JobInv` says in which pool each segment is (`ShareInv`), that the sorted paths are
  the cuts in order (`PathInv`), what each file holds at each stage (`FileInv`), which
  segments are listed (`CompletedInv`), and how the list of the web server goes with
  the process and the directory (`StatusInv`).

`WebClusterJob_proofs`, from `FilesAssumption` and `NamesAssumption` (a request's
source has groups, the cut asks for a positive time), for any sources, nodes and
attempts:

* `FilesTypeCorrect`, `PiecesKeepTheirOrder`, `RangesHaveFrames`,
  `PlansReadTheirPieces`, `FinalComesOutWhole`: the properties of `SegmentFiles`, proved of
  the composed specification that the run checks. `FilesInv` ties the pieces and the
  descriptors to the source (`Planned`), says what has been answered in each phase
  (`Answered`) and recorded before it was announced (`Booked`), and, while no two
  attempts met on a node and the names sort, that each attempt works on its own piece
  and each output and part comes from the piece of its number (`Traced`).
* `CompletionIsTrue` and `EndsAreHeard`: `CompleteIsTrue` and `EndIsHeard`. `Heard`
  says that no end is among the messages the web server has read of a job it shows as
  running.

Model-checked only are the liveness properties (`JobsEnd`, `HubFindsMaster`,
`AllEncoded`, `EverythingEnds`): fairness and ENABLED are outside the prover's reach. The tolerance that auto-tuning computes from
the rates is an uninterpreted value in the proofs: none of the properties depends on
it, and none says that it is a good one.

## What was found

1. `CompleteCarriesOutput`. A result that comes after the count was reached
   runs check_job_completion again; the context is gone, so JobComplete with
   `output_uri: null` is broadcast before or after the real one. The comment at
   main.rs:869-870 promises assembly first.
2. `AssignmentIsOriginal`. reassign_from_node queues an invented descriptor and
   nobody reads the kept ones, against the comments at main.rs:145 and
   scheduler.rs:226-228.
3. `ResultsAreRelayed`. pending_results is keyed by segment id only: with two
   jobs at a time a node drops a result and the first job never ends.
   `JobsEnd` and `NoStrandedAssignment` name this exception.
4. `HighestBecomesMaster`. A lower joiner makes the hub re-announce itself; that
   victory crosses the ElectionStart of a higher joiner. The joiner follows the
   hub, the hub has stepped down, and nobody starts an election again. The
   guarantee is at election.rs:29-31. It fails in a second way, with a failure: when a
   higher joiner stops between its ElectionStart and its victory, the hub has become a
   follower and still has itself as current_leader, so the loss of the joiner starts no
   election and no timer runs (election.rs:167-173, main.rs:1050 and 1074). `FairSpec`
   with one stop and one joiner above the hub shows it; no run of its own is kept.
5. `SmartWinsOverCopy`. With --copy and a smart flag the cuts already have the names
   the smart branch copies them to (coordinator main.rs:264-281, 303 against
   434-438): fs::copy empties them, and the output names empty files. The comment at
   main.rs:155-156 says that the smart flags win.
6. `PlanFollowsTheClock`. fast_analyze_video starts its first group at 0
   (media.rs:287), so segment_and_upload's correction for the source's start offset
   (cluster main.rs:1474-1476) never corrects anything.

The properties also name, in their hypotheses, where a promise ends that nobody
made in writing: `OnlyBoundariesTwice` (a frame on a boundary is encoded twice
from the full source), `NoFrameLost` (a segment shorter than the decoder's delay
at the end of the source), `FinalIsWhole` (two attempts on one node share files),
`DeletedIsGone` (children of a killed coordinator), `EndIsHeard` (a broken socket),
`JobsEnd` (results on their way when the master role moves), `OutputIsWhole` and
`FinalIsWhole` (more segments than the digits of their names can number),
`PlanReadsItsPiece` (key frames that do not let the cut fall where it was asked).
Where a hypothesis leaves out a hazard as a whole, `PROJECT.json` lists the hazard
without a property and says so.

## Not modelled, and why

* Pixels, codecs and options of libav and ffmpeg, subtitles' and chapters'
  content, validation, user interface: data or presentation; no property here
  would be about their control. That a cut file starts at a key frame and that a
  decoder returns frames in order is assumed of ffmpeg.
* A source with reordered frames (B-frames): a packet here holds the frame of its
  own position, so time stamps out of decoding order are not in the model.
* The SRT data plane and the jobs without an object-store source that would use it
  (run_cluster_mode): nothing in the repository serves their segments, and
  analyze_video invents them from the size of the file.
* Transport's two tasks per connection are one step; a writer that fails before
  its reader shows as a failed send.
* Panics of spawned tasks. Their receivers report Disconnected and the entry is
  removed without a message. A panic in segment_and_upload ends the master
  (`phase = "crashed"`), and nothing after it is modelled.
* `Scheduler::remove_job`, `NodeManager::set_draining`,
  `update_local_workers`: only tests call them.
* A heartbeat is sent and handled in one step: one that was sent before a node
  stopped and is handled after it was declared dead would mark the node active
  until the next health check.
* More than one cluster topology: a node could be told to join a joiner; no
  deployment in the repository does.
* Web server: subscribers and logs, single questions to the master
  (queryCluster, analyzeOnCluster), the source cache, tickets and authentication,
  whose handlers are single synchronous steps; worker scaling, whose outcome two
  services outside the repository decide.
* `SegmentFiles` is not composed with `JobScheduling` state by state: it lets any
  node be given any segment at any time, a superset of what the scheduler does.

## What would come next

* `BullyElection` composed with `JobScheduling`: what a second master does to a job.
* The wait for segment_and_upload as a state of the event loop, in which nothing else is
  handled.
* `SegmentFiles` composed with `JobScheduling`: its attempts are assignments of the
  scheduler, which a refinement would say; with it `FinalIsWhole` could replace its
  hypothesis on attempts that met by one on suspicions.
* An abstract specification of the web server's job list that both
  `WebLocalJob` and `WebClusterJob` implement.
