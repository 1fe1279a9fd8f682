---------------------------- MODULE WebLocalJob ----------------------------
(***************************************************************************)
(* A local job of the web server (web/server.js): POST /api/transcode      *)
(* starts a coordinator, whose exit ends the job, and DELETE /api/jobs     *)
(* kills it and removes the directory of its output.  Coordinators with a  *)
(* command line the web server does not write are started from a shell.    *)
(*                                                                         *)
(* A killed coordinator stops where it is (it does not handle SIGTERM) and *)
(* its children, which nothing kills, end on their own.                    *)
(***************************************************************************)
EXTENDS CoordinatorPipeline

VARIABLES
  child,    \* the coordinator process: "none", "shell", "alive", "killed" or "over"
  orphans,  \* children of a killed coordinator that are at work
  status,   \* job.status, or "none"
  listed,   \* jobs has the job
  handle,   \* job.process is set
  dir,      \* the directory: "none", "there", "clearing", "cleared", "gone", "left"
  cut       \* the coordinator was killed with children at work (history)

webVars == <<child, orphans, status, listed, handle, dir, cut>>
vars == <<pipelineVars, webVars>>

Exited == stage \in {"done", "failed"}

FromTheWeb ==
  /\ args.flags \in {{"fast"}, {"copy"}, {"smart"}, {"smart-auto"}}
  /\ args.format \in {"hls", "mp4"}

WebInit ==
  /\ Init
  /\ child = IF FromTheWeb THEN "none" ELSE "shell"
  /\ orphans = {} /\ status = "none" /\ listed = FALSE /\ handle = FALSE
  /\ dir = "none" /\ cut = FALSE

(* The coordinator is spawned, or the error event comes before anything else.*)
Transcode ==
  /\ child = "none"
  /\ listed' = TRUE /\ dir' = "there"
  /\ \/ child' = "alive" /\ handle' = TRUE /\ status' = "running"
     \/ child' = "over" /\ handle' = FALSE /\ status' = "error"
  /\ UNCHANGED <<pipelineVars, orphans, cut>>

Run ==
  /\ child \in {"shell", "alive"}
  /\ CoordinatorNext
  /\ UNCHANGED webVars

(* Mutant: the exit code is not looked at. *)
CloseAnyCode ==
  /\ child = "killed" \/ (child = "alive" /\ Exited)
  /\ child' = "over" /\ handle' = FALSE
  /\ status' = IF status = "cancelled" THEN status ELSE "complete"
  /\ UNCHANGED <<pipelineVars, orphans, listed, dir, cut>>

(* The close event of the coordinator.                                      *)
Close ==
  /\ child = "killed" \/ (child = "alive" /\ Exited)
  /\ child' = "over" /\ handle' = FALSE
  /\ status' = IF status = "cancelled" THEN status
               ELSE IF child = "alive" /\ stage = "done" THEN "complete" ELSE "error"
  /\ UNCHANGED <<pipelineVars, orphans, listed, dir, cut>>

(* Mutant: the coordinator is let run on. *)
DeleteRunsOn ==
  /\ listed /\ listed' = FALSE
  /\ dir' = "clearing" /\ handle' = FALSE
  /\ status' \in IF handle THEN {"cancelled", status} ELSE {status}
  /\ UNCHANGED <<pipelineVars, child, orphans, cut>>

(* DELETE /api/jobs/:id, and DELETE /api/jobs, which calls no job cancelled.*)
(* The directory is removed in the background.                              *)
Delete ==
  /\ listed /\ listed' = FALSE
  /\ dir' = "clearing" /\ handle' = FALSE
  /\ status' \in IF handle THEN {"cancelled", status} ELSE {status}
  /\ IF handle /\ ~Exited
     THEN child' = "killed" /\ orphans' = pool.running /\ cut' = (pool.running # {})
     ELSE UNCHANGED <<child, orphans, cut>>
  /\ UNCHANGED pipelineVars

-----------------------------------------------------------------------------
(* What a child writes after its coordinator was killed. *)
OrphanFile(id) == IF stage = "split" THEN CutFile(id) ELSE SegmentFile(id)
OrphanContent(id) == IF stage = "split" THEN Cut(id) ELSE Encoded(InputOf(id))
InDir(name) == name[1] = "segment"

(* A child goes on to its end, well or not; in a directory that is gone it  *)
(* cannot create its file, and a file it had opened before is removed.      *)
OrphanEnds(id) ==
  /\ id \in orphans /\ orphans' = orphans \ {id}
  /\ \/ /\ InDir(OrphanFile(id)) => dir # "gone"
        /\ \/ files' = [files EXCEPT ![OrphanFile(id)] = OrphanContent(id)]
           \/ Broken(OrphanFile(id))
     \/ UNCHANGED files
  /\ UNCHANGED <<video, args, gops, stage, pool, paths, copied, tolerance, completed, playlist,
                 child, status, listed, handle, dir, cut>>

(* fsp.rm: the entries of the directory, then the directory itself, which   *)
(* fails, with the error ignored, if a child has created a file since.      *)
Clear ==
  /\ dir = "clearing" /\ dir' = "cleared"
  /\ files' = [n \in Names |-> IF InDir(n) THEN Nothing ELSE files[n]]
  /\ UNCHANGED <<video, args, gops, stage, pool, paths, copied, tolerance, completed, playlist,
                 child, orphans, status, listed, handle, cut>>

Remove ==
  /\ dir = "cleared"
  /\ \/ dir' = "gone" /\ \A n \in Names : InDir(n) => files[n] = Nothing
     \/ dir' = "left" /\ (orphans # {} \/ \E n \in Names : InDir(n) /\ files[n] # Nothing)
  /\ UNCHANGED <<pipelineVars, child, orphans, status, listed, handle, cut>>

Next ==
  \/ Transcode \/ Run \/ Close \/ Delete
  \/ Clear \/ Remove
  \/ \E id \in Ids : OrphanEnds(id)

(* Children end, main() goes on, and the event loop handles its events;     *)
(* nobody has to start a job or to delete one.                              *)
Spec ==
  /\ WebInit /\ [][Next]_vars
  /\ WF_vars(Run) /\ WF_vars(Close) /\ WF_vars(Clear) /\ WF_vars(Remove)

-----------------------------------------------------------------------------
(* Properties *)

(* The output of a run that ends well names every segment once and in       *)
(* order, and each file holds that segment, copied or encoded as planned,   *)
(* in whatever order the processes ended, until the job is deleted.  The    *)
(* names must not have outgrown their digits, and --copy must not come with *)
(* a smart flag.                                                            *)
OutputIsWhole ==
  Written /\ dir \in {"none", "there"} /\ Count <= Power[Width] /\ ~(Has("copy") /\ Smart)
    => Whole

(* What the list of jobs says is what the coordinator did: a job is         *)
(* complete only if its output is whole and still there, an error only if   *)
(* the coordinator did not end well, and a running job can be killed.       *)
StatusIsTrue ==
  listed =>
    /\ status = "complete" => Written /\ dir = "there" /\ (Count <= Power[Width] => Whole)
    /\ status = "error" => stage # "done"
    /\ status = "running" => handle /\ child = "alive"

(* The directory of a deleted job goes, with what is in it, unless a        *)
(* coordinator was killed while children of it were at work: they are not   *)
(* killed and can write into it after it was cleared.                       *)
DeletedIsGone ==
  /\ dir = "left" => cut
  /\ dir = "gone" => \A n \in Names : InDir(n) => files[n] = Nothing

(* A coordinator ends, whichever children fail, a job that was running ends *)
(* with it, and the removal of a directory is not held up by anyone.        *)
EverythingEnds ==
  /\ child \in {"shell", "alive"} ~> (Exited \/ child = "killed")
  /\ status = "running" ~> status # "running"
  /\ dir = "clearing" ~> dir \in {"gone", "left"}
=============================================================================
