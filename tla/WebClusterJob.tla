---------------------------- MODULE WebClusterJob ----------------------------
(***************************************************************************)
(* A cluster job as the web server (web/server.js) sees it: the handler    *)
(* that submits it, submitClusterJob with its timer and its socket to the  *)
(* master, finalizeClusterJob, which fetches the output, and deletion.     *)
(*                                                                         *)
(* The master's messages to the socket are told, read in order; what is    *)
(* sent after the socket has gone is never read.  Progress messages and    *)
(* the end of other jobs, which the handler ignores, are left out.         *)
(***************************************************************************)
EXTENDS SegmentFiles

VARIABLES
  status,   \* job.status, or "deleted" once jobs has no entry
  socket,   \* "none", "open", "closing" once close() was called, or "broken"
  waiting,  \* the handler awaits the upload of the source or, with its timer
            \* armed, the promise of submitClusterJob
  heard,    \* how many of the master's messages were handled
  file,     \* output.mp4 of the job's directory: its parts, <<>> without one
  fetching, \* finalizeClusterJob is at work
  offered   \* job.outputDir is set

webVars == <<status, socket, waiting, heard, file, fetching, offered>>
vars == <<filesVars, webVars>>

WebInit ==
  /\ Init
  /\ status = "none" /\ socket = "none" /\ waiting = FALSE
  /\ heard = 0 /\ file = <<>> /\ fetching = FALSE /\ offered = FALSE

Become(s) == status' = IF status = "deleted" THEN status ELSE s

-----------------------------------------------------------------------------
(* The job is listed before its source is in the object store. *)
Submit ==
  /\ status = "none" /\ status' = "running" /\ waiting' = TRUE
  /\ UNCHANGED <<filesVars, socket, heard, file, fetching, offered>>

UploadFails ==
  /\ waiting /\ socket = "none"
  /\ waiting' = FALSE /\ Become("error")
  /\ UNCHANGED <<filesVars, socket, heard, file, fetching, offered>>

(* The job may have been deleted during the upload: it is sent all the same. *)
Connect ==
  /\ waiting /\ socket = "none"
  /\ socket' = "open"
  /\ UNCHANGED <<filesVars, status, waiting, heard, file, fetching, offered>>

(* Two minutes without an answer. *)
Timeout ==
  /\ waiting /\ socket # "none"
  /\ waiting' = FALSE
  /\ socket' = IF socket = "open" THEN "closing" ELSE socket
  /\ Become("error")
  /\ UNCHANGED <<filesVars, heard, file, fetching, offered>>

(* While the socket closes, messages may still come or not. *)
Message == told[heard + 1]
Handle == socket \in {"open", "closing"} /\ heard < Len(told) /\ heard' = heard + 1

(* Mutant: the socket is closed once there is an answer, as queries do. *)
HearAcceptedCloses ==
  /\ Handle /\ Message = "accepted"
  /\ waiting' = FALSE /\ socket' = "closing"
  /\ UNCHANGED <<filesVars, status, file, fetching, offered>>

HearAccepted ==
  /\ Handle /\ Message = "accepted"
  /\ waiting' = FALSE
  /\ UNCHANGED <<filesVars, status, socket, file, fetching, offered>>

(* A promise that is settled stays as it is. *)
HearRefused ==
  /\ Handle /\ Message = "refused"
  /\ waiting' = FALSE /\ socket' = "closing"
  /\ IF waiting THEN Become("error") ELSE UNCHANGED status
  /\ UNCHANGED <<filesVars, file, fetching, offered>>

(* JobComplete, with or without the URI of an output. *)
HearComplete ==
  /\ Handle /\ Message \in {"output", "complete"}
  /\ Become("complete") /\ socket' = "closing"
  /\ fetching' = (fetching \/ (Message = "output" /\ status # "deleted"))
  /\ UNCHANGED <<filesVars, waiting, file, offered>>

HearFailed ==
  /\ Handle /\ Message = "failed"
  /\ Become("error") /\ socket' = "closing"
  /\ UNCHANGED <<filesVars, waiting, file, fetching, offered>>

(* The connection breaks, with an error event or, since nothing handles the *)
(* close event, without one.                                                *)
Break ==
  /\ socket = "open" /\ socket' = "broken"
  /\ \/ waiting' = FALSE /\ IF waiting THEN Become("error") ELSE UNCHANGED status
     \/ UNCHANGED <<waiting, status>>
  /\ UNCHANGED <<filesVars, heard, file, fetching, offered>>

(* Mutant: the directory is the job's before the file is in it. *)
FetchEndsAnyhow ==
  /\ fetching /\ fetching' = FALSE
  /\ offered' = TRUE
  /\ file' \in {joined.parts, <<>>}
  /\ UNCHANGED <<filesVars, status, socket, waiting, heard>>

(* A failed transfer leaves no file.                                        *)
FetchEnds ==
  /\ fetching /\ fetching' = FALSE
  /\ \/ file' = joined.parts /\ offered' = TRUE
     \/ UNCHANGED <<file, offered>>
  /\ UNCHANGED <<filesVars, status, socket, waiting, heard>>

(* The directory is removed only if the job has one. *)
Delete ==
  /\ status \in {"running", "complete", "error"} /\ status' = "deleted"
  /\ file' = IF offered THEN <<>> ELSE file
  /\ UNCHANGED <<filesVars, socket, waiting, heard, fetching, offered>>

WebNext ==
  \/ Submit \/ UploadFails \/ Connect \/ Timeout
  \/ HearAccepted \/ HearRefused \/ HearComplete \/ HearFailed
  \/ Break \/ FetchEnds \/ Delete

Next ==
  \/ socket # "none" /\ CutSource /\ UNCHANGED webVars
  \/ FilesNext /\ UNCHANGED webVars
  \/ WebNext

Spec == WebInit /\ [][Next]_vars

-----------------------------------------------------------------------------
(* Properties *)

(* What the web server says of a job is what happened to it: complete only  *)
(* when every segment has its output, and a file that can be downloaded is   *)
(* what the master joined, also when a late result of a segment makes the   *)
(* master announce the job twice.                                           *)
CompleteIsTrue ==
  /\ status = "complete" => uris = Ids
  /\ offered /\ status # "deleted" => joined.stage = "done" /\ file = joined.parts

(* A job that is running for the web server is still being submitted, or    *)
(* it stays connected until it has the end of the job, and an end that was  *)
(* announced is still to be read, unless the connection broke: such a job   *)
(* stays as it is for ever.                                                 *)
EndIsHeard ==
  status = "running" /\ socket # "broken" =>
    /\ socket = "open" \/ (socket = "none" /\ waiting)
    /\ joined.stage \in {"done", "failed"} =>
         \E i \in heard + 1..Len(told) : told[i] \in {"output", "complete", "failed"}
=============================================================================
