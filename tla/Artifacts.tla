----------------------------- MODULE Artifacts -----------------------------
(***************************************************************************)
(* The collection of one artifact file that the work on an issue left       *)
(* behind (collect_artifacts of coordination_store.py).                     *)
(*                                                                          *)
(* The row and the file cannot change together.  The collector, which runs  *)
(* in every supervisor pass under an flock, reserves the move in one        *)
(* transaction, links the file into the trash, unlinks it, and records      *)
(* TRASHED in another; a purge does the same after the retention.  It may   *)
(* die or meet an OS error between any two of these, and meanwhile the      *)
(* issue may be planned again and the file may be written by anybody.       *)
(* While a reservation is open no caller may change the issue.              *)
(***************************************************************************)
EXTENDS Integers

CONSTANTS
    Collectors,     \* supervisor passes that collect
    MaxTouches,     \* bound: writes of somebody else to the file
    MaxStops        \* bound: collectors that die

ASSUME ArtifactBounds == MaxTouches \in Nat /\ MaxStops \in Nat

VARIABLES
    art,        \* coordination_artifacts.state
    kept,       \* retention_class RETAINED
    due,        \* purge_after is set and has passed
    issue,      \* the issue: working, done (closed out, same generation), next
    pending,    \* an open message or outbox row is about the issue
    src, trash, \* the file at its path, and in .artifact-trash
    lock,       \* holder of artifact-gc.lock
    step,       \* per collector: what it does next
    touches, stops

artifactVars == <<art, kept, due, issue, pending, src, trash, lock, step, touches, stops>>

Free == "free"
ASSUME FreeIsNobody == Free \notin Collectors

ArtStates == {"REGISTERED", "MOVE_RESERVED", "TRASHED", "PURGE_RESERVED", "PURGED", "HOLD"}
ArtReserved == {"MOVE_RESERVED", "PURGE_RESERVED"}

\* What a name leads to: the registered file, a file with the same bytes and
\* another inode, or other bytes.
Files == {"none", "own", "copy", "other"}

\* register_artifacts: the row binds path, digest and inode of the file.
ArtifactInit ==
    /\ art = "REGISTERED" /\ kept \in BOOLEAN /\ due = FALSE
    /\ issue = "working" /\ pending = TRUE
    /\ src = "own" /\ trash = "none"
    /\ lock = Free /\ step = [c \in Collectors |-> "idle"]
    /\ touches = 0 /\ stops = 0

-----------------------------------------------------------------------------
(* The collector.                                                           *)

\* _artifact_terminal_error is None.
TerminalArtifact == ~kept /\ issue = "done" /\ ~pending

\* Mutant: a move that was interrupted is not taken up again.
PreviewForgetsReserved ==
    CASE art = "REGISTERED" /\ TerminalArtifact -> "reserveMove"
      [] art \in {"TRASHED", "PURGE_RESERVED"} /\ due -> "reservePurge"
      [] OTHER -> "idle"

\* _artifact_gc_preview.
Preview ==
    CASE art = "MOVE_RESERVED" \/ (art = "REGISTERED" /\ TerminalArtifact) -> "reserveMove"
      [] art \in {"TRASHED", "PURGE_RESERVED"} /\ due -> "reservePurge"
      [] OTHER -> "idle"

Turn(c, next) == step' = [step EXCEPT ![c] = next] /\ UNCHANGED lock
Finish(c) == step' = [step EXCEPT ![c] = "idle"] /\ lock' = Free

\* Mutant: the lock is not asked for.
CollectUnlocked(c) ==
    /\ step[c] = "idle" /\ Preview # "idle"
    /\ step' = [step EXCEPT ![c] = Preview] /\ lock' = c
    /\ UNCHANGED <<art, kept, due, issue, pending, src, trash, touches, stops>>

\* A pass that finds the lock taken returns at once.
Collect(c) ==
    /\ step[c] = "idle" /\ lock = Free
    /\ Preview # "idle"
    /\ step' = [step EXCEPT ![c] = Preview] /\ lock' = c
    /\ UNCHANGED <<art, kept, due, issue, pending, src, trash, touches, stops>>

\* Mutant: a row that was held after the preview is reserved all the same.
ReserveMoveOverHold(c) ==
    /\ step[c] = "reserveMove"
    /\ IF TerminalArtifact THEN art' = "MOVE_RESERVED" /\ Turn(c, "open")
                            ELSE art' = art /\ Turn(c, "hold")
    /\ UNCHANGED <<kept, due, issue, pending, src, trash, touches, stops>>

\* _reserve_artifact_move: what the preview saw is asked again; a row on HOLD and
\* an issue that moved are errors, and errors hold the row.
ReserveArtifactMove(c) ==
    /\ step[c] = "reserveMove"
    /\ IF art = "MOVE_RESERVED" \/ (art = "REGISTERED" /\ TerminalArtifact)
       THEN art' = "MOVE_RESERVED" /\ Turn(c, "open")
       ELSE art' = art /\ Turn(c, "hold")
    /\ UNCHANGED <<kept, due, issue, pending, src, trash, touches, stops>>

\* Where _move_artifact_to_trash goes on, by what both names lead to: a move that
\* was interrupted before or after its unlink is taken up there.
AfterOpen ==
    CASE src = "own" /\ trash = "none" -> "link"
      [] src = "own" /\ trash = "own" -> "verify"
      [] src = "none" /\ trash = "own" -> "trashed"
      [] OTHER -> "hold"

OpenArtifact(c) ==
    /\ step[c] = "open"
    /\ Turn(c, AfterOpen)
    /\ UNCHANGED <<art, kept, due, issue, pending, src, trash, touches, stops>>

\* os.link goes by name, and what it linked is verified.
LinkArtifact(c) ==
    /\ step[c] = "link"
    /\ trash' = src
    /\ Turn(c, IF src = "own" THEN "verify" ELSE "hold")
    /\ UNCHANGED <<art, kept, due, issue, pending, src, touches, stops>>

\* The source is verified once more before it is unlinked.
VerifySource(c) ==
    /\ step[c] = "verify"
    /\ Turn(c, IF src = "own" THEN "unlink" ELSE "hold")
    /\ UNCHANGED <<art, kept, due, issue, pending, src, trash, touches, stops>>

UnlinkSource(c) ==
    /\ step[c] = "unlink"
    /\ src' = "none"
    /\ Turn(c, IF src = "none" \/ trash # "own" THEN "hold" ELSE "trashed")
    /\ UNCHANGED <<art, kept, due, issue, pending, trash, touches, stops>>

\* The transaction that ends the move; purge_after is counted from here.
RecordTrashed(c) ==
    /\ step[c] = "trashed"
    /\ art' = "TRASHED" /\ due' = FALSE
    /\ Finish(c)
    /\ UNCHANGED <<kept, issue, pending, src, trash, touches, stops>>

\* Mutant: the purge starts with the transaction still to come.
ReservePurgeLater(c) ==
    /\ step[c] = "reservePurge"
    /\ Turn(c, "purge")
    /\ UNCHANGED <<art, kept, due, issue, pending, src, trash, touches, stops>>

\* _reserve_artifact_purge.
ReserveArtifactPurge(c) ==
    /\ step[c] = "reservePurge"
    /\ art' = "PURGE_RESERVED"
    /\ Turn(c, "purge")
    /\ UNCHANGED <<kept, due, issue, pending, src, trash, touches, stops>>

\* _purge_artifact: a file that is already gone was purged by an earlier run.
PurgeArtifact(c) ==
    /\ step[c] = "purge"
    /\ trash' = IF trash = "own" THEN "none" ELSE trash
    /\ Turn(c, IF trash \in {"own", "none"} THEN "purged" ELSE "hold")
    /\ UNCHANGED <<art, kept, due, issue, pending, src, touches, stops>>

RecordPurged(c) ==
    /\ step[c] = "purged"
    /\ art' = IF art = "PURGE_RESERVED" THEN "PURGED" ELSE art
    /\ IF art = "PURGE_RESERVED" THEN Finish(c) ELSE Turn(c, "hold")
    /\ UNCHANGED <<kept, due, issue, pending, src, trash, touches, stops>>

\* _hold_artifact, for every error the loop of collect_artifacts catches.
HoldArtifact(c) ==
    /\ step[c] = "hold"
    /\ art' = IF art = "PURGED" THEN art ELSE "HOLD"
    /\ Finish(c)
    /\ UNCHANGED <<kept, due, issue, pending, src, trash, touches, stops>>

\* An OSError of a file operation; its effect may or may not have happened.
FailArtifact(c) ==
    /\ step[c] \in {"open", "link", "verify", "unlink", "purge"}
    /\ Turn(c, "hold")
    /\ \/ UNCHANGED <<src, trash>>
       \/ step[c] = "link" /\ trash' = src /\ UNCHANGED src
       \/ step[c] = "unlink" /\ src' = "none" /\ UNCHANGED trash
       \/ step[c] = "purge" /\ trash = "own" /\ trash' = "none" /\ UNCHANGED src
    /\ UNCHANGED <<art, kept, due, issue, pending, touches, stops>>

\* The pass is killed; the kernel releases the lock.
StopCollector(c) ==
    /\ step[c] # "idle" /\ stops < MaxStops
    /\ stops' = stops + 1
    /\ Finish(c)
    /\ UNCHANGED <<art, kept, due, issue, pending, src, trash, touches>>

-----------------------------------------------------------------------------
(* Everybody else.                                                          *)

\* hold_drifted_artifact: the planner, without the collector's lock.
HoldDrifted ==
    /\ art = "REGISTERED" /\ src = "copy"
    /\ art' = "HOLD"
    /\ UNCHANGED <<kept, due, issue, pending, src, trash, lock, step, touches, stops>>

\* Mutant: the fence opens as soon as the file is in the trash.
FenceOfMove == art # "MOVE_RESERVED" \/ trash = "own"

\* ARTIFACT_GC_INFLIGHT of _set_issue_status_locked and commit_terminal_closeout.
GcFence == art \notin ArtReserved

\* commit_terminal_closeout.
CloseIssue ==
    /\ issue = "working" /\ GcFence
    /\ issue' = "done"
    /\ UNCHANGED <<art, kept, due, pending, src, trash, lock, step, touches, stops>>

\* set_issue_status of a new generation.
ReplanIssue ==
    /\ issue # "next" /\ GcFence
    /\ issue' = "next"
    /\ UNCHANGED <<art, kept, due, pending, src, trash, lock, step, touches, stops>>

\* A message or comment about the issue is enqueued, or settled.
ControlIssue ==
    /\ pending' = ~pending
    /\ UNCHANGED <<art, kept, due, issue, src, trash, lock, step, touches, stops>>

\* Somebody replaces, copies back or removes the file at its path.
TouchSource(f) ==
    /\ f # src /\ touches < MaxTouches
    /\ src' = f /\ touches' = touches + 1
    /\ UNCHANGED <<art, kept, due, issue, pending, trash, lock, step, stops>>

\* The retention ends.
PassRetention ==
    /\ art = "TRASHED" /\ ~due
    /\ due' = TRUE
    /\ UNCHANGED <<art, kept, issue, pending, src, trash, lock, step, touches, stops>>

Collecting(c) ==
    \/ ReserveArtifactMove(c) \/ OpenArtifact(c) \/ LinkArtifact(c) \/ VerifySource(c)
    \/ UnlinkSource(c) \/ RecordTrashed(c) \/ ReserveArtifactPurge(c)
    \/ PurgeArtifact(c) \/ RecordPurged(c) \/ HoldArtifact(c) \/ FailArtifact(c)

ArtifactNext ==
    \/ \E c \in Collectors : Collect(c) \/ Collecting(c) \/ StopCollector(c)
    \/ HoldDrifted \/ CloseIssue \/ ReplanIssue \/ ControlIssue
    \/ \E f \in {"none", "copy", "other"} : TouchSource(f)
    \/ PassRetention

\* Passes are started by a timer and take every step.
CollectorRuns == \E c \in Collectors : Collect(c) \/ Collecting(c)

ArtifactSpec ==
    ArtifactInit /\ [][ArtifactNext]_artifactVars /\ WF_artifactVars(CollectorRuns)

-----------------------------------------------------------------------------
\* Row, issue, names, lock and steps have the values their code allows, and only
\* the holder of the lock collects.
ArtifactTypeOK ==
    /\ art \in ArtStates /\ issue \in {"working", "done", "next"}
    /\ {kept, due, pending} \subseteq BOOLEAN /\ {src, trash} \subseteq Files
    /\ lock \in Collectors \cup {Free}
    /\ \A c \in Collectors :
          step[c] \in {"idle", "reserveMove", "open", "link", "verify", "unlink", "trashed",
                       "reservePurge", "purge", "purged", "hold"}
    /\ \A c \in Collectors : step[c] # "idle" <=> lock = c

\* Until its retention has passed the registered file can be found, at its path or
\* in the trash, unless somebody else wrote to its path: no crash, OS error or
\* resumed move loses it, and a row that says TRASHED always has its file.
BytesKept ==
    /\ ~due /\ touches = 0 => "own" \in {src, trash}
    /\ art = "TRASHED" => trash = "own"

\* The collector takes a file away only from an issue that is closed out in the
\* generation of the artifact, however long ago that was checked: the reservation
\* keeps the issue where it is.
TakesFromClosedOnly ==
    src = "own" /\ src' = "none" /\ touches' = touches => issue = "done" /\ ~kept
TakenFromClosedOnly == [][TakesFromClosedOnly]_artifactVars

\* A held artifact is left as it is for somebody to look at.
LeavesHeldAlone == art = "HOLD" => art' = "HOLD" /\ trash' = trash
HeldIsLeftAlone == [][LeavesHeldAlone]_artifactVars

\* A collection that was begun comes to an end, so that ARTIFACT_GC_INFLIGHT does
\* not close the issue to its callers for good.
FenceIsLifted == []<>(art \notin ArtReserved)

\* The collector acts only where it is due: on files of closed-out issues, and never
\* again on an artifact that was held.
CollectionIsDue == TakenFromClosedOnly /\ HeldIsLeftAlone
=============================================================================
