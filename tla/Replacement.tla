---------------------------- MODULE Replacement ----------------------------
(***************************************************************************)
(* Replacing the database by a backup.  While the proxy serves, a restore  *)
(* stages a snapshot beside the database and rewrites the configuration;   *)
(* the next boot recovers from whatever the last one left, checks the      *)
(* snapshot, moves the live set aside, installs it, and commits or rolls   *)
(* back (cmd/proxy/backup.go; internal/storage: snapshot_admission.go,     *)
(* snapshot_recover.go, snapshot_encode.go, snapshot_preflight.go,         *)
(* store_open.go).                                                         *)
(*                                                                         *)
(* One rename, unlink or marker write is one step, a crash or an I/O error *)
(* may come before each.  A set of files is a main and a sidecar, which    *)
(* stands for WAL, SHM and journal; each is named by the database it       *)
(* belongs to.  Renames of one directory become durable in their order.    *)
(***************************************************************************)
EXTENDS Naturals, Sequences

CONSTANTS
    Snapshots,          \* databases an operator may restore
    Valid,              \* the ones that pass the preflight
    MaxCrashes, MaxFaults, MaxRestores, MaxStops

None == "none"
Old == "old"            \* the database before any restore
Empty == "empty"        \* what SQLite creates where there is no file
Slots == {"live", "incoming", "previous", "quarantine", "kept"}
Databases == Snapshots \union {Old, Empty}

VARIABLES
    main, side,         \* per slot: the database its file belongs to, or None
    marker,             \* .snapshot-state: None, "pending", "committed"
    pc,                 \* where the process is
    todo,               \* file operations still to do, in order
    flags,              \* snapshotAdmission: admitted, previous
    restoring,          \* the snapshot of the restore under way
    config,             \* the configuration file: the restore that wrote it
    \* What happened, for the properties only.
    frames,             \* databases with committed frames in a sidecar only
    truth,              \* the database that must be served
    slot,               \* what incoming and config must be between restores
    mixed,              \* a sidecar was opened with a foreign main
    lapses,             \* failures that recovery mistakes for something else
    crashes, faults, restores, stops

files == <<main, side, marker>>
history == <<frames, truth, slot, mixed, lapses>>
bounds == <<crashes, faults, restores, stops>>
vars == <<files, pc, todo, flags, restoring, config, history, bounds>>

NoAdmission == [admitted |-> FALSE, previous |-> FALSE]

\* A deployment with a database and unmerged frames, or a first boot.
Init ==
    /\ \E first \in BOOLEAN :
          /\ main = [s \in Slots |-> IF s = "live" /\ ~first THEN Old ELSE None]
          /\ side = [s \in Slots |-> IF s = "live" /\ ~first THEN Old ELSE None]
          /\ frames = IF first THEN {} ELSE {Old}
          /\ truth = IF first THEN None ELSE Old
    /\ marker = None /\ pc = "down" /\ todo = <<>> /\ flags = NoAdmission
    /\ restoring = None /\ config = None
    /\ slot = [incoming |-> None, config |-> None] /\ mixed = FALSE /\ lapses = {}
    /\ crashes = 0 /\ faults = 0 /\ restores = 0 /\ stops = 0

---------------------------------------------------------------------------
(* File operations.  The sidecar and the main of a slot move or go one at  *)
(* a time; an absent one is skipped.                                       *)

Op(kind, from, to) == [kind |-> kind, from |-> from, to |-> to]
MoveMain(a, b) == <<Op("main", a, b)>>
MoveSide(a, b) == <<Op("side", a, b)>>
RemoveMain(a) == <<Op("main", a, None)>>
RemoveSide(a) == <<Op("side", a, None)>>
Mark(state) == <<Op("mark", state, None)>>
Sync == <<Op("sync", None, None)>>

Moved(file, op) ==
    IF file[op.from] = None THEN file
    ELSE [s \in Slots |-> CASE s = op.from -> None
                            [] s = op.to -> file[op.from]
                            [] OTHER -> file[s]]

Apply(op) ==
    /\ main' = IF op.kind = "main" THEN Moved(main, op) ELSE main
    /\ side' = IF op.kind = "side" THEN Moved(side, op) ELSE side
    /\ marker' = IF op.kind = "mark" THEN op.from ELSE marker

removeSnapshotDebris == RemoveMain("previous") \o RemoveSide("previous")
quarantinePendingSnapshot ==
    MoveSide("incoming", "quarantine") \o MoveMain("incoming", "quarantine")
RemovePendingSnapshot == RemoveSide("incoming") \o RemoveMain("incoming")

---------------------------------------------------------------------------
(* Recovery at boot.                                                       *)

\* MutantMainFirst: the uncommitted main goes before its sidecar.
MutantMainFirst(state) ==
    (IF main["previous"] # None /\ state = "pending" /\ main["incoming"] = None
       THEN RemoveMain("live") ELSE <<>>)
    \o (IF main["previous"] # None THEN MoveMain("previous", "live") ELSE <<>>)
    \o MoveSide("previous", "live")
    \o (IF main["incoming"] # None THEN quarantinePendingSnapshot ELSE <<>>)
    \o Mark(None)

\* While the previous main is aside, what is at the live name is uncommitted, unless
\* the staged main is still in its slot: then live sidecars are the previous ones.
restorePendingSnapshot(state) ==
    LET aside == main["previous"] # None
        staged == main["incoming"] # None
        undo == CASE aside /\ state = "pending" /\ staged -> MoveSide("live", "previous")
                  [] aside /\ state = "pending" /\ ~staged ->
                       RemoveSide("live") \o RemoveMain("live")
                  [] OTHER -> <<>>
    IN  undo
        \o (IF aside THEN MoveMain("previous", "live") ELSE <<>>)
        \o MoveSide("previous", "live")
        \o (IF staged THEN quarantinePendingSnapshot ELSE <<>>)
        \o (IF state = None THEN <<>> ELSE Mark(None))

BothSidecars ==
    /\ marker = "pending" /\ main["previous"] # None /\ main["incoming"] # None
    /\ side["live"] # None /\ side["previous"] # None

\* A committed marker without its database refuses to boot.
RecoveryRefuses == (marker = "committed" /\ main["live"] = None) \/ BothSidecars

recoverInterruptedSnapshot ==
    CASE marker = "pending" -> restorePendingSnapshot(marker)
      [] marker = None /\ main["live"] = None /\ main["previous"] # None ->
           restorePendingSnapshot(marker)
      [] OTHER -> removeSnapshotDebris

Boot ==
    /\ pc = "down" /\ ~RecoveryRefuses
    /\ pc' = "recover" /\ todo' = recoverInterruptedSnapshot
    /\ UNCHANGED <<files, flags, restoring, config, history, bounds>>

---------------------------------------------------------------------------
(* Admission of the staged snapshot.                                       *)

Becomes(at, ops) == pc' = at /\ todo' = ops

\* checkPendingSnapshotFile: a regular private file with a database's header.
checkPendingSnapshotFile == main["incoming"] \in Valid

\* admitPendingSnapshot, from the file check to its verdict.  The preflight may also
\* reject a snapshot for a reason of its own (disk, schema).
Admit ==
    /\ pc = "recover" /\ todo = <<>>
    /\ CASE main["incoming"] = None -> Becomes("open", <<>>)
         [] main["incoming"] # None /\ ~checkPendingSnapshotFile ->
              Becomes("reject", quarantinePendingSnapshot)
         [] OTHER -> Becomes("preflight", RemoveSide("incoming"))
    /\ UNCHANGED <<files, flags, restoring, config, history, bounds>>

\* The preflight writes the staged file under a rollback journal.
Preflight ==
    /\ pc = "preflight" /\ todo = <<>> /\ side["incoming"] = None
    /\ side' = [side EXCEPT !["incoming"] = main["incoming"]]
    /\ Becomes("preflighted", RemoveSide("incoming"))
    /\ UNCHANGED <<main, marker, flags, restoring, config, history, bounds>>

Fault == faults < MaxFaults /\ faults' = faults + 1

\* MutantUnmarked: the live set is moved with no marker on disk.
MutantUnmarked ==
    (IF main["live"] # None
       THEN MoveSide("live", "previous") \o MoveMain("live", "previous")
       ELSE RemoveSide("live"))
    \o MoveMain("incoming", "live")

install ==
    Mark("pending")
    \o (IF main["live"] # None
          THEN MoveSide("live", "previous") \o MoveMain("live", "previous")
          ELSE RemoveSide("live"))
    \o MoveMain("incoming", "live")
    \o Sync

Preflighted ==
    /\ pc = "preflighted" /\ todo = <<>>
    /\ \/ /\ Becomes("install", install)
          /\ flags' = [admitted |-> TRUE, previous |-> main["live"] # None]
          /\ UNCHANGED faults
       \/ Fault /\ Becomes("reject", quarantinePendingSnapshot) /\ UNCHANGED flags
    /\ UNCHANGED <<files, restoring, config, history, crashes, restores, stops>>

\* Installed, or rejected and kept for inspection.
Admitted ==
    /\ pc \in {"install", "reject"} /\ todo = <<>>
    /\ Becomes("open", <<>>)
    /\ UNCHANGED <<files, flags, restoring, config, history, bounds>>

\* restorePrevious: the uncommitted set first, sidecar before main; then the previous
\* main before its sidecar; the marker last.
restorePrevious ==
    (IF main["incoming"] = None
       THEN RemoveSide("live") \o RemoveMain("live") ELSE <<>>)
    \o (IF flags.previous THEN MoveMain("previous", "live") \o MoveSide("previous", "live")
        ELSE <<>>)
    \o Sync \o Mark(None)

---------------------------------------------------------------------------
(* Open.                                                                   *)

Attached == IF main["live"] = None THEN Empty ELSE main["live"]

\* SQLite opens the main, creating it if need be, with the sidecar it finds.
OpenDatabase ==
    /\ pc = "open"
    /\ main' = [main EXCEPT !["live"] = Attached]
    /\ side' = [side EXCEPT !["live"] = IF @ = None THEN Attached ELSE @]
    /\ mixed' = (mixed \/ side["live"] \notin {None, Attached})
    /\ IF flags.admitted THEN Becomes("commit", Mark("committed"))
       ELSE Becomes("up", <<>>)
    /\ truth' = IF truth = None /\ ~flags.admitted THEN Attached ELSE truth
    /\ slot' = [incoming |-> main["incoming"], config |-> config]
    /\ UNCHANGED <<marker, flags, restoring, config, frames, lapses, bounds>>

\* Opening, initialising or constructing the store failed; closing it merges the
\* sidecar of an admitted set, which has no frames of its own yet.
OpenFails ==
    /\ pc = "open" /\ Fault
    /\ IF flags.admitted THEN Becomes("rollback", restorePrevious) ELSE Becomes("down", <<>>)
    /\ UNCHANGED <<files, flags, restoring, config, history, crashes, restores, stops>>

\* The rest of commit.
Committed ==
    /\ pc = "commit" /\ todo = <<>>
    /\ Becomes("cleanup", IF flags.previous THEN removeSnapshotDebris ELSE <<>>)
    /\ UNCHANGED <<files, flags, restoring, config, history, bounds>>

CleanedUp ==
    /\ pc = "cleanup" /\ todo = <<>>
    /\ Becomes("up", <<>>)
    /\ flags' = NoAdmission
    /\ UNCHANGED <<files, restoring, config, history, bounds>>

RolledBack ==
    /\ pc = "rollback" /\ todo = <<>>
    /\ Becomes("down", <<>>)
    /\ flags' = NoAdmission
    /\ UNCHANGED <<files, restoring, config, history, bounds>>

---------------------------------------------------------------------------
(* Serving, and a restore in replace mode.                                 *)

Write ==
    /\ pc = "up" /\ main["live"] \notin frames
    /\ frames' = frames \union {main["live"]}
    /\ side' = [side EXCEPT !["live"] = main["live"]]
    /\ UNCHANGED <<main, marker, pc, todo, flags, restoring, config, truth, slot, mixed,
                   lapses, bounds>>

\* The last connection closes: its sidecar is merged and removed.
CloseStore ==
    /\ pc = "up" /\ stops < MaxStops
    /\ stops' = stops + 1
    /\ frames' = frames \ {main["live"]}
    /\ side' = [side EXCEPT !["live"] = None]
    /\ pc' = "down"
    /\ UNCHANGED <<main, marker, todo, flags, restoring, config, truth, slot, mixed, lapses,
                   crashes, faults, restores>>

\* A snapshot already in the slot is kept aside.
captureRestorePending == MoveMain("incoming", "kept")

handleRestore(s) ==
    /\ pc = "up" /\ restores < MaxRestores
    /\ restores' = restores + 1
    /\ restoring' = s
    /\ Becomes("capture", captureRestorePending)
    /\ UNCHANGED <<files, flags, config, history, crashes, faults, stops>>

\* publishSnapshot renames a complete temporary file into the slot.
StageSnapshotFile ==
    /\ pc = "capture" /\ todo = <<>> /\ side["incoming"] = None
    /\ main' = [main EXCEPT !["incoming"] = restoring]
    /\ Becomes("staged", <<>>)
    /\ UNCHANGED <<side, marker, flags, restoring, config, history, bounds>>

RemoveStale ==
    /\ pc = "capture" /\ todo = <<>> /\ side["incoming"] # None
    /\ todo' = RemoveSide("incoming")
    /\ UNCHANGED <<files, pc, flags, restoring, config, history, bounds>>

\* The guard's rollback: the kept snapshot over the new one, or nothing in the slot.
guardRollback ==
    IF main["kept"] # None THEN MoveMain("kept", "incoming") ELSE RemovePendingSnapshot

ValidatePendingSnapshot ==
    /\ pc = "staged"
    /\ IF restoring \in Valid
         THEN Becomes("configure", <<>>) /\ UNCHANGED side
         ELSE /\ Becomes("undo", guardRollback)
              /\ side' = [side EXCEPT !["incoming"] = restoring]
    /\ UNCHANGED <<main, marker, flags, restoring, config, history, bounds>>

\* applyRestoreConfig: written and reloaded, or the previous bytes are put back.
applyRestoreConfig ==
    /\ pc = "configure"
    /\ config' = restoring
    /\ Becomes("discard", RemoveMain("kept"))
    /\ UNCHANGED <<files, flags, restoring, history, bounds>>

\* MutantKeepsStaged: a failed configuration leaves the new snapshot in the slot.
MutantKeepsStaged ==
    /\ pc = "configure"
    /\ Becomes("undo", <<>>)
    /\ UNCHANGED <<files, flags, restoring, config, history, bounds>>

rollbackRestoreConfig ==
    /\ pc = "configure"
    /\ Becomes("undo", guardRollback)
    /\ UNCHANGED <<files, flags, restoring, config, history, bounds>>

RestoreDone ==
    /\ pc \in {"discard", "undo"} /\ todo = <<>>
    /\ Becomes("up", <<>>)
    /\ slot' = IF pc = "discard" THEN [incoming |-> restoring, config |-> restoring] ELSE slot
    /\ restoring' = None
    /\ main' = [main EXCEPT !["kept"] = None]
    /\ UNCHANGED <<side, marker, flags, config, frames, truth, mixed, lapses, bounds>>

---------------------------------------------------------------------------
(* Operations one by one, their errors, and crashes.                       *)

\* With a committed marker the replacement is the database that counts.
FileOp ==
    /\ todo # <<>>
    /\ Apply(Head(todo))
    /\ todo' = Tail(todo)
    /\ IF Head(todo) = Mark("committed")[1]
         THEN truth' = main["live"] /\ frames' = frames \intersect {main["live"]}
         ELSE UNCHANGED <<truth, frames>>
    /\ UNCHANGED <<pc, flags, restoring, config, slot, mixed, lapses, bounds>>

\* removeSnapshotDebris is past its main: what is left of a set it only logs.
DebrisSidecar == Head(todo) = RemoveSide("previous")[1]

\* What an error leads to.  A quarantine and a cleanup are given up and logged, with a
\* sidecar left over a boot goes on; a rollback that fails keeps its evidence for the
\* next boot.
OnError ==
    CASE pc \in {"reject", "cleanup", "discard"} -> [at |-> pc, ops |-> <<>>]
      [] pc = "recover" /\ DebrisSidecar -> [at |-> pc, ops |-> <<>>]
      [] pc = "install" /\ Head(todo).kind # "mark" -> [at |-> "rollback", ops |-> restorePrevious]
      [] pc = "commit" -> [at |-> "rollback", ops |-> restorePrevious]
      [] pc = "preflighted" -> [at |-> "reject", ops |-> quarantinePendingSnapshot]
      [] pc = "capture" ->
           [at |-> "undo", ops |-> IF Head(todo).kind = "side" THEN guardRollback ELSE <<>>]
      [] pc = "undo" -> [at |-> "undo", ops |-> <<>>]
      [] OTHER -> [at |-> "down", ops |-> <<>>]

\* A marker that says committed though its write answered an error, and a rollback set's
\* sidecar that a boot left behind: recovery cannot tell either from what it looks like.
Lapse ==
    IF marker' = "committed" /\ marker # "committed" THEN {"marker"}
    ELSE IF pc = "recover" /\ DebrisSidecar /\ side["previous"] # None THEN {"sidecar"}
    ELSE {}

\* A marker is a rename or an unlink, then the sync of its directory: an error may come
\* before the one or from the other.
FileOpFails ==
    /\ todo # <<>> /\ Fault
    /\ \/ UNCHANGED marker
       \/ Head(todo).kind = "mark" /\ marker' = Head(todo).from
    /\ lapses' = lapses \union Lapse
    /\ Becomes(OnError.at, OnError.ops)
    /\ flags' = IF OnError.at = "down" THEN NoAdmission ELSE flags
    /\ UNCHANGED <<main, side, restoring, config, frames, truth, slot, mixed, crashes,
                   restores, stops>>

\* A kept snapshot becomes an orphan that only the sweep looks at.
Crash ==
    /\ pc # "down" /\ crashes < MaxCrashes
    /\ crashes' = crashes + 1
    /\ Becomes("down", <<>>)
    /\ flags' = NoAdmission /\ restoring' = None
    /\ main' = [main EXCEPT !["kept"] = None]
    /\ UNCHANGED <<side, marker, config, history, faults, restores, stops>>

Step ==
    \/ Boot \/ Admit \/ Preflight \/ Preflighted \/ Admitted
    \/ OpenDatabase \/ Committed \/ CleanedUp \/ RolledBack
    \/ StageSnapshotFile \/ RemoveStale \/ ValidatePendingSnapshot \/ applyRestoreConfig
    \/ RestoreDone \/ FileOp

Next ==
    \/ Step
    \/ OpenFails \/ rollbackRestoreConfig \/ FileOpFails \/ Crash
    \/ Write \/ CloseStore
    \/ \E s \in Snapshots : handleRestore(s)

Spec == Init /\ [][Next]_vars

\* A supervisor starts the process again, and it runs.
Fairness == WF_vars(Step)

---------------------------------------------------------------------------
(* Properties.                                                             *)

\* Whatever crash or error comes between two renames, the database that counts and
\* its committed frames are on disk (snapshot_admission.go: restorePrevious;
\* snapshot_recover.go).
DatabaseSurvives ==
    truth # None =>
        /\ \E s \in {"live", "previous"} : main[s] = truth
        /\ truth \in frames => \E s \in {"live", "previous"} : side[s] = truth

\* snapshot_admission.go: no failure of a rollback discards committed frames.  While a
\* main is at the live name, the frames committed to it exist.
FramesKept ==
    \A d \in frames : main["live"] = d => \E s \in {"live", "previous"} : side[s] = d

\* A process that serves has that database open with all of its frames, and no sidecar
\* is ever opened with another database's main.
ServesTruth ==
    /\ ~mixed
    /\ pc = "up" => main["live"] = truth /\ (truth \in frames => side["live"] = truth)

\* A restore that was refused leaves slot and configuration as they were, one that was
\* accepted has written both (cmd/proxy/backup.go: handleRestore).
RestoreAllOrNothing ==
    pc = "up" /\ restoring = None /\ faults = 0 =>
        main["incoming"] = slot.incoming /\ config = slot.config

\* The promises of a replacement together: no crash or error between two file
\* operations loses the database, opens the wrong one or leaves half a restore.  The
\* two errors that recovery misreads are named and not covered: FramesKept shows what
\* the marker's does, and a sidecar left behind joins the next main moved aside.
ReplacementSound ==
    lapses = {} => DatabaseSurvives /\ ServesTruth /\ RestoreAllOrNothing

\* A crash or an error that recovery does not misread never leaves files no boot
\* accepts: the process serves again.
Serves == pc = "up" \/ lapses # {}
ServesAgain == []<>Serves
=============================================================================
