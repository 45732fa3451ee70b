------------------------------- MODULE Journal -------------------------------
(***************************************************************************)
(* The life of one session's journal on disk: the writer of a live session *)
(* (lazy creation, appends that fail or are cut by a crash), resume and    *)
(* close, the interrupted-turn backfill of the startup recovery, and the   *)
(* retention domain that swaps wire.jsonl for wire.jsonl.gz and back.      *)
(*                                                                         *)
(* All of it runs in one process as concurrent tasks: an action is what a  *)
(* task does between two awaits, and only the retention actions exclude    *)
(* each other, by the lock file of the session directory.  Crash kills     *)
(* every task at once.                                                     *)
(*                                                                         *)
(* A scope is one SessionScope: close and eviction take it out of the      *)
(* workspace map, but a turn that is running keeps it, and its file        *)
(* handle, until the turn ends.                                            *)
(***************************************************************************)
EXTENDS WireLog

CONSTANTS
    MaxScopes,     \* bound: scopes ever created (one create, then resumes)
    MaxCrashes,    \* bound: crashes
    MaxFails,      \* bound: failed appends and failed removals
    MaxArchives,   \* bound: session.archive calls
    MaxPasses,     \* bound: retention.compressNow calls
    MaxRestores    \* bound: session.restore calls

ASSUME JournalAssumption ==
    /\ MaxScopes \in Nat \ {0} /\ MaxCrashes \in Nat /\ MaxFails \in Nat
    /\ MaxArchives \in Nat /\ MaxPasses \in Nat /\ MaxRestores \in Nat

Scopes == 1..MaxScopes
NoFile == [exists |-> FALSE, bytes |-> <<>>]
File(bytes) == [exists |-> TRUE, bytes |-> bytes]

VARIABLES
    plain, gz,     \* wire.jsonl, wire.jsonl.gz
    archived,      \* the metadata row's archive flag
    marker,        \* the metadata row's compressed flag
    snap,          \* snapshot.json: the folded ops (its op_index is their number)
    live,          \* the scope in the workspace map, 0 if none
    made,          \* scopes created so far
    fd,            \* each scope's append handle; "orphan": its file is gone
    busy,          \* scopes with a running turn
    memArchived,   \* SessionMetadata.archived of the live scope
    slot, buffer,  \* WireLogSlot of the first scope, created lazily
    resume,        \* the resume in flight
    archiving,     \* session.archive has closed and will write the row
    lock,          \* who holds the directory lock
    comp, copy,    \* the compression in flight and its temp file
    heal,          \* what a heal in flight is about to write
    rest,          \* the restore in flight
    recovery,      \* the startup recovery: due, about to write, or done
    next, crashes, fails, archives, passes, restores,
    acked,         \* history: ops whose append returned Ok
    failed,        \* history: scopes one of whose appends failed
    harm           \* history: how bytes were put where no reader finds them

disk    == <<plain, gz, snap>>
row     == <<archived, marker>>
scope   == <<live, made, fd, busy, memArchived, slot, buffer>>
tasks   == <<resume, archiving, lock, comp, copy, heal, rest, recovery>>
bounds  == <<next, crashes, fails, archives, passes, restores>>
past    == <<acked, failed, harm>>
vars    == <<disk, row, scope, tasks, bounds, past>>

Handles == {"none", "linked", "orphan"}

TypeOK ==
    /\ \A file \in {plain, gz} :
            /\ file.exists \in BOOLEAN /\ file.bytes \in Seq(Byte)
            /\ ~file.exists => file.bytes = <<>>
    /\ archived \in BOOLEAN /\ marker \in BOOLEAN /\ memArchived \in BOOLEAN
    /\ snap \in Seq(Op) /\ buffer \in Seq(Op)
    /\ live \in 0..made /\ made \in Scopes
    /\ fd \in [Scopes -> Handles] /\ busy \subseteq Scopes
    /\ slot \in {"deferred", "flushing", "writer"}
    /\ resume \in {"idle", "replay", "open"}
    /\ archiving \in BOOLEAN
    /\ lock \in {"free", "compress", "restore"}
    /\ comp \in {"idle", "candidate", "due", "locked", "copied", "renamed", "removed"}
    /\ copy \in Seq(Byte)
    /\ heal \in {"none", "set", "clear"}
    /\ rest \in {"idle", "probe", "decode", "renamed", "clear", "resume", "resuming"}
    /\ recovery \in {"done", "due", "write"}
    /\ next \in 1..MaxOps + 1 /\ crashes \in 0..MaxCrashes
    /\ fails \in 0..MaxFails /\ archives \in 0..MaxArchives
    /\ passes \in 0..MaxPasses /\ restores \in 0..MaxRestores
    /\ acked \subseteq Op /\ failed \subseteq Scopes
    /\ harm \subseteq {"splice", "unlinked", "shadow", "overwrite"}

\* session.create defers: no directory and no file until the first turn.
Init ==
    /\ plain = NoFile /\ gz = NoFile /\ snap = <<>>
    /\ archived = FALSE /\ marker = FALSE
    /\ live = 1 /\ made = 1 /\ fd = [s \in Scopes |-> "none"] /\ busy = {}
    /\ memArchived = FALSE /\ slot = "deferred" /\ buffer = <<>>
    /\ resume = "idle" /\ archiving = FALSE /\ lock = "free"
    /\ comp = "idle" /\ copy = <<>> /\ heal = "none" /\ rest = "idle"
    /\ recovery = "done"
    /\ next = 1 /\ crashes = 0 /\ fails = 0 /\ archives = 0 /\ passes = 0 /\ restores = 0
    /\ acked = {} /\ failed = {} /\ harm = {}

(***************************************************************************)
(* Shapes and reads.                                                       *)
(***************************************************************************)
probe_compressed ==
    IF plain.exists THEN "Plain" ELSE IF gz.exists THEN "Compressed" ELSE "Missing"

\* open_wire_log_lines: an absent log has no lines.
LogBytes == IF probe_compressed = "Compressed" THEN gz.bytes ELSE plain.bytes

Readable == ~Corrupted(LogBytes)

Records == ReadAll(LogBytes)

\* replay_records_blocking: the snapshot is the base unless it is ahead.
ReplayedMutantOverlap ==
    LET records == Records
    IN  IF Len(snap) <= Len(records) /\ snap # <<>>
        THEN snap \o SubSeq(records, Len(snap), Len(records))
        ELSE records

Replayed ==
    LET records == Records
    IN  IF Len(snap) <= Len(records)
        THEN snap \o SubSeq(records, Len(snap) + 1, Len(records))
        ELSE records

\* scan_tail_facts: the last bracket record is a prompt.
OpenTurn ==
    LET records == Records
    IN  \E i \in DOMAIN records :
            /\ records[i].kind = "prompt"
            /\ \A j \in i + 1..Len(records) : records[j].kind # "ended"

(***************************************************************************)
(* Appends.  The handle is in O_APPEND mode and never repairs what is      *)
(* already there: a write lands after the torn tail, if there is one.      *)
(***************************************************************************)
Land(bytes) ==
    /\ plain' = File(plain.bytes \o bytes)
    /\ harm' = harm
        \cup (IF bytes # <<>> /\ TornTail(plain.bytes) # <<>> THEN {"splice"} ELSE {})
        \cup (IF ~plain.exists /\ gz.exists THEN {"shadow"} ELSE {})

\* Creates a file that is not there, never truncates.
open_for_appendMutantTruncates == plain' = File(<<>>) /\ UNCHANGED harm
open_for_append == Land(<<>>)

\* write_durable through a scope's handle, which may be of an unlinked file.
WriteVia(s, bytes) ==
    \/ fd[s] = "linked" /\ Land(bytes)
    \/ fd[s] = "orphan" /\ harm' = harm \cup {"unlinked"} /\ UNCHANGED plain

\* The slot's lock is held while a deferred buffer is flushed.
Writers == {s \in Scopes : /\ fd[s] # "none" /\ s \in busy \cup {live}
                           /\ slot = "flushing" => s # 1}

NewOpMutantStale(kind) == [n |-> next - 1, kind |-> kind]
NewOp(kind) == [n |-> next, kind |-> kind]

\* record_op on an installed writer, the append succeeding.
RecordOk(s, o) == WriteVia(s, Record(o)) /\ acked' = acked \cup {o}

\* record_op swallows the error: the op is dropped, whatever part of it
\* reached the file, and the handle stays in use.
RecordFailed(s, o) ==
    /\ fails < MaxFails /\ fails' = fails + 1
    /\ \E k \in 0..RecordLen[o] : WriteVia(s, SubSeq(Record(o), 1, k))
    /\ failed' = failed \cup {s}

RecordVia(s, kind) ==
    /\ next <= MaxOps /\ next' = next + 1
    /\ \/ RecordOk(s, NewOp(kind)) /\ UNCHANGED <<fails, failed>>
       \/ RecordFailed(s, NewOp(kind)) /\ UNCHANGED acked
    /\ UNCHANGED <<gz, snap, crashes, archives, passes, restores>>

RecordEvent(s) ==
    /\ s \in Writers
    /\ RecordVia(s, "event")
    /\ UNCHANGED <<row, scope, tasks>>

\* Only the session in the map starts turns.
StartTurn ==
    /\ live \in Writers \ busy
    /\ RecordVia(live, "prompt")
    /\ busy' = busy \cup {live}
    /\ UNCHANGED <<row, live, made, fd, memArchived, slot, buffer, tasks>>

\* The turn task ends and drops its reference: a scope that has left the map
\* is dropped with its handle.
EndTurn(s) ==
    /\ s \in busy
    /\ RecordVia(s, "ended")
    /\ busy' = busy \ {s}
    /\ fd' = IF s = live THEN fd ELSE [fd EXCEPT ![s] = "none"]
    /\ UNCHANGED <<row, live, made, memArchived, slot, buffer, tasks>>

(***************************************************************************)
(* Lazy creation: ops wait in the deferred buffer; materialize truncates   *)
(* the file and flushes them in order under the slot's lock.               *)
(***************************************************************************)
RecordDeferred ==
    /\ live = 1 /\ slot = "deferred" /\ next <= MaxOps
    /\ buffer' = Append(buffer, NewOp("event")) /\ next' = next + 1
    /\ UNCHANGED <<disk, row, live, made, fd, busy, memArchived, slot, tasks,
                   crashes, fails, archives, passes, restores, past>>

Materialize ==
    /\ live = 1 /\ slot = "deferred"
    /\ plain' = File(<<>>) /\ slot' = "flushing"
    /\ fd' = [fd EXCEPT ![1] = "linked"]
    /\ UNCHANGED <<gz, snap, row, live, made, busy, memArchived, buffer, tasks,
                   bounds, past>>

\* flush_deferred: in record order.
NextFlushedMutantNewest == buffer[Len(buffer)]
NextFlushed == Head(buffer)

FlushOne ==
    /\ slot = "flushing" /\ buffer # <<>>
    /\ \/ RecordOk(1, NextFlushed) /\ UNCHANGED <<fails, failed>>
       \/ RecordFailed(1, NextFlushed) /\ UNCHANGED acked
    /\ buffer' = Tail(buffer)
    /\ UNCHANGED <<gz, snap, row, live, made, fd, busy, memArchived, slot, tasks,
                   next, crashes, archives, passes, restores>>

Installed ==
    /\ slot = "flushing" /\ buffer = <<>> /\ slot' = "writer"
    /\ UNCHANGED <<disk, row, live, made, fd, busy, memArchived, buffer, tasks,
                   bounds, past>>

(***************************************************************************)
(* Leaving and entering the workspace map.                                 *)
(***************************************************************************)
Handle(s) == IF s \in busy THEN fd[s] ELSE "none"

\* close_session: snapshot what the log replays to (best effort), write the
\* metadata row back, drop the scope.  A running turn is not cancelled.
CloseLive ==
    /\ live' = 0
    /\ fd' = [fd EXCEPT ![live] = Handle(live)]
    /\ snap' = IF plain.exists /\ Readable THEN Replayed ELSE snap
    /\ archived' = IF fd[live] # "none" THEN memArchived ELSE archived

Close ==
    /\ live # 0 /\ slot # "flushing"
    /\ CloseLive
    /\ UNCHANGED <<plain, gz, marker, made, busy, memArchived, slot, buffer, tasks,
                   bounds, past>>

\* session.archive: close if live, then the row write, after an await.
Archive ==
    /\ ~archiving /\ slot # "flushing"
    /\ archives < MaxArchives /\ archives' = archives + 1
    /\ archiving' = TRUE
    /\ IF live # 0 THEN CloseLive ELSE UNCHANGED <<live, fd, snap, archived>>
    /\ UNCHANGED <<plain, gz, marker, made, busy, memArchived, slot, buffer,
                   resume, lock, comp, copy, heal, rest, recovery,
                   next, crashes, fails, passes, restores, past>>

ArchiveRow ==
    /\ archiving /\ archiving' = FALSE /\ archived' = TRUE
    /\ UNCHANGED <<disk, marker, scope, resume, lock, comp, copy, heal, rest,
                   recovery, bounds, past>>

\* resume_session_with_scope up to the registration in the workspace map: it
\* takes no lock, and only a plain log is accepted.
BeginResume ==
    /\ live = 0 /\ resume = "idle" /\ made < MaxScopes
    /\ probe_compressed = "Plain"
    /\ made' = made + 1 /\ live' = made + 1 /\ resume' = "replay"
    /\ memArchived' = archived

\* session.resume, of an archived session too: it keeps the flag.
Resume ==
    /\ BeginResume
    /\ UNCHANGED <<disk, row, fd, busy, slot, buffer, archiving, lock, comp, copy,
                   heal, rest, recovery, bounds, past>>

\* The replay; rollback_failed_resume takes the session back out.
ResumeReplay ==
    /\ resume = "replay"
    /\ \/ Readable /\ resume' = "open" /\ UNCHANGED <<live, rest>>
       \/ /\ ~Readable /\ resume' = "idle" /\ live' = 0
          /\ rest' = IF rest = "resuming" THEN "idle" ELSE rest
    /\ UNCHANGED <<disk, row, made, fd, busy, memArchived, slot, buffer, archiving,
                   lock, comp, copy, heal, recovery, bounds, past>>

ResumeOpen ==
    /\ resume = "open" /\ resume' = "idle"
    /\ open_for_append
    /\ fd' = IF live = made THEN [fd EXCEPT ![made] = "linked"] ELSE fd
    /\ UNCHANGED <<gz, snap, row, live, made, busy, memArchived, slot, buffer,
                   archiving, lock, comp, copy, heal, rest, recovery, bounds,
                   acked, failed>>

(***************************************************************************)
(* Retention: heal, compress (retention pass or compressNow), restore.     *)
(***************************************************************************)
HealVerdictMutantSetOnly ==
    IF probe_compressed = "Compressed" /\ ~marker THEN "set" ELSE "none"

\* heal_compression_state up to its write: the marker is the cache of the shape.
HealVerdict ==
    CASE probe_compressed = "Compressed" /\ ~marker -> "set"
      [] probe_compressed = "Plain" /\ marker -> "clear"
      [] OTHER -> "none"

\* scan_candidates: archived, and not in the map when the scan looks.
Scan ==
    /\ comp = "idle" /\ archived /\ live = 0
    /\ comp' = "candidate" /\ heal' = HealVerdict
    /\ UNCHANGED <<disk, row, scope, resume, archiving, lock, copy, rest, recovery,
                   bounds, past>>

\* The write of heal_compression_state, which holds no lock.
Heal ==
    /\ comp = "candidate" /\ comp' = "due" /\ heal' = "none"
    /\ marker' = IF heal = "none" THEN marker ELSE heal = "set"
    /\ UNCHANGED <<disk, archived, scope, resume, archiving, lock, copy, rest,
                   recovery, bounds, past>>

\* dispatch_retention_compress_now: the live session is taken out of the map
\* (the close that follows finds nothing to close), no deadline is consulted.
CompressNow ==
    /\ comp = "idle" /\ passes < MaxPasses /\ slot # "flushing"
    /\ passes' = passes + 1
    /\ comp' = "due"
    /\ live' = 0
    /\ fd' = IF live = 0 THEN fd ELSE [fd EXCEPT ![live] = Handle(live)]
    /\ UNCHANGED <<disk, row, made, busy, memArchived, slot, buffer, resume,
                   archiving, lock, copy, heal, rest, recovery,
                   next, crashes, fails, archives, restores, past>>

\* should_compress: the grace period is not over (a pass only).
NotDue ==
    /\ comp = "due" /\ comp' = "idle"
    /\ UNCHANGED <<disk, row, scope, resume, archiving, lock, copy, heal, rest,
                   recovery, bounds, past>>

\* compress_session: try_acquire and the in-lock re-validation; a session
\* that is not archived, or already compressed, or has no log, is left alone.
Lock ==
    /\ comp = "due"
    /\ IF lock = "free" /\ archived /\ probe_compressed = "Plain"
       THEN comp' = "locked" /\ lock' = "compress"
       ELSE comp' = "idle" /\ UNCHANGED lock
    /\ UNCHANGED <<disk, row, scope, resume, archiving, copy, heal, rest, recovery,
                   bounds, past>>

\* compress_wire_log into the temp file; an error removes that and gives up.
Copy ==
    /\ comp = "locked"
    /\ \/ comp' = "copied" /\ copy' = plain.bytes /\ UNCHANGED <<lock, fails>>
       \/ /\ fails < MaxFails /\ fails' = fails + 1
          /\ comp' = "idle" /\ lock' = "free" /\ UNCHANGED copy
    /\ UNCHANGED <<disk, row, scope, resume, archiving, heal, rest, recovery,
                   next, crashes, archives, passes, restores, past>>

RenameGz ==
    /\ comp = "copied" /\ comp' = "renamed" /\ gz' = File(copy) /\ copy' = <<>>
    /\ UNCHANGED <<plain, snap, row, scope, resume, archiving, lock, heal, rest,
                   recovery, bounds, past>>

\* Open handles keep the removed file; a failed removal is only logged.
RemovePlain ==
    /\ comp = "renamed" /\ comp' = "removed"
    /\ \/ /\ plain' = NoFile
          /\ fd' = [s \in Scopes |-> IF fd[s] = "linked" THEN "orphan" ELSE fd[s]]
          /\ harm' = IF plain.bytes # gz.bytes THEN harm \cup {"unlinked"} ELSE harm
          /\ UNCHANGED fails
       \/ fails < MaxFails /\ fails' = fails + 1 /\ UNCHANGED <<plain, fd, harm>>
    /\ UNCHANGED <<gz, snap, row, live, made, busy, memArchived, slot, buffer,
                   resume, archiving, lock, copy, heal, rest, recovery,
                   next, crashes, archives, passes, restores, acked, failed>>

\* set_compressed, which may fail, then the guard is dropped.
Stamp ==
    /\ comp = "removed" /\ comp' = "idle" /\ lock' = "free"
    /\ \/ marker' = TRUE /\ UNCHANGED fails
       \/ fails < MaxFails /\ fails' = fails + 1 /\ UNCHANGED marker
    /\ UNCHANGED <<disk, archived, scope, resume, archiving, copy, heal, rest,
                   recovery, next, crashes, archives, passes, restores, past>>

\* session.restore: a held lock is an error.
Restore ==
    /\ rest = "idle" /\ restores < MaxRestores /\ restores' = restores + 1
    /\ lock = "free" /\ lock' = "restore" /\ rest' = "probe"
    /\ UNCHANGED <<disk, row, scope, resume, archiving, comp, copy, heal, recovery,
                   next, crashes, fails, archives, passes, past>>

RestoreProbeMutantNoDecode ==
    /\ rest = "probe"
    /\ rest' = IF probe_compressed = "Compressed" THEN "renamed" ELSE "clear"
    /\ UNCHANGED <<disk, row, scope, resume, archiving, lock, comp, copy, heal,
                   recovery, bounds, past>>

RestoreProbe ==
    /\ rest = "probe"
    /\ rest' = IF probe_compressed = "Compressed" THEN "decode" ELSE "clear"
    /\ UNCHANGED <<disk, row, scope, resume, archiving, lock, comp, copy, heal,
                   recovery, bounds, past>>

\* decompress_wire_log: the rename replaces whatever is there by then.  An
\* error before it ends the restore.
RenamePlain ==
    /\ rest = "decode"
    /\ \/ /\ rest' = "renamed"
          /\ plain' = File(gz.bytes)
          /\ fd' = [s \in Scopes |-> IF fd[s] = "linked" THEN "orphan" ELSE fd[s]]
          /\ harm' = IF plain.bytes # <<>> THEN harm \cup {"overwrite"} ELSE harm
          /\ UNCHANGED <<lock, fails>>
       \/ /\ fails < MaxFails /\ fails' = fails + 1
          /\ rest' = "idle" /\ lock' = "free" /\ UNCHANGED <<plain, fd, harm>>
    /\ UNCHANGED <<gz, snap, row, live, made, busy, memArchived, slot, buffer,
                   resume, archiving, comp, copy, heal, recovery,
                   next, crashes, archives, passes, restores, acked, failed>>

RemoveGz ==
    /\ rest = "renamed" /\ rest' = "clear" /\ gz' = NoFile
    /\ UNCHANGED <<plain, snap, row, scope, resume, archiving, lock, comp, copy,
                   heal, recovery, bounds, past>>

\* clear_compressed and set_archived(false), then the guard is dropped.
ClearFlags ==
    /\ rest = "clear" /\ rest' = "resume" /\ lock' = "free"
    /\ archived' = FALSE /\ marker' = FALSE
    /\ UNCHANGED <<disk, scope, resume, archiving, comp, copy, heal, recovery,
                   bounds, past>>

\* dispatch_resume_session within the restore; its failure ends the restore.
RestoreResume ==
    /\ rest = "resume"
    /\ \/ BeginResume /\ rest' = "resuming"
       \/ /\ live # 0 \/ probe_compressed # "Plain"
          /\ rest' = "idle" /\ UNCHANGED <<live, made, resume, memArchived>>
    /\ UNCHANGED <<disk, row, fd, busy, slot, buffer, archiving, lock, comp, copy,
                   heal, recovery, bounds, past>>

\* After the resume the flags are cleared once more, and in memory.
RestoreDone ==
    /\ rest = "resuming" /\ resume = "idle" /\ rest' = "idle"
    /\ archived' = FALSE /\ marker' = FALSE /\ memArchived' = FALSE
    /\ UNCHANGED <<disk, live, made, fd, busy, slot, buffer, resume, archiving,
                   lock, comp, copy, heal, recovery, bounds, past>>

(***************************************************************************)
(* Startup recovery after an abnormal exit: a turn the log leaves open is  *)
(* given a synthetic turn.ended.                                           *)
(***************************************************************************)
RecoveryScan ==
    /\ recovery = "due"
    /\ recovery' = IF /\ ~archived /\ probe_compressed = "Plain"
                      /\ Readable /\ OpenTurn
                   THEN "write" ELSE "done"
    /\ UNCHANGED <<disk, row, scope, resume, archiving, lock, comp, copy, heal,
                   rest, bounds, past>>

\* A resident session's recorder (detached while it resumes), else
\* append_interrupted_closure, which opens the file for appending.
RecoveryWrite ==
    /\ recovery = "write" /\ recovery' = "done"
    /\ next <= MaxOps
    /\ \/ live \in Writers /\ RecordOk(live, NewOp("ended")) /\ next' = next + 1
       \/ live = 0 /\ Land(Record(NewOp("ended"))) /\ next' = next + 1
          /\ acked' = acked \cup {NewOp("ended")}
       \/ live \notin Writers \cup {0} /\ UNCHANGED <<plain, harm, acked, next>>
    /\ UNCHANGED <<gz, snap, row, scope, resume, archiving, lock, comp, copy, heal,
                   rest, crashes, fails, archives, passes, restores, failed>>

(***************************************************************************)
(* A crash, possibly in the middle of an append.                           *)
(***************************************************************************)
Crash ==
    /\ crashes < MaxCrashes /\ crashes' = crashes + 1
    /\ \/ UNCHANGED <<plain, harm, next>>
       \/ \E s \in Writers, kind \in {"event", "ended"} :
             /\ next <= MaxOps /\ next' = next + 1
             /\ \E k \in 1..RecordLen[NewOp(kind)] :
                  WriteVia(s, SubSeq(Record(NewOp(kind)), 1, k))
    /\ live' = 0 /\ fd' = [s \in Scopes |-> "none"] /\ busy' = {}
    /\ slot' = "writer" /\ buffer' = <<>> /\ memArchived' = FALSE
    /\ resume' = "idle" /\ archiving' = FALSE /\ lock' = "free"
    /\ comp' = "idle" /\ copy' = <<>> /\ heal' = "none" /\ rest' = "idle"
    /\ recovery' = "due"
    /\ UNCHANGED <<gz, snap, row, made, fails, archives, passes, restores, acked, failed>>

Session ==
    \/ \E s \in Scopes : RecordEvent(s) \/ EndTurn(s)
    \/ StartTurn \/ RecordDeferred \/ Materialize \/ FlushOne \/ Installed
    \/ Close \/ Archive \/ ArchiveRow \/ Resume \/ ResumeReplay \/ ResumeOpen

Compressor ==
    \/ Scan \/ Heal \/ CompressNow \/ NotDue \/ Lock \/ Copy \/ RenameGz \/ RemovePlain
    \/ Stamp

Restorer ==
    \/ Restore \/ RestoreProbe \/ RenamePlain \/ RemoveGz \/ ClearFlags
    \/ RestoreResume \/ RestoreDone

Next == Session \/ Compressor \/ Restorer \/ RecoveryScan \/ RecoveryWrite \/ Crash

Spec == Init /\ [][Next]_vars

(***************************************************************************)
(* Fairness: the retention task wakes up at its interval, and a pass or a  *)
(* restore that has begun is driven to its end by the executor.            *)
(***************************************************************************)
FairSpec ==
    /\ Spec
    /\ WF_vars(\/ Scan \/ Heal \/ NotDue \/ Lock \/ Copy \/ RenameGz
               \/ RemovePlain \/ Stamp)
    /\ WF_vars(RestoreProbe \/ RenamePlain \/ RemoveGz \/ ClearFlags)

(***************************************************************************)
(* Properties.                                                             *)
(***************************************************************************)

\* An acknowledged append is read back, through crashes, failed appends,
\* resumes, compression and restore, as long as no byte was put where no
\* reader finds it (harm names the four ways this code has of doing that).
AckedSurvive ==
    harm = {} => Readable /\ acked \subseteq Range(Records)

\* Readers see the records in the order they were recorded, none twice, the
\* ones that waited in the deferred buffer of a lazily created session too.
RecordedOrder ==
    LET records == Records
    IN  harm = {} =>
            \A i, j \in DOMAIN records : i < j => records[i].n < records[j].n

\* A replay that starts from the snapshot of the last close folds exactly
\* the ops a replay from scratch would.
SnapshotIsPrefix == harm = {} => Replayed = Records

\* Compression, restore, resume and their crashes are invisible to readers:
\* the journal implements the abstract log.
Durable == INSTANCE DurableLog WITH
    log <- IF harm = {} THEN Records ELSE <<>>, damaged <- harm # {}

ImplementsDurableLog == Durable!Spec

\* Whatever crash separated the shape from its marker, the retention passes
\* bring them back together while the session stays archived and closed.
MarkerConverges ==
    []<>(\/ marker = (probe_compressed = "Compressed")
         \/ ~archived \/ live # 0 \/ probe_compressed = "Missing")

(***************************************************************************)
(* What comments say and the code does not do.                             *)
(***************************************************************************)

\* append_log.rs: an acknowledged append survives a crash.
AckSurvivesCrash ==
    harm \subseteq {"splice"} =>
        Readable /\ acked \subseteq Range(Records)

\* append_log.rs: once a write fails the handle is parked and later appends
\* fail fast.
FailedHandleIsParked == [][failed = Scopes => acked' = acked]_vars

\* retention_task.rs: a running session never compresses.
RunningNeverCompresses == \A s \in Scopes : fd[s] # "orphan"

\* persistence.rs: the compressed flag is at worst stale, never ahead of the
\* shape: a session that is not archived is not marked.
MarkerNeverAhead == ~archived /\ lock = "free" => ~marker

=============================================================================
