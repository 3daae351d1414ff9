------------------------------ MODULE AuditLog ------------------------------
(***************************************************************************)
(* JsonlFileAuditSink of services/llmd/src/lib.rs: emit appends one JSON   *)
(* line per audit event to a file and, by size, rotates path -> path.1 ->  *)
(* ... -> path.max_files.                                                  *)
(*                                                                         *)
(* emit holds the sink's mutex, so one emit is in progress at a time; what *)
(* interleaves with it is the file system.  Every call of it is a step of  *)
(* its own, may fail, and the process may die before it, after it and      *)
(* between the write and the mark that reports it.  When stat or fstat     *)
(* fails, exists() is false and metadata()'s length is taken to be 0.      *)
(* Power loss is left out: what a call of the file system did is durable.  *)
(*                                                                         *)
(* event, written, reported, failed, cut, blind and budget are not in the  *)
(* code: they number the events, keep what emit told its metrics and which *)
(* errors were swallowed, and bound the faults.                            *)
(***************************************************************************)
EXTENDS Naturals, Sequences, FiniteSets

CONSTANTS CfgMaxFiles,  \* max_files as configured
          MaxBytes,     \* max_bytes
          Lengths,      \* the lengths a serialized event can have
          MaxEvents,    \* bound: events emitted
          MaxFaults,    \* bound: failed calls and crashes
          Absent        \* no file of that name

\* A file: its pieces of lines in order, its length, and how many bytes of it
\* belong to lines cut short.  A piece is numbered in the order of writing.
Files == [pieces : Seq([at : Nat, ev : Nat, whole : BOOLEAN]), size : Nat, torn : Nat]

ASSUME AuditAssumption ==
    /\ Absent \notin Files
    /\ CfgMaxFiles \in Nat
    /\ MaxBytes \in Nat
    /\ Lengths \subseteq Nat \ {0}
    /\ MaxEvents \in Nat
    /\ MaxFaults \in Nat

\* new_with_rotation keeps at least one rotated file.
max_files == IF CfgMaxFiles < 1 THEN 1 ELSE CfgMaxFiles

VARIABLES slots,          \* slots[0] is the file at path, slots[i] the one at path.i
          file,           \* JsonlAuditState::file is Some
          bytes_written,  \* JsonlAuditState::bytes_written
          stage,          \* where emit is: see below
          idx,            \* the loop variable of rotate_files
          len,            \* payload.len() of the event in progress
          event,          \* the number of that event
          written,        \* how many pieces of lines have reached a file
          reported,       \* events emit marked as written
          failed,         \* events emit marked as failed
          cut,            \* events in progress when the process died
          blind,          \* which of "exists" and "metadata" have failed
          budget          \* faults still to come

state == <<file, bytes_written, stage, idx, len>>
outcome == <<reported, failed, cut>>
faults == <<blind, budget>>
vars == <<slots, state, event, written, outcome, faults>>

\* "ready": the mutex is free.  "rotate", "open", "write": the next call of the
\* file system that emit makes.  "mark": the line is in the file, and neither
\* counted nor marked as written.  "down": no process.
InProgress == stage \in {"rotate", "open", "write", "mark"}

EmptyFile == [pieces |-> <<>>, size |-> 0, torn |-> 0]
Piece(whole) == [at |-> written + 1, ev |-> event, whole |-> whole]
Pieces(f) == IF f = Absent THEN {} ELSE {f.pieces[i] : i \in DOMAIN f.pieces}

SizeOf(f) == IF f = Absent THEN 0 ELSE f.size
Created(f) == IF f = Absent THEN EmptyFile ELSE f

AddLine(f, n) == [f EXCEPT !.pieces = Append(@, Piece(TRUE)), !.size = @ + n]
AddFragment(f, n) ==
    [f EXCEPT !.pieces = Append(@, Piece(FALSE)), !.size = @ + n, !.torn = @ + n]

Init == /\ slots = [i \in 0..max_files |-> IF i = 0 THEN EmptyFile ELSE Absent]
        /\ file = TRUE
        /\ bytes_written = 0
        /\ stage = "ready"
        /\ idx = 0
        /\ len = 0
        /\ event = 0
        /\ written = 0
        /\ reported = {}
        /\ failed = {}
        /\ cut = {}
        /\ blind = {}
        /\ budget = MaxFaults
-----------------------------------------------------------------------------
(* emit up to its first call of the file system: rotate_files when the     *)
(* line does not fit, which takes and drops the handle first; else the     *)
(* missing handle is opened again.                                         *)
\* A mutant: the length of the line is not taken into account.
MutEmitRotatesLate(n) ==
           /\ stage = "ready"
           /\ event < MaxEvents
           /\ event' = event + 1
           /\ len' = n
           /\ IF bytes_written > MaxBytes
              THEN stage' = "rotate" /\ idx' = max_files /\ file' = FALSE
              ELSE stage' = (IF file THEN "write" ELSE "open") /\ UNCHANGED <<idx, file>>
           /\ UNCHANGED <<slots, bytes_written, written, outcome, faults>>

Emit(n) == /\ stage = "ready"
           /\ event < MaxEvents
           /\ event' = event + 1
           /\ len' = n
           /\ IF bytes_written + n > MaxBytes
              THEN stage' = "rotate" /\ idx' = max_files /\ file' = FALSE
              ELSE stage' = (IF file THEN "write" ELSE "open") /\ UNCHANGED <<idx, file>>
           /\ UNCHANGED <<slots, bytes_written, written, outcome, faults>>

\* A mutant: the error is swallowed.
MutGiveUpSilently == /\ budget > 0
                     /\ budget' = budget - 1
                     /\ stage' = "ready"
                     /\ UNCHANGED <<failed, bytes_written, idx, len, event, reported, cut, blind>>

\* Every error path of emit: mark_audit_write_failure and return.
GiveUp == /\ budget > 0
          /\ budget' = budget - 1
          /\ stage' = "ready"
          /\ failed' = failed \cup {event}
          /\ UNCHANGED <<bytes_written, idx, len, event, reported, cut, blind>>

\* The calls that rotate_files makes for idx: src is idx - 1, dst is idx.
Rotating == stage = "rotate" /\ idx > 0
SrcExists == slots[idx - 1] # Absent
DstExists == slots[idx] # Absent

\* A mutant: the loop goes round without counting down.
MutRotateSkipStays == /\ Rotating
                      /\ ~SrcExists
                      /\ UNCHANGED <<slots, state, event, written, outcome, faults>>

RotateSkip == /\ Rotating
              /\ ~SrcExists
              /\ idx' = idx - 1
              /\ UNCHANGED <<slots, file, bytes_written, stage, len,
                             event, written, outcome, faults>>

RotateRemove == /\ Rotating
                /\ SrcExists /\ DstExists
                /\ slots' = [slots EXCEPT ![idx] = Absent]
                /\ UNCHANGED <<state, event, written, outcome, faults>>

\* A mutant: the file is copied, and gone only when the next rename replaces it.
MutRotateRenameCopies ==
                /\ Rotating
                /\ SrcExists /\ ~DstExists
                /\ slots' = [slots EXCEPT ![idx] = slots[idx - 1]]
                /\ idx' = idx - 1
                /\ UNCHANGED <<file, bytes_written, stage, len, event, written, outcome, faults>>

RotateRename == /\ Rotating
                /\ SrcExists /\ ~DstExists
                /\ slots' = [slots EXCEPT ![idx] = slots[idx - 1], ![idx - 1] = Absent]
                /\ idx' = idx - 1
                /\ UNCHANGED <<file, bytes_written, stage, len, event, written, outcome, faults>>

\* exists() is false because stat fails: the file stays where it is, to be
\* overwritten.  (For dst that makes no difference: rename replaces it.)
RotateBlind == /\ Rotating
               /\ SrcExists
               /\ budget > 0
               /\ budget' = budget - 1
               /\ blind' = blind \cup {"exists"}
               /\ idx' = idx - 1
               /\ UNCHANGED <<slots, file, bytes_written, stage, len, event, written, outcome>>

\* remove_file or rename fails.
RotateFails == /\ Rotating
               /\ SrcExists
               /\ GiveUp
               /\ UNCHANGED <<slots, file, written>>

\* The files have moved: a new one is created, truncating what is there.
RotateOpen == /\ stage = "rotate" /\ idx = 0
              /\ slots' = [slots EXCEPT ![0] = EmptyFile]
              /\ file' = TRUE
              /\ bytes_written' = 0
              /\ stage' = "write"
              /\ UNCHANGED <<idx, len, event, written, outcome, faults>>

RotateOpenFails == /\ stage = "rotate" /\ idx = 0
                   /\ GiveUp
                   /\ UNCHANGED <<slots, file, written>>

\* A mutant: the file is opened the way rotate_files opens it.
MutReopenTruncates ==
          /\ stage = "open"
          /\ slots' = [slots EXCEPT ![0] = EmptyFile]
          /\ file' = TRUE
          /\ bytes_written' = 0
          /\ stage' = "write"
          /\ UNCHANGED <<idx, len, event, written, outcome, faults>>

\* The length of an opened file, 0 if metadata() fails.
Length(n) == \/ bytes_written' = n /\ UNCHANGED faults
             \/ /\ budget > 0
                /\ budget' = budget - 1
                /\ blind' = blind \cup {"metadata"}
                /\ bytes_written' = 0

\* emit opens the file again after a failed rotation, for appending.
Reopen == /\ stage = "open"
          /\ slots' = [slots EXCEPT ![0] = Created(@)]
          /\ file' = TRUE
          /\ Length(SizeOf(slots[0]))
          /\ stage' = "write"
          /\ UNCHANGED <<idx, len, event, written, outcome>>

ReopenFails == /\ stage = "open"
               /\ GiveUp
               /\ UNCHANGED <<slots, file, written>>

\* write_all, which returns when the whole line is in the file.
Write == /\ stage = "write"
         /\ slots' = [slots EXCEPT ![0] = AddLine(@, len)]
         /\ stage' = "mark"
         /\ written' = written + 1
         /\ UNCHANGED <<file, bytes_written, idx, len, event, outcome, faults>>

\* bytes_written and mark_audit_write_success.
Mark == /\ stage = "mark"
        /\ bytes_written' = bytes_written + len
        /\ stage' = "ready"
        /\ reported' = reported \cup {event}
        /\ UNCHANGED <<slots, file, idx, len, event, written, failed, cut, faults>>

\* write_all fails after k bytes, which stay in the file; bytes_written does not
\* count them.  (File::flush does nothing and cannot fail.)
WriteFails(k) ==
    /\ stage = "write"
    /\ k < len
    /\ GiveUp
    /\ slots' = IF k = 0 THEN slots ELSE [slots EXCEPT ![0] = AddFragment(@, k)]
    /\ written' = IF k = 0 THEN written ELSE written + 1
    /\ UNCHANGED file

\* The process dies: between two calls, or in the middle of write_all if k > 0.
\* After write_all, at "mark", it leaves a whole line that nothing reports.
Crash(k) ==
    /\ budget > 0
    /\ stage # "down"
    /\ k = 0 \/ (stage = "write" /\ k < len)
    /\ budget' = budget - 1
    /\ stage' = "down"
    /\ file' = FALSE
    /\ cut' = IF stage = "ready" THEN cut ELSE cut \cup {event}
    /\ slots' = IF k = 0 THEN slots ELSE [slots EXCEPT ![0] = AddFragment(@, k)]
    /\ written' = IF k = 0 THEN written ELSE written + 1
    /\ bytes_written' = 0
    /\ idx' = 0
    /\ len' = 0
    /\ UNCHANGED <<event, reported, failed, blind>>

\* new_with_rotation.
Restart == /\ stage = "down"
           /\ slots' = [slots EXCEPT ![0] = Created(@)]
           /\ file' = TRUE
           /\ Length(SizeOf(slots[0]))
           /\ stage' = "ready"
           /\ UNCHANGED <<idx, len, event, written, outcome>>

MaxLength == CHOOSE n \in Lengths : \A k \in Lengths : k <= n

\* All events have been emitted: the daemon waits to be shut down.
Idle == /\ stage = "ready" /\ event = MaxEvents
        /\ UNCHANGED vars

FsStep == \/ RotateSkip \/ RotateRemove \/ RotateRename \/ RotateOpen
          \/ Reopen \/ Write \/ Mark

Next == \/ \E n \in Lengths : Emit(n)
        \/ FsStep
        \/ RotateBlind \/ RotateFails \/ RotateOpenFails \/ ReopenFails
        \/ \E k \in 0..(MaxLength - 1) : WriteFails(k)
        \/ \E k \in 0..(MaxLength - 1) : Crash(k)
        \/ Restart
        \/ Idle

Spec == Init /\ [][Next]_vars

\* A call that emit has come to is made, and a daemon that died is started again
\* by its supervisor.  Events and faults come as they please.
FairSpec == Spec /\ WF_vars(FsStep) /\ WF_vars(Restart)
-----------------------------------------------------------------------------
Slots == 0..max_files

Numbers(i) == {p.at : p \in Pieces(slots[i])}
Retained == UNION {Numbers(i) : i \in Slots}

\* Only the oldest is ever lost: what the files hold is a suffix of everything
\* that was written, however rotations fail or are cut off half-way, whatever
\* is repeated afterwards, and at every moment in between; but for a file that
\* exists() did not see.
RetainedIsSuffix ==
    "exists" \notin blind => \A k \in Retained : \A n \in k..written : n \in Retained

\* Reading path.max_files, ..., path.1, path in that order gives the events in
\* the order they were emitted, and none of them twice.
RetainedInOrder ==
    /\ \A i, j \in Slots : i < j => \A a \in Numbers(i), b \in Numbers(j) : b < a
    /\ \A i \in Slots : slots[i] # Absent =>
           \A a, b \in DOMAIN slots[i].pieces :
               a < b => /\ slots[i].pieces[a].at < slots[i].pieces[b].at
                        /\ slots[i].pieces[a].ev < slots[i].pieces[b].ev

\* A file stays within max_bytes, or holds a single line that is too long by
\* itself; only what failed writes left behind comes on top, and what was in a
\* file whose length metadata() did not tell.
SizeBounded ==
    \A i \in Slots : slots[i] # Absent /\ "metadata" \notin blind =>
        \/ slots[i].size - slots[i].torn <= MaxBytes
        \/ Cardinality({p \in Pieces(slots[i]) : p.whole}) = 1

\* No event disappears unnoticed: when no emit is in progress, each event was
\* marked as written, or marked as failed, or in progress when the process died,
\* and only one of the three.  What the marks say is true of the files: an event
\* marked as written is nowhere a fragment, and one marked as failed nowhere a
\* whole line, so that the only whole line without a mark is that of an event
\* that the process died with, between write_all and the mark.
EveryEventAccounted ==
    /\ ~InProgress => reported \cup failed \cup cut = 1..event
    /\ reported \cap failed = {} /\ (reported \cup failed) \cap cut = {}
    /\ \A i \in Slots : \A p \in Pieces(slots[i]) :
           /\ p.ev \in reported => p.whole
           /\ p.whole => p.ev \in reported \cup cut \/ (stage = "mark" /\ p.ev = event)

\* A sink is never wedged: when no more faults come, the emit in progress ends
\* with its line written, in whatever state failed rotations left the files.
SinkRecovers ==
    \A e \in 1..MaxEvents : (budget = 0 /\ event = e /\ InProgress) ~> e \in reported

=============================================================================
