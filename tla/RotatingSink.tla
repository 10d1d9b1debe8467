---------------------------- MODULE RotatingSink ----------------------------
(***************************************************************************)
(* The server's log files (init_log): rotating_file_sink over file_helper, *)
(* as driven by the one logging thread, which writes a line and flushes it *)
(* (flush_on(info), and no lower level is logged).  A line that would make *)
(* the file too large first moves every file up by one and drops the last. *)
(*                                                                         *)
(* A file is its lines and its size; a line is its ordinal and its size.   *)
(* System calls may fail, MaxFaults of them and crashes in all.  This      *)
(* module defines the sink's state and steps; AsyncLog composes it with    *)
(* the queue that feeds it.                                                *)
(***************************************************************************)
EXTENDS Integers, Sequences

CONSTANTS
    MaxSize,     \* max_size_ of a file
    MaxFiles,    \* max_files_: rotated files kept beside the current one
    LineSizes,   \* the sizes a formatted line can have
    MaxFaults,   \* bound: failed system calls and crashes
    NoLine       \* no line in the thread's hands, or in a slot of the queue

ASSUME RotatingSinkAssumption ==
    /\ MaxSize \in Nat \ {0}
    /\ MaxFiles \in Nat \ {0}
    /\ LineSizes \subseteq 1..MaxSize
    /\ MaxFaults \in Nat
    /\ NoLine \notin [id : Nat, size : Nat]

Line == [id : Nat, size : LineSizes]

Text == [lines : Seq(Nat), size : Nat]

VARIABLES
    worker_pc,      \* where the logging thread stands, in the sink or outside
    cur,            \* the line it handles
    files,          \* index of calc_filename -> the file, for those that exist
    fd_open,        \* fd_ # nullptr
    stdio,          \* written and not yet flushed
    current_size_,
    new_size,       \* local of sink_it_
    rot_i,          \* local i of rotate_
    faults          \* failed system calls and crashes so far

sinkVars == <<worker_pc, cur, files, fd_open, stdio, current_size_, new_size, rot_i, faults>>

SinkPc == {"sink", "remove", "rename", "reopen", "write", "flush"}

SinkTypeOK ==
    /\ worker_pc \in SinkPc \cup {"check", "wait", "notify", "ended"}
    /\ worker_pc \in SinkPc \ {"flush"} => cur \in Line
    /\ worker_pc \in {"check", "wait", "flush", "ended"} => cur = NoLine
    /\ DOMAIN files \subseteq 0..MaxFiles
    /\ \A i \in DOMAIN files : files[i] \in Text
    /\ fd_open \in BOOLEAN
    /\ stdio \in Text
    /\ current_size_ \in Nat
    /\ new_size \in Nat
    /\ rot_i \in 0..MaxFiles
    /\ worker_pc \in {"remove", "rename"} => rot_i >= 1
    /\ faults \in 0..MaxFaults

Empty == [lines |-> <<>>, size |-> 0]

WithLine(t, l) == [lines |-> Append(t.lines, l.id), size |-> t.size + l.size]

Joined(t, u) == [lines |-> t.lines \o u.lines, size |-> t.size + u.size]

Ids(t) == {t.lines[k] : k \in 1..Len(t.lines)}

(* Opening without truncation creates the file if it is not there. *)
Opened(f) == [i \in DOMAIN f \cup {0} |-> IF i \in DOMAIN f THEN f[i] ELSE Empty]

Truncated(f) == [i \in DOMAIN f \cup {0} |-> IF i = 0 THEN Empty ELSE f[i]]

Without(f, i) == [k \in DOMAIN f \ {i} |-> f[k]]

(* Fault: the file is copied. *)
RenamedCopy(f, src, target) ==
    [k \in DOMAIN f \cup {target} |-> IF k = target THEN f[src] ELSE f[k]]

Renamed(f, src, target) ==
    [k \in (DOMAIN f \ {src}) \cup {target} |-> IF k = target THEN f[src] ELSE f[k]]

Flushed == IF fd_open THEN [files EXCEPT ![0] = Joined(@, stdio)] ELSE files

(* A system call fails. *)
Fault ==
    /\ faults < MaxFaults
    /\ faults' = faults + 1

(* The constructor has opened the file, a new one or the last process's. *)
SinkInit ==
    /\ worker_pc = "check"
    /\ cur = NoLine
    /\ files = Opened(<<>>)
    /\ fd_open = TRUE
    /\ stdio = Empty
    /\ current_size_ = 0
    /\ new_size = 0
    /\ rot_i = 0
    /\ faults = 0

-----------------------------------------------------------------------------
(* An exception leaves sink_it_: SPDLOG_LOGGER_CATCH reports it and the line
   is gone; backend_sink_it_ goes on to the flush. *)
Dropped ==
    /\ worker_pc' = "flush"
    /\ cur' = NoLine

(* sink_it_, the line fits. *)
SinkFits ==
    /\ worker_pc = "sink"
    /\ current_size_ + cur.size <= MaxSize
    /\ new_size' = current_size_ + cur.size
    /\ worker_pc' = "write"
    /\ UNCHANGED <<cur, files, fd_open, stdio, current_size_, rot_i, faults>>

(* It does not: flush, look at the real size, and rotate unless it is 0. *)
SinkFull ==
    /\ worker_pc = "sink"
    /\ current_size_ + cur.size > MaxSize
    /\ fd_open
    /\ files' = Flushed
    /\ stdio' = Empty
    /\ IF Flushed[0].size > 0
       THEN /\ worker_pc' = "remove"
            /\ fd_open' = FALSE
            /\ rot_i' = MaxFiles
            /\ new_size' = cur.size
       ELSE /\ worker_pc' = "write"
            /\ new_size' = current_size_ + cur.size
            /\ UNCHANGED <<fd_open, rot_i>>
    /\ UNCHANGED <<cur, current_size_, faults>>

(* The flush fails, on a full disk; or file_helper::size throws, since fd_ is
   null after a failed reopen. *)
SinkFullThrows ==
    /\ worker_pc = "sink"
    /\ current_size_ + cur.size > MaxSize
    /\ IF fd_open THEN Fault ELSE UNCHANGED faults
    /\ Dropped
    /\ UNCHANGED <<files, fd_open, stdio, current_size_, new_size, rot_i>>

(* Fault: a missing number ends the rotation. *)
RotateSkipStops ==
    /\ worker_pc = "remove"
    /\ rot_i - 1 \notin DOMAIN files
    /\ worker_pc' = "reopen"
    /\ UNCHANGED <<cur, files, fd_open, stdio, current_size_, new_size, rot_i, faults>>

(* rotate_, file i - 1 to be renamed to i: nothing to do if there is none,
   else the target is removed first. *)
RotateSkip ==
    /\ worker_pc = "remove"
    /\ rot_i - 1 \notin DOMAIN files
    /\ rot_i' = rot_i - 1
    /\ worker_pc' = IF rot_i = 1 THEN "reopen" ELSE "remove"
    /\ UNCHANGED <<cur, files, fd_open, stdio, current_size_, new_size, faults>>

RemoveTarget ==
    /\ worker_pc = "remove"
    /\ rot_i - 1 \in DOMAIN files
    /\ files' = Without(files, rot_i)
    /\ worker_pc' = "rename"
    /\ UNCHANGED <<cur, fd_open, stdio, current_size_, new_size, rot_i, faults>>

Rename ==
    /\ worker_pc = "rename"
    /\ files' = Renamed(files, rot_i - 1, rot_i)
    /\ rot_i' = rot_i - 1
    /\ worker_pc' = IF rot_i = 1 THEN "reopen" ELSE "remove"
    /\ UNCHANGED <<cur, fd_open, stdio, current_size_, new_size, faults>>

(* Both tries fail: the current file is truncated and rotate_ throws; if it
   cannot be reopened, before current_size_ is reset. *)
RenameFails ==
    /\ worker_pc = "rename"
    /\ Fault
    /\ \/ /\ files' = Truncated(files)
          /\ fd_open' = TRUE
          /\ current_size_' = 0
       \/ /\ files' \in {files, Truncated(files)}
          /\ UNCHANGED <<fd_open, current_size_>>
    /\ Dropped
    /\ UNCHANGED <<stdio, new_size, rot_i>>

Reopen ==
    /\ worker_pc = "reopen"
    /\ files' = Truncated(files)
    /\ fd_open' = TRUE
    /\ worker_pc' = "write"
    /\ UNCHANGED <<cur, stdio, current_size_, new_size, rot_i, faults>>

(* Every try fails, at the truncating or at the appending fopen: fd_ stays
   null, and nothing opens it again. *)
ReopenFails ==
    /\ worker_pc = "reopen"
    /\ Fault
    /\ files' \in {files, Truncated(files)}
    /\ Dropped
    /\ UNCHANGED <<fd_open, stdio, current_size_, new_size, rot_i>>

(* Fault: current_size_ is brought up to date by rotations only. *)
WriteUncounted ==
    /\ worker_pc = "write"
    /\ stdio' = IF fd_open THEN WithLine(stdio, cur) ELSE stdio
    /\ worker_pc' = "flush"
    /\ cur' = NoLine
    /\ UNCHANGED <<files, fd_open, current_size_, new_size, rot_i, faults>>

(* file_helper::write, which returns in silence if fd_ is null. *)
Write ==
    /\ worker_pc = "write"
    /\ stdio' = IF fd_open THEN WithLine(stdio, cur) ELSE stdio
    /\ current_size_' = new_size
    /\ worker_pc' = "flush"
    /\ cur' = NoLine
    /\ UNCHANGED <<files, fd_open, new_size, rot_i, faults>>

(* fwrite takes nothing: a piece of the line that it may have taken is left out,
   as no count of the code, and no line, knows of it. *)
WriteFails ==
    /\ worker_pc = "write"
    /\ fd_open
    /\ Fault
    /\ Dropped
    /\ UNCHANGED <<files, fd_open, stdio, current_size_, new_size, rot_i>>

(* backend_flush_; fflush of a null stream succeeds. *)
Flush ==
    /\ worker_pc = "flush"
    /\ files' = Flushed
    /\ stdio' = IF fd_open THEN Empty ELSE stdio
    /\ worker_pc' = "check"
    /\ UNCHANGED <<cur, fd_open, current_size_, new_size, rot_i, faults>>

(* What could not be written stays in the stream. *)
FlushFails ==
    /\ worker_pc = "flush"
    /\ fd_open
    /\ Fault
    /\ worker_pc' = "check"
    /\ UNCHANGED <<cur, files, fd_open, stdio, current_size_, new_size, rot_i>>

SinkStep ==
    \/ SinkFits
    \/ SinkFull
    \/ SinkFullThrows
    \/ RotateSkip
    \/ RemoveTarget
    \/ Rename
    \/ RenameFails
    \/ Reopen
    \/ ReopenFails
    \/ Write
    \/ WriteFails
    \/ Flush
    \/ FlushFails

(* The process is killed, or has ended, and runs again: what was in memory is
   gone, the file is opened where it was and its size is read. *)
SinkRestart ==
    /\ worker_pc' = "check"
    /\ cur' = NoLine
    /\ files' = Opened(files)
    /\ fd_open' = TRUE
    /\ stdio' = Empty
    /\ current_size_' = Opened(files)[0].size
    /\ new_size' = 0
    /\ rot_i' = 0
=============================================================================
