----------------------------- MODULE EvidenceLog -----------------------------
(***************************************************************************)
(* The evidence writer (evidence/jsonl.rs) and the rotation of its files   *)
(* (evidence/rotation.rs).                                                 *)
(*                                                                         *)
(* Callers put records into a bounded channel; one task moves them to a    *)
(* buffer per file and flushes the buffers.  write_all on a tokio File     *)
(* hands the buffer to a thread of the pool and answers Ok at once; what   *)
(* becomes of that write is reported by the next write to the same File,   *)
(* or by nobody.  The task keeps every file it has opened: rotation        *)
(* renames and unlinks a file by its name, and the task goes on appending  *)
(* to what has no name any more.  Records are numbered.                    *)
(***************************************************************************)
EXTENDS Naturals, SequencesExt

CONSTANTS
  Logs,        \* file names
  Capacity,    \* of the channel (1000 in the code)
  BufferSize,  \* buffer_size_bytes, in records
  MaxBuf,      \* what a File hands to the pool at a time (2 MB), in records
  MaxRecords,  \* bound: records written in a behaviour
  MaxOnDisk,   \* bound: records in a file after a write that failed halfway
  Fallible     \* the files whose open or write may fail

ASSUME EvidenceAssumption ==
  /\ Capacity \in Nat /\ BufferSize \in Nat \ {0} /\ MaxBuf \in Nat \ {0}
  /\ MaxRecords \in Nat /\ MaxOnDisk \in Nat
  /\ Fallible \subseteq Logs

(* Messages that are not records. *)
Flush    == MaxRecords + 1
Shutdown == MaxRecords + 2

(* The piece of a record that a failed write has left at the end of a file:  *)
(* the next record is appended to it, on one line.                           *)
Torn == 0

VARIABLES
  sent,       \* records accepted so far; the last number given out
  kind,       \* the file of a record (history)
  channel,    \* messages: a record, Flush or Shutdown
  buffer,     \* the buffers of the task
  work,       \* why the task flushes: full, tick, flush, shutdown, exit, none
  todo,       \* the buffers it has still to write
  reply,      \* ok, or error once a buffer could not be written
  opened,     \* files of the task: closed, named, or unlinked by rotation
  flight,     \* what the pool has to write to a file
  unheard,    \* the last write of the pool failed and nobody was told
  lost,       \* records of failed writes, or glued to a piece (history)
  disk,       \* records and pieces in the file a name leads to
  dying,      \* files renamed to .jsonl.deleting
  rotated,    \* files rotation has taken away once (history)
  old,        \* files not modified for retention_days
  expired,    \* what rotate() found and has not deleted yet
  task,       \* running, stopping, dropped; ended: done, gone or failed
  covered,    \* records accepted before the last flush or shutdown
  answer      \* its result

logFiles == <<opened, flight, unheard, lost, disk, old>>
flushing == <<work, todo, reply>>
rotation == <<rotated, dying, expired>>
evVars == <<sent, kind, channel, buffer, flushing, logFiles, rotation, task,
            covered, answer>>

EVInit ==
  /\ sent = 0 /\ kind = <<>> /\ channel = <<>>
  /\ buffer = [f \in Logs |-> <<>>]
  /\ work = "none" /\ todo = {} /\ reply = "ok"
  /\ opened = [f \in Logs |-> "closed"]
  /\ flight = [f \in Logs |-> <<>>]
  /\ unheard = [f \in Logs |-> FALSE] /\ lost = {}
  /\ disk = [f \in Logs |-> <<>>]
  /\ rotated = {} /\ dying = {} /\ old = {} /\ expired = {}
  /\ task = "running"
  /\ covered = 0 /\ answer = "none"

-----------------------------------------------------------------------------
(* The callers; send waits for room in the channel.  One flush at a time;    *)
(* shutdown takes the writer itself: no flush is waiting then, and nothing   *)
(* is sent after it.                                                         *)

CanSend == task = "running" /\ Len(channel) < Capacity
NoFlushWaits == work # "flush" /\ Flush \notin ToSet(channel)

WriteRecord ==
  /\ CanSend /\ sent < MaxRecords
  /\ sent' = sent + 1
  /\ \E f \in Logs : kind' = Append(kind, f)
  /\ channel' = Append(channel, sent + 1)
  /\ UNCHANGED <<buffer, flushing, logFiles, rotation, task, covered, answer>>

RequestFlush ==
  /\ CanSend /\ NoFlushWaits
  /\ channel' = Append(channel, Flush)
  /\ covered' = sent
  /\ answer' = "none"
  /\ UNCHANGED <<sent, kind, buffer, flushing, logFiles, rotation, task>>

RequestShutdown ==
  /\ CanSend /\ NoFlushWaits
  /\ channel' = Append(channel, Shutdown)
  /\ covered' = sent
  /\ answer' = "none"
  /\ task' = "stopping"
  /\ UNCHANGED <<sent, kind, buffer, flushing, logFiles, rotation>>

(* The writer is dropped: the channel ends after what is in it. *)
DropWriter ==
  /\ task = "running" /\ NoFlushWaits
  /\ task' = "dropped"
  /\ UNCHANGED <<sent, kind, channel, buffer, flushing, logFiles, rotation, covered, answer>>

-----------------------------------------------------------------------------
(* The task. *)
Pending(b) == {f \in Logs : b[f] # <<>>}
Message == Head(channel)
Receives == work = "none" /\ channel # <<>> /\ channel' = Tail(channel)

StartFlush(reason, fs) == work' = reason /\ todo' = fs /\ reply' = "ok"

(* A full buffer is flushed on its own. *)
ReceiveRecord ==
  /\ Receives /\ Message \in 1..sent
  /\ LET f == kind[Message]
         full == Append(buffer[f], Message)
     IN  /\ buffer' = [buffer EXCEPT ![f] = full]
         /\ IF Len(full) < BufferSize THEN UNCHANGED flushing
            ELSE StartFlush("full", {f})
  /\ UNCHANGED <<sent, kind, logFiles, rotation, task, covered, answer>>

ReceiveFlush ==
  /\ Receives /\ Message = Flush
  /\ StartFlush("flush", Pending(buffer))
  /\ UNCHANGED <<sent, kind, buffer, logFiles, rotation, task, covered, answer>>

ReceiveShutdown ==
  /\ Receives /\ Message = Shutdown
  /\ StartFlush("shutdown", Pending(buffer))
  /\ UNCHANGED <<sent, kind, buffer, logFiles, rotation, task, covered, answer>>

ReceiveEnd ==
  /\ work = "none" /\ task = "dropped" /\ channel = <<>>
  /\ StartFlush("exit", Pending(buffer))
  /\ UNCHANGED <<sent, kind, channel, buffer, logFiles, rotation, task, covered, answer>>

Tick ==
  /\ work = "none" /\ task \notin {"done", "gone", "failed"}
  /\ Pending(buffer) # {}
  /\ StartFlush("tick", Pending(buffer))
  /\ UNCHANGED <<sent, kind, channel, buffer, logFiles, rotation, task, covered, answer>>

(* Appending the first n records of b, and a piece of the next. *)
Lands(f) == opened[f] # "unlinked"
WriteTo(f, b, n, piece) ==
  IF Lands(f)
  THEN /\ disk' = [disk EXCEPT ![f] = @ \o SubSeq(b, 1, n) \o piece]
       /\ old' = IF n = 0 /\ piece = <<>> THEN old ELSE old \ {f}
  ELSE UNCHANGED <<disk, old>>

(* flush_buffer, in the order of a hash map.  write_all waits for the write  *)
(* before it and hands this one over.                                        *)
Opens(f) == opened' = [opened EXCEPT ![f] = IF @ = "closed" THEN "named" ELSE @]

FlushBuffer(f) ==
  /\ f \in todo /\ flight[f] = <<>> /\ ~unheard[f]
  /\ Opens(f)
  /\ flight' = [flight EXCEPT ![f] = buffer[f]]
  /\ buffer' = [buffer EXCEPT ![f] = <<>>]
  /\ todo' = todo \ {f}
  /\ UNCHANGED <<sent, kind, channel, work, reply, unheard, lost, disk, old,
                 rotation, task, covered, answer>>

(* An error leaves the buffer as it is and ends flush_all_buffers: open      *)
(* fails, the write before this one had failed, or one of the pieces of      *)
(* MaxBuf fails of which the buffer has more than one.                       *)
LastPiece(n) == ((n - 1) % MaxBuf) + 1

FailToOpen(f) == opened[f] = "closed" /\ UNCHANGED logFiles

HearOfFailure(f) ==
  /\ unheard[f]
  /\ unheard' = [unheard EXCEPT ![f] = FALSE]
  /\ UNCHANGED <<opened, flight, lost, disk, old>>

FailHalfway(f) ==
  /\ ~unheard[f] /\ Opens(f)
  /\ \E n \in 0..(Len(buffer[f]) - 1), piece \in {<<>>, <<Torn>>} :
       /\ Len(buffer[f]) - n > LastPiece(Len(buffer[f]))
       /\ Len(disk[f]) + n + Len(piece) <= MaxOnDisk
       /\ WriteTo(f, buffer[f], n, piece)
  /\ UNCHANGED <<flight, unheard, lost>>

(* Seeded fault: a buffer is emptied before its write is known to be good. *)
FlushBufferFailsTaking(f) ==
  /\ f \in todo \cap Fallible /\ flight[f] = <<>>
  /\ FailToOpen(f) \/ HearOfFailure(f) \/ FailHalfway(f)
  /\ todo' = {} /\ reply' = "error"
  /\ buffer' = [buffer EXCEPT ![f] = <<>>]
  /\ UNCHANGED <<sent, kind, channel, work, rotation, task, covered, answer>>

FlushBufferFails(f) ==
  /\ f \in todo \cap Fallible /\ flight[f] = <<>>
  /\ FailToOpen(f) \/ HearOfFailure(f) \/ FailHalfway(f)
  /\ todo' = {} /\ reply' = "error"
  /\ UNCHANGED <<sent, kind, channel, buffer, work, rotation, task, covered, answer>>

EndWork(reason) == work = reason /\ todo = {} /\ work' = "none"

(* The task ends, and with it what is left in its buffers. *)
EndTask(good) ==
  /\ task' = IF reply = "ok" THEN good ELSE "failed"
  /\ buffer' = [f \in Logs |-> <<>>]

(* Seeded fault: the error of a flush is only logged. *)
AnswerFlushLogged ==
  /\ EndWork("flush")
  /\ answer' = "ok"
  /\ UNCHANGED <<sent, kind, channel, buffer, todo, reply, logFiles, rotation, task, covered>>

AnswerFlush ==
  /\ EndWork("flush")
  /\ answer' = reply
  /\ UNCHANGED <<sent, kind, channel, buffer, todo, reply, logFiles, rotation, task, covered>>

(* sync_all waits for the write that is under way; its error is only logged. *)
AnswerShutdown ==
  /\ EndWork("shutdown")
  /\ \A f \in Logs : flight[f] = <<>>
  /\ answer' = reply
  /\ EndTask("done")
  /\ UNCHANGED <<sent, kind, channel, todo, reply, logFiles, rotation, covered>>

EndExit ==
  /\ EndWork("exit")
  /\ EndTask("gone")
  /\ UNCHANGED <<sent, kind, channel, todo, reply, logFiles, rotation, covered, answer>>

(* The error of a full buffer or of the timer is only logged. *)
EndQuietly ==
  /\ EndWork("full") \/ EndWork("tick")
  /\ UNCHANGED <<sent, kind, channel, buffer, todo, reply, logFiles, rotation, task,
                 covered, answer>>

-----------------------------------------------------------------------------
(* The pool writes what it was handed; of several pieces only the last can   *)
(* fail here.                                                                *)
EndsTorn(s) == s # <<>> /\ s[Len(s)] = Torn
Costs(f, n) ==
  {flight[f][i] : i \in (n + 1)..Len(flight[f])}
    \cup IF EndsTorn(disk[f]) THEN {Head(flight[f])} ELSE {}

PoolWrites(f) ==
  /\ flight[f] # <<>>
  /\ WriteTo(f, flight[f], Len(flight[f]), <<>>)
  /\ lost' = lost \cup Costs(f, Len(flight[f]))
  /\ flight' = [flight EXCEPT ![f] = <<>>]
  /\ UNCHANGED <<sent, kind, channel, buffer, flushing, opened, unheard, rotation,
                 task, covered, answer>>

PoolFails(f) ==
  /\ f \in Fallible /\ flight[f] # <<>>
  /\ \E n \in 0..(Len(flight[f]) - 1), piece \in {<<>>, <<Torn>>} :
       /\ Len(flight[f]) - n <= LastPiece(Len(flight[f]))
       /\ WriteTo(f, flight[f], n, piece)
       /\ lost' = lost \cup Costs(f, n)
  /\ flight' = [flight EXCEPT ![f] = <<>>]
  /\ unheard' = [unheard EXCEPT ![f] = TRUE]
  /\ UNCHANGED <<sent, kind, channel, buffer, flushing, opened, rotation, task,
                 covered, answer>>

-----------------------------------------------------------------------------
(* Rotation.  retention_days pass without a write. *)
GrowOld ==
  /\ \E f \in Logs \ old : disk[f] # <<>> /\ old' = old \cup {f}
  /\ UNCHANGED <<sent, kind, channel, buffer, flushing, opened, flight, unheard, lost,
                 disk, rotation, task, covered, answer>>

ListExpired ==
  /\ expired = {} /\ rotated = {} /\ dying = {} /\ old # {}
  /\ expired' = old
  /\ UNCHANGED <<sent, kind, channel, buffer, flushing, logFiles, rotated, dying, task,
                 covered, answer>>

(* rename, whatever was written since the listing; a failure is reported. *)
RenameExpired ==
  /\ dying = {}
  /\ \E f \in expired :
       /\ expired' = expired \ {f}
       /\ dying' = {f}
       /\ rotated' = rotated \cup {f}
       /\ disk' = [disk EXCEPT ![f] = <<>>]
       /\ old' = old \ {f}
       /\ opened' = [opened EXCEPT ![f] = IF @ = "named" THEN "unlinked" ELSE @]
  /\ UNCHANGED <<sent, kind, channel, buffer, flushing, flight, unheard, lost, task,
                 covered, answer>>

(* unlink; after a crash it is cleanup_orphaned_deleting that does it. *)
UnlinkDying ==
  /\ dying # {}
  /\ dying' = {}
  /\ UNCHANGED <<sent, kind, channel, buffer, flushing, logFiles, rotated, expired, task,
                 covered, answer>>

EVNext ==
  \/ WriteRecord \/ RequestFlush \/ RequestShutdown \/ DropWriter
  \/ ReceiveRecord \/ ReceiveFlush \/ ReceiveShutdown \/ ReceiveEnd \/ Tick
  \/ AnswerFlush \/ AnswerShutdown \/ EndExit \/ EndQuietly
  \/ \E f \in Logs : \/ FlushBuffer(f) \/ FlushBufferFails(f)
                      \/ PoolWrites(f) \/ PoolFails(f)
  \/ GrowOld \/ ListExpired \/ RenameExpired \/ UnlinkDying

EVSpec == EVInit /\ [][EVNext]_evVars

-----------------------------------------------------------------------------
InMemory(r) == r \in ToSet(channel) \/ r \in ToSet(buffer[kind[r]])
InFlight(r) == r \in ToSet(flight[kind[r]])

(* A record on a line of its own. *)
ReadableIn(s) == {s[i] : i \in {i \in 1..Len(s) : i = 1 \/ s[i - 1] # Torn}}

(* A flush that answers Ok has taken every record that was accepted before   *)
(* it out of the channel and the buffers, and a shutdown has waited for      *)
(* their writes as well (jsonl.rs 168-179), whatever failed earlier.  It is  *)
(* not that they are on disk: "Flush all buffers to disk (blocking)",        *)
(* jsonl.rs 116, promises more than write_all without flush gives.           *)
OkMeansHandedOver ==
  answer = "ok" => \A r \in 1..covered :
    ~InMemory(r) /\ (task = "done" => ~InFlight(r))

(* Through failed opens, full buffers, retries and rotation, a record is in  *)
(* the channel, in a buffer, on its way or on a line of its own, unless      *)
(* rotation took its file, the write that carried it failed in the pool or   *)
(* the file ended in a piece, or the flush at the very end failed            *)
(* (flush_buffer, flush_all_buffers: a buffer is cleared after write_all).   *)
EvidenceKept ==
  \A r \in 1..sent :
    \/ InMemory(r) \/ InFlight(r) \/ r \in ReadableIn(disk[kind[r]])
    \/ kind[r] \in rotated \/ r \in lost \/ task = "failed"

=============================================================================
