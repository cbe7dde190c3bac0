------------------------------ MODULE Downloads ------------------------------
(***************************************************************************)
(* The download manager (download.rs) and the staging store it writes to   *)
(* (staging.rs).  The scan that follows a download is in ModelCatalog.     *)
(*                                                                         *)
(* A job is a thread of its own.  Jobs for one url and one file name share *)
(* a key, and so the .part, .bin and .commit files of the key: an open     *)
(* handle follows the file through a rename and survives its removal.      *)
(* Contents are sequences of units: the unit i of a good file is i, and a  *)
(* unit damaged on its way is Damaged.  The header is unit 1.              *)
(***************************************************************************)
EXTENDS Naturals, Sequences

CONSTANTS
  Jobs,       \* the jobs; a later request reuses an identity
  Files,      \* keys: a url with a file name (stable_hash, block_id)
  FileOf,     \* the key a job asks for
  Pinned,     \* the jobs whose request carries a sha256
  Faulty,     \* the keys whose units may be damaged on the wire
  Size,       \* units of a file
  MaxStarts,  \* bound: downloads requested in a behaviour
  NoFile

(* A model file, who put it there, and whether its length was announced. *)
Placement == [data : Seq(Nat), by : Jobs, counted : BOOLEAN]

ASSUME DownloadAssumption ==
  /\ FileOf \in [Jobs -> Files]
  /\ Pinned \subseteq Jobs
  /\ Size \in Nat \ {0}
  /\ MaxStarts \in Nat
  /\ NoFile \notin Seq(Nat) /\ NoFile \notin Placement

Damaged == 0
Whole   == [i \in 1..Size |-> i]
Terminal == {"Completed", "Failed", "Cancelled"}

VARIABLES
  part, bin, commit,  \* the staging files of a key; .commit records the hash
  placed,             \* the file in the model directory, with who put it there
  starts,             \* next_id: downloads requested so far
  contested,          \* history: the keys two jobs have worked on at a time
  phase, cancel,      \* the DownloadHandle
  stage,              \* where the thread of a job stands
  handle,             \* the open .part file: where the rename left it
  resume,             \* resume_from
  at,                 \* the next unit the server sends
  counted,            \* whether the server announced a Content-Length
  copy,               \* the content the thread read last: the hash, the copy
  found               \* the keys with a commit file it listed

store == <<part, bin, commit>>
created == <<starts, contested>>
net   == <<resume, at, counted>>
read  == <<copy, found>>
job   == <<created, phase, cancel, stage, handle, net, read>>
dlVars == <<store, placed, job>>

Live(j) == stage[j] # "idle"
Exists(files, k) == files[k] # NoFile
Length(k) == IF Exists(part, k) THEN Len(part[k]) ELSE 0

(* gguf_registry::inspect reads the header. *)
HasHeader(data) == data # NoFile /\ data # <<>> /\ Head(data) = 1

DLInit ==
  /\ part = [k \in Files |-> NoFile]
  /\ bin = part
  /\ commit = part
  /\ placed = part
  /\ starts = 0
  /\ contested = {}
  /\ phase = [j \in Jobs |-> "none"]
  /\ cancel = [j \in Jobs |-> FALSE]
  /\ stage = [j \in Jobs |-> "idle"]
  /\ handle = [j \in Jobs |-> "none"]
  /\ resume = [j \in Jobs |-> 0]
  /\ at = [j \in Jobs |-> 0]
  /\ counted = [j \in Jobs |-> FALSE]
  /\ copy = [j \in Jobs |-> NoFile]
  /\ found = [j \in Jobs |-> {}]

-----------------------------------------------------------------------------
(* The staging store, as what it does to the handles and files of one key.   *)

(* The handles on the file of k named from, once that name is gone. *)
Follow(k, from, to) ==
  [j \in Jobs |-> IF FileOf[j] = k /\ handle[j] = from THEN to ELSE handle[j]]

RemoveStaged(k) ==
  /\ handle' = Follow(k, "bin", "gone")
  /\ bin' = [bin EXCEPT ![k] = NoFile]
  /\ commit' = [commit EXCEPT ![k] = NoFile]

(* An append goes to the file the handle points at. *)
Append1(j, unit) ==
  LET k == FileOf[j] IN
  /\ part' = IF handle[j] = "part"
             THEN [part EXCEPT ![k] = Append(@, unit)] ELSE part
  /\ bin' = IF handle[j] = "bin"
            THEN [bin EXCEPT ![k] = Append(@, unit)] ELSE bin

-----------------------------------------------------------------------------
(* The manager. *)

Ended(j, p) ==
  /\ phase' = [phase EXCEPT ![j] = p]
  /\ stage' = [stage EXCEPT ![j] = "idle"]

(* Leave a job: the thread is gone and its locals with it. *)
Forget(j) ==
  /\ resume' = [resume EXCEPT ![j] = 0]
  /\ at' = [at EXCEPT ![j] = 0]
  /\ counted' = [counted EXCEPT ![j] = FALSE]
  /\ copy' = [copy EXCEPT ![j] = NoFile]
  /\ found' = [found EXCEPT ![j] = {}]
  /\ cancel' = [cancel EXCEPT ![j] = FALSE]

Close(j) == handle' = [handle EXCEPT ![j] = "none"]

Fail(j) == Ended(j, "Failed") /\ Forget(j)

GoTo(j, s) == stage' = [stage EXCEPT ![j] = s]

(* Nothing keeps a client from a second job for a key that has one. *)
CreateJob(j) ==
  /\ starts < MaxStarts
  /\ starts' = starts + 1
  /\ stage[j] = "idle"
  /\ contested' = contested \cup
       (IF \E i \in Jobs : FileOf[i] = FileOf[j] /\ Live(i) THEN {FileOf[j]} ELSE {})
  /\ phase' = [phase EXCEPT ![j] = "Downloading"]
  /\ GoTo(j, "open")
  /\ UNCHANGED <<store, placed, net, cancel, handle, read>>

CancelJob(j) ==
  /\ phase[j] # "none" /\ Live(j)
  /\ ~cancel[j]
  /\ cancel' = [cancel EXCEPT ![j] = TRUE]
  /\ UNCHANGED <<created, store, placed, phase, stage, net, handle, read>>

OpenPart(j) ==
  LET k == FileOf[j] IN
  /\ stage[j] = "open"
  /\ part' = [part EXCEPT ![k] = IF Exists(part, k) THEN @ ELSE <<>>]
  /\ resume' = [resume EXCEPT ![j] = Length(k)]
  /\ handle' = [handle EXCEPT ![j] = "part"]
  /\ GoTo(j, "request")
  /\ UNCHANGED <<created, bin, commit, placed, phase, cancel, at, counted, read>>

(* No answer, a status of 400 or more, a bad redirect, or a length that is   *)
(* not the expected one: the .part file stays.                               *)
Refused(j) ==
  /\ stage[j] = "request"
  /\ Fail(j) /\ Close(j)
  /\ UNCHANGED <<created, store, placed>>

(* 206 continues where the .part file ends; past the end there is no 206. *)
Continues(j) ==
  /\ stage[j] = "request"
  /\ resume[j] < Size
  /\ at' = [at EXCEPT ![j] = resume[j] + 1]
  /\ \E c \in BOOLEAN : counted' = [counted EXCEPT ![j] = c]
  /\ GoTo(j, "check")
  /\ UNCHANGED <<created, store, placed, phase, cancel, handle, resume, read>>

(* Seeded fault: a 200 is appended to what is there. *)
RestartsBehindPart(j) ==
  /\ stage[j] = "request"
  /\ resume[j] > 0
  /\ at' = [at EXCEPT ![j] = 1]
  /\ \E c \in BOOLEAN : counted' = [counted EXCEPT ![j] = c]
  /\ GoTo(j, "check")
  /\ UNCHANGED <<created, store, placed, phase, cancel, handle, resume, read>>

(* A server without ranges sends the whole file: the .part file is removed   *)
(* and opened again.                                                         *)
Restarts(j) ==
  /\ stage[j] = "request"
  /\ resume[j] > 0
  /\ part' = [part EXCEPT ![FileOf[j]] = <<>>]
  /\ handle' = [Follow(FileOf[j], "part", "gone") EXCEPT ![j] = "part"]
  /\ resume' = [resume EXCEPT ![j] = 0]
  /\ at' = [at EXCEPT ![j] = 1]
  /\ \E c \in BOOLEAN : counted' = [counted EXCEPT ![j] = c]
  /\ GoTo(j, "check")
  /\ UNCHANGED <<created, bin, commit, placed, phase, cancel, read>>

(* The read loop looks at the flag before it blocks in read. *)
KeepReading(j) ==
  /\ stage[j] = "check" /\ ~cancel[j]
  /\ GoTo(j, "read")
  /\ UNCHANGED <<created, store, placed, phase, cancel, handle, net, read>>

CancelSeen(j) ==
  LET k == FileOf[j] IN
  /\ stage[j] = "check" /\ cancel[j]
  /\ part' = [part EXCEPT ![k] = NoFile]
  /\ handle' = [Follow(k, "part", "gone") EXCEPT ![j] = "none"]
  /\ Ended(j, "Cancelled") /\ Forget(j)
  /\ UNCHANGED <<created, bin, commit, placed>>

ReadUnit(j) ==
  /\ stage[j] = "read" /\ at[j] <= Size
  /\ \E unit \in {at[j]} \cup (IF FileOf[j] \in Faulty THEN {Damaged} ELSE {}) :
       Append1(j, unit)
  /\ at' = [at EXCEPT ![j] = @ + 1]
  /\ GoTo(j, "check")
  /\ UNCHANGED <<created, commit, placed, phase, cancel, handle, resume, counted, read>>

(* A read or write error, or a connection closed before the announced end. *)
Interrupted(j) ==
  /\ stage[j] = "read"
  /\ Fail(j) /\ Close(j)
  /\ UNCHANGED <<created, store, placed>>

(* Seeded fault: any end of the stream is a clean one. *)
ReceivedShort(j) ==
  /\ stage[j] = "read"
  /\ phase' = [phase EXCEPT ![j] = "Verifying"]
  /\ Close(j)
  /\ GoTo(j, "hash")
  /\ UNCHANGED <<created, store, placed, cancel, net, read>>

(* A clean end: without an announced length any end is one. *)
Received(j) ==
  /\ stage[j] = "read"
  /\ counted[j] => at[j] > Size
  /\ phase' = [phase EXCEPT ![j] = "Verifying"]
  /\ Close(j)
  /\ GoTo(j, "hash")
  /\ UNCHANGED <<created, store, placed, cancel, net, read>>

(* Seeded fault: a job waits for a .part file that another one removed. *)
HashPartWaits(j) ==
  LET k == FileOf[j] IN
  /\ stage[j] = "hash" /\ Exists(part, k)
  /\ IF j \in Pinned /\ part[k] # Whole
     THEN /\ Fail(j)
          /\ part' = [part EXCEPT ![k] = NoFile]
          /\ handle' = Follow(k, "part", "gone")
     ELSE /\ copy' = [copy EXCEPT ![j] = part[k]]
          /\ GoTo(j, "rename")
          /\ UNCHANGED <<part, handle, phase, net, cancel, found>>
  /\ UNCHANGED <<created, bin, commit, placed>>

(* finalize_part: hash the file the name leads to. *)
HashPart(j) ==
  LET k == FileOf[j]
      bad == j \in Pinned /\ part[k] # Whole
  IN
  /\ stage[j] = "hash"
  /\ IF ~Exists(part, k)
     THEN Fail(j) /\ UNCHANGED <<store, handle>>
     ELSE IF bad
     THEN /\ Fail(j)
          /\ part' = [part EXCEPT ![k] = NoFile]
          /\ handle' = Follow(k, "part", "gone")
          /\ UNCHANGED <<bin, commit>>
     ELSE /\ copy' = [copy EXCEPT ![j] = part[k]]
          /\ GoTo(j, "rename")
          /\ UNCHANGED <<store, handle, phase, net, cancel, found>>
  /\ UNCHANGED <<created, placed>>

RenamePart(j) ==
  LET k == FileOf[j] IN
  /\ stage[j] = "rename"
  /\ IF Exists(part, k)
     THEN /\ bin' = [bin EXCEPT ![k] = part[k]]
          /\ part' = [part EXCEPT ![k] = NoFile]
          /\ handle' = [i \in Jobs |->
               IF FileOf[i] = k /\ handle[i] = "bin" THEN "gone"
               ELSE Follow(k, "part", "bin")[i]]
          /\ GoTo(j, "commit")
          /\ UNCHANGED <<phase, net, cancel, read>>
     ELSE Fail(j) /\ UNCHANGED <<bin, part, handle>>
  /\ UNCHANGED <<created, commit, placed>>

WriteCommit(j) ==
  /\ stage[j] = "commit"
  /\ commit' = [commit EXCEPT ![FileOf[j]] = copy[j]]
  /\ copy' = [copy EXCEPT ![j] = NoFile]
  /\ GoTo(j, "inspect")
  /\ UNCHANGED <<created, found, part, bin, placed, phase, cancel, handle, net>>

Inspect(j) ==
  LET k == FileOf[j] IN
  /\ stage[j] = "inspect"
  /\ IF HasHeader(bin[k])
     THEN GoTo(j, "list") /\ UNCHANGED <<bin, commit, handle, phase, net, cancel, read>>
     ELSE RemoveStaged(k) /\ Fail(j)
  /\ UNCHANGED <<created, part, placed>>

(* recover() lists the stage root, then reads every commit file of the list. *)
ListCommits(j) ==
  /\ stage[j] = "list"
  /\ found' = [found EXCEPT ![j] = {k \in Files : Exists(commit, k)}]
  /\ GoTo(j, "recover")
  /\ UNCHANGED <<created, store, placed, phase, cancel, handle, net, copy>>

(* One that has vanished fails the whole walk; otherwise the job's own must  *)
(* agree with its .bin.                                                      *)
Recover(j) ==
  LET k == FileOf[j]
      vanished == \E f \in found[j] : ~Exists(commit, f)
      verified == k \in found[j] /\ Exists(bin, k) /\ bin[k] = commit[k]
  IN
  /\ stage[j] = "recover"
  /\ IF vanished \/ ~verified
     THEN Fail(j)
     ELSE /\ found' = [found EXCEPT ![j] = {}]
          /\ GoTo(j, "copy")
          /\ UNCHANGED <<phase, net, cancel, copy>>
  /\ UNCHANGED <<created, store, placed, handle>>

(* Beside the target, under a name nobody else uses. *)
CopyBlob(j) ==
  LET k == FileOf[j] IN
  /\ stage[j] = "copy"
  /\ IF Exists(bin, k)
     THEN /\ copy' = [copy EXCEPT ![j] = bin[k]]
          /\ GoTo(j, "place")
          /\ UNCHANGED <<phase, net, cancel, found>>
     ELSE Fail(j)
  /\ UNCHANGED <<created, store, placed, handle>>

PlaceTarget(j) ==
  /\ stage[j] = "place"
  /\ placed' = [placed EXCEPT ![FileOf[j]] =
                  [data |-> copy[j], by |-> j, counted |-> counted[j]]]
  /\ copy' = [copy EXCEPT ![j] = NoFile]
  /\ GoTo(j, "clean")
  /\ UNCHANGED <<created, found, store, phase, cancel, handle, net>>

(* A file that cannot be opened, written, renamed or made durable, at any    *)
(* step; a target that was renamed may be there when the directory fails.    *)
DiskFails(j) ==
  /\ stage[j] \in {"open", "hash", "rename", "commit", "list", "recover", "copy", "place"}
  /\ placed' = placed \/ /\ stage[j] = "place"
                         /\ placed' = [placed EXCEPT ![FileOf[j]] =
                                [data |-> copy[j], by |-> j, counted |-> counted[j]]]
  /\ Fail(j) /\ Close(j)
  /\ UNCHANGED <<created, store>>

(* The thread goes on to scan the catalog, with nothing of the job left.     *)
CleanStage(j) ==
  /\ stage[j] = "clean"
  /\ RemoveStaged(FileOf[j])
  /\ Ended(j, "Completed") /\ Forget(j)
  /\ UNCHANGED <<created, part, placed>>

(* The process dies and starts again: files stay.                            *)
DLCrash ==
  /\ \E j \in Jobs : Live(j)
  /\ phase' = [j \in Jobs |-> "none"]
  /\ cancel' = [j \in Jobs |-> FALSE]
  /\ stage' = [j \in Jobs |-> "idle"]
  /\ handle' = [j \in Jobs |-> "none"]
  /\ resume' = [j \in Jobs |-> 0]
  /\ at' = [j \in Jobs |-> 0]
  /\ counted' = [j \in Jobs |-> FALSE]
  /\ copy' = [j \in Jobs |-> NoFile]
  /\ found' = [j \in Jobs |-> {}]
  /\ UNCHANGED <<created, store, placed>>

Stream(j) ==
  \/ OpenPart(j) \/ Refused(j) \/ Continues(j) \/ Restarts(j)
  \/ KeepReading(j) \/ CancelSeen(j) \/ ReadUnit(j) \/ Interrupted(j)
  \/ Received(j)

Finish(j) ==
  \/ HashPart(j) \/ RenamePart(j) \/ WriteCommit(j) \/ Inspect(j)
  \/ ListCommits(j) \/ Recover(j) \/ CopyBlob(j) \/ PlaceTarget(j)
  \/ CleanStage(j)

DLNext ==
  \/ \E j \in Jobs :
       CreateJob(j) \/ CancelJob(j) \/ Stream(j) \/ Finish(j) \/ DiskFails(j)
  \/ DLCrash

(* A thread runs on; connect and read time out, so a step of the server is   *)
(* answered or fails.  No disk has to fail.                                  *)
DLFairness == \A j \in Jobs : WF_dlVars(Stream(j) \/ Finish(j))

DLSpec == DLInit /\ [][DLNext]_dlVars /\ DLFairness

-----------------------------------------------------------------------------
(* Across interruptions, restarts from zero, crashes and retries, a .part    *)
(* file never repeats or skips a unit: unit i of it is unit i of the source  *)
(* (resume_from and the Range header, discard_part on a status of 200), as   *)
(* long as no two jobs have worked on its key at a time.                     *)
PartIsPrefix ==
  \A k \in Files \ contested : Exists(part, k) =>
    /\ Len(part[k]) <= Size
    /\ \A i \in 1..Len(part[k]) : part[k][i] \in {i, Damaged}

(* What the model directory shows is what the module comment promises: the   *)
(* pinned bytes, or without a pin a file with a header and, if the server    *)
(* announced one, of the announced length, whatever crashed before and       *)
(* whatever the jobs of other keys do, contested or not.                     *)
PlacedIsVerified ==
  \A k \in Files \ contested : Exists(placed, k) =>
    LET p == placed[k] IN
    /\ HasHeader(p.data)
    /\ p.by \in Pinned => p.data = Whole
    /\ p.counted => Len(p.data) = Size

(* Every job ends: no interruption, cancellation or concurrent removal of a  *)
(* commit file leaves a handle in Downloading or Verifying for ever, and no  *)
(* second job for its key does.                                              *)
JobsEnd ==
  \A j \in Jobs :
    phase[j] \in {"Downloading", "Verifying"} ~> phase[j] \in Terminal \cup {"none"}

=============================================================================
