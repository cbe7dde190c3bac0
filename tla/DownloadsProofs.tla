--------------------------- MODULE DownloadsProofs ---------------------------
(***************************************************************************)
(* Theorems about Downloads for every set of jobs and files, every size,   *)
(* every choice of pins and of damaged files, any number of crashes, and   *)
(* clients that start as many jobs for a key as they like.                 *)
(*                                                                         *)
(* While one job works on a key, the files of the key are its own, and     *)
(* what they hold follows from where the job stands: StageInv says it      *)
(* stage by stage.  Two jobs on a key make it contested, for good; what    *)
(* they do there, through handles that outlive renames, must not reach the *)
(* other keys.                                                             *)
(***************************************************************************)
EXTENDS Downloads, TLAPS

Contents == Seq(Nat) \cup {NoFile}
Stages == {"idle", "open", "request", "check", "read", "hash", "rename", "commit", "inspect",
           "list", "recover", "copy", "place", "clean"}
Reading == {"request", "check", "read"}
Staged == {"commit", "inspect", "list", "recover", "copy"}

DownloadTypeOK ==
  /\ part \in [Files -> Contents] /\ bin \in [Files -> Contents]
  /\ placed \in [Files -> {NoFile} \cup Placement]
  /\ stage \in [Jobs -> Stages]
  /\ handle \in [Jobs -> {"none", "part", "bin", "gone"}]
  /\ resume \in [Jobs -> Nat] /\ at \in [Jobs -> Nat]
  /\ counted \in [Jobs -> BOOLEAN]
  /\ copy \in [Jobs -> Contents]
  /\ found \in [Jobs -> SUBSET Files]

(* An open handle has its file, contested or not. *)
Opened(j) ==
  /\ handle[j] = "part" => Exists(part, FileOf[j])
  /\ handle[j] = "bin" => Exists(bin, FileOf[j])
  /\ stage[j] = "place" => copy[j] # NoFile

(* The bytes job j may put in place. *)
Right(j, data) ==
  /\ data \in Seq(Nat)
  /\ j \in Pinned => data = Whole
  /\ counted[j] => Len(data) = Size

StageInv(j) ==
  LET k == FileOf[j] IN
  /\ stage[j] \in Reading => handle[j] = "part" /\ Exists(part, k)
  /\ stage[j] \notin Reading => handle[j] = "none"
  /\ stage[j] = "request" => resume[j] = Len(part[k])
  /\ stage[j] \in {"check", "read"} => at[j] = Len(part[k]) + 1
  /\ stage[j] = "hash" /\ Exists(part, k) /\ counted[j] => Len(part[k]) = Size
  /\ stage[j] = "rename" => Right(j, part[k])
  /\ stage[j] \in Staged => Right(j, bin[k])
  /\ stage[j] \in {"list", "recover", "copy"} => HasHeader(bin[k])
  /\ stage[j] = "place" => Right(j, copy[j]) /\ HasHeader(copy[j])

OneJob ==
  \A i, j \in Jobs :
    Live(i) /\ Live(j) /\ FileOf[i] = FileOf[j] /\ FileOf[j] \notin contested => i = j

DInv ==
  /\ DownloadTypeOK
  /\ OneJob
  /\ \A j \in Jobs : Opened(j)
  /\ \A j \in Jobs : FileOf[j] \notin contested => StageInv(j)
  /\ PartIsPrefix
  /\ PlacedIsVerified

-----------------------------------------------------------------------------
(* Initially there are no files and no jobs. *)
LEMMA InitEstablishesDInv == DLInit => DInv
<1> SUFFICES ASSUME DLInit PROVE DInv
  OBVIOUS
<1>1. DownloadTypeOK
  BY DEF DLInit, DownloadTypeOK, Contents, Stages
<1>2. OneJob /\ (\A j \in Jobs : Opened(j) /\ StageInv(j))
  BY DEF DLInit, OneJob, Live, Opened, StageInv, Reading, Staged
<1>3. PartIsPrefix /\ PlacedIsVerified
  BY DEF DLInit, PartIsPrefix, PlacedIsVerified, Exists
<1> QED
  BY <1>1, <1>2, <1>3 DEF DInv

Handles == {"none", "part", "bin", "gone"}

JobTypeOK ==
  /\ stage \in [Jobs -> Stages] /\ handle \in [Jobs -> Handles]
  /\ resume \in [Jobs -> Nat] /\ at \in [Jobs -> Nat]
  /\ counted \in [Jobs -> BOOLEAN]
  /\ copy \in [Jobs -> Contents]
  /\ found \in [Jobs -> SUBSET Files]

FileTypeOK ==
  /\ part \in [Files -> Contents] /\ bin \in [Files -> Contents]
  /\ placed \in [Files -> {NoFile} \cup Placement]

(* The types of the jobs and those of the files. *)
LEMMA TypesSplit == DownloadTypeOK <=> JobTypeOK /\ FileTypeOK
BY DEF DownloadTypeOK, JobTypeOK, FileTypeOK, Handles

(* What leaving a job, and following its files, does to the types. *)
LEMMA JobMoves ==
  ASSUME JobTypeOK, NEW j \in Jobs
  PROVE  /\ \A s \in Stages : GoTo(j, s) => stage' \in [Jobs -> Stages]
         /\ \A p : Ended(j, p) => stage' \in [Jobs -> Stages]
         /\ Forget(j) =>
              /\ resume' \in [Jobs -> Nat] /\ at' \in [Jobs -> Nat]
              /\ counted' \in [Jobs -> BOOLEAN] /\ copy' \in [Jobs -> Contents]
              /\ found' \in [Jobs -> SUBSET Files]
         /\ Close(j) => handle' \in [Jobs -> Handles]
         /\ \A k, a, b : b \in Handles => Follow(k, a, b) \in [Jobs -> Handles]
<1>1. \A s \in Stages : GoTo(j, s) => stage' \in [Jobs -> Stages]
  BY DEF JobTypeOK, GoTo
<1>2. \A p : Ended(j, p) => stage' \in [Jobs -> Stages]
  BY DEF JobTypeOK, Ended, Stages
<1>3. ASSUME Forget(j)
      PROVE  /\ resume' \in [Jobs -> Nat] /\ at' \in [Jobs -> Nat]
             /\ counted' \in [Jobs -> BOOLEAN] /\ copy' \in [Jobs -> Contents]
             /\ found' \in [Jobs -> SUBSET Files]
  <2>1. NoFile \in Contents
    BY DEF Contents
  <2> QED
    BY <1>3, <2>1 DEF Forget, JobTypeOK
<1>4. Close(j) => handle' \in [Jobs -> Handles]
  BY DEF Close, JobTypeOK, Handles
<1>5. \A k, a, b : b \in Handles => Follow(k, a, b) \in [Jobs -> Handles]
  BY DEF Follow, JobTypeOK
<1> QED
  BY <1>1, <1>2, <1>3, <1>4, <1>5

(* Types of what a job keeps, action by action. *)
LEMMA JobTyped ==
  ASSUME DInv, NEW j \in Jobs,
         Stream(j) \/ Finish(j) \/ DiskFails(j) \/ CreateJob(j) \/ CancelJob(j)
  PROVE  JobTypeOK'
<1>t. JobTypeOK /\ FileTypeOK
  BY TypesSplit DEF DInv
<1>k. FileOf[j] \in Files
  BY DownloadAssumption
<1>m. /\ \A s \in Stages : GoTo(j, s) => stage' \in [Jobs -> Stages]
      /\ \A p : Ended(j, p) => stage' \in [Jobs -> Stages]
      /\ Forget(j) =>
           /\ resume' \in [Jobs -> Nat] /\ at' \in [Jobs -> Nat]
           /\ counted' \in [Jobs -> BOOLEAN] /\ copy' \in [Jobs -> Contents]
           /\ found' \in [Jobs -> SUBSET Files]
      /\ Close(j) => handle' \in [Jobs -> Handles]
      /\ \A k, a, b : b \in Handles => Follow(k, a, b) \in [Jobs -> Handles]
  BY <1>t, JobMoves
<1>n. /\ "none" \in Handles /\ "part" \in Handles /\ "bin" \in Handles
      /\ "gone" \in Handles /\ NoFile \in Contents
  BY DEF Handles, Contents
<1>s. {"open", "request", "check", "read", "hash", "rename", "commit", "inspect",
       "list", "recover", "copy", "place", "clean"} \subseteq Stages
  BY DEF Stages
<1> USE DEF store, net, read
<1>1. CASE CreateJob(j) \/ CancelJob(j)
  BY <1>1, <1>t, <1>m, <1>s DEF CreateJob, CancelJob, JobTypeOK
<1>2. CASE OpenPart(j)
  <2>1. Length(FileOf[j]) \in Nat
    BY <1>k, <1>t DEF Length, Exists, Contents, FileTypeOK
  <2> QED
    BY <1>2, <1>t, <1>m, <1>n, <1>s, <2>1 DEF OpenPart, JobTypeOK
<1>3. CASE Refused(j) \/ Interrupted(j) \/ DiskFails(j)
  BY <1>3, <1>m DEF Refused, Interrupted, DiskFails, Fail, JobTypeOK
<1>4. CASE Continues(j)
  BY <1>4, <1>t, <1>m, <1>s DEF Continues, JobTypeOK
<1>5. CASE Restarts(j)
  <2>1. handle' \in [Jobs -> Handles]
    BY <1>5, <1>m, <1>n DEF Restarts
  <2> QED
    BY <1>5, <1>t, <1>m, <1>s, <2>1 DEF Restarts, JobTypeOK
<1>6. CASE KeepReading(j) \/ Received(j) \/ ReadUnit(j)
  BY <1>6, <1>t, <1>m, <1>s DEF KeepReading, Received, ReadUnit, JobTypeOK
<1>7. CASE CancelSeen(j)
  <2>1. handle' \in [Jobs -> Handles]
    BY <1>7, <1>m, <1>n DEF CancelSeen
  <2> QED
    BY <1>7, <1>m, <2>1 DEF CancelSeen, JobTypeOK
<1>8. CASE HashPart(j)
  <2>1. part[FileOf[j]] \in Contents
    BY <1>k, <1>t DEF FileTypeOK
  <2> QED
    BY <1>8, <1>t, <1>m, <1>n, <1>s, <2>1 DEF HashPart, Fail, JobTypeOK
<1>9. CASE RenamePart(j)
  <2>1. handle' \in [Jobs -> Handles]
    <3>1. \A i \in Jobs : Follow(FileOf[j], "part", "bin")[i] \in Handles
      BY <1>m, <1>n
    <3> QED
      BY <1>9, <1>t, <1>n, <3>1 DEF RenamePart, JobTypeOK
  <2> QED
    BY <1>9, <1>t, <1>m, <1>s, <2>1 DEF RenamePart, Fail, JobTypeOK
<1>10. CASE WriteCommit(j) \/ ListCommits(j) \/ PlaceTarget(j)
  BY <1>10, <1>t, <1>m, <1>n, <1>s DEF WriteCommit, ListCommits, PlaceTarget, JobTypeOK
<1>11. CASE Inspect(j) \/ CleanStage(j)
  BY <1>11, <1>t, <1>m, <1>n, <1>s DEF Inspect, CleanStage, RemoveStaged, Fail, JobTypeOK
<1>12. CASE Recover(j)
  BY <1>12, <1>t, <1>m, <1>s DEF Recover, Fail, JobTypeOK
<1>13. CASE CopyBlob(j)
  <2>1. bin[FileOf[j]] \in Contents
    BY <1>k, <1>t DEF FileTypeOK
  <2> QED
    BY <1>13, <1>t, <1>m, <1>s, <2>1 DEF CopyBlob, Fail, JobTypeOK
<1> QED
  BY <1>1, <1>2, <1>3, <1>4, <1>5, <1>6, <1>7, <1>8, <1>9, <1>10, <1>11, <1>12, <1>13
  DEF Stream, Finish

(* Types of the files. *)
LEMMA FileTyped ==
  ASSUME DInv, NEW j \in Jobs,
         Stream(j) \/ Finish(j) \/ DiskFails(j) \/ CreateJob(j) \/ CancelJob(j)
  PROVE  FileTypeOK'
<1>t. JobTypeOK /\ FileTypeOK /\ Opened(j)
  BY TypesSplit DEF DInv
<1>k. FileOf[j] \in Files
  BY DownloadAssumption
<1>n. NoFile \in Contents /\ <<>> \in Contents
  BY DEF Contents
<1>p. stage[j] = "place" =>
        [placed EXCEPT ![FileOf[j]] = [data |-> copy[j], by |-> j, counted |-> counted[j]]]
          \in [Files -> {NoFile} \cup Placement]
  <2>1. stage[j] = "place" => [data |-> copy[j], by |-> j, counted |-> counted[j]] \in Placement
    BY <1>t DEF Opened, Placement, Contents, JobTypeOK
  <2> QED
    BY <2>1, <1>t DEF FileTypeOK
<1> USE DEF store
<1>1. CASE UNCHANGED <<part, bin, placed>>
  BY <1>1, <1>t DEF FileTypeOK
<1>2. CASE OpenPart(j)
  <2>1. part[FileOf[j]] \in Contents
    BY <1>k, <1>t DEF FileTypeOK
  <2> QED
    BY <1>2, <1>t, <1>n, <2>1 DEF OpenPart, FileTypeOK
<1>3. CASE Restarts(j) \/ CancelSeen(j)
  BY <1>3, <1>t, <1>n DEF Restarts, CancelSeen, FileTypeOK
<1>4. CASE ReadUnit(j)
  <2>1. PICK unit \in {at[j]} \cup (IF FileOf[j] \in Faulty THEN {Damaged} ELSE {}) :
          Append1(j, unit)
    BY <1>4 DEF ReadUnit
  <2>2. unit \in Nat
    BY <1>t, <2>1 DEF Damaged, JobTypeOK
  <2>3. /\ handle[j] = "part" => part[FileOf[j]] \in Seq(Nat)
        /\ handle[j] = "bin" => bin[FileOf[j]] \in Seq(Nat)
    BY <1>k, <1>t DEF Opened, Exists, Contents, FileTypeOK
  <2>4. /\ handle[j] = "part" => Append(part[FileOf[j]], unit) \in Contents
        /\ handle[j] = "bin" => Append(bin[FileOf[j]], unit) \in Contents
    BY <2>2, <2>3 DEF Contents
  <2> QED
    BY <1>t, <1>4, <2>1, <2>4 DEF ReadUnit, Append1, FileTypeOK
<1>5. CASE HashPart(j)
  BY <1>5, <1>t, <1>n DEF HashPart, FileTypeOK
<1>6. CASE RenamePart(j)
  BY <1>6, <1>t, <1>n, <1>k DEF RenamePart, FileTypeOK
<1>7. CASE Inspect(j) \/ CleanStage(j)
  BY <1>7, <1>t, <1>n DEF Inspect, CleanStage, RemoveStaged, FileTypeOK
<1>8. CASE PlaceTarget(j) \/ DiskFails(j)
  BY <1>8, <1>t, <1>p DEF PlaceTarget, DiskFails, FileTypeOK
<1> QED
  BY <1>1, <1>2, <1>3, <1>4, <1>5, <1>6, <1>7, <1>8
  DEF Stream, Finish, CreateJob, CancelJob, Refused, Interrupted, Continues, KeepReading,
      Received, WriteCommit, ListCommits, Recover, CopyBlob

-----------------------------------------------------------------------------
(* A step of a job leaves the other jobs, and the files of the other keys.   *)
Touches(j) ==
  /\ \A k \in Files : k # FileOf[j] => part'[k] = part[k] /\ bin'[k] = bin[k]
  /\ \A i \in Jobs : i # j =>
       /\ stage'[i] = stage[i] /\ resume'[i] = resume[i]
       /\ at'[i] = at[i] /\ counted'[i] = counted[i] /\ copy'[i] = copy[i]
       /\ found'[i] = found[i]
       /\ FileOf[i] # FileOf[j] \/ handle[i] = "none" => handle'[i] = handle[i]

(* A job works on the files of its own key only, and on the handles that     *)
(* others have open on them.                                                 *)
LEMMA JobTouches ==
  ASSUME DInv, NEW j \in Jobs,
         Stream(j) \/ Finish(j) \/ DiskFails(j) \/ CreateJob(j) \/ CancelJob(j)
  PROVE  Touches(j)
<1>t. JobTypeOK /\ FileTypeOK
  BY TypesSplit DEF DInv
<1>k. FileOf[j] \in Files
  BY DownloadAssumption
<1>f. \A i \in Jobs : i # j /\ (FileOf[i] # FileOf[j] \/ handle[i] = "none") =>
        /\ \A to, from \in {"part", "bin"} : Follow(FileOf[j], from, to)[i] = handle[i]
        /\ \A from \in {"part", "bin"} : Follow(FileOf[j], from, "gone")[i] = handle[i]
  BY DEF Follow
<1> USE DEF store, net, read, Fail, Ended, GoTo, Close, Forget
<1> DEFINE Rest(i) ==
      /\ stage'[i] = stage[i] /\ resume'[i] = resume[i]
      /\ at'[i] = at[i] /\ counted'[i] = counted[i] /\ copy'[i] = copy[i]
      /\ found'[i] = found[i]
<1>1. \A i \in Jobs : i # j => Rest(i)
  <2> USE <1>t DEF JobTypeOK
  <2>1. CASE CreateJob(j) \/ CancelJob(j)
    BY <2>1 DEF CreateJob, CancelJob
  <2>2. CASE OpenPart(j) \/ Refused(j) \/ Interrupted(j) \/ DiskFails(j) \/ Continues(j)
    BY <2>2 DEF OpenPart, Refused, Interrupted, DiskFails, Continues
  <2>3. CASE Restarts(j) \/ KeepReading(j) \/ Received(j) \/ ReadUnit(j) \/ CancelSeen(j)
    BY <2>3 DEF Restarts, KeepReading, Received, ReadUnit, CancelSeen
  <2>4. CASE HashPart(j) \/ RenamePart(j) \/ WriteCommit(j) \/ Inspect(j) \/ ListCommits(j)
    BY <2>4 DEF HashPart, RenamePart, WriteCommit, Inspect, ListCommits
  <2>5. CASE Recover(j) \/ CopyBlob(j) \/ PlaceTarget(j) \/ CleanStage(j)
    BY <2>5 DEF Recover, CopyBlob, PlaceTarget, CleanStage
  <2> QED
    BY <2>1, <2>2, <2>3, <2>4, <2>5 DEF Stream, Finish
<1> HIDE DEF Rest
<1>2. \A i \in Jobs :
        i # j /\ (FileOf[i] # FileOf[j] \/ handle[i] = "none") => handle'[i] = handle[i]
  <2> USE <1>t, <1>f DEF JobTypeOK
  <2>1. CASE Restarts(j) \/ CancelSeen(j)
    <3>1. Follow(FileOf[j], "part", "gone") \in [Jobs -> Handles]
      BY JobMoves DEF Handles
    <3> QED
      BY <2>1, <3>1 DEF Restarts, CancelSeen
  <2>2. CASE HashPart(j)
    BY <2>2 DEF HashPart
  <2>3. CASE RenamePart(j)
    BY <2>3 DEF RenamePart
  <2>4. CASE Inspect(j) \/ CleanStage(j)
    BY <2>4 DEF Inspect, CleanStage, RemoveStaged
  <2>5. CASE OpenPart(j) \/ Refused(j) \/ Interrupted(j) \/ DiskFails(j) \/ Received(j)
    BY <2>5 DEF OpenPart, Refused, Interrupted, DiskFails, Received
  <2>6. CASE UNCHANGED handle
    BY <2>6
  <2> QED
    BY <2>1, <2>2, <2>3, <2>4, <2>5, <2>6
    DEF Stream, Finish, CreateJob, CancelJob, Continues, KeepReading, ReadUnit, WriteCommit,
        ListCommits, Recover, CopyBlob, PlaceTarget
<1>3. \A k \in Files : k # FileOf[j] => part'[k] = part[k] /\ bin'[k] = bin[k]
  <2> USE <1>t DEF FileTypeOK
  <2>1. CASE OpenPart(j) \/ Restarts(j) \/ CancelSeen(j)
    BY <2>1 DEF OpenPart, Restarts, CancelSeen
  <2>2. CASE HashPart(j) \/ RenamePart(j)
    BY <2>2 DEF HashPart, RenamePart
  <2>3. CASE Inspect(j) \/ CleanStage(j)
    BY <2>3 DEF Inspect, CleanStage, RemoveStaged
  <2>4. CASE ReadUnit(j)
    BY <2>4 DEF ReadUnit, Append1
  <2>5. CASE UNCHANGED <<part, bin>>
    BY <2>5
  <2> QED
    BY <2>1, <2>2, <2>3, <2>4, <2>5
    DEF Stream, Finish, CreateJob, CancelJob, Refused, Interrupted, DiskFails, Continues,
        KeepReading, Received, WriteCommit, ListCommits, Recover, CopyBlob, PlaceTarget
<1> QED
  BY <1>1, <1>2, <1>3 DEF Touches, Rest

(* Only a new job can make a key contested, its own. *)
LEMMA ContestedGrows ==
  ASSUME NEW j \in Jobs,
         Stream(j) \/ Finish(j) \/ DiskFails(j) \/ CreateJob(j) \/ CancelJob(j)
  PROVE  /\ contested \subseteq contested'
         /\ CreateJob(j) \/ (Live(j) /\ contested' = contested)
BY DEF created, Live, Stream, Finish, CreateJob, CancelJob, Refused, Interrupted, DiskFails,
   Continues, KeepReading, Received, WriteCommit, Inspect, ListCommits, Recover, CopyBlob,
   OpenPart, Restarts, CancelSeen, ReadUnit, HashPart, RenamePart, PlaceTarget, CleanStage

(* No step of any job takes the file from under an open handle. *)
LEMMA OpenedStep ==
  ASSUME DInv, DownloadTypeOK', NEW j \in Jobs,
         Stream(j) \/ Finish(j) \/ DiskFails(j) \/ CreateJob(j) \/ CancelJob(j)
  PROVE  \A i \in Jobs : Opened(i)'
<1>t. /\ JobTypeOK /\ FileTypeOK /\ JobTypeOK' /\ FileTypeOK'
      /\ \A i \in Jobs : Opened(i)
  BY TypesSplit DEF DInv, DownloadTypeOK, JobTypeOK, FileTypeOK, Handles
<1>k. \A i \in Jobs : FileOf[i] \in Files
  BY DownloadAssumption
<1>n. <<>> # NoFile
  <2>1. <<>> \in Seq(Nat)
    OBVIOUS
  <2> QED
    BY <2>1, DownloadAssumption
<1>f. Touches(j)
  BY JobTouches
<1> DEFINE Held(i) ==
      /\ handle'[i] = "part" => Exists(part, FileOf[i])'
      /\ handle'[i] = "bin" => Exists(bin, FileOf[i])'
<1>1. \A i \in Jobs : FileOf[i] # FileOf[j] => Held(i)
  BY <1>f, <1>t, <1>k DEF Touches, Opened, Exists
<1>2. \A i \in Jobs : FileOf[i] = FileOf[j] => Held(i)
  <2> USE <1>t, <1>k DEF store, net, read, JobTypeOK, FileTypeOK, Opened, Exists, GoTo, Close
  <2>1. CASE UNCHANGED <<part, bin>> /\ (UNCHANGED handle \/ Close(j))
    BY <2>1
  <2>2. CASE OpenPart(j)
    BY <2>2, <1>n DEF OpenPart
  <2>3. CASE Restarts(j)
    BY <2>3, <1>n DEF Restarts, Follow
  <2>4. CASE CancelSeen(j)
    BY <2>4 DEF CancelSeen, Follow
  <2>5. CASE ReadUnit(j)
    <3>1. PICK unit \in {at[j]} \cup (IF FileOf[j] \in Faulty THEN {Damaged} ELSE {}) :
            Append1(j, unit)
      BY <2>5 DEF ReadUnit
    <3>2. handle' = handle /\ unit \in Nat
      BY <2>5, <3>1 DEF ReadUnit, Damaged
    <3>3. \A k \in Files : (part[k] # NoFile => part'[k] # NoFile)
                         /\ (bin[k] # NoFile => bin'[k] # NoFile)
      <4>1. \A c \in Contents : c # NoFile => Append(c, unit) # NoFile
        <5>1. \A c \in Seq(Nat) : Append(c, unit) \in Seq(Nat)
          BY <3>2
        <5> QED
          BY <5>1, DownloadAssumption DEF Contents
      <4> QED
        BY <3>1, <4>1 DEF Append1
    <3> QED
      BY <3>2, <3>3
  <2>6. CASE HashPart(j)
    BY <2>6 DEF HashPart, Follow
  <2>7. CASE RenamePart(j)
    BY <2>7 DEF RenamePart, Follow
  <2>8. CASE Inspect(j) \/ CleanStage(j)
    BY <2>8 DEF Inspect, CleanStage, RemoveStaged, Follow
  <2> QED
    BY <2>1, <2>2, <2>3, <2>4, <2>5, <2>6, <2>7, <2>8
    DEF Stream, Finish, CreateJob, CancelJob, Refused, Interrupted, DiskFails, Continues,
        KeepReading, Received, WriteCommit, ListCommits, Recover, CopyBlob, PlaceTarget
<1>3. \A i \in Jobs : stage'[i] = "place" => copy'[i] # NoFile
  <2>1. \A i \in Jobs : i # j => (stage'[i] = "place" => copy'[i] # NoFile)
    BY <1>f, <1>t DEF Touches, Opened
  <2>2. CASE stage'[j] = "place"
    <3>1. CASE CopyBlob(j)
      BY <3>1, <2>1, <2>2, <1>t, <1>k
      DEF CopyBlob, Fail, Ended, JobTypeOK, Exists
    <3>2. CASE CancelJob(j)
      BY <3>2, <2>1, <1>t DEF CancelJob, read, Opened
    <3> QED
      BY <2>1, <2>2, <3>1, <3>2, <1>t
      DEF JobTypeOK, Stream, Finish, CreateJob, Refused, Interrupted, DiskFails, Continues,
        KeepReading, Received, WriteCommit, Inspect, ListCommits, Recover, OpenPart, Restarts,
        CancelSeen, ReadUnit, HashPart, RenamePart, PlaceTarget, CleanStage, GoTo, Fail, Ended
  <2> QED
    BY <2>1, <2>2
<1> QED
  BY <1>1, <1>2, <1>3 DEF Opened

(* Where a step leaves its job, the files are as StageInv says. *)
LEMMA StageStep ==
  ASSUME DInv, DownloadTypeOK', NEW j \in Jobs, FileOf[j] \notin contested,
         Stream(j) \/ Finish(j) \/ DiskFails(j) \/ CreateJob(j) \/ CancelJob(j)
  PROVE  StageInv(j)'
<1>t. JobTypeOK /\ FileTypeOK /\ JobTypeOK' /\ FileTypeOK' /\ StageInv(j)
  BY TypesSplit DEF DInv, DownloadTypeOK, JobTypeOK, FileTypeOK, Handles
<1>k. FileOf[j] \in Files
  BY DownloadAssumption
<1>c. /\ part[FileOf[j]] \in Contents /\ bin[FileOf[j]] \in Contents
  BY <1>t, <1>k DEF FileTypeOK
<1>d. /\ Exists(part, FileOf[j]) => part[FileOf[j]] \in Seq(Nat)
      /\ PartIsPrefix
  BY <1>c DEF Exists, Contents, DInv
<1> USE DEF store, net, read, GoTo, Close
<1>1. CASE CreateJob(j) \/ CancelJob(j)
  BY <1>1, <1>t DEF CreateJob, CancelJob, StageInv, JobTypeOK, Reading, Staged, Exists, Right
<1>2. CASE OpenPart(j)
  <2>1. /\ part'[FileOf[j]] = IF Exists(part, FileOf[j]) THEN part[FileOf[j]] ELSE <<>>
        /\ resume'[j] = Length(FileOf[j])
        /\ handle'[j] = "part" /\ stage'[j] = "request"
    BY <1>2, <1>t, <1>k DEF OpenPart, JobTypeOK, FileTypeOK
  <2>2. Exists(part, FileOf[j])' /\ resume'[j] = Len(part'[FileOf[j]])
    <3>1. <<>> # NoFile
      <4>1. <<>> \in Seq(Nat)
        OBVIOUS
      <4> QED
        BY <4>1, DownloadAssumption
    <3> QED
      BY <2>1, <3>1 DEF Exists, Length
  <2> QED
    BY <2>1, <2>2 DEF StageInv, Reading, Staged
<1>3. ASSUME stage'[j] = "idle", handle'[j] = "none" PROVE StageInv(j)'
  BY <1>3 DEF StageInv, Reading, Staged
<1>4. CASE Refused(j) \/ Interrupted(j) \/ DiskFails(j) \/ CancelSeen(j)
  BY <1>3, <1>4, <1>t DEF Refused, Interrupted, DiskFails, CancelSeen, Fail, Ended,
     JobTypeOK, StageInv, Reading, Follow
<1>5. CASE Continues(j)
  <2>1. /\ stage'[j] = "check" /\ at'[j] = resume[j] + 1
        /\ UNCHANGED <<part, handle>> /\ stage[j] = "request"
    BY <1>5, <1>t DEF Continues, JobTypeOK
  <2>2. handle[j] = "part" /\ Exists(part, FileOf[j]) /\ resume[j] = Len(part[FileOf[j]])
    BY <2>1, <1>t DEF StageInv, Reading
  <2> QED
    BY <2>1, <2>2 DEF StageInv, Reading, Staged, Exists
<1>6. CASE Restarts(j)
  <2>1. /\ part'[FileOf[j]] = <<>> /\ at'[j] = 1 /\ stage'[j] = "check"
    BY <1>6, <1>t, <1>k DEF Restarts, JobTypeOK, FileTypeOK
  <2>2. handle'[j] = "part"
    <3>1. Follow(FileOf[j], "part", "gone") \in [Jobs -> Handles]
      BY <1>t, JobMoves DEF Handles
    <3> QED
      BY <1>6, <3>1 DEF Restarts
  <2>3. Exists(part, FileOf[j])' /\ Len(part'[FileOf[j]]) = 0
    <3>1. <<>> # NoFile /\ Len(<<>>) = 0
      <4>1. <<>> \in Seq(Nat)
        OBVIOUS
      <4> QED
        BY <4>1, DownloadAssumption
    <3> QED
      BY <2>1, <3>1 DEF Exists
  <2> QED
    BY <2>1, <2>2, <2>3 DEF StageInv, Reading, Staged
<1>7. CASE KeepReading(j)
  BY <1>7, <1>t DEF KeepReading, StageInv, JobTypeOK, Reading, Staged, Exists
<1>8. CASE ReadUnit(j)
  <2>1. PICK unit \in {at[j]} \cup (IF FileOf[j] \in Faulty THEN {Damaged} ELSE {}) :
          Append1(j, unit)
    BY <1>8 DEF ReadUnit
  <2>2. handle[j] = "part" /\ Exists(part, FileOf[j]) /\ at[j] = Len(part[FileOf[j]]) + 1
    BY <1>8, <1>t DEF ReadUnit, StageInv, Reading
  <2>3. part'[FileOf[j]] = Append(part[FileOf[j]], unit)
    BY <2>1, <2>2, <1>k, <1>t DEF Append1, FileTypeOK
  <2>4. Len(part'[FileOf[j]]) = Len(part[FileOf[j]]) + 1 /\ part'[FileOf[j]] \in Seq(Nat)
    <3>1. unit \in Nat /\ part[FileOf[j]] \in Seq(Nat)
      BY <2>1, <2>2, <1>t, <1>d DEF Damaged, JobTypeOK
    <3> QED
      BY <3>1, <2>3
  <2>5. Exists(part, FileOf[j])'
    BY <2>4, DownloadAssumption DEF Exists
  <2>6. stage'[j] = "check" /\ handle'[j] = "part" /\ at'[j] = at[j] + 1
    BY <1>8, <1>t, <2>2 DEF ReadUnit, JobTypeOK
  <2> QED
    BY <2>2, <2>4, <2>5, <2>6, <1>t DEF StageInv, Reading, Staged, JobTypeOK
<1>9. CASE Received(j)
  <2>1. Exists(part, FileOf[j]) /\ at[j] = Len(part[FileOf[j]]) + 1
    BY <1>9, <1>t DEF Received, StageInv, Reading
  <2>2. counted[j] => Len(part[FileOf[j]]) = Size
    <3>1. Len(part[FileOf[j]]) \in Nat /\ Len(part[FileOf[j]]) <= Size /\ Size \in Nat
      BY <1>k, <1>d, <2>1, DownloadAssumption DEF PartIsPrefix
    <3>2. counted[j] => at[j] > Size
      BY <1>9 DEF Received
    <3> QED
      BY <3>1, <3>2, <2>1
  <2> QED
    BY <1>9, <2>2, <1>t DEF Received, StageInv, JobTypeOK, Reading, Staged, Exists
<1>10. CASE HashPart(j)
  <2>1. CASE Fail(j)
    BY <1>3, <1>10, <2>1, <1>t DEF HashPart, Fail, Ended, StageInv, JobTypeOK, Reading, Follow
  <2>2. CASE ~Fail(j)
    <3>1. /\ Exists(part, FileOf[j])
          /\ j \in Pinned => part[FileOf[j]] = Whole
          /\ stage'[j] = "rename"
          /\ UNCHANGED <<part, bin, handle, counted>>
      BY <1>10, <2>2, <1>t DEF HashPart, JobTypeOK
    <3>2. Right(j, part[FileOf[j]])
      BY <1>10, <3>1, <1>d, <1>t DEF HashPart, StageInv, Right
    <3> QED
      BY <1>10, <3>1, <3>2, <1>t DEF HashPart, StageInv, Reading, Staged, Right, Exists
  <2> QED
    BY <2>1, <2>2
<1>11. CASE RenamePart(j)
  <2>1. CASE Fail(j)
    BY <1>3, <1>11, <2>1, <1>t DEF RenamePart, Fail, Ended, StageInv, JobTypeOK, Reading, Follow
  <2>2. CASE ~Fail(j)
    <3>1. /\ stage'[j] = "commit" /\ bin'[FileOf[j]] = part[FileOf[j]]
          /\ counted' = counted /\ handle'[j] = "none"
      BY <1>11, <2>2, <1>t, <1>k
      DEF RenamePart, JobTypeOK, FileTypeOK, StageInv, Reading, Follow
    <3> QED
      BY <1>11, <3>1, <1>t DEF RenamePart, StageInv, Reading, Staged, Right
  <2> QED
    BY <2>1, <2>2
<1>12. CASE WriteCommit(j) \/ ListCommits(j)
  BY <1>12, <1>t DEF WriteCommit, ListCommits, StageInv, JobTypeOK, Reading, Staged, Right,
     HasHeader
<1>13. CASE Inspect(j)
  <2>1. CASE Fail(j)
    BY <1>3, <1>13, <2>1, <1>t DEF Inspect, RemoveStaged, Fail, Ended, StageInv, JobTypeOK,
       Reading, Follow
  <2>2. CASE ~Fail(j)
    BY <1>13, <2>2, <1>t DEF Inspect, StageInv, JobTypeOK, Reading, Staged, Right
  <2> QED
    BY <2>1, <2>2
<1>14. CASE Recover(j)
  <2>1. CASE Fail(j)
    BY <1>3, <1>14, <2>1, <1>t DEF Recover, Fail, Ended, StageInv, JobTypeOK, Reading
  <2>2. CASE ~Fail(j)
    BY <1>14, <2>2, <1>t DEF Recover, StageInv, JobTypeOK, Reading, Staged, Right
  <2> QED
    BY <2>1, <2>2
<1>15. CASE CopyBlob(j)
  <2>1. CASE Fail(j)
    BY <1>3, <1>15, <2>1, <1>t DEF CopyBlob, Fail, Ended, StageInv, JobTypeOK, Reading
  <2>2. CASE ~Fail(j)
    BY <1>15, <2>2, <1>t DEF CopyBlob, StageInv, JobTypeOK, Reading, Staged, Right
  <2> QED
    BY <2>1, <2>2
<1>16. CASE PlaceTarget(j)
  BY <1>16, <1>t DEF PlaceTarget, StageInv, JobTypeOK, Reading, Staged
<1>17. CASE CleanStage(j)
  BY <1>17, <1>t DEF CleanStage, RemoveStaged, Ended, Follow, StageInv, JobTypeOK, Reading, Staged
<1> QED
  BY <1>1, <1>2, <1>4, <1>5, <1>6, <1>7, <1>8, <1>9, <1>10, <1>11, <1>12, <1>13, <1>14, <1>15,
     <1>16, <1>17 DEF Stream, Finish

-----------------------------------------------------------------------------
(* What the files hold. *)
LEMMA PrefixStep ==
  ASSUME DInv, NEW j \in Jobs,
         Stream(j) \/ Finish(j) \/ DiskFails(j) \/ CreateJob(j) \/ CancelJob(j)
  PROVE  PartIsPrefix'
<1>t. JobTypeOK /\ FileTypeOK /\ (FileOf[j] \notin contested => StageInv(j)) /\ PartIsPrefix
  BY TypesSplit DEF DInv
<1>k. FileOf[j] \in Files /\ Size \in Nat
  BY DownloadAssumption
<1>1. \/ part'[FileOf[j]] \in {part[FileOf[j]], NoFile, <<>>}
      \/ ReadUnit(j)
  <2> USE <1>t, <1>k DEF FileTypeOK, store
  <2>1. CASE OpenPart(j) \/ Restarts(j) \/ CancelSeen(j) \/ HashPart(j) \/ RenamePart(j)
    BY <2>1 DEF OpenPart, Restarts, CancelSeen, HashPart, RenamePart
  <2>2. CASE UNCHANGED part
    BY <2>2
  <2> QED
    BY <2>1, <2>2
    DEF Stream, Finish, CreateJob, CancelJob, Refused, Interrupted, DiskFails, Continues,
        KeepReading, Received, WriteCommit, Inspect, ListCommits, Recover, CopyBlob,
        PlaceTarget, CleanStage
<1>2. \A k \in Files : k # FileOf[j] => part'[k] = part[k]
  BY JobTouches DEF Touches
<1>4. contested \subseteq contested'
  BY ContestedGrows
<1>3. CASE part'[FileOf[j]] \in {part[FileOf[j]], NoFile, <<>>}
  BY <1>2, <1>3, <1>4, <1>t, <1>k DEF PartIsPrefix, Exists
<1>5. CASE ReadUnit(j) /\ FileOf[j] \in contested
  BY <1>2, <1>4, <1>5, <1>t DEF PartIsPrefix, Exists
<1>6. CASE ReadUnit(j) /\ FileOf[j] \notin contested
  <2> DEFINE had == part[FileOf[j]]
  <2>1. PICK unit \in {at[j]} \cup (IF FileOf[j] \in Faulty THEN {Damaged} ELSE {}) :
          Append1(j, unit)
    BY <1>6 DEF ReadUnit
  <2>2. handle[j] = "part" /\ Exists(part, FileOf[j]) /\ at[j] = Len(had) + 1 /\ at[j] <= Size
    BY <1>6, <1>t DEF ReadUnit, StageInv, Reading
  <2>3. had \in Seq(Nat) /\ unit \in {Len(had) + 1, Damaged}
    BY <2>1, <2>2, <1>k, <1>t DEF Exists, FileTypeOK, Contents
  <2>4. part'[FileOf[j]] = Append(had, unit)
    BY <2>1, <2>2, <1>k, <1>t DEF Append1, FileTypeOK
  <2>5. /\ Len(had) \in Nat /\ Len(had) <= Size
        /\ \A i \in 1..Len(had) : had[i] \in {i, Damaged}
    BY <1>6, <2>2, <2>3, <1>k, <1>t DEF PartIsPrefix
  <2>6. /\ Len(part'[FileOf[j]]) = Len(had) + 1
        /\ \A i \in 1..Len(had) : part'[FileOf[j]][i] = had[i]
        /\ part'[FileOf[j]][Len(had) + 1] = unit
    <3>1. unit \in Nat
      BY <2>3 DEF Damaged
    <3> HIDE DEF had
    <3> QED
      BY <2>3, <2>4, <3>1
  <2> HIDE DEF had
  <2>7. /\ Len(part'[FileOf[j]]) <= Size
        /\ \A i \in 1..Len(part'[FileOf[j]]) : part'[FileOf[j]][i] \in {i, Damaged}
    BY <2>2, <2>3, <2>5, <2>6, <1>k
  <2> QED
    BY <2>7, <1>2, <1>4, <1>t DEF PartIsPrefix, Exists
<1> QED
  BY <1>1, <1>3, <1>5, <1>6

(* A job that ends well or badly has put nothing in place, or what StageInv  *)
(* says of the copy it read last.                                            *)
LEMMA PlacedStep ==
  ASSUME DInv, NEW j \in Jobs,
         Stream(j) \/ Finish(j) \/ DiskFails(j) \/ CreateJob(j) \/ CancelJob(j)
  PROVE  PlacedIsVerified'
<1>t. JobTypeOK /\ FileTypeOK /\ (FileOf[j] \notin contested => StageInv(j)) /\ PlacedIsVerified
  BY TypesSplit DEF DInv
<1>k. FileOf[j] \in Files
  BY DownloadAssumption
<1>c. contested \subseteq contested'
  BY ContestedGrows
<1> DEFINE new == [data |-> copy[j], by |-> j, counted |-> counted[j]]
<1>1. \/ placed' = placed
      \/ stage[j] = "place" /\ placed' = [placed EXCEPT ![FileOf[j]] = new]
  BY DEF store, Stream, Finish, CreateJob, CancelJob, Refused, Interrupted, DiskFails, Continues,
     KeepReading, Received, WriteCommit, Inspect, ListCommits, Recover, CopyBlob, OpenPart,
     Restarts, CancelSeen, ReadUnit, HashPart, RenamePart, PlaceTarget, CleanStage
<1>2. CASE placed' = placed
  BY <1>2, <1>c, <1>t DEF PlacedIsVerified, Exists
<1>3. CASE stage[j] = "place" /\ placed' = [placed EXCEPT ![FileOf[j]] = new]
  <2>1. FileOf[j] \notin contested => Right(j, copy[j]) /\ HasHeader(copy[j])
    BY <1>3, <1>t DEF StageInv
  <2>2. /\ placed'[FileOf[j]] = new
        /\ \A k \in Files : k # FileOf[j] => placed'[k] = placed[k]
    BY <1>3, <1>t, <1>k DEF FileTypeOK
  <2>3. new.data = copy[j] /\ new.by = j /\ new.counted = counted[j]
    OBVIOUS
  <2> HIDE DEF new
  <2> QED
    BY <2>1, <2>2, <2>3, <1>c, <1>t DEF PlacedIsVerified, Right, Exists
<1> QED
  BY <1>1, <1>2, <1>3

-----------------------------------------------------------------------------
(* DInv is inductive.  A step of a job: *)
LEMMA JobStep ==
  ASSUME DInv, NEW j \in Jobs,
         Stream(j) \/ Finish(j) \/ DiskFails(j) \/ CreateJob(j) \/ CancelJob(j)
  PROVE  DInv'
<1>t. /\ JobTypeOK /\ FileTypeOK /\ OneJob
      /\ \A i \in Jobs : FileOf[i] \notin contested => StageInv(i)
  BY TypesSplit DEF DInv
<1>1. DownloadTypeOK'
  BY JobTyped, FileTyped DEF JobTypeOK, FileTypeOK, DownloadTypeOK, Handles
<1>2. /\ Touches(j) /\ PartIsPrefix' /\ PlacedIsVerified'
      /\ \A i \in Jobs : Opened(i)'
      /\ FileOf[j] \notin contested => StageInv(j)'
  BY <1>1, JobTouches, OpenedStep, StageStep, PrefixStep, PlacedStep
<1>c. /\ contested \subseteq contested'
      /\ CreateJob(j) \/ (Live(j) /\ contested' = contested)
  BY ContestedGrows
<1>3. OneJob'
  <2>1. CASE CreateJob(j)
    BY <2>1, <1>t, <1>2, <1>c DEF CreateJob, OneJob, Live, Touches
  <2>2. CASE Live(j) /\ contested' = contested
    BY <2>2, <1>t, <1>2 DEF OneJob, Live, Touches
  <2> QED
    BY <1>c, <2>1, <2>2
<1>4. ASSUME NEW i \in Jobs, i # j, FileOf[i] \notin contested' PROVE StageInv(i)'
  <2>1. /\ stage'[i] = stage[i] /\ resume'[i] = resume[i]
        /\ at'[i] = at[i] /\ counted'[i] = counted[i] /\ copy'[i] = copy[i]
        /\ FileOf[i] # FileOf[j] \/ handle[i] = "none" => handle'[i] = handle[i]
    BY <1>2, <1>4 DEF Touches
  <2>2. FileOf[i] \notin contested /\ StageInv(i)
    BY <1>4, <1>c, <1>t
  <2>3. CASE stage[i] = "idle"
    BY <2>1, <2>2, <2>3 DEF StageInv, Reading, Staged
  <2>4. CASE stage[i] # "idle" /\ FileOf[i] = FileOf[j]
    <3>1. ~CreateJob(j)
      BY <1>4, <2>4 DEF CreateJob, Live
    <3> QED
      BY <3>1, <2>2, <2>4, <1>4, <1>c, <1>t DEF OneJob, Live
  <2>5. CASE FileOf[i] # FileOf[j]
    <3>1. part'[FileOf[i]] = part[FileOf[i]] /\ bin'[FileOf[i]] = bin[FileOf[i]]
      BY <2>5, <1>2, DownloadAssumption DEF Touches
    <3> QED
      BY <2>1, <2>2, <2>5, <3>1 DEF StageInv, Exists, Right
  <2> QED
    BY <2>3, <2>4, <2>5
<1> QED
  BY <1>1, <1>2, <1>3, <1>4, <1>c DEF DInv

(* A crash of the process. *)
LEMMA CrashStep == DInv /\ DLCrash => DInv'
<1> SUFFICES ASSUME DInv, DLCrash PROVE DInv'
  OBVIOUS
<1>1. DownloadTypeOK'
  BY DEF DLCrash, DInv, DownloadTypeOK, store, Contents, Stages
<1>2. OneJob' /\ \A j \in Jobs : Opened(j)' /\ StageInv(j)'
  BY DEF DLCrash, OneJob, Live, Opened, StageInv, Reading, Staged
<1>3. PartIsPrefix' /\ PlacedIsVerified'
  BY DEF DLCrash, DInv, PartIsPrefix, PlacedIsVerified, store, created, Exists
<1> QED
  BY <1>1, <1>2, <1>3 DEF DInv

(* A step, or none. *)
LEMMA NextPreservesDInv == DInv /\ [DLNext]_dlVars => DInv'
<1> SUFFICES ASSUME DInv, [DLNext]_dlVars PROVE DInv'
  OBVIOUS
<1>1. CASE DLNext
  BY <1>1, JobStep, CrashStep DEF DLNext
<1>2. CASE UNCHANGED dlVars
  BY <1>2 DEF dlVars, job, store, created, net, read, DInv, DownloadTypeOK, OneJob, Live,
     Opened, StageInv, Right, Exists, PartIsPrefix, PlacedIsVerified
<1> QED
  BY <1>1, <1>2

(* DInv holds in every reachable state. *)
LEMMA DInvHolds == DLSpec => []DInv
<1>1. DInv /\ [DLNext]_dlVars => DInv'
  BY NextPreservesDInv
<1> QED
  BY <1>1, InitEstablishesDInv, PTL DEF DLSpec

(* Interrupted, restarted, retried and crashed as often as it may be, a      *)
(* .part file holds the source's units in order, each at its place           *)
(* (resume_from, discard_part), unless two jobs worked on its key at a time. *)
THEOREM PartsStayPrefixes == DLSpec => []PartIsPrefix
<1>1. DInv => PartIsPrefix
  BY DEF DInv
<1> QED
  BY <1>1, DInvHolds, PTL

(* What is put in the model directory has the pinned content, a header and   *)
(* the announced length: what was checked on the .part file is still so when *)
(* its copy is renamed (finalize_part, inspect, recover, PlaceTarget), even  *)
(* beside jobs that fight over other keys.                                   *)
THEOREM PlacedStaysVerified == DLSpec => []PlacedIsVerified
<1>1. DInv => PlacedIsVerified
  BY DEF DInv
<1> QED
  BY <1>1, DInvHolds, PTL
=============================================================================
