------------------------------ MODULE JsonLines ------------------------------
(***************************************************************************)
(* The append-only JSON files: the sessions (persistence.rs, behind        *)
(* /api/sessions of http.rs) and the policy proposals (analysis/store.rs). *)
(*                                                                         *)
(* Both append a line with two writes, the JSON and the newline, either of *)
(* which may fail (a full disk).  Policy proposals are written under a     *)
(* lock of the process, sessions by any number of connection threads       *)
(* without one.  A file is the sequence of what was written: numbered JSON *)
(* texts, those that were cut off among them, and newlines.                *)
(***************************************************************************)
EXTENDS Naturals, SequencesExt

CONSTANTS
  Appenders,  \* threads that append
  Journals,   \* files: sessions and the policy store
  Locked,     \* the files written under WRITE_LOCK
  Long,       \* the lines that exceed MAX_LINE_BYTES
  MaxLines,   \* bound: lines appended in a behaviour
  MaxCrashes, \* bound: crashes of the process
  MaxFailures,\* bound: appends that fail
  FileLimit,  \* MAX_FILE_BYTES, in pieces written
  Nowhere

ASSUME JsonLinesAssumption ==
  /\ Locked \subseteq Journals /\ Nowhere \notin Journals \cup Appenders
  /\ MaxLines \in Nat /\ MaxCrashes \in Nat /\ MaxFailures \in Nat /\ FileLimit \in Nat
  /\ Long \subseteq 1..MaxLines

Newline == 0

VARIABLES
  file,      \* what was written to a journal
  lines,     \* lines whose append has begun
  cut,       \* lines of which only the beginning was written
  acked,     \* journal -> lines whose append returned Ok (history)
  writing,   \* the journal a thread appends to, or Nowhere
  half,      \* whether its JSON is written
  writeLock, \* who holds WRITE_LOCK
  crashes,
  failures   \* appends that returned an error

jlVars == <<file, lines, cut, acked, writing, half, writeLock, crashes, failures>>

JLInit ==
  /\ file = [s \in Journals |-> <<>>]
  /\ lines = 0 /\ cut = {}
  /\ acked = [s \in Journals |-> {}]
  /\ writing = [a \in Appenders |-> Nowhere]
  /\ half = [a \in Appenders |-> 0]
  /\ writeLock = Nowhere
  /\ crashes = 0 /\ failures = 0

(* Seeded fault: the policy store is appended to without its lock. *)
BeginUnlocked(a) ==
  /\ writing[a] = Nowhere
  /\ \E s \in Journals : writing' = [writing EXCEPT ![a] = s]
  /\ UNCHANGED <<file, lines, cut, acked, half, writeLock, crashes, failures>>

BeginAppend(a) ==
  /\ writing[a] = Nowhere
  /\ \E s \in Journals :
       /\ s \in Locked => writeLock = Nowhere
       /\ writeLock' = IF s \in Locked THEN a ELSE writeLock
       /\ writing' = [writing EXCEPT ![a] = s]
  /\ UNCHANGED <<file, lines, cut, acked, half, crashes, failures>>

AppendJson(a) ==
  LET s == writing[a] IN
  /\ s # Nowhere /\ half[a] = 0 /\ lines < MaxLines
  /\ lines' = lines + 1
  /\ half' = [half EXCEPT ![a] = lines + 1]
  /\ file' = [file EXCEPT ![s] = Append(@, lines + 1)]
  /\ UNCHANGED <<cut, acked, writing, writeLock, crashes, failures>>

(* The append ends, and with it the guard of the lock. *)
Ends(a) ==
  /\ half' = [half EXCEPT ![a] = 0]
  /\ writing' = [writing EXCEPT ![a] = Nowhere]
  /\ writeLock' = IF writing[a] \in Locked THEN Nowhere ELSE writeLock

AppendNewline(a) ==
  LET s == writing[a] IN
  /\ half[a] # 0
  /\ file' = [file EXCEPT ![s] = Append(@, Newline)]
  /\ acked' = [acked EXCEPT ![s] = @ \cup {half[a]}]
  /\ Ends(a)
  /\ UNCHANGED <<lines, cut, crashes, failures>>

(* open or one of the two write_all fails, and append with it: nothing is    *)
(* taken back.  write_all may have written the beginning of the JSON.        *)
WritesNothing == UNCHANGED <<file, lines, cut>>

WritesBeginning(a) ==
  /\ half[a] = 0 /\ lines < MaxLines
  /\ lines' = lines + 1
  /\ cut' = cut \cup {lines + 1}
  /\ file' = [file EXCEPT ![writing[a]] = Append(@, lines + 1)]

AppendFails(a) ==
  /\ writing[a] # Nowhere /\ failures < MaxFailures
  /\ WritesNothing \/ WritesBeginning(a)
  /\ failures' = failures + 1
  /\ Ends(a)
  /\ UNCHANGED <<acked, crashes>>

JLCrash ==
  /\ crashes < MaxCrashes
  /\ crashes' = crashes + 1
  /\ writing' = [a \in Appenders |-> Nowhere]
  /\ half' = [a \in Appenders |-> 0]
  /\ writeLock' = Nowhere
  /\ UNCHANGED <<file, lines, cut, acked, failures>>

JLNext ==
  \/ \E a \in Appenders :
       BeginAppend(a) \/ AppendJson(a) \/ AppendNewline(a) \/ AppendFails(a)
  \/ JLCrash

JLSpec == JLInit /\ [][JLNext]_jlVars

-----------------------------------------------------------------------------
Alone(f, i) ==
  /\ f[i] # Newline
  /\ i = 1 \/ f[i - 1] = Newline
  /\ i = Len(f) \/ f[i + 1] = Newline

(* The acknowledged lines that share a line of the file with another text.   *)
Spoiled(s) ==
  {n \in acked[s] : \E i \in 1..Len(file[s]) : file[s][i] = n /\ ~Alone(file[s], i)}

(* The policy store has no reader in the code; what its writer owes one is   *)
(* that a line it answered Ok for stands on a line of its own.  It takes     *)
(* nothing back: a crash between its two writes, or an error of either, may  *)
(* cost one later line, the one that lands behind what was left.  Under its  *)
(* lock that is all that is ever lost.                                       *)
LockedLosesOnePerFault ==
  \A s \in Locked :
    /\ \A n \in acked[s] : \E i \in 1..Len(file[s]) : file[s][i] = n
    /\ Cardinality(Spoiled(s)) <= crashes + failures

(* Scanner::load of the sessions: a file above the limit is refused; a line  *)
(* parses if it is one whole JSON text, and is skipped if it is not or is    *)
(* too long.                                                                 *)
Load(s) ==
  IF Len(file[s]) > FileLimit THEN {}
  ELSE {file[s][i] : i \in {j \in 1..Len(file[s]) :
                              Alone(file[s], j) /\ file[s][j] \notin Long \cup cut}}

(* persistence.rs 13-14 and 147-150: a line always lands in one piece, and   *)
(* no half written line is ever seen.  Without a crash or a failed write,    *)
(* every line of usual size a session has acknowledged is loaded again.      *)
SessionKeepsLines ==
  \A s \in Journals \ Locked :
    crashes = 0 /\ failures = 0 /\ Len(file[s]) <= FileLimit
      => acked[s] \ Load(s) \subseteq Long
=============================================================================
