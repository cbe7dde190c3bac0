-------------------------- MODULE EvidenceLogProofs --------------------------
(***************************************************************************)
(* Theorems about EvidenceLog for every set of files, capacity, buffer     *)
(* size, piece and bound, and any files whose writes fail.                 *)
(*                                                                         *)
(* What a flush promises is about messages that were sent before it, so    *)
(* the invariant is about the order in the channel: LInv says what stands  *)
(* behind a flush or shutdown that waits there, what the buffers hold      *)
(* while the task is about to answer it, and that what is in memory after  *)
(* a good answer was sent later.                                           *)
(***************************************************************************)
EXTENDS EvidenceLog, TLAPS

Records == 1..MaxRecords
Contents == 0..MaxRecords

EvidenceTypeOK ==
  /\ sent \in 0..MaxRecords /\ covered \in 0..sent
  /\ kind \in Seq(Logs) /\ Len(kind) = sent
  /\ channel \in Seq(1..(MaxRecords + 2))
  /\ buffer \in [Logs -> Seq(Records)]
  /\ work \in {"none", "full", "tick", "flush", "shutdown", "exit"}
  /\ todo \in SUBSET Logs /\ reply \in {"ok", "error"}
  /\ opened \in [Logs -> {"closed", "named", "unlinked"}]
  /\ flight \in [Logs -> Seq(Records)]
  /\ unheard \in [Logs -> BOOLEAN]
  /\ disk \in [Logs -> Seq(Contents)]
  /\ task \in {"running", "stopping", "dropped", "done", "gone", "failed"}
  /\ answer \in {"none", "ok", "error"}
  /\ \A i \in 1..Len(channel) : channel[i] \in 1..sent \cup {Flush, Shutdown}

(* A flush or shutdown waits for its answer, and behind it there is only     *)
(* what was accepted after it; behind a shutdown there is nothing.           *)
Waiting == \A i \in 1..Len(channel) : channel[i] \in {Flush, Shutdown} =>
  /\ answer = "none"
  /\ \A j \in (i + 1)..Len(channel) : channel[j] \in (covered + 1)..sent
  /\ channel[i] = Shutdown => i = Len(channel) /\ task = "stopping"

(* So it does while the task writes the buffers. *)
Answering == work \in {"flush", "shutdown"} =>
  /\ answer = "none"
  /\ \A i \in 1..Len(channel) : channel[i] \in (covered + 1)..sent

Ending ==
  /\ work = "none" => todo = {}
  /\ work = "shutdown" => channel = <<>> /\ task = "stopping"
  /\ work = "exit" => channel = <<>> /\ task = "dropped"

(* Up to an error, what is not to be written any more is written. *)
Emptied == work \in {"flush", "shutdown", "exit"} /\ reply = "ok" =>
  \A f \in Logs \ todo : buffer[f] = <<>>

Stopped == task \in {"done", "gone", "failed"} => channel = <<>> /\ work = "none"
Synced == task = "done" => \A f \in Logs : flight[f] = <<>>

(* After a good answer everything in memory is younger than the request. *)
Younger == answer = "ok" =>
  /\ \A i \in 1..Len(channel) : channel[i] > covered
  /\ \A f \in Logs : \A i \in 1..Len(buffer[f]) : buffer[f][i] > covered

(* The file a record is missing from has been rotated. *)
UnlinkedByRotation == \A f \in Logs : opened[f] = "unlinked" => f \in rotated

Order == Waiting /\ Answering /\ Ending /\ Emptied /\ Stopped /\ Synced /\ Younger

LInv == EvidenceTypeOK /\ Order /\ UnlinkedByRotation /\ EvidenceKept

-----------------------------------------------------------------------------
(* A longer file reads as the shorter one, and what follows it is readable,  *)
(* the first record excepted if it ended in a piece.                         *)
LEMMA ReadableGrows ==
  ASSUME NEW s \in Seq(Contents), NEW t \in Seq(Contents), NEW b \in Seq(Records), NEW n \in Nat,
         Len(s) + n <= Len(t), n <= Len(b),
         \A i \in 1..Len(s) : t[i] = s[i],
         \A i \in 1..n : t[Len(s) + i] = b[i]
  PROVE  /\ ReadableIn(s) \subseteq ReadableIn(t)
         /\ \A i \in 1..n : b[i] \in ReadableIn(t) \/ (i = 1 /\ EndsTorn(s))
<1> USE EvidenceAssumption DEF Torn
<1>m. ASSUME NEW q \in Seq(Contents), NEW i \in 1..Len(q), i = 1 \/ q[i - 1] # Torn
      PROVE  q[i] \in ReadableIn(q)
  BY <1>m, Zenon DEF ReadableIn
<1>4. ReadableIn(s) \subseteq ReadableIn(t)
  <2> SUFFICES ASSUME NEW x \in ReadableIn(s) PROVE x \in ReadableIn(t)
    OBVIOUS
  <2>1. PICK i \in 1..Len(s) : (i = 1 \/ s[i - 1] # Torn) /\ s[i] = x
    BY Zenon DEF ReadableIn
  <2>2. i \in 1..Len(t) /\ t[i] = x
    BY <2>1
  <2>3. i = 1 \/ t[i - 1] # Torn
    <3>1. CASE i # 1
      <4>1. i - 1 \in 1..Len(s)
        BY <3>1
      <4> QED
        BY <2>1, <4>1
    <3> QED
      BY <3>1
  <2> QED
    BY <1>m, <2>2, <2>3
<1>5. ASSUME NEW i \in 1..n, ~(i = 1 /\ EndsTorn(s)) PROVE b[i] \in ReadableIn(t)
  <2>1. Len(s) + i \in 1..Len(t) /\ t[Len(s) + i] = b[i]
    OBVIOUS
  <2>2. Len(s) + i = 1 \/ t[(Len(s) + i) - 1] # Torn
    <3>1. CASE i = 1
      <4>1. s = <<>> \/ (Len(s) \in 1..Len(s) /\ s[Len(s)] # Torn)
        BY <1>5, <3>1 DEF EndsTorn
      <4>2. CASE s = <<>>
        BY <3>1, <4>2
      <4>3. CASE Len(s) \in 1..Len(s) /\ s[Len(s)] # Torn
        <5>1. (Len(s) + i) - 1 = Len(s)
          BY <3>1
        <5> QED
          BY <4>3, <5>1
      <4> QED
        BY <4>1, <4>2, <4>3
    <3>2. CASE i # 1
      <4>1. i - 1 \in 1..n /\ (Len(s) + i) - 1 = Len(s) + (i - 1)
        BY <3>2
      <4>2. t[Len(s) + (i - 1)] = b[i - 1]
        BY <4>1
      <4>3. b[i - 1] \in Records
        BY <4>1
      <4> QED
        BY <4>1, <4>2, <4>3 DEF Records
    <3> QED
      BY <3>1, <3>2
  <2> QED
    BY <1>m, <2>1, <2>2
<1> QED
  BY <1>4, <1>5

(* What a file holds after a write: what it held, and every record of the    *)
(* write.                                                                    *)
LEMMA Appending ==
  ASSUME NEW s \in Seq(Contents), NEW b \in Seq(Records), NEW n \in 0..Len(b),
         NEW p \in {<<>>, <<Torn>>}
  PROVE  /\ s \o SubSeq(b, 1, n) \o p \in Seq(Contents)
         /\ ReadableIn(s) \subseteq ReadableIn(s \o SubSeq(b, 1, n) \o p)
         /\ \A i \in 1..n :
              b[i] \in ReadableIn(s \o SubSeq(b, 1, n) \o p) \/ (i = 1 /\ EndsTorn(s))
<1> USE EvidenceAssumption DEF Torn
<1> DEFINE c == SubSeq(b, 1, n)
           u == s \o c
           t == u \o p
<1>1. c \in Seq(Records) /\ Len(c) = n /\ \A i \in 1..n : c[i] = b[i]
  OBVIOUS
<1>2. c \in Seq(Contents) /\ p \in Seq(Contents)
  <2>1. Records \subseteq Contents
    BY DEF Records, Contents
  <2>2. p \in Seq(Contents)
    <3>1. 0 \in Contents
      BY DEF Contents
    <3>2. <<>> \in Seq(Contents) /\ <<0>> \in Seq(Contents)
      BY <3>1
    <3> QED
      BY <3>2
  <2>3. \A i \in 1..Len(c) : c[i] \in Contents
    BY <1>1, <2>1
  <2>4. c \in Seq(Contents)
    BY <1>1, <2>3
  <2> QED
    BY <2>2, <2>4
<1> HIDE DEF c
<1>3. /\ u \in Seq(Contents) /\ Len(u) = Len(s) + n
      /\ \A i \in 1..Len(s) : u[i] = s[i]
      /\ \A i \in 1..n : u[Len(s) + i] = b[i]
  <2>1. /\ s \o c \in Seq(Contents) /\ Len(s \o c) = Len(s) + Len(c)
        /\ \A i \in 1..Len(s) : (s \o c)[i] = s[i]
        /\ \A i \in 1..Len(c) : (s \o c)[Len(s) + i] = c[i]
    BY <1>2
  <2> QED
    BY <1>1, <2>1
<1> HIDE DEF u
<1>4. /\ t \in Seq(Contents) /\ Len(u) <= Len(t)
      /\ \A i \in 1..Len(u) : t[i] = u[i]
  BY <1>2, <1>3
<1> HIDE DEF t
<1>5. /\ n \in Nat /\ n <= Len(b) /\ Len(s) + n <= Len(t)
      /\ \A i \in 1..Len(s) : t[i] = s[i]
      /\ \A i \in 1..n : t[Len(s) + i] = b[i]
  <2>1. n \in Nat /\ n <= Len(b) /\ Len(s) \in Nat /\ Len(t) \in Nat
    BY <1>4
  <2> QED
    BY <1>3, <1>4, <2>1
<1>6. /\ ReadableIn(s) \subseteq ReadableIn(t)
      /\ \A i \in 1..n : b[i] \in ReadableIn(t) \/ (i = 1 /\ EndsTorn(s))
  BY <1>4, <1>5, ReadableGrows
<1> QED
  BY <1>4, <1>6 DEF t, u, c

(* Appending to a file takes nothing out of any. *)
LEMMA WriteToKeeps ==
  ASSUME EvidenceTypeOK, NEW f \in Logs, NEW b \in Seq(Records), NEW n \in 0..Len(b),
         NEW p \in {<<>>, <<Torn>>}, WriteTo(f, b, n, p)
  PROVE  /\ disk' \in [Logs -> Seq(Contents)]
         /\ \A g \in Logs : ReadableIn(disk[g]) \subseteq ReadableIn(disk'[g])
         /\ Lands(f) => \A i \in 1..n : b[i] \in ReadableIn(disk'[f]) \/ (i = 1 /\ EndsTorn(disk[f]))
<1>1. disk \in [Logs -> Seq(Contents)]
  BY DEF EvidenceTypeOK
<1>2. CASE Lands(f)
  <2>1. disk' = [disk EXCEPT ![f] = @ \o SubSeq(b, 1, n) \o p]
    BY <1>2 DEF WriteTo
  <2>2. /\ disk'[f] = disk[f] \o SubSeq(b, 1, n) \o p
        /\ \A g \in Logs : g # f => disk'[g] = disk[g]
    BY <1>1, <2>1
  <2>3. /\ disk'[f] \in Seq(Contents)
        /\ ReadableIn(disk[f]) \subseteq ReadableIn(disk'[f])
        /\ \A i \in 1..n : b[i] \in ReadableIn(disk'[f]) \/ (i = 1 /\ EndsTorn(disk[f]))
    BY <1>1, <2>2, Appending
  <2>4. disk' \in [Logs -> Seq(Contents)]
    BY <1>1, <2>1, <2>2, <2>3
  <2> QED
    BY <2>2, <2>3, <2>4
<1>3. CASE ~Lands(f)
  BY <1>1, <1>3 DEF WriteTo
<1> QED
  BY <1>2, <1>3

(* A message that was behind the first one. *)
LEMMA InTail ==
  ASSUME NEW S, NEW s \in Seq(S), s # <<>>
  PROVE  /\ Tail(s) \in Seq(S) /\ Len(Tail(s)) = Len(s) - 1
         /\ Head(s) = s[1] /\ 1 \in 1..Len(s)
         /\ \A i \in 1..Len(Tail(s)) : i + 1 \in 2..Len(s) /\ Tail(s)[i] = s[i + 1]
         /\ \A x \in ToSet(s) : x = Head(s) \/ x \in ToSet(Tail(s))
<1>1. /\ Tail(s) \in Seq(S) /\ Len(Tail(s)) = Len(s) - 1
      /\ Head(s) = s[1] /\ 1 \in 1..Len(s)
      /\ \A i \in 1..Len(Tail(s)) : i + 1 \in 2..Len(s) /\ Tail(s)[i] = s[i + 1]
  OBVIOUS
<1>2. ASSUME NEW x \in ToSet(s), x # Head(s) PROVE x \in ToSet(Tail(s))
  <2>1. PICK i \in 1..Len(s) : s[i] = x
    BY DEF ToSet
  <2>a. i # 1
    BY <1>1, <1>2, <2>1
  <2>b. PICK j \in 1..Len(Tail(s)) : i = j + 1
    <3>1. i - 1 \in 1..Len(Tail(s)) /\ i = (i - 1) + 1
      BY <1>1, <2>1, <2>a
    <3> QED
      BY <3>1
  <2>2. Tail(s)[j] = x
    BY <1>1, <2>1, <2>b
  <2>3. DOMAIN Tail(s) = 1..Len(Tail(s))
    BY <1>1
  <2> QED
    BY <2>b, <2>2, <2>3, Zenon DEF ToSet
<1> QED
  BY <1>1, <1>2

(* A message more. *)
LEMMA InAppend ==
  ASSUME NEW S, NEW s \in Seq(S), NEW y \in S
  PROVE  /\ Append(s, y) \in Seq(S) /\ Len(Append(s, y)) = Len(s) + 1
         /\ \A i \in 1..Len(s) : Append(s, y)[i] = s[i]
         /\ Append(s, y)[Len(s) + 1] = y
         /\ \A x : x = y \/ x \in ToSet(s) => x \in ToSet(Append(s, y))
<1>1. /\ Append(s, y) \in Seq(S) /\ Len(Append(s, y)) = Len(s) + 1
      /\ \A i \in 1..Len(s) : Append(s, y)[i] = s[i]
      /\ Append(s, y)[Len(s) + 1] = y
  OBVIOUS
<1>2. ASSUME NEW x, x = y \/ x \in ToSet(s) PROVE x \in ToSet(Append(s, y))
  <2>1. \E i \in 1..Len(Append(s, y)) : Append(s, y)[i] = x
    <3>1. CASE x = y
      BY <1>1, <3>1
    <3>2. CASE x \in ToSet(s)
      <4>1. PICK i \in 1..Len(s) : s[i] = x
        BY <3>2 DEF ToSet
      <4> QED
        BY <1>1, <4>1
    <3> QED
      BY <1>2, <3>1, <3>2
  <2> QED
    BY <1>1, <2>1 DEF ToSet
<1> QED
  BY <1>1, <1>2

-----------------------------------------------------------------------------
(* Initially nothing was accepted. *)
LEMMA InitEstablishesLInv == EVInit => LInv
BY EvidenceAssumption DEF EVInit, LInv, EvidenceTypeOK, Order, Waiting, Answering, Ending,
   Emptied, Stopped, Synced, Younger, UnlinkedByRotation, EvidenceKept, Records, Contents,
   Flush, Shutdown

(* A record that was somewhere is still there, whatever was added. *)
Somewhere(r) ==
  InMemory(r) \/ InFlight(r) \/ r \in ReadableIn(disk[kind[r]]) \/ kind[r] \in rotated \/ r \in lost

-----------------------------------------------------------------------------
(* LInv is inductive.  The callers: a message more at the end. *)
LEMMA CallerStep ==
  ASSUME LInv, WriteRecord \/ RequestFlush \/ RequestShutdown \/ DropWriter
  PROVE  LInv'
<1> USE EvidenceAssumption DEF Flush, Shutdown
<1>t. /\ EvidenceTypeOK /\ Waiting /\ Answering /\ Ending /\ Emptied /\ Stopped /\ Synced
      /\ Younger /\ UnlinkedByRotation /\ EvidenceKept
  BY DEF LInv, Order
<1>u. /\ UNCHANGED <<buffer, work, todo, reply, opened, flight, unheard, lost, disk, rotated>>
      /\ task = "running" /\ task' \in {"running", "stopping", "dropped"}
  BY <1>t DEF WriteRecord, RequestFlush, RequestShutdown, DropWriter, CanSend, rotation, logFiles, flushing
<1>n. /\ sent \in Nat /\ covered \in Nat /\ covered <= sent /\ Len(channel) \in Nat
      /\ MaxRecords \in Nat
  BY <1>t DEF EvidenceTypeOK
<1>e. work \notin {"shutdown", "exit"}
  BY <1>t, <1>u DEF Ending
<1>s. Emptied' /\ Stopped' /\ Synced' /\ UnlinkedByRotation' /\ Ending'
  BY <1>t, <1>u, <1>e DEF Emptied, Stopped, Synced, UnlinkedByRotation, Ending
<1>1. CASE WriteRecord
  <2>1. PICK g \in Logs : kind' = Append(kind, g)
    BY <1>1 DEF WriteRecord
  <2>2. /\ sent' = sent + 1 /\ sent' \in 1..MaxRecords /\ channel' = Append(channel, sent + 1)
        /\ UNCHANGED <<task, covered, answer>>
    BY <1>1, <1>t DEF WriteRecord, EvidenceTypeOK
  <2>3. /\ kind' \in Seq(Logs) /\ Len(kind') = sent'
        /\ \A r \in 1..sent : kind'[r] = kind[r]
    BY <2>1, <2>2, <1>t DEF EvidenceTypeOK
  <2>4. /\ channel' \in Seq(1..(MaxRecords + 2)) /\ Len(channel') = Len(channel) + 1
        /\ \A i \in 1..Len(channel) : channel'[i] = channel[i]
        /\ channel'[Len(channel) + 1] = sent'
    BY <2>2, <1>t DEF EvidenceTypeOK
  <2>5. EvidenceTypeOK'
    <3>1. \A i \in 1..Len(channel') : channel'[i] \in 1..sent' \cup {Flush, Shutdown}
      <4>1. \A i \in 1..Len(channel) : channel[i] \in 1..sent \cup {Flush, Shutdown}
        BY <1>t DEF EvidenceTypeOK
      <4>2. \A i \in 1..Len(channel') : i = Len(channel) + 1 \/ i \in 1..Len(channel)
        BY <2>4, <1>n
      <4>3. sent' \in 1..sent' /\ 1..sent \subseteq 1..sent'
        BY <2>2, <1>n
      <4> QED
        BY <4>1, <4>2, <4>3, <2>4
    <3>2. sent' \in 0..MaxRecords /\ covered' \in 0..sent'
      BY <2>2, <1>n
    <3> QED
      BY <2>2, <2>3, <2>4, <3>1, <3>2, <1>u, <1>t DEF EvidenceTypeOK
  <2>6. Waiting'
    <3> SUFFICES ASSUME NEW i \in 1..Len(channel'), channel'[i] \in {Flush, Shutdown}
                 PROVE  /\ answer' = "none"
                        /\ \A j \in (i + 1)..Len(channel') : channel'[j] \in (covered' + 1)..sent'
                        /\ channel'[i] = Shutdown => i = Len(channel') /\ task' = "stopping"
      BY DEF Waiting
    <3>1. i \in 1..Len(channel) /\ channel'[i] = channel[i]
      BY <2>2, <2>4, <1>n
    <3>2. answer' = "none" /\ channel'[i] # Shutdown
      BY <3>1, <2>2, <1>t, <1>u DEF Waiting
    <3>3. ASSUME NEW j \in (i + 1)..Len(channel') PROVE channel'[j] \in (covered' + 1)..sent'
      <4>1. CASE j = Len(channel) + 1
        BY <4>1, <2>2, <2>4, <1>t DEF EvidenceTypeOK
      <4>2. CASE j \in (i + 1)..Len(channel)
        <5>1. channel[j] \in (covered + 1)..sent /\ channel'[j] = channel[j]
          BY <4>2, <3>1, <2>4, <1>t DEF Waiting
        <5> QED
          BY <5>1, <2>2, <1>t DEF EvidenceTypeOK
      <4>3. j = Len(channel) + 1 \/ j \in (i + 1)..Len(channel)
        <5>1. j \in Int /\ i + 1 \leq j /\ j \leq Len(channel) + 1
          BY <2>4, <3>1
        <5> QED
          BY <5>1, <3>1, <1>n
      <4> QED
        BY <4>1, <4>2, <4>3
    <3> QED
      BY <3>2, <3>3
  <2>a. Answering'
    <3> SUFFICES ASSUME work \in {"flush", "shutdown"}
                 PROVE  /\ answer = "none"
                        /\ \A i \in 1..Len(channel') : channel'[i] \in (covered + 1)..(sent + 1)
      BY <1>u, <2>2 DEF Answering
    <3>1. answer = "none" /\ \A i \in 1..Len(channel) : channel[i] \in (covered + 1)..sent
      BY <1>t DEF Answering
    <3> QED
      BY <3>1, <2>2, <2>4, <1>n
  <2>7. Younger'
    <3> SUFFICES ASSUME answer = "ok"
                 PROVE  /\ \A i \in 1..Len(channel') : channel'[i] > covered
                        /\ \A f \in Logs : \A i \in 1..Len(buffer[f]) : buffer[f][i] > covered
      BY <2>2, <1>u DEF Younger
    <3>1. /\ \A i \in 1..Len(channel) : channel[i] > covered
          /\ \A f \in Logs : \A i \in 1..Len(buffer[f]) : buffer[f][i] > covered
      BY <1>t DEF Younger
    <3>2. ASSUME NEW i \in 1..Len(channel') PROVE channel'[i] > covered
      <4>1. i = Len(channel) + 1 \/ i \in 1..Len(channel)
        BY <2>4, <1>n
      <4>2. sent' > covered
        BY <2>2, <1>n
      <4> QED
        BY <4>1, <4>2, <3>1, <2>4
    <3> QED
      BY <3>1, <3>2
  <2>8. EvidenceKept'
    <3> SUFFICES ASSUME NEW r \in 1..sent' PROVE Somewhere(r)'
      BY DEF EvidenceKept, Somewhere
    <3>0. \A x : x = sent' \/ x \in ToSet(channel) => x \in ToSet(channel')
      <4>1. channel \in Seq(1..(MaxRecords + 2)) /\ sent + 1 \in 1..(MaxRecords + 2)
        BY <2>2, <1>t DEF EvidenceTypeOK
      <4>2. \A x : x = sent + 1 \/ x \in ToSet(channel) => x \in ToSet(Append(channel, sent + 1))
        BY <4>1, InAppend, Zenon
      <4> QED
        BY <4>2, <2>2, Zenon
    <3>1. CASE r = sent'
      BY <3>0, <3>1 DEF InMemory, Somewhere
    <3>2. CASE r \in 1..sent
      BY <3>0, <3>2, <2>2, <2>3, <1>u, <1>t DEF EvidenceKept, InMemory, InFlight, Somewhere
    <3> QED
      BY <3>1, <3>2, <2>2, <1>t DEF EvidenceTypeOK
  <2> QED
    BY <2>5, <2>6, <2>a, <2>7, <2>8, <1>s DEF LInv, Order
<1>2. ASSUME NEW message \in {Flush, Shutdown}, work # "flush",
             channel' = Append(channel, message), Flush \notin ToSet(channel),
             covered' = sent, answer' = "none", UNCHANGED <<sent, kind>>,
             message = Flush => task' = task,
             message = Shutdown => task' = "stopping"
      PROVE  LInv'
  <2>1. /\ channel' \in Seq(1..(MaxRecords + 2)) /\ Len(channel') = Len(channel) + 1
        /\ \A i \in 1..Len(channel) : channel'[i] = channel[i]
        /\ channel'[Len(channel) + 1] = message
    BY <1>2, <1>t DEF EvidenceTypeOK
  <2>2. \A i \in 1..Len(channel) : channel[i] \notin {Flush, Shutdown}
    <3>1. \A i \in 1..Len(channel) : channel[i] # Shutdown
      BY <1>u, <1>t DEF Waiting
    <3>2. \A i \in 1..Len(channel) : channel[i] # Flush
      BY <1>2, <1>t DEF ToSet, EvidenceTypeOK
    <3> QED
      BY <3>1, <3>2
  <2>3. EvidenceTypeOK'
    BY <1>2, <2>1, <1>u, <1>t DEF EvidenceTypeOK
  <2>4. Waiting'
    BY <1>2, <2>1, <2>2, <1>t DEF Waiting, EvidenceTypeOK
  <2>5. EvidenceKept'
    <3>1. \A x \in ToSet(channel) : x \in ToSet(channel')
      <4>1. channel \in Seq(1..(MaxRecords + 2)) /\ message \in 1..(MaxRecords + 2)
        BY <1>t DEF EvidenceTypeOK
      <4> QED
        BY <4>1, <1>2, InAppend
    <3> QED
      BY <3>1, <1>2, <1>u, <1>t DEF EvidenceKept, InMemory, InFlight
  <2>6. Answering' /\ Younger'
    BY <1>2, <1>u, <1>e DEF Answering, Younger
  <2> QED
    BY <2>3, <2>4, <2>5, <2>6, <1>s DEF LInv, Order
<1>3. CASE RequestFlush
  BY <1>2, <1>3 DEF RequestFlush, NoFlushWaits
<1>4. CASE RequestShutdown
  BY <1>2, <1>4 DEF RequestShutdown, NoFlushWaits
<1>5. CASE DropWriter
  <2>1. UNCHANGED <<sent, kind, channel, covered, answer>> /\ task' = "dropped"
    BY <1>5 DEF DropWriter
  <2>2. EvidenceTypeOK' /\ Waiting'
    <3>1. \A i \in 1..Len(channel) : channel[i] # Shutdown
      BY <1>u, <1>t DEF Waiting
    <3> QED
      BY <2>1, <3>1, <1>u, <1>t DEF EvidenceTypeOK, Waiting
  <2>3. Answering' /\ Younger' /\ EvidenceKept'
    BY <2>1, <1>u, <1>t DEF Answering, Younger, EvidenceKept, InMemory, InFlight
  <2> QED
    BY <2>2, <2>3, <1>s DEF LInv, Order
<1> QED
  BY <1>1, <1>3, <1>4, <1>5

(* A message less at the front keeps what is behind it in order. *)
LEMMA ReceiveStep ==
  ASSUME EvidenceTypeOK, Waiting, channel # <<>>, channel' = Tail(channel), UNCHANGED sent
  PROVE  /\ channel' \in Seq(1..(MaxRecords + 2))
         /\ \A i \in 1..Len(channel') : channel'[i] \in 1..sent \cup {Flush, Shutdown}
         /\ \A i \in 1..Len(channel') : i + 1 \in 2..Len(channel) /\ channel'[i] = channel[i + 1]
         /\ Len(channel') = Len(channel) - 1 /\ Message = channel[1]
         /\ \A x \in ToSet(channel) : x = Message \/ x \in ToSet(channel')
         /\ Message \in {Flush, Shutdown} =>
              \A i \in 1..Len(channel') : channel'[i] \in (covered + 1)..sent
         /\ Message = Shutdown => channel' = <<>> /\ task = "stopping"
         /\ \A i \in 1..Len(channel') : channel'[i] \in {Flush, Shutdown} =>
              /\ answer = "none"
              /\ \A j \in (i + 1)..Len(channel') : channel'[j] \in (covered + 1)..sent
              /\ channel'[i] = Shutdown => i = Len(channel') /\ task = "stopping"
<1>1. channel \in Seq(1..(MaxRecords + 2))
  BY DEF EvidenceTypeOK
<1>2. /\ channel' \in Seq(1..(MaxRecords + 2)) /\ Len(channel') = Len(channel) - 1
      /\ Message = channel[1] /\ 1 \in 1..Len(channel)
      /\ \A i \in 1..Len(channel') : i + 1 \in 2..Len(channel) /\ channel'[i] = channel[i + 1]
      /\ \A x \in ToSet(channel) : x = Message \/ x \in ToSet(channel')
  BY <1>1, InTail DEF Message
<1>3. \A i \in 1..Len(channel') : channel'[i] \in 1..sent \cup {Flush, Shutdown}
  BY <1>1, <1>2 DEF EvidenceTypeOK
<1>4. ASSUME Message \in {Flush, Shutdown}
      PROVE  \A i \in 1..Len(channel') : channel'[i] \in (covered + 1)..sent
  <2>1. \A j \in (1 + 1)..Len(channel) : channel[j] \in (covered + 1)..sent
    BY <1>2, <1>4 DEF Waiting
  <2> QED
    BY <2>1, <1>2
<1>5. ASSUME Message = Shutdown PROVE channel' = <<>> /\ task = "stopping"
  <2>1. 1 = Len(channel) /\ task = "stopping"
    BY <1>2, <1>5 DEF Waiting
  <2> QED
    BY <2>1, <1>1, <1>2
<1>6. ASSUME NEW i \in 1..Len(channel'), channel'[i] \in {Flush, Shutdown}
      PROVE  /\ answer = "none"
             /\ \A j \in (i + 1)..Len(channel') : channel'[j] \in (covered + 1)..sent
             /\ channel'[i] = Shutdown => i = Len(channel') /\ task = "stopping"
  <2>1. i + 1 \in 1..Len(channel) /\ channel[i + 1] = channel'[i] /\ i \in Nat
    BY <1>1, <1>2
  <2>2. /\ answer = "none"
        /\ \A j \in ((i + 1) + 1)..Len(channel) : channel[j] \in (covered + 1)..sent
        /\ channel'[i] = Shutdown => i + 1 = Len(channel) /\ task = "stopping"
    BY <2>1, <1>6 DEF Waiting
  <2>3. ASSUME NEW j \in (i + 1)..Len(channel') PROVE channel'[j] \in (covered + 1)..sent
    <3>1. j \in 1..Len(channel') /\ j + 1 \in ((i + 1) + 1)..Len(channel)
      BY <1>1, <1>2, <2>1
    <3> QED
      BY <3>1, <2>2, <1>2
  <2>4. i + 1 = Len(channel) => i = Len(channel')
    <3> SUFFICES ASSUME i + 1 = Len(channel) PROVE i = Len(channel')
      OBVIOUS
    <3>1. Len(channel') = (i + 1) - 1
      BY <1>2
    <3> QED
      BY <3>1, <2>1
  <2> QED
    BY <2>2, <2>3, <2>4
<1> QED
  BY <1>2, <1>3, <1>4, <1>5, <1>6

(* The task takes a message: a record goes into its buffer, a flush or       *)
(* shutdown starts with the buffers that are not empty.                      *)
LEMMA TaskStep ==
  ASSUME LInv, ReceiveRecord \/ ReceiveFlush \/ ReceiveShutdown
  PROVE  LInv'
<1> USE EvidenceAssumption
<1>t. /\ EvidenceTypeOK /\ Waiting /\ Ending /\ Stopped /\ Synced /\ Younger
      /\ UnlinkedByRotation /\ EvidenceKept
  BY DEF LInv, Order
<1>n. /\ sent \in Nat /\ covered \in Nat /\ covered <= sent /\ sent <= MaxRecords
      /\ MaxRecords \in Nat
  BY <1>t DEF EvidenceTypeOK
<1>c. channel # <<>> /\ channel' = Tail(channel) /\ work = "none"
  BY DEF ReceiveRecord, ReceiveFlush, ReceiveShutdown, Receives
<1>u. UNCHANGED <<sent, kind, covered, rotated, opened, flight, unheard, lost, disk, task, answer>>
  BY DEF ReceiveRecord, ReceiveFlush, ReceiveShutdown, rotation, logFiles
<1>v. /\ channel' \in Seq(1..(MaxRecords + 2))
      /\ \A i \in 1..Len(channel') : channel'[i] \in 1..sent \cup {Flush, Shutdown}
      /\ \A i \in 1..Len(channel') : i + 1 \in 2..Len(channel) /\ channel'[i] = channel[i + 1]
      /\ Len(channel') = Len(channel) - 1 /\ Message = channel[1]
      /\ \A x \in ToSet(channel) : x = Message \/ x \in ToSet(channel')
      /\ Message \in {Flush, Shutdown} =>
           \A i \in 1..Len(channel') : channel'[i] \in (covered + 1)..sent
      /\ Message = Shutdown => channel' = <<>> /\ task = "stopping"
  BY <1>t, <1>c, <1>u, ReceiveStep
<1>o. \A i \in 1..Len(channel') : channel'[i] \in {Flush, Shutdown} =>
        /\ answer = "none"
        /\ \A j \in (i + 1)..Len(channel') : channel'[j] \in (covered + 1)..sent
        /\ channel'[i] = Shutdown => i = Len(channel') /\ task = "stopping"
  BY <1>t, <1>c, <1>u, ReceiveStep
<1>p. 1 \in 1..Len(channel)
  BY <1>c, <1>t DEF EvidenceTypeOK
<1>y. /\ answer = "ok" => \A i \in 1..Len(channel') : channel'[i] > covered
      /\ answer = "ok" /\ Message \in 1..sent => Message > covered
  <2>2. \A i \in 1..Len(channel') : i + 1 \in 1..Len(channel) /\ channel'[i] = channel[i + 1]
    BY <1>v
  <2> QED
    BY <1>p, <2>2, <1>v, <1>t DEF Younger
<1>w. Waiting' /\ UnlinkedByRotation'
  BY <1>o, <1>u, <1>t DEF Waiting, UnlinkedByRotation
<1>s. task \notin {"done", "gone", "failed"} /\ Stopped' /\ Synced'
  BY <1>c, <1>u, <1>t DEF Stopped, Synced
<1>1. CASE ReceiveRecord
  <2> DEFINE f == kind[Message]
             full == Append(buffer[f], Message)
  <2>1. Message \in 1..sent
    BY <1>1 DEF ReceiveRecord
  <2>2. f \in Logs /\ Message \in Records
    BY <2>1, <1>n, <1>t DEF EvidenceTypeOK, Records
  <2>3. /\ full \in Seq(Records) /\ Len(full) = Len(buffer[f]) + 1
        /\ \A i \in 1..Len(full) : full[i] = Message \/ (i \in 1..Len(buffer[f]) /\ full[i] = buffer[f][i])
        /\ \A x : x = Message \/ x \in ToSet(buffer[f]) => x \in ToSet(full)
    <3>1. buffer[f] \in Seq(Records)
      BY <2>2, <1>t DEF EvidenceTypeOK
    <3>2. /\ Append(buffer[f], Message) \in Seq(Records)
          /\ Len(Append(buffer[f], Message)) = Len(buffer[f]) + 1
          /\ \A i \in 1..Len(buffer[f]) : Append(buffer[f], Message)[i] = buffer[f][i]
          /\ Append(buffer[f], Message)[Len(buffer[f]) + 1] = Message
          /\ \A x : x = Message \/ x \in ToSet(buffer[f]) => x \in ToSet(Append(buffer[f], Message))
      BY <3>1, <2>2, InAppend
    <3> QED
      BY <3>1, <3>2
  <2>4. /\ buffer' = [buffer EXCEPT ![f] = full]
        /\ \/ UNCHANGED <<work, todo, reply>>
           \/ work' = "full" /\ todo' = {f} /\ reply' = "ok"
    BY <1>1 DEF ReceiveRecord, flushing, StartFlush
  <2>5. /\ buffer' \in [Logs -> Seq(Records)] /\ buffer'[f] = full
        /\ \A g \in Logs : g # f => buffer'[g] = buffer[g]
    BY <2>2, <2>3, <2>4, <1>t DEF EvidenceTypeOK
  <2> HIDE DEF f, full
  <2>6. EvidenceTypeOK'
    BY <2>2, <2>4, <2>5, <1>u, <1>v, <1>t DEF EvidenceTypeOK
  <2>7. Younger'
    <3> SUFFICES ASSUME answer = "ok", NEW g \in Logs, NEW i \in 1..Len(buffer'[g])
                 PROVE  buffer'[g][i] > covered
      BY <1>u, <1>y DEF Younger
    <3>1. CASE g = f
      <4>1. i \in 1..Len(full) /\ buffer'[g][i] = full[i]
        BY <3>1, <2>5
      <4>2. full[i] = Message \/ (i \in 1..Len(buffer[f]) /\ full[i] = buffer[f][i])
        BY <4>1, <2>3
      <4> QED
        BY <4>1, <4>2, <2>1, <2>2, <1>y, <1>t DEF Younger
    <3>2. CASE g # f
      BY <3>2, <2>5, <1>t DEF Younger
    <3> QED
      BY <3>1, <3>2
  <2>8. EvidenceKept'
    <3> SUFFICES ASSUME NEW r \in 1..sent, InMemory(r) PROVE InMemory(r)'
      BY <1>u, <1>t DEF EvidenceKept, InFlight
    <3>1. CASE r = Message
      BY <3>1, <2>3, <2>5, <1>u DEF InMemory, f
    <3>2. CASE r # Message
      <4>1. kind[r] \in Logs
        BY <1>t DEF EvidenceTypeOK
      <4> QED
        BY <3>2, <4>1, <2>3, <2>5, <1>u, <1>v DEF InMemory
    <3> QED
      BY <3>1, <3>2
  <2>9. Answering' /\ Ending' /\ Emptied'
    BY <2>4, <1>c, <1>t DEF Answering, Ending, Emptied
  <2> QED
    BY <2>6, <2>7, <2>8, <2>9, <1>w, <1>s DEF LInv, Order
<1>2. CASE ReceiveFlush \/ ReceiveShutdown
  <2>1. /\ Message \in {Flush, Shutdown} /\ UNCHANGED buffer
        /\ work' = "flush" \/ (work' = "shutdown" /\ Message = Shutdown)
        /\ todo' = Pending(buffer) /\ reply' = "ok"
    BY <1>2 DEF ReceiveFlush, ReceiveShutdown, StartFlush
  <2>2. /\ todo' \in SUBSET Logs
        /\ \A g \in Logs \ todo' : buffer[g] = <<>>
    BY <2>1 DEF Pending
  <2>3. EvidenceTypeOK' /\ Emptied'
    BY <2>1, <2>2, <1>u, <1>v, <1>t DEF EvidenceTypeOK, Emptied
  <2>4. Answering' /\ Ending'
    <3>1. answer = "none"
      BY <2>1, <1>p, <1>v, <1>t DEF Waiting
    <3> QED
      BY <3>1, <2>1, <1>u, <1>v DEF Answering, Ending
  <2>5. Younger'
    BY <2>1, <1>u, <1>y, <1>t DEF Younger
  <2>6. EvidenceKept'
    <3> SUFFICES ASSUME NEW r \in 1..sent, InMemory(r) PROVE InMemory(r)'
      BY <1>u, <1>t DEF EvidenceKept, InFlight
    <3>1. r # Message
      BY <2>1, <1>n DEF Flush, Shutdown
    <3> QED
      BY <3>1, <2>1, <1>u, <1>v DEF InMemory
  <2> QED
    BY <2>3, <2>4, <2>5, <2>6, <1>w, <1>s DEF LInv, Order
<1> QED
  BY <1>1, <1>2

(* The end of the channel and the timer start with the same buffers. *)
LEMMA StartStep ==
  ASSUME LInv, ReceiveEnd \/ Tick
  PROVE  LInv'
<1>t. /\ EvidenceTypeOK /\ Waiting /\ Stopped /\ Synced /\ Younger
      /\ UnlinkedByRotation /\ EvidenceKept
  BY DEF LInv, Order
<1>u. UNCHANGED <<sent, kind, channel, buffer, covered, rotated, opened, flight, unheard, lost,
                  disk, task, answer>>
  BY DEF ReceiveEnd, Tick, rotation, logFiles
<1>1. /\ todo' = Pending(buffer) /\ reply' = "ok" /\ task \notin {"done", "gone", "failed"}
      /\ work' = "tick" \/ (work' = "exit" /\ channel = <<>> /\ task = "dropped")
  BY DEF ReceiveEnd, Tick, StartFlush
<1>2. todo' \in SUBSET Logs /\ \A g \in Logs \ todo' : buffer[g] = <<>>
  BY <1>1 DEF Pending
<1>3. EvidenceTypeOK'
  BY <1>1, <1>2, <1>u, <1>t DEF EvidenceTypeOK
<1>4. Emptied' /\ Answering' /\ Ending' /\ Stopped'
  BY <1>1, <1>2, <1>u DEF Emptied, Answering, Ending, Stopped
<1>5. Waiting' /\ Synced' /\ Younger' /\ UnlinkedByRotation' /\ EvidenceKept'
  BY <1>u, <1>t DEF Waiting, Synced, Younger, UnlinkedByRotation, EvidenceKept, InMemory, InFlight
<1> QED
  BY <1>3, <1>4, <1>5 DEF LInv, Order

(* A buffer goes from memory to flight, or stays.                            *)
LEMMA FlushStep ==
  ASSUME LInv, NEW f \in Logs, FlushBuffer(f) \/ FlushBufferFails(f)
  PROVE  LInv'
<1>t. /\ EvidenceTypeOK /\ Waiting /\ Answering /\ Ending /\ Emptied /\ Stopped /\ Synced
      /\ Younger /\ UnlinkedByRotation /\ EvidenceKept
  BY DEF LInv, Order
<1>u. /\ UNCHANGED <<sent, kind, channel, covered, rotated, lost, task, answer, work>>
      /\ f \in todo /\ flight[f] = <<>>
  BY DEF FlushBuffer, FlushBufferFails, FailToOpen, HearOfFailure, FailHalfway, rotation, logFiles
<1>k. \A r \in 1..sent : kind[r] \in Logs
  BY <1>t DEF EvidenceTypeOK
<1>w. Waiting' /\ Answering' /\ Ending' /\ Stopped'
  <2>1. work # "none"
    BY <1>u, <1>t DEF Ending
  <2> QED
    BY <2>1, <1>u, <1>t DEF Waiting, Answering, Ending, Stopped
<1>1. CASE FlushBuffer(f)
  <2>1. /\ opened' = [opened EXCEPT ![f] = IF @ = "closed" THEN "named" ELSE @]
        /\ flight' = [flight EXCEPT ![f] = buffer[f]]
        /\ buffer' = [buffer EXCEPT ![f] = <<>>]
        /\ todo' = todo \ {f} /\ UNCHANGED <<reply, unheard, disk>>
    BY <1>1 DEF FlushBuffer, Opens
  <2>2. /\ flight'[f] = buffer[f] /\ buffer'[f] = <<>>
        /\ \A g \in Logs : g # f => flight'[g] = flight[g] /\ buffer'[g] = buffer[g]
        /\ \A g \in Logs : opened'[g] = "unlinked" <=> opened[g] = "unlinked"
    BY <2>1, <1>t DEF EvidenceTypeOK
  <2>3. EvidenceTypeOK'
    BY <2>1, <1>u, <1>t DEF EvidenceTypeOK
  <2>4. Emptied'
    BY <2>1, <2>2, <1>u, <1>t DEF Emptied
  <2>5. Synced'
    <3>1. task # "done"
      BY <1>u, <1>t DEF Stopped, Ending
    <3> QED
      BY <3>1, <1>u DEF Synced
  <2>6. Younger'
    <3> SUFFICES ASSUME answer = "ok", NEW g \in Logs, NEW i \in 1..Len(buffer'[g])
                 PROVE  buffer'[g][i] > covered
      BY <1>u, <1>t DEF Younger
    <3>1. g # f
      BY <2>2
    <3> QED
      BY <3>1, <2>2, <1>t DEF Younger
  <2>7. UnlinkedByRotation'
    BY <2>2, <1>u, <1>t DEF UnlinkedByRotation
  <2>8. EvidenceKept'
    <3> SUFFICES ASSUME NEW r \in 1..sent PROVE Somewhere(r)' \/ task = "failed"
      BY <1>u DEF EvidenceKept, Somewhere
    <3>1. CASE r \in ToSet(buffer[kind[r]])
      BY <3>1, <1>k, <1>u, <2>2 DEF Somewhere, InMemory, InFlight
    <3>2. CASE r \in ToSet(flight[kind[r]])
      <4>1. kind[r] # f
        BY <3>2, <1>u DEF ToSet
      <4> QED
        BY <3>2, <4>1, <1>k, <1>u, <2>2 DEF Somewhere, InFlight
    <3> QED
      BY <3>1, <3>2, <2>1, <1>u, <1>t DEF EvidenceKept, Somewhere, InMemory, InFlight
  <2> QED
    BY <2>3, <2>4, <2>5, <2>6, <2>7, <2>8, <1>w DEF LInv, Order
<1>2. CASE FlushBufferFails(f)
  <2>1. UNCHANGED <<buffer, flight>> /\ todo' = {} /\ reply' = "error"
    BY <1>2 DEF FlushBufferFails, FailToOpen, HearOfFailure, FailHalfway, logFiles
  <2>2. /\ disk' \in [Logs -> Seq(Contents)]
        /\ \A g \in Logs : ReadableIn(disk[g]) \subseteq ReadableIn(disk'[g])
        /\ opened' \in [Logs -> {"closed", "named", "unlinked"}]
        /\ \A g \in Logs : opened'[g] = "unlinked" <=> opened[g] = "unlinked"
        /\ unheard' \in [Logs -> BOOLEAN]
    <3>1. CASE FailToOpen(f) \/ HearOfFailure(f)
      <4>1. UNCHANGED <<disk, opened>>
        BY <3>1 DEF FailToOpen, HearOfFailure, logFiles
      <4>2. unheard' \in [Logs -> BOOLEAN]
        BY <3>1, <1>t DEF FailToOpen, HearOfFailure, logFiles, EvidenceTypeOK
      <4> QED
        BY <4>1, <4>2, <1>t DEF EvidenceTypeOK
    <3>2. CASE FailHalfway(f)
      <4>1. PICK n \in 0..(Len(buffer[f]) - 1), piece \in {<<>>, <<Torn>>} :
              WriteTo(f, buffer[f], n, piece)
        BY <3>2 DEF FailHalfway
      <4>2. buffer[f] \in Seq(Records) /\ n \in 0..Len(buffer[f])
        BY <4>1, <1>t DEF EvidenceTypeOK
      <4>3. /\ disk' \in [Logs -> Seq(Contents)]
            /\ \A g \in Logs : ReadableIn(disk[g]) \subseteq ReadableIn(disk'[g])
        BY <4>1, <4>2, <1>t, WriteToKeeps
      <4>4. /\ opened' = [opened EXCEPT ![f] = IF @ = "closed" THEN "named" ELSE @]
            /\ UNCHANGED unheard
        BY <3>2 DEF FailHalfway, Opens
      <4> QED
        BY <4>3, <4>4, <1>t DEF EvidenceTypeOK
    <3> QED
      BY <1>2, <3>1, <3>2 DEF FlushBufferFails
  <2>3. EvidenceTypeOK'
    BY <2>1, <2>2, <1>u, <1>t DEF EvidenceTypeOK
  <2>4. Emptied' /\ Synced' /\ Younger' /\ UnlinkedByRotation'
    BY <2>1, <2>2, <1>u, <1>t DEF Emptied, Synced, Younger, UnlinkedByRotation
  <2>5. EvidenceKept'
    BY <2>1, <2>2, <1>k, <1>u, <1>t DEF EvidenceKept, InMemory, InFlight
  <2> QED
    BY <2>3, <2>4, <2>5, <1>w DEF LInv, Order
<1> QED
  BY <1>1, <1>2

(* An answer is good only when every buffer is written; behind it there is   *)
(* what was accepted later.                                                  *)
LEMMA EndStep ==
  ASSUME LInv, AnswerFlush \/ AnswerShutdown \/ EndExit \/ EndQuietly
  PROVE  LInv'
<1>t. /\ EvidenceTypeOK /\ Waiting /\ Answering /\ Ending /\ Emptied /\ Stopped /\ Synced
      /\ Younger /\ UnlinkedByRotation /\ EvidenceKept
  BY DEF LInv, Order
<1>n. sent \in Nat /\ covered \in Nat /\ sent <= MaxRecords /\ MaxRecords \in Nat
  BY <1>t, EvidenceAssumption DEF EvidenceTypeOK
<1>u. /\ UNCHANGED <<sent, kind, channel, covered, rotated, opened, flight, unheard, lost, disk,
                     todo, reply>>
      /\ work # "none" /\ work' = "none" /\ todo = {}
  BY DEF AnswerFlush, AnswerShutdown, EndExit, EndQuietly, EndWork, rotation, logFiles
<1>s. UnlinkedByRotation' /\ Answering' /\ Ending' /\ Emptied'
  BY <1>u, <1>t DEF UnlinkedByRotation, Answering, Ending, Emptied
<1>r. task \notin {"done", "gone", "failed"}
  BY <1>u, <1>t DEF Stopped
<1>e. work \in {"flush", "shutdown", "exit"} /\ reply = "ok" => \A f \in Logs : buffer[f] = <<>>
  BY <1>u, <1>t DEF Emptied
<1>1. CASE EndQuietly
  <2>1. UNCHANGED <<buffer, task, answer>>
    BY <1>1 DEF EndQuietly
  <2> QED
    BY <2>1, <1>u, <1>s, <1>t DEF LInv, Order, EvidenceTypeOK, Waiting, Stopped, Synced, Younger,
       EvidenceKept, InMemory, InFlight
<1>2. CASE AnswerFlush
  <2>1. work = "flush" /\ answer' = reply /\ UNCHANGED <<buffer, task>>
    BY <1>2 DEF AnswerFlush, EndWork
  <2>2. \A i \in 1..Len(channel) : channel[i] \in (covered + 1)..sent
    BY <2>1, <1>t DEF Answering
  <2>3. Waiting'
    BY <2>2, <1>n, <1>u, <1>t DEF Waiting, EvidenceTypeOK, Flush, Shutdown
  <2>4. Younger'
    BY <2>1, <2>2, <1>e, <1>n, <1>u DEF Younger
  <2> QED
    BY <2>1, <2>3, <2>4, <1>u, <1>s, <1>t DEF LInv, Order, EvidenceTypeOK, Stopped, Synced,
       EvidenceKept, InMemory, InFlight
<1>3. CASE AnswerShutdown \/ EndExit
  <2>1. /\ work \in {"shutdown", "exit"} /\ buffer' = [f \in Logs |-> <<>>]
        /\ task' \in {"done", "gone", "failed"}
        /\ reply # "ok" => task' = "failed"
        /\ task' = "done" => \A f \in Logs : flight[f] = <<>>
        /\ answer' = answer \/ (answer' = reply /\ work = "shutdown")
    BY <1>3, <1>u, <1>t DEF AnswerShutdown, EndExit, EndWork, EndTask
  <2>2. channel = <<>>
    BY <2>1, <1>t DEF Ending
  <2>3. EvidenceTypeOK'
    BY <2>1, <1>u, <1>t DEF EvidenceTypeOK
  <2>4. Waiting' /\ Stopped' /\ Synced' /\ Younger'
    BY <2>1, <2>2, <1>u DEF Waiting, Stopped, Synced, Younger
  <2>5. EvidenceKept'
    <3> SUFFICES ASSUME reply = "ok", NEW r \in 1..sent PROVE Somewhere(r)'
      BY <2>1, <1>u, <1>t DEF EvidenceKept, Somewhere, EvidenceTypeOK
    <3>1. kind[r] \in Logs
      BY <1>t DEF EvidenceTypeOK
    <3>2. buffer'[kind[r]] = buffer[kind[r]]
      BY <3>1, <2>1, <1>e
    <3> QED
      BY <3>2, <1>u, <1>r, <1>t DEF EvidenceKept, Somewhere, InMemory, InFlight
  <2> QED
    BY <2>3, <2>4, <2>5, <1>s DEF LInv, Order
<1> QED
  BY <1>1, <1>2, <1>3

(* What the pool takes off its hands is readable, or its file was rotated,   *)
(* or it is among what failed writes have cost.                              *)
LEMMA PoolStep ==
  ASSUME LInv, NEW f \in Logs, PoolWrites(f) \/ PoolFails(f)
  PROVE  LInv'
<1>t. /\ EvidenceTypeOK /\ Order /\ UnlinkedByRotation /\ EvidenceKept
  BY DEF LInv
<1>u. /\ UNCHANGED <<sent, kind, channel, buffer, work, todo, reply, opened, covered, rotated, task, answer>>
      /\ flight[f] # <<>> /\ flight' = [flight EXCEPT ![f] = <<>>]
  BY DEF PoolWrites, PoolFails, rotation, flushing
<1>k. \A r \in 1..sent : kind[r] \in Logs
  BY <1>t DEF EvidenceTypeOK
<1>b. flight[f] \in Seq(Records) /\ Len(flight[f]) \in Nat
  BY <1>t DEF EvidenceTypeOK
<1>1. PICK n \in 0..Len(flight[f]), piece \in {<<>>, <<Torn>>} :
        /\ WriteTo(f, flight[f], n, piece)
        /\ lost' = lost \cup Costs(f, n)
  <2>1. CASE PoolWrites(f)
    BY <2>1, <1>b DEF PoolWrites
  <2>2. CASE PoolFails(f)
    BY <2>2, <1>b DEF PoolFails
  <2> QED
    BY <2>1, <2>2
<1>2. /\ disk' \in [Logs -> Seq(Contents)]
      /\ \A g \in Logs : ReadableIn(disk[g]) \subseteq ReadableIn(disk'[g])
      /\ Lands(f) => \A i \in 1..n : flight[f][i] \in ReadableIn(disk'[f]) \/ (i = 1 /\ EndsTorn(disk[f]))
  BY <1>1, <1>b, <1>t, WriteToKeeps
<1>3. unheard' \in [Logs -> BOOLEAN]
  BY <1>t DEF PoolWrites, PoolFails, EvidenceTypeOK
<1>4. /\ flight' \in [Logs -> Seq(Records)] /\ flight'[f] = <<>>
      /\ \A g \in Logs : g # f => flight'[g] = flight[g]
  BY <1>u, <1>t DEF EvidenceTypeOK
<1>5. EvidenceTypeOK'
  BY <1>2, <1>3, <1>4, <1>u, <1>t DEF EvidenceTypeOK
<1>6. Order'
  BY <1>4, <1>u, <1>t DEF Order, Waiting, Answering, Ending, Emptied, Stopped, Synced, Younger
<1>7. \A x \in ToSet(flight[f]) : ~Lands(f) \/ x \in ReadableIn(disk'[f]) \/ x \in lost'
  <2> SUFFICES ASSUME NEW x \in ToSet(flight[f]), Lands(f)
               PROVE  x \in ReadableIn(disk'[f]) \/ x \in Costs(f, n)
    BY <1>1
  <2>1. PICK i \in 1..Len(flight[f]) : flight[f][i] = x
    BY <1>b DEF ToSet
  <2>2. CASE i \in (n + 1)..Len(flight[f])
    BY <2>1, <2>2 DEF Costs
  <2>3. CASE i \in 1..n
    <3>1. flight[f][i] \in ReadableIn(disk'[f]) \/ (i = 1 /\ EndsTorn(disk[f]))
      BY <2>3, <1>2
    <3>2. flight[f][1] = Head(flight[f])
      BY <1>b, <1>u
    <3> QED
      BY <2>1, <3>1, <3>2 DEF Costs
  <2>4. i \in 1..n \/ i \in (n + 1)..Len(flight[f])
    BY <1>b
  <2> QED
    BY <2>2, <2>3, <2>4
<1>8. EvidenceKept'
  <2> SUFFICES ASSUME NEW r \in 1..sent PROVE Somewhere(r)' \/ task = "failed"
    BY <1>u DEF EvidenceKept, Somewhere
  <2>1. CASE r \in ToSet(flight[f]) /\ kind[r] = f
    <3>1. ~Lands(f) => f \in rotated
      BY <1>t DEF UnlinkedByRotation, Lands
    <3> QED
      BY <2>1, <3>1, <1>7, <1>u DEF Somewhere
  <2>2. CASE ~(r \in ToSet(flight[f]) /\ kind[r] = f) /\ InFlight(r)
    <3>1. kind[r] # f
      BY <2>2 DEF InFlight
    <3> QED
      BY <2>2, <3>1, <1>4, <1>k, <1>u DEF Somewhere, InFlight
  <2>3. CASE ~InFlight(r)
    <3>1. InMemory(r) => InMemory(r)'
      BY <1>u DEF InMemory
    <3>2. lost \subseteq lost'
      BY <1>1
    <3> QED
      BY <2>3, <3>1, <3>2, <1>2, <1>k, <1>u, <1>t DEF EvidenceKept, Somewhere
  <2> QED
    BY <2>1, <2>2, <2>3
<1>9. UnlinkedByRotation'
  BY <1>u, <1>t DEF UnlinkedByRotation
<1> QED
  BY <1>5, <1>6, <1>8, <1>9 DEF LInv

(* Rotation takes files away. *)
LEMMA RotationStep ==
  ASSUME LInv, GrowOld \/ ListExpired \/ RenameExpired \/ UnlinkDying
  PROVE  LInv'
<1>t. EvidenceTypeOK /\ Order /\ UnlinkedByRotation /\ EvidenceKept
  BY DEF LInv
<1>u. UNCHANGED <<sent, kind, channel, buffer, work, todo, reply, flight, unheard, lost, task,
                  covered, answer>>
  BY DEF GrowOld, ListExpired, RenameExpired, UnlinkDying, logFiles, flushing
<1>k. \A r \in 1..sent : kind[r] \in Logs
  BY <1>t DEF EvidenceTypeOK
<1>o. Order'
  BY <1>u, <1>t DEF Order, Waiting, Answering, Ending, Emptied, Stopped, Synced, Younger
<1>1. CASE RenameExpired
  <2>1. PICK f \in expired :
          /\ rotated' = rotated \cup {f}
          /\ disk' = [disk EXCEPT ![f] = <<>>]
          /\ opened' = [opened EXCEPT ![f] = IF @ = "named" THEN "unlinked" ELSE @]
    BY <1>1 DEF RenameExpired
  <2>2. EvidenceTypeOK'
    <3>1. disk' \in [Logs -> Seq(Contents)]
      <4>1. disk \in [Logs -> Seq(Contents)] /\ <<>> \in Seq(Contents)
        BY <1>t DEF EvidenceTypeOK
      <4> QED
        BY <4>1, <2>1
    <3>2. opened' \in [Logs -> {"closed", "named", "unlinked"}]
      BY <2>1, <1>t DEF EvidenceTypeOK
    <3> QED
      BY <3>1, <3>2, <1>u, <1>t DEF EvidenceTypeOK
  <2>3. EvidenceKept'
    <3> SUFFICES ASSUME NEW r \in 1..sent PROVE Somewhere(r)' \/ task = "failed"
      BY <1>u DEF EvidenceKept, Somewhere
    <3>1. kind[r] # f => disk'[kind[r]] = disk[kind[r]]
      BY <1>k, <2>1, <1>t DEF EvidenceTypeOK
    <3> QED
      BY <3>1, <2>1, <1>u, <1>t DEF EvidenceKept, Somewhere, InMemory, InFlight
  <2>4. UnlinkedByRotation'
    BY <2>1, <1>t DEF UnlinkedByRotation, EvidenceTypeOK
  <2> QED
    BY <2>2, <2>3, <2>4, <1>o DEF LInv
<1>2. CASE GrowOld \/ ListExpired \/ UnlinkDying
  <2>1. UNCHANGED <<disk, opened, rotated>>
    BY <1>2 DEF GrowOld, ListExpired, UnlinkDying, rotation, logFiles
  <2> QED
    BY <2>1, <1>o, <1>u, <1>t DEF LInv, EvidenceTypeOK, UnlinkedByRotation, EvidenceKept,
       InMemory, InFlight
<1> QED
  BY <1>1, <1>2

(* LInv is inductive. *)
LEMMA NextPreservesLInv == LInv /\ [EVNext]_evVars => LInv'
<1> SUFFICES ASSUME LInv, [EVNext]_evVars PROVE LInv'
  OBVIOUS
<1>1. CASE EVNext
  BY <1>1, CallerStep, TaskStep, StartStep, FlushStep, EndStep, PoolStep, RotationStep DEF EVNext
<1>2. CASE UNCHANGED evVars
  BY <1>2 DEF evVars, logFiles, flushing, rotation, LInv, Order, EvidenceTypeOK, Waiting, Answering,
     Ending, Emptied, Stopped, Synced, Younger, UnlinkedByRotation, EvidenceKept, InMemory, InFlight
<1> QED
  BY <1>1, <1>2

(* LInv holds in every reachable state. *)
LEMMA LInvHolds == EVSpec => []LInv
BY InitEstablishesLInv, NextPreservesLInv, PTL DEF EVSpec

(* A flush or shutdown that answered Ok has left none of the records in      *)
(* memory that were accepted before it, and a shutdown has waited for their  *)
(* writes (flush, shutdown, flush_all_buffers, sync_all), whatever writes    *)
(* failed before, in any order of files, pool and rotation.                  *)
THEOREM OkLeavesNothingBehind == EVSpec => []OkMeansHandedOver
<1>1. LInv => OkMeansHandedOver
  <2> SUFFICES ASSUME LInv, answer = "ok", NEW r \in 1..covered
               PROVE  ~InMemory(r) /\ (task = "done" => ~InFlight(r))
    BY DEF OkMeansHandedOver
  <2>t. EvidenceTypeOK /\ Younger /\ Synced
    BY DEF LInv, Order
  <2>1. r \in 1..sent /\ kind[r] \in Logs
    BY <2>t DEF EvidenceTypeOK
  <2>2. ASSUME r \in ToSet(channel) PROVE FALSE
    <3>1. PICK i \in 1..Len(channel) : channel[i] = r
      BY <2>2, <2>t DEF ToSet, EvidenceTypeOK
    <3> QED
      BY <3>1, <2>t DEF Younger, EvidenceTypeOK
  <2>3. ASSUME r \in ToSet(buffer[kind[r]]) PROVE FALSE
    <3>1. PICK i \in 1..Len(buffer[kind[r]]) : buffer[kind[r]][i] = r
      BY <2>1, <2>3, <2>t DEF ToSet, EvidenceTypeOK
    <3> QED
      BY <3>1, <2>1, <2>t DEF Younger, EvidenceTypeOK
  <2>4. task = "done" => ~InFlight(r)
    BY <2>1, <2>t DEF Synced, InFlight, ToSet
  <2> QED
    BY <2>2, <2>3, <2>4 DEF InMemory
<1> QED
  BY <1>1, LInvHolds, PTL

(* An accepted record is in the channel, a buffer, on its way or on a line   *)
(* of its own, unless rotation took its file, its write failed in the pool   *)
(* or ran onto a torn piece, or the last flush failed: no failed open, no    *)
(* full buffer and no retry loses one (flush_buffer, flush_all_buffers).     *)
THEOREM NoRecordIsLost == EVSpec => []EvidenceKept
<1>1. LInv => EvidenceKept
  BY DEF LInv
<1> QED
  BY <1>1, LInvHolds, PTL
=============================================================================
