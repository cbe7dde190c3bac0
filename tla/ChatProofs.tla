------------------------------ MODULE ChatProofs ------------------------------
(***************************************************************************)
(* Proofs about the parts around a chat: the MCP client (McpSession), the  *)
(* chat with tools (ToolChat) and the journals of sessions and policy      *)
(* proposals (JsonLines).  Each has its inductive invariant and the        *)
(* theorem that follows from it.                                           *)
(***************************************************************************)
EXTENDS McpSession, ToolChat, JsonLines, FiniteSetTheorems, TLAPS

-----------------------------------------------------------------------------
(***************************************************************************)
(* The MCP client.                                                         *)
(***************************************************************************)

McpSteps == {"idle", "initialize", "tools/list", "tools/call", "returned"}

McpRequest ==
  [id : Nat, method : {"initialize", "tools/list", "tools/call"}, of : JobsOfCallers]

McpLine ==
  [id : Nat, how : {"ok", "error", "malformed"}, to : McpRequest]
    \cup [id : Nat, how : {"request"}]

(* The i-th request of this session: its id says which it is, the second one *)
(* is what the caller came for.                                              *)
RequestOk(q, i) ==
  /\ q.id = i
  /\ i = 2 => q.method = MethodOf(q.of)
  /\ q.of.does = "call" => q.of.name \in Allowed

(* A line that reports a result answers a request that was sent, under its   *)
(* id.                                                                       *)
LineOk(line) ==
  line.how = "ok" =>
    \E i \in 1..Len(asked) : line.to = asked[i] /\ line.id = i

(* How far the conversation is: one request in initialize, a second one of   *)
(* the method the caller came for after it.                                  *)
McpTalk ==
  /\ step \in McpSteps
  /\ session \in Nat
  /\ asks \in JobsOfCallers
  /\ asked \in Seq(McpRequest)
  /\ nextId = Len(asked) + 1
  /\ \A i \in 1..Len(asked) : RequestOk(asked[i], i)
  /\ Waiting => \A i \in 1..Len(asked) : asked[i].of = asks
  /\ step = "initialize" => Len(asked) = 1
  /\ step \in {"tools/list", "tools/call"} => Len(asked) = 2

(* Only the session that is open has a process. *)
McpProcess ==
  /\ alive \subseteq {session}
  /\ step \in {"idle", "returned"} => alive = {}

McpLines ==
  /\ pipe \in Seq(McpLine) /\ lineQueue \in Seq(McpLine)
  /\ \A i \in 1..Len(pipe) : LineOk(pipe[i])
  /\ \A i \in 1..Len(lineQueue) : LineOk(lineQueue[i])

OutcomeOk ==
  outcome.is = "ok" =>
    /\ outcome.line.how = "ok"
    /\ outcome.line.to.method = MethodOf(asks) /\ outcome.line.to.of = asks
    /\ outcome.tools \subseteq Allowed

(* What every step of the MCP client keeps. *)
MInv == McpTalk /\ McpProcess /\ McpLines /\ OutcomeOk

-----------------------------------------------------------------------------
(* Sequences: what Append and Tail do to the elements of a sequence. *)
LEMMA AppendElements ==
  ASSUME NEW S, NEW s \in Seq(S), NEW x \in S
  PROVE  /\ Append(s, x) \in Seq(S) /\ Len(Append(s, x)) = Len(s) + 1
         /\ \A i \in 1..Len(s) : Append(s, x)[i] = s[i]
         /\ Append(s, x)[Len(s) + 1] = x
  OBVIOUS

(* What is left when the reader takes a line out of a queue. *)
LEMMA TailElements ==
  ASSUME NEW S, NEW s \in Seq(S), s # <<>>
  PROVE  /\ Tail(s) \in Seq(S) /\ Len(Tail(s)) = Len(s) - 1 /\ Len(s) >= 1
         /\ Head(s) = s[1] /\ Head(s) \in S
         /\ \A i \in 1..Len(Tail(s)) : Tail(s)[i] = s[i + 1]
  OBVIOUS

(* The state before the first call (MCPInit). *)
LEMMA InitEstablishesMInv == MCPInit => MInv
<1> SUFFICES ASSUME MCPInit PROVE MInv
  OBVIOUS
<1>1. asks \in JobsOfCallers /\ step \in McpSteps
  BY DEF MCPInit, JobsOfCallers, McpSteps
<1>2. <<>> \in Seq(McpRequest) /\ <<>> \in Seq(McpLine) /\ Len(<<>>) = 0
  OBVIOUS
<1>3. McpTalk
  BY <1>1, <1>2 DEF MCPInit, McpTalk, Waiting
<1>4. McpLines
  BY <1>2 DEF MCPInit, McpLines
<1>5. McpProcess /\ OutcomeOk
  BY DEF MCPInit, McpProcess, OutcomeOk, NoResult
<1> QED BY <1>3, <1>4, <1>5 DEF MInv

(* Opening a session, or not: a name that is not released stops at the       *)
(* client (Serves, OpenSession, RefuseSession).                              *)
LEMMA ServesStep ==
  ASSUME MInv, NEW j \in JobsOfCallers, Serves(j)
  PROVE  MInv'
<1> DEFINE q == [id |-> 1, method |-> "initialize", of |-> j]
<1>1. CASE OpenSession(j) /\ (j.does = "call" => j.name \in Allowed)
  <2>1. q \in McpRequest
    BY DEF McpRequest
  <2>2. /\ asked' = <<q>> /\ asked' \in Seq(McpRequest) /\ Len(asked') = 1
        /\ asked'[1] = q
    BY <1>1, <2>1 DEF OpenSession
  <2>3. RequestOk(q, 1)'
    BY <1>1 DEF RequestOk
  <2>4. McpTalk'
    BY <1>1, <2>2, <2>3 DEF MInv, McpTalk, OpenSession, McpSteps, RequestOk, Waiting
  <2>5. McpProcess'
    BY <1>1 DEF MInv, McpProcess, McpTalk, OpenSession
  <2>6. McpLines'
    BY <1>1 DEF McpLines, OpenSession
  <2>7. OutcomeOk'
    BY <1>1 DEF OpenSession, OutcomeOk, NoResult
  <2> QED BY <2>4, <2>5, <2>6, <2>7 DEF MInv
<1>2. CASE RefuseSession(j)
  <2>1. McpTalk'
    BY <1>2 DEF MInv, McpTalk, RefuseSession, mcpLink, McpSteps, Waiting, RequestOk
  <2>2. McpProcess'
    BY <1>2 DEF MInv, McpProcess, McpTalk, RefuseSession, mcpLink
  <2>3. McpLines'
    BY <1>2 DEF MInv, McpLines, LineOk, RefuseSession, mcpLink
  <2>4. OutcomeOk'
    BY <1>2 DEF RefuseSession, OutcomeOk
  <2> QED BY <2>1, <2>2, <2>3, <2>4 DEF MInv
<1> QED BY <1>1, <1>2 DEF Serves, JobsOfCallers

(* The session is dropped with a result that is the caller's own, or an      *)
(* error (CloseSession).                                                     *)
LEMMA CloseStep ==
  ASSUME MInv, NEW r, CloseSession(r), OutcomeOk'
  PROVE  MInv'
<1>1. McpTalk'
  BY DEF MInv, McpTalk, CloseSession, McpSteps, Waiting, RequestOk
<1>2. McpProcess'
  BY DEF MInv, McpProcess, CloseSession
<1>3. McpLines'
  BY DEF CloseSession, McpLines
<1> QED BY <1>1, <1>2, <1>3 DEF MInv

(* What the server writes: an answer bears the id of a request that was sent *)
(* (ServerAnswers, ServerTalks).                                             *)
LEMMA WriteStep ==
  ASSUME MInv, NEW line \in McpLine, LineOk(line), Write(line)
  PROVE  MInv'
<1>1. McpTalk' /\ McpProcess' /\ OutcomeOk'
  BY DEF MInv, McpTalk, McpProcess, OutcomeOk, Write, Waiting, RequestOk
<1>2. McpLines'
  <2>1. /\ pipe' \in Seq(McpLine) /\ Len(pipe') = Len(pipe) + 1
        /\ \A i \in 1..Len(pipe) : pipe'[i] = pipe[i]
        /\ pipe'[Len(pipe) + 1] = line
    BY AppendElements DEF MInv, McpLines, Write
  <2>2. ASSUME NEW i \in 1..Len(pipe') PROVE LineOk(pipe[i])'
    <3>1. i \in 1..Len(pipe) \/ i = Len(pipe) + 1
      BY <2>1 DEF MInv, McpLines
    <3>2. LineOk(pipe'[i])
      BY <2>1, <3>1 DEF MInv, McpLines
    <3> QED BY <3>2 DEF LineOk, Write
  <2>3. lineQueue' \in Seq(McpLine) /\ \A i \in 1..Len(lineQueue') : LineOk(lineQueue[i])'
    BY DEF MInv, McpLines, LineOk, Write
  <2> QED BY <2>1, <2>2, <2>3 DEF McpLines
<1> QED BY <1>1, <1>2 DEF MInv

(* The reader thread moves a line into the channel (ReaderThread). *)
LEMMA ReaderStep ==
  ASSUME MInv, ReaderThread
  PROVE  MInv'
<1>1. McpTalk' /\ McpProcess' /\ OutcomeOk'
  BY DEF MInv, McpTalk, McpProcess, OutcomeOk, ReaderThread, Waiting, RequestOk
<1>2. McpLines'
  <2> DEFINE line == Head(pipe)
  <2>1. /\ pipe' \in Seq(McpLine) /\ Len(pipe') = Len(pipe) - 1
        /\ \A i \in 1..Len(pipe') : pipe'[i] = pipe[i + 1]
        /\ line = pipe[1] /\ line \in McpLine /\ Len(pipe) >= 1
    BY TailElements DEF MInv, McpLines, ReaderThread
  <2>2. /\ lineQueue' \in Seq(McpLine) /\ Len(lineQueue') = Len(lineQueue) + 1
        /\ \A i \in 1..Len(lineQueue) : lineQueue'[i] = lineQueue[i]
        /\ lineQueue'[Len(lineQueue) + 1] = line
    BY <2>1, AppendElements DEF MInv, McpLines, ReaderThread
  <2>3. ASSUME NEW i \in 1..Len(pipe') PROVE LineOk(pipe[i])'
    <3>1. i + 1 \in 1..Len(pipe)
      BY <2>1 DEF MInv, McpLines
    <3>2. LineOk(pipe'[i])
      BY <2>1, <3>1 DEF MInv, McpLines
    <3> QED BY <3>2 DEF LineOk, ReaderThread
  <2>4. ASSUME NEW i \in 1..Len(lineQueue') PROVE LineOk(lineQueue[i])'
    <3>1. i \in 1..Len(lineQueue) \/ i = Len(lineQueue) + 1
      BY <2>2 DEF MInv, McpLines
    <3>2. 1 \in 1..Len(pipe)
      BY <2>1 DEF MInv, McpLines
    <3>3. LineOk(lineQueue'[i])
      BY <2>1, <2>2, <3>1, <3>2 DEF MInv, McpLines
    <3> QED BY <3>3 DEF LineOk, ReaderThread
  <2> QED BY <2>1, <2>2, <2>3, <2>4 DEF McpLines
<1> QED BY <1>1, <1>2 DEF MInv

(* What is left in the channel once a line is taken from it. *)
LEMMA QueueTail ==
  ASSUME MInv, lineQueue # <<>>
  PROVE  /\ Tail(lineQueue) \in Seq(McpLine)
         /\ Head(lineQueue) \in McpLine /\ LineOk(Head(lineQueue))
         /\ \A i \in 1..Len(Tail(lineQueue)) : LineOk(Tail(lineQueue)[i])
<1>1. /\ Tail(lineQueue) \in Seq(McpLine)
      /\ Len(Tail(lineQueue)) = Len(lineQueue) - 1 /\ Len(lineQueue) >= 1
      /\ Head(lineQueue) = lineQueue[1] /\ Head(lineQueue) \in McpLine
      /\ \A i \in 1..Len(Tail(lineQueue)) : Tail(lineQueue)[i] = lineQueue[i + 1]
  BY TailElements DEF MInv, McpLines
<1>2. 1 \in 1..Len(lineQueue) /\ Len(lineQueue) \in Nat
  BY <1>1 DEF MInv, McpLines
<1>3. ASSUME NEW i \in 1..Len(Tail(lineQueue)) PROVE LineOk(Tail(lineQueue)[i])
  <2>1. i + 1 \in 1..Len(lineQueue)
    BY <1>1, <1>2
  <2> QED BY <1>1, <2>1 DEF MInv, McpLines
<1> QED BY <1>1, <1>2, <1>3 DEF MInv, McpLines

(* A line that is not the answer is read over (SkipLine). *)
LEMMA SkipStep ==
  ASSUME MInv, SkipLine
  PROVE  MInv'
<1>1. McpTalk' /\ McpProcess' /\ OutcomeOk'
  BY DEF MInv, McpTalk, McpProcess, OutcomeOk, SkipLine, Waiting, RequestOk
<1>2. McpLines'
  BY QueueTail DEF MInv, McpLines, LineOk, SkipLine
<1> QED BY <1>1, <1>2 DEF MInv

(* initialize is answered: the request of the caller goes out under the next *)
(* id, or the session ends (Initialized).                                    *)
LEMMA InitializedStep ==
  ASSUME MInv, Initialized
  PROVE  MInv'
<1>1. CASE CloseSession([is |-> "error"])
  <2>1. OutcomeOk'
    BY <1>1 DEF CloseSession, OutcomeOk
  <2> QED BY <1>1, <2>1, CloseStep
<1>2. CASE ~CloseSession([is |-> "error"])
  <2> DEFINE q == [id |-> nextId, method |-> MethodOf(asks), of |-> asks]
  <2>1. /\ step = "initialize" /\ lineQueue # <<>>
        /\ lineQueue' = Tail(lineQueue) /\ step' = MethodOf(asks) /\ asks' = asks
        /\ asked' = Append(asked, q) /\ nextId' = nextId + 1
        /\ UNCHANGED <<session, outcome, alive, pipe, written>>
    BY <1>2 DEF Initialized, Send
  <2>2. /\ Len(asked) = 1 /\ nextId = 2 /\ asked \in Seq(McpRequest)
        /\ asks \in JobsOfCallers /\ asked[1].of = asks
        /\ RequestOk(asked[1], 1)
    <3>1. /\ nextId = Len(asked) + 1 /\ asked \in Seq(McpRequest)
          /\ asks \in JobsOfCallers
      BY DEF MInv, McpTalk
    <3>2. Len(asked) = 1
      BY <2>1 DEF MInv, McpTalk
    <3>3. 1 \in 1..Len(asked) /\ nextId = 2
      BY <3>1, <3>2
    <3> QED BY <2>1, <3>1, <3>2, <3>3 DEF MInv, McpTalk, Waiting
  <2>3. MethodOf(asks) \in {"tools/list", "tools/call"}
    BY Zenon DEF MethodOf
  <2>4. q \in McpRequest
    BY <2>2, <2>3 DEF McpRequest
  <2>5. /\ asked' \in Seq(McpRequest) /\ Len(asked') = 2
        /\ asked'[1] = asked[1] /\ asked'[2] = q
    <3>1. /\ Append(asked, q) \in Seq(McpRequest)
          /\ Len(Append(asked, q)) = Len(asked) + 1
          /\ \A i \in 1..Len(asked) : Append(asked, q)[i] = asked[i]
          /\ Append(asked, q)[Len(asked) + 1] = q
      <4> HIDE DEF q
      <4>1. asked \in Seq(McpRequest) /\ q \in McpRequest
        BY <2>2, <2>4
      <4> QED BY <4>1
    <3> QED BY <2>1, <2>2, <3>1
  <2>6. RequestOk(q, 2)
    BY <2>2 DEF RequestOk
  <2>7. \A i \in 1..Len(asked') : i = 1 \/ i = 2
    BY <2>5
  <2>8. \A i \in 1..Len(asked') : RequestOk(asked'[i], i) /\ asked'[i].of = asks
    BY <2>2, <2>5, <2>6, <2>7
  <2>9. McpTalk'
    BY <2>1, <2>2, <2>3, <2>5, <2>8 DEF MInv, McpTalk, McpSteps, Waiting, RequestOk
  <2>10. McpProcess' /\ OutcomeOk'
    BY <2>1, <2>3 DEF MInv, McpProcess, OutcomeOk
  <2>11. ASSUME NEW line, LineOk(line) PROVE LineOk(line)'
    BY <2>2, <2>5, <2>11 DEF LineOk
  <2>12. McpLines'
    BY <2>1, <2>11, QueueTail DEF MInv, McpLines
  <2> QED BY <2>9, <2>10, <2>12 DEF MInv
<1> QED BY <1>1, <1>2

(* The result: a line with the id of the second request that reports one is  *)
(* the answer to it (ResultReceived).                                        *)
LEMMA ResultStep ==
  ASSUME MInv, ResultReceived
  PROVE  MInv'
<1> DEFINE line == Head(lineQueue)
           r == IF line.how = "ok"
                THEN [is |-> "ok", line |-> line,
                      tools |-> IF asks.does = "list" THEN Offered(Tools) ELSE {}]
                ELSE [is |-> "error"]
<1>1. /\ step \in {"tools/list", "tools/call"} /\ lineQueue # <<>>
      /\ line.id = nextId - 1 /\ CloseSession(r)
  BY DEF ResultReceived, IsMatch, WantedId
<1>2. OutcomeOk'
  <2>1. CASE line.how = "ok"
    <3>1. PICK i \in 1..Len(asked) : line.to = asked[i] /\ line.id = i
      BY <1>1, <2>1, QueueTail DEF LineOk
    <3>2. Len(asked) = 2 /\ nextId = Len(asked) + 1
      BY <1>1 DEF MInv, McpTalk
    <3>3. line.to = asked[2] /\ 2 \in 1..Len(asked)
      BY <1>1, <3>1, <3>2
    <3>4. asked[2].of = asks /\ asked[2].method = MethodOf(asks)
      BY <1>1, <3>3 DEF MInv, McpTalk, Waiting, RequestOk
    <3>5. Offered(Tools) \subseteq Allowed
      BY DEF Offered
    <3>6. outcome' = r /\ asks' = asks
      BY <1>1 DEF CloseSession
    <3> QED BY <2>1, <3>3, <3>4, <3>5, <3>6 DEF OutcomeOk, MethodOf
  <2>2. CASE line.how # "ok"
    BY <1>1, <2>2 DEF CloseSession, OutcomeOk
  <2> QED BY <2>1, <2>2
<1> QED BY <1>1, <1>2, CloseStep

(* Every step of the client, the reader thread and the server keeps the      *)
(* invariant (MCPNext).                                                      *)
LEMMA NextPreservesMInv ==
  ASSUME MInv, [MCPNext]_mcpVars
  PROVE  MInv'
<1>1. CASE \E j \in JobsOfCallers : Serves(j)
  BY <1>1, ServesStep
<1>2. ASSUME NEW i \in 1..Len(asked), NEW how \in {"ok", "error", "malformed"},
             ServerAnswers(asked[i], how)
      PROVE  MInv'
  <2> DEFINE line == [id |-> asked[i].id, how |-> how, to |-> asked[i]]
  <2>1. asked[i] \in McpRequest /\ asked[i].id = i /\ i \in Nat
    BY DEF MInv, McpTalk, RequestOk
  <2>2. line \in McpLine
    BY <2>1 DEF McpLine, McpRequest
  <2>3. LineOk(line)
    BY <2>1 DEF LineOk
  <2> QED BY <1>2, <2>2, <2>3, WriteStep DEF ServerAnswers
<1>3. ASSUME NEW id \in ServerIds \cup {0}, ServerTalks(id)
      PROVE  MInv'
  <2> DEFINE line == [id |-> id, how |-> "request"]
  <2>1. line \in McpLine
    BY McpAssumption DEF McpLine
  <2>2. LineOk(line)
    BY DEF LineOk
  <2> QED BY <1>3, <2>1, <2>2, WriteStep DEF ServerTalks
<1>4. CASE ServerDies
  BY <1>4 DEF MInv, McpTalk, McpProcess, McpLines, LineOk, OutcomeOk, ServerDies,
              Waiting, RequestOk
<1>5. CASE GiveUp
  <2>1. OutcomeOk' /\ CloseSession([is |-> "error"])
    BY <1>5 DEF GiveUp, CloseSession, OutcomeOk
  <2> QED BY <2>1, CloseStep
<1>6. CASE UNCHANGED mcpVars
  BY <1>6 DEF MInv, McpTalk, McpProcess, McpLines, LineOk, OutcomeOk, mcpVars,
              mcpLink, Waiting, RequestOk
<1> QED BY <1>1, <1>2, <1>3, <1>4, <1>5, <1>6, ReaderStep, SkipStep,
           InitializedStep, ResultStep DEF MCPNext

(* What a caller gets as the result of a tool is the answer to this call, a  *)
(* name that is not released reached no server, and no process is left       *)
(* behind, for any ids and any lines of the server (request of mcp.rs).      *)
THEOREM McpResultIsOwnAnswer == MCPSpec => []ResultIsOwnAnswer
<1>1. MInv => ResultIsOwnAnswer
  BY DEF MInv, McpTalk, McpProcess, OutcomeOk, RequestOk, ResultIsOwnAnswer
<1> QED BY <1>1, InitEstablishesMInv, NextPreservesMInv, PTL DEF MCPSpec

-----------------------------------------------------------------------------
(***************************************************************************)
(* The chat with tools: its accounts.                                      *)
(***************************************************************************)

Doings ==
  {"idle", "ask", "call", "create", "write", "rename", "embed", "answered",
   "failed", "gone"}

AccountTypes ==
  /\ doing \in [Chats -> Doings]
  /\ calls \in [Chats -> Nat] /\ executed \in [Chats -> Nat]
  /\ reportedBack \in [Chats -> Nat] /\ made \in [Chats -> Nat]
  /\ round \in [Chats -> Nat]
  /\ usage \in [Chats -> Nat] /\ spent \in [Chats -> Nat] /\ shown \in [Chats -> Nat]

(* The results of this round are those not yet in worker_body; the worker is *)
(* asked, and answers, only when there are none; a write is one of the calls *)
(* still to be made.                                                         *)
Account(c) ==
  /\ usage[c] = spent[c]
  /\ made[c] = reportedBack[c] + executed[c]
  /\ round[c] <= MaxRounds
  /\ doing[c] \in {"ask", "answered"} => executed[c] = 0
  /\ doing[c] = "answered" => shown[c] = spent[c]
  /\ Writing(doing[c]) => calls[c] > 0

(* What every step of a chat keeps. *)
TInv == AccountTypes /\ \A c \in Chats : Account(c)

(* A step of chat c leaves the accounts of the others alone. *)
OthersKept(c) ==
  \A d \in Chats \ {c} :
    /\ doing'[d] = doing[d] /\ calls'[d] = calls[d] /\ executed'[d] = executed[d]
    /\ reportedBack'[d] = reportedBack[d] /\ made'[d] = made[d]
    /\ round'[d] = round[d] /\ usage'[d] = usage[d]
    /\ spent'[d] = spent[d] /\ shown'[d] = shown[d]

(* A step of one thread that keeps the others' accounts and its own in order *)
(* keeps all.                                                                *)
LEMMA OneAccount ==
  ASSUME TInv, AccountTypes', NEW c \in Chats, OthersKept(c), Account(c)'
  PROVE  TInv'
BY DEF TInv, Account, OthersKept, Writing

(* No chat has made a call or written an answer at first.                    *)
LEMMA InitEstablishesTInv == TCInit => TInv
BY ToolChatAssumption DEF TCInit, TInv, AccountTypes, Account, Doings, Writing

(* A new request starts all accounts from nothing, a stream included         *)
(* (handle_v1_chat).                                                         *)
LEMMA ChatRequestStep ==
  ASSUME TInv, NEW c \in Chats, ChatRequest(c)
  PROVE  TInv'
<1>1. AccountTypes'
  BY DEF TInv, AccountTypes, ChatRequest, End, Doings
<1>2. OthersKept(c)
  BY DEF TInv, AccountTypes, ChatRequest, End, OthersKept
<1>3. Account(c)'
  BY ToolChatAssumption DEF TInv, AccountTypes, ChatRequest, End, Account, Writing
<1> QED BY <1>1, <1>2, <1>3, OneAccount

(* An answer of the worker: its tokens are added, and without tool calls the *)
(* sum is what the client sees (accumulate_usage, apply_usage).              *)
LEMMA WorkerAnswersStep ==
  ASSUME TInv, NEW c \in Chats, WorkerAnswers(c)
  PROVE  TInv'
<1>1. PICK n \in 0..MaxCalls, tokens \in Usages :
        /\ usage' = [usage EXCEPT ![c] = @ + tokens]
        /\ spent' = [spent EXCEPT ![c] = @ + tokens]
        /\ calls' = [calls EXCEPT ![c] = n]
        /\ shown' = [shown EXCEPT ![c] = IF n = 0 THEN usage[c] + tokens ELSE @]
        /\ End(c, IF n = 0 THEN "answered" ELSE "call")
  BY DEF WorkerAnswers
<1>2. n \in Nat /\ tokens \in Nat
  BY ToolChatAssumption
<1>3. /\ doing[c] = "ask"
      /\ UNCHANGED <<executed, reportedBack, made, round>>
  BY DEF WorkerAnswers
<1>4. AccountTypes'
  BY <1>1, <1>2, <1>3 DEF TInv, AccountTypes, End, Doings
<1>5. OthersKept(c)
  BY <1>1, <1>2, <1>3 DEF TInv, AccountTypes, End, OthersKept
<1>6. Account(c)'
  BY <1>1, <1>2, <1>3 DEF TInv, AccountTypes, End, Account, Writing
<1> QED BY <1>4, <1>5, <1>6, OneAccount

(* A call is made: one more result to send back (execute_tool_calls).        *)
LEMMA MadeStep ==
  ASSUME TInv, NEW c \in Chats, Made(c), calls[c] > 0,
         \/ doing[c] = "call" /\ doing' = doing
         \/ End(c, "call")
  PROVE  TInv'
<1>1. AccountTypes'
  BY DEF TInv, AccountTypes, Made, End, Doings
<1>2. OthersKept(c)
  BY DEF TInv, AccountTypes, Made, End, OthersKept
<1>3. Account(c)'
  BY DEF TInv, AccountTypes, Made, End, Account, Writing
<1> QED BY <1>1, <1>2, <1>3, OneAccount

(* The thread moves on and no account changes: to any place but "ask" and    *)
(* "answered".                                                               *)
LEMMA MoveStep ==
  ASSUME TInv, NEW c \in Chats, NEW at \in Doings \ {"ask", "answered"},
         End(c, at), UNCHANGED tcLoop, Writing(at) => calls[c] > 0
  PROVE  TInv'
<1>1. AccountTypes'
  BY DEF TInv, AccountTypes, End, Doings, tcLoop
<1>2. OthersKept(c)
  BY DEF TInv, AccountTypes, End, OthersKept, tcLoop
<1>3. Account(c)'
  BY DEF TInv, AccountTypes, End, Account, tcLoop, Writing
<1> QED BY <1>1, <1>2, <1>3, OneAccount

(* The results of the round go into worker_body, or the limit of rounds ends *)
(* the chat (run_chat_completion_with_tools).                                *)
LEMMA NextRoundStep ==
  ASSUME TInv, NEW c \in Chats, NextRound(c)
  PROVE  TInv'
<1>1. CASE round[c] = MaxRounds
  BY <1>1, MoveStep DEF NextRound, tcLoop, Doings, Writing
<1>2. CASE round[c] # MaxRounds
  <2>1. /\ reportedBack' = [reportedBack EXCEPT ![c] = @ + executed[c]]
        /\ executed' = [executed EXCEPT ![c] = 0]
        /\ round' = [round EXCEPT ![c] = @ + 1]
        /\ doing' = [doing EXCEPT ![c] = "ask"]
        /\ UNCHANGED <<calls, made, usage, spent, shown>>
    BY <1>2 DEF NextRound, End
  <2>2. AccountTypes'
    BY <2>1 DEF TInv, AccountTypes, Doings
  <2>3. OthersKept(c)
    BY <2>1 DEF TInv, AccountTypes, OthersKept
  <2>4. Account(c)'
    <3>1. /\ reportedBack'[c] = reportedBack[c] + executed[c] /\ executed'[c] = 0
          /\ round'[c] = round[c] + 1 /\ doing'[c] = "ask"
          /\ made'[c] = made[c] /\ usage'[c] = usage[c] /\ spent'[c] = spent[c]
      BY <2>1 DEF TInv, AccountTypes
    <3>2. /\ reportedBack[c] \in Nat /\ executed[c] \in Nat /\ round[c] \in Nat
          /\ round[c] < MaxRounds /\ Account(c) /\ MaxRounds \in Nat
      BY <1>2, ToolChatAssumption DEF TInv, AccountTypes, Account
    <3> QED BY <3>1, <3>2 DEF Account, Writing
  <2> QED BY <2>2, <2>3, <2>4, OneAccount
<1> QED BY <1>1, <1>2

(* Every step of every chat keeps the accounts (TCNext). *)
LEMMA NextPreservesTInv ==
  ASSUME TInv, [TCNext]_tcVars
  PROVE  TInv'
<1>1. ASSUME NEW c \in Chats,
             \/ EmbeddingsRequest(c) \/ EmbeddingsReturn(c) \/ WorkerFails(c)
             \/ CallFails(c) \/ CallPanics(c) \/ WriteCall(c) \/ PatchCall(c)
             \/ CreateTemp(c) \/ WriteTemp(c) \/ WriteFails(c)
      PROVE  TInv'
  <2>1. \E at \in Doings \ {"ask", "answered"} :
          End(c, at) /\ UNCHANGED tcLoop /\ (Writing(at) => calls[c] > 0)
    BY <1>1 DEF TInv, Account, EmbeddingsRequest, EmbeddingsReturn, WorkerFails,
                CallFails, CallPanics, WriteCall, BeginWrite, PatchCall, CreateTemp, WriteTemp,
                WriteFails, Calling, Doings, Writing
  <2> QED BY <2>1, MoveStep
<1>2. ASSUME NEW c \in Chats, OtherCall(c)
      PROVE  TInv'
  BY <1>2, MadeStep DEF OtherCall, Calling
<1>3. ASSUME NEW c \in Chats, RenameTemp(c)
      PROVE  TInv'
  <2>1. calls[c] > 0
    BY <1>3 DEF TInv, Account, RenameTemp, Writing
  <2>2. CASE End(c, "failed") /\ UNCHANGED tcLoop
    BY <2>1, <2>2, MoveStep DEF Doings
  <2>3. CASE End(c, "call") /\ Made(c)
    BY <2>1, <2>3, MadeStep
  <2> QED BY <1>3, <2>2, <2>3 DEF RenameTemp
<1>4. CASE TCCrash
  BY <1>4 DEF TInv, AccountTypes, Account, TCCrash, tcLoop, Doings, Writing
<1>5. CASE UNCHANGED tcVars
  BY <1>5 DEF TInv, AccountTypes, Account, tcVars, tcLoop, Writing
<1> QED BY <1>1, <1>2, <1>3, <1>4, <1>5, ChatRequestStep, WorkerAnswersStep,
           NextRoundStep DEF TCNext

(* A chat that is answered accounts for all of its rounds, for any number of *)
(* chats, rounds and tools (run_chat_completion_with_tools).                 *)
THEOREM ChatAnswerAccountsForRounds == TCSpec => []AnswerAccountsForRounds
<1>1. TInv => AnswerAccountsForRounds
  BY DEF TInv, AccountTypes, Account, AnswerAccountsForRounds
<1> QED BY <1>1, InitEstablishesTInv, NextPreservesTInv, PTL DEF TCSpec

-----------------------------------------------------------------------------
(***************************************************************************)
(* The chat with tools: its writes.                                        *)
(***************************************************************************)

(* The temporary file of the write of chat c. *)
TempOf(c) == Stem[onto[c]]

FileTypes ==
  /\ DOMAIN texts = Targets /\ DOMAIN temp = Stems
  /\ DOMAIN fd = Chats /\ DOMAIN doing = Chats /\ DOMAIN onto = Chats
  /\ \A c \in Chats : Writing(doing[c]) => onto[c] \in Targets

(* Two writes of one temporary file are known to share it. *)
SharedWith(c, d) ==
  Writing(doing[c]) /\ Writing(doing[d]) /\ TempOf(c) = TempOf(d) =>
    TempOf(c) \in shared

(* The file a chat has open is its temporary file, or what has been made of  *)
(* it by the rename of another write: then they share it.                    *)
OpenFile(c) ==
  \/ fd[c] = "none"
  \/ doing[c] = "write" /\ fd[c] = TempOf(c)
  \/ /\ doing[c] = "write" /\ TempOf(c) \in shared
     /\ fd[c] = "gone" \/ \E p \in Targets : fd[c] = p /\ Stem[p] = TempOf(c)

(* Where a write stands that shares nothing: its temporary file is open while*)
(* it is written, and whole when it is renamed.                              *)
LoneWrite(c) ==
  TempOf(c) \notin shared =>
    /\ doing[c] = "write" => fd[c] = TempOf(c)
    /\ doing[c] = "rename" => temp[TempOf(c)] = onto[c]

(* What every step of a chat keeps. *)
WInv ==
  /\ FileTypes
  /\ LoneWritesAreAtomic
  /\ \A c \in Chats : OpenFile(c) /\ LoneWrite(c)
  /\ \A c \in Chats : \A d \in Chats \ {c} : SharedWith(c, d)

(* No file is being written at first: every target has its own text.         *)
LEMMA InitEstablishesWInv == TCInit => WInv
BY DEF TCInit, WInv, FileTypes, LoneWritesAreAtomic, OpenFile, LoneWrite, SharedWith,
       Writing

(* A step that ends no write and begins none. *)
LEMMA NoWriteStep ==
  ASSUME WInv, NEW c \in Chats, NEW at, End(c, at),
         ~Writing(at), ~Writing(doing[c]), UNCHANGED <<tcFiles, onto>>
  PROVE  WInv'
<1>1. \A d \in Chats : Writing(doing'[d]) => d # c /\ doing'[d] = doing[d]
  BY DEF WInv, FileTypes, End
<1>2. \A d \in Chats : doing[d] = "write" => doing'[d] = "write"
  BY DEF WInv, FileTypes, End, Writing
<1>3. \A d \in Chats : doing'[d] \in {"write", "rename"} => doing'[d] = doing[d]
  BY <1>1 DEF Writing
<1>4. FileTypes'
  BY <1>1 DEF WInv, FileTypes, End, tcFiles
<1>5. LoneWritesAreAtomic'
  BY DEF WInv, LoneWritesAreAtomic, tcFiles
<1>6. ASSUME NEW d \in Chats PROVE OpenFile(d)' /\ LoneWrite(d)'
  BY <1>2, <1>3 DEF WInv, OpenFile, LoneWrite, TempOf, tcFiles
<1>7. ASSUME NEW d \in Chats, NEW e \in Chats \ {d} PROVE SharedWith(d, e)'
  BY <1>1 DEF WInv, SharedWith, TempOf, tcFiles
<1> QED BY <1>4, <1>5, <1>6, <1>7 DEF WInv

(* A write or a patch begins: if others are at its temporary file, that is   *)
(* noted (BeginWrite).                                                       *)
LEMMA BeginWriteStep ==
  ASSUME WInv, NEW c \in Chats, NEW p \in Targets, Calling(c), BeginWrite(c, p)
  PROVE  WInv'
<1>1. /\ doing' = [doing EXCEPT ![c] = "create"] /\ onto' = [onto EXCEPT ![c] = p]
      /\ texts' = texts /\ temp' = temp /\ fd' = fd
      /\ shared \subseteq shared'
      /\ doing[c] = "call"
  BY DEF BeginWrite, End, Calling
<1>2. \A d \in Chats \ {c} : doing'[d] = doing[d] /\ onto'[d] = onto[d]
  BY <1>1 DEF WInv, FileTypes
<1>3. doing'[c] = "create" /\ onto'[c] = p /\ fd[c] = "none"
  BY <1>1 DEF WInv, FileTypes, OpenFile
<1>4. FileTypes'
  BY <1>1, <1>2, <1>3 DEF WInv, FileTypes
<1>5. LoneWritesAreAtomic'
  BY <1>1 DEF WInv, LoneWritesAreAtomic
<1>6. ASSUME NEW d \in Chats PROVE OpenFile(d)' /\ LoneWrite(d)'
  <2>1. CASE d = c
    BY <1>1, <1>3, <2>1 DEF OpenFile, LoneWrite
  <2>2. CASE d # c
    BY <1>1, <1>2, <2>2 DEF WInv, OpenFile, LoneWrite, TempOf
  <2> QED BY <2>1, <2>2
<1>7. ASSUME NEW d \in Chats \ {c} PROVE SharedWith(c, d)' /\ SharedWith(d, c)'
  <2> SUFFICES ASSUME Writing(doing[d]), Stem[onto[d]] = Stem[p]
               PROVE  Stem[p] \in shared'
    BY <1>2, <1>3 DEF SharedWith, TempOf
  <2> QED BY DEF BeginWrite
<1>8. ASSUME NEW d \in Chats, NEW e \in Chats \ {d} PROVE SharedWith(d, e)'
  <2>1. CASE d # c /\ e # c
    BY <1>1, <1>2, <2>1 DEF WInv, SharedWith, TempOf
  <2> QED BY <1>7, <2>1
<1> QED BY <1>4, <1>5, <1>6, <1>8 DEF WInv

(* A step of the write of chat c goes on with it or ends it, and keeps the   *)
(* rest in order.                                                            *)
LEMMA WriteGoesOn ==
  ASSUME WInv, NEW c \in Chats, NEW at, Writing(doing[c]), End(c, at),
         at \in {"write", "rename", "call", "failed"},
         onto' = onto \/ (~Writing(at) /\ onto' = [onto EXCEPT ![c] = NoText]),
         shared' = shared,
         DOMAIN texts' = Targets, DOMAIN temp' = Stems, DOMAIN fd' = Chats,
         LoneWritesAreAtomic', OpenFile(c)', LoneWrite(c)',
         \A d \in Chats \ {c} : OpenFile(d)' /\ LoneWrite(d)'
  PROVE  WInv'
<1>1. /\ \A d \in Chats \ {c} : doing'[d] = doing[d] /\ onto'[d] = onto[d]
      /\ doing'[c] = at /\ DOMAIN doing' = Chats /\ DOMAIN onto' = Chats
      /\ Writing(at) => onto'[c] = onto[c]
  BY DEF WInv, FileTypes, End
<1>2. FileTypes'
  BY <1>1 DEF WInv, FileTypes
<1>3. \A d \in Chats : Writing(doing'[d]) => Writing(doing[d]) /\ onto'[d] = onto[d]
  BY <1>1
<1>4. ASSUME NEW d \in Chats, NEW e \in Chats \ {d} PROVE SharedWith(d, e)'
  BY <1>3 DEF WInv, SharedWith, TempOf
<1> QED BY <1>2, <1>4 DEF WInv

(* A temporary file nobody shares is no other chat's. *)
LEMMA LoneTempIsOwn ==
  ASSUME WInv, NEW c \in Chats, NEW d \in Chats \ {c},
         Writing(doing[c]), Writing(doing[d]), TempOf(d) \notin shared
  PROVE  TempOf(c) # TempOf(d)
BY DEF WInv, SharedWith

(* The temporary file is created, or truncated when a write before left it   *)
(* (CreateTemp).                                                             *)
LEMMA CreateTempStep ==
  ASSUME WInv, NEW c \in Chats, CreateTemp(c)
  PROVE  WInv'
<1> DEFINE s == TempOf(c)
<1>1. /\ onto[c] \in Targets /\ s \in Stems /\ Writing(doing[c])
      /\ temp' = [temp EXCEPT ![s] = Empty] /\ fd' = [fd EXCEPT ![c] = s]
      /\ doing' = [doing EXCEPT ![c] = "write"] /\ End(c, "write")
      /\ texts' = texts /\ shared' = shared /\ onto' = onto
  BY DEF WInv, FileTypes, CreateTemp, End, Writing, Stems, TempOf
<1>2. \A d \in Chats \ {c} : doing'[d] = doing[d] /\ fd'[d] = fd[d]
  BY <1>1 DEF WInv, FileTypes
<1>3. doing'[c] = "write" /\ fd'[c] = s /\ s' = s
  BY <1>1 DEF WInv, FileTypes, TempOf
<1>4. LoneWritesAreAtomic'
  BY <1>1 DEF WInv, LoneWritesAreAtomic
<1>5. OpenFile(c)' /\ LoneWrite(c)'
  BY <1>3 DEF OpenFile, LoneWrite
<1>6. ASSUME NEW d \in Chats \ {c} PROVE OpenFile(d)' /\ LoneWrite(d)'
  <2>1. OpenFile(d)'
    BY <1>1, <1>2 DEF WInv, OpenFile, TempOf
  <2>2. ASSUME TempOf(d) \notin shared, doing[d] = "rename"
        PROVE  temp'[TempOf(d)] = onto[d]
    <3>1. TempOf(d) # s /\ TempOf(d) \in Stems
      BY <1>1, <2>2, LoneTempIsOwn DEF WInv, FileTypes, Writing, TempOf, Stems
    <3> QED BY <1>1, <2>2, <3>1 DEF WInv, FileTypes, LoneWrite
  <2>3. LoneWrite(d)'
    BY <1>1, <1>2, <2>2 DEF WInv, LoneWrite, TempOf
  <2> QED BY <2>1, <2>3
<1> QED BY <1>1, <1>4, <1>5, <1>6, WriteGoesOn DEF WInv, FileTypes

(* The text goes to the file that is open: the temporary one, or a target    *)
(* another write has made of it (WriteTemp).                                 *)
LEMMA WriteTempStep ==
  ASSUME WInv, NEW c \in Chats, WriteTemp(c)
  PROVE  WInv'
<1> DEFINE s == TempOf(c)
<1>1. /\ onto[c] \in Targets /\ s \in Stems /\ Writing(doing[c]) /\ doing[c] = "write"
      /\ fd' = [fd EXCEPT ![c] = "none"]
      /\ doing' = [doing EXCEPT ![c] = "rename"] /\ End(c, "rename")
      /\ shared' = shared /\ onto' = onto
  BY DEF WInv, FileTypes, WriteTemp, End, Writing, Stems, TempOf
<1>2. \A d \in Chats \ {c} : doing'[d] = doing[d] /\ fd'[d] = fd[d]
  BY <1>1 DEF WInv, FileTypes
<1>3. doing'[c] = "rename" /\ fd'[c] = "none" /\ s' = s
  BY <1>1 DEF WInv, FileTypes, TempOf
<1>4. DOMAIN texts' = Targets /\ DOMAIN temp' = Stems
  BY DEF WInv, FileTypes, WriteTemp
<1>5. \A p \in Targets : Stem[p] \notin shared => texts'[p] = texts[p]
  <2> SUFFICES ASSUME NEW p \in Targets, Stem[p] \notin shared, fd[c] = p
               PROVE  texts'[p] = texts[p]
    BY DEF WriteTemp, WInv, FileTypes
  <2>1. p # "none" /\ p # "gone" /\ p # s
    BY <1>1, ToolChatAssumption
  <2>2. OpenFile(c)
    BY DEF WInv
  <2> QED BY <2>1, <2>2 DEF OpenFile
<1>6. LoneWritesAreAtomic'
  BY <1>1, <1>5 DEF WInv, LoneWritesAreAtomic
<1>7. s \notin shared => temp'[s] = onto[c]
  BY <1>1 DEF WInv, FileTypes, LoneWrite, WriteTemp
<1>8. OpenFile(c)' /\ LoneWrite(c)'
  BY <1>1, <1>3, <1>7 DEF OpenFile, LoneWrite
<1>9. ASSUME NEW d \in Chats \ {c} PROVE OpenFile(d)' /\ LoneWrite(d)'
  <2>1. OpenFile(d)'
    BY <1>1, <1>2 DEF WInv, OpenFile, TempOf
  <2>2. ASSUME TempOf(d) \notin shared, doing[d] = "rename"
        PROVE  temp'[TempOf(d)] = onto[d]
    <3>1. TempOf(d) # s /\ TempOf(d) \in Stems
      BY <1>1, <2>2, LoneTempIsOwn DEF WInv, FileTypes, Writing, TempOf, Stems
    <3>2. fd[c] \in Stems => fd[c] = s
      BY <1>1, ToolChatAssumption DEF WInv, OpenFile
    <3> QED BY <2>2, <3>1, <3>2 DEF WInv, FileTypes, LoneWrite, WriteTemp
  <2>3. LoneWrite(d)'
    BY <1>1, <1>2, <2>2 DEF WInv, LoneWrite, TempOf
  <2> QED BY <2>1, <2>3
<1> QED BY <1>1, <1>4, <1>6, <1>8, <1>9, WriteGoesOn DEF WInv, FileTypes

(* The rename puts what is in the temporary file at the target: the whole    *)
(* text, if nobody shares it.  Who shares it has the target open now         *)
(* (RenameTemp).                                                             *)
LEMMA RenameTempStep ==
  ASSUME WInv, NEW c \in Chats, RenameTemp(c)
  PROVE  WInv'
<1> DEFINE p == onto[c]
           s == TempOf(c)
<1>1. /\ p \in Targets /\ s \in Stems /\ Writing(doing[c]) /\ doing[c] = "rename"
      /\ onto' = [onto EXCEPT ![c] = NoText] /\ shared' = shared
  BY DEF WInv, FileTypes, RenameTemp, Writing, Stems, TempOf, tcFiles
<1>2. fd[c] = "none"
  BY <1>1 DEF WInv, OpenFile
<1>3. CASE temp[s] = NoText
  <2>1. End(c, "failed") /\ UNCHANGED tcFiles
    BY <1>3 DEF RenameTemp, TempOf
  <2>2. doing' = [doing EXCEPT ![c] = "failed"] /\ texts' = texts /\ temp' = temp
        /\ fd' = fd
    BY <2>1 DEF End, tcFiles
  <2>3. \A d \in Chats \ {c} : doing'[d] = doing[d] /\ onto'[d] = onto[d]
    BY <1>1, <2>2 DEF WInv, FileTypes
  <2>4. LoneWritesAreAtomic'
    BY <1>1, <2>2 DEF WInv, LoneWritesAreAtomic
  <2>5. doing'[c] = "failed"
    BY <2>2 DEF WInv, FileTypes
  <2>6. OpenFile(c)' /\ LoneWrite(c)'
    BY <1>2, <2>2, <2>5 DEF OpenFile, LoneWrite
  <2>7. \A d \in Chats \ {c} : OpenFile(d)' /\ LoneWrite(d)'
    BY <1>1, <2>2, <2>3 DEF WInv, OpenFile, LoneWrite, TempOf
  <2>8. DOMAIN texts' = Targets /\ DOMAIN temp' = Stems /\ DOMAIN fd' = Chats
    BY <2>2 DEF WInv, FileTypes
  <2>9. ~Writing("failed") /\ "failed" \in {"write", "rename", "call", "failed"}
    BY DEF Writing
  <2> QED BY <1>1, <2>1, <2>4, <2>6, <2>7, <2>8,
            <2>9, WriteGoesOn
<1>4. CASE temp[s] # NoText
  <2>1. /\ End(c, "call") /\ texts' = [texts EXCEPT ![p] = temp[s]]
        /\ temp' = [temp EXCEPT ![s] = NoText]
        /\ fd' = [i \in Chats |-> IF fd[i] = p THEN "gone"
                                  ELSE IF fd[i] = s THEN p ELSE fd[i]]
    BY <1>4 DEF RenameTemp, TempOf, Moved
  <2>2. doing' = [doing EXCEPT ![c] = "call"]
    BY <2>1 DEF End
  <2>3. \A d \in Chats \ {c} : doing'[d] = doing[d] /\ onto'[d] = onto[d]
    BY <1>1, <2>2 DEF WInv, FileTypes
  <2>4. doing'[c] = "call"
    BY <2>2 DEF WInv, FileTypes
  <2>5. s \notin shared => temp[s] = p
    BY <1>1 DEF WInv, LoneWrite
  <2>6. LoneWritesAreAtomic'
    BY <1>1, <2>1, <2>5 DEF WInv, FileTypes, LoneWritesAreAtomic, TempOf
  <2>7. p # "none" /\ s # "none" /\ p # s
    BY <1>1, ToolChatAssumption
  <2>8. fd'[c] = "none"
    BY <1>2, <2>1, <2>7
  <2>9. OpenFile(c)' /\ LoneWrite(c)'
    BY <2>4, <2>8 DEF OpenFile, LoneWrite
  <2>10. ASSUME NEW d \in Chats \ {c} PROVE OpenFile(d)' /\ LoneWrite(d)'
    <3>1. TempOf(d)' = TempOf(d)
      BY <2>3 DEF TempOf
    <3>2. OpenFile(d)
      BY DEF WInv
    <3>3. fd[d] \in {p, s} => doing[d] = "write" /\ TempOf(d) = s
      BY <1>1, <2>7, <3>2, ToolChatAssumption DEF OpenFile, TempOf, Stems, Writing,
         WInv, FileTypes
    <3>4. fd[d] \in {p, s} => s \in shared
      BY <1>1, <3>3, LoneTempIsOwn DEF Writing
    <3>5. Stem[p] = s
      BY DEF TempOf
    <3>6. OpenFile(d)'
      <4>1. CASE fd[d] = p
        BY <1>1, <2>1, <2>3, <3>1, <3>3, <3>4, <4>1 DEF OpenFile
      <4>2. CASE fd[d] # p /\ fd[d] = s
        <5>1. fd'[d] = p /\ doing'[d] = "write"
          BY <2>1, <2>3, <3>3, <4>2
        <5> QED BY <1>1, <3>1, <3>3, <3>4, <3>5, <4>2, <5>1 DEF OpenFile
      <4>3. CASE fd[d] # p /\ fd[d] # s
        <5>1. fd'[d] = fd[d] /\ doing'[d] = doing[d]
          BY <2>1, <2>3, <4>3
        <5> QED BY <1>1, <3>1, <3>2, <5>1 DEF OpenFile
      <4> QED BY <4>1, <4>2, <4>3
    <3>7. ASSUME TempOf(d) \notin shared, doing[d] = "write"
          PROVE  fd'[d] = TempOf(d)
      <4>1. fd[d] = TempOf(d)
        BY <3>7 DEF WInv, LoneWrite
      <4>2. fd[d] # p /\ fd[d] # s
        BY <3>3, <3>4, <3>7
      <4> QED BY <2>1, <4>1, <4>2
    <3>8. ASSUME TempOf(d) \notin shared, doing[d] = "rename"
          PROVE  temp'[TempOf(d)] = onto[d]
      <4>1. TempOf(d) # s /\ TempOf(d) \in Stems
        BY <1>1, <3>8, LoneTempIsOwn DEF WInv, FileTypes, Writing, TempOf, Stems
      <4> QED BY <2>1, <3>8, <4>1 DEF WInv, FileTypes, LoneWrite
    <3>9. LoneWrite(d)'
      BY <1>1, <2>3, <3>1, <3>7, <3>8 DEF LoneWrite
    <3> QED BY <3>6, <3>9
  <2>11. DOMAIN texts' = Targets /\ DOMAIN temp' = Stems /\ DOMAIN fd' = Chats
    BY <2>1 DEF WInv, FileTypes
  <2>12. ~Writing("call") /\ "call" \in {"write", "rename", "call", "failed"}
    BY DEF Writing
  <2> QED BY <1>1, <2>1, <2>6, <2>9, <2>10, <2>11,
            <2>12, WriteGoesOn
<1> QED BY <1>3, <1>4

(* A write that fails leaves its temporary file as it is (WriteFails). *)
LEMMA WriteFailsStep ==
  ASSUME WInv, NEW c \in Chats, WriteFails(c)
  PROVE  WInv'
<1>1. /\ Writing(doing[c]) /\ End(c, "failed")
      /\ fd' = [fd EXCEPT ![c] = "none"] /\ onto' = [onto EXCEPT ![c] = NoText]
      /\ doing' = [doing EXCEPT ![c] = "failed"]
      /\ texts' = texts /\ temp' = temp /\ shared' = shared
  BY DEF WriteFails, End
<1>2. \A d \in Chats \ {c} : doing'[d] = doing[d] /\ onto'[d] = onto[d] /\ fd'[d] = fd[d]
  BY <1>1 DEF WInv, FileTypes
<1>3. doing'[c] = "failed" /\ fd'[c] = "none"
  BY <1>1 DEF WInv, FileTypes
<1>4. LoneWritesAreAtomic'
  BY <1>1 DEF WInv, LoneWritesAreAtomic
<1>5. OpenFile(c)' /\ LoneWrite(c)'
  BY <1>3 DEF OpenFile, LoneWrite
<1>6. \A d \in Chats \ {c} : OpenFile(d)' /\ LoneWrite(d)'
  BY <1>1, <1>2 DEF WInv, OpenFile, LoneWrite, TempOf
<1>7. ~Writing("failed") /\ "failed" \in {"write", "rename", "call", "failed"}
  BY DEF Writing
<1>8. DOMAIN texts' = Targets /\ DOMAIN temp' = Stems /\ DOMAIN fd' = Chats
  BY <1>1 DEF WInv, FileTypes
<1> QED BY <1>1, <1>4, <1>5, <1>6, <1>7, <1>8, WriteGoesOn

(* Every step of every chat, and a crash at any point (TCNext). *)
LEMMA NextPreservesWInv ==
  ASSUME WInv, [TCNext]_tcVars
  PROVE  WInv'
<1>1. ASSUME NEW c \in Chats,
             \/ ChatRequest(c) \/ EmbeddingsRequest(c) \/ EmbeddingsReturn(c)
             \/ WorkerAnswers(c) \/ WorkerFails(c) \/ CallFails(c) \/ CallPanics(c)
             \/ NextRound(c)
      PROVE  WInv'
  <2>1. /\ \E at \in Doings : End(c, at) /\ ~Writing(at)
        /\ ~Writing(doing[c]) /\ UNCHANGED <<tcFiles, onto>>
    BY <1>1 DEF ChatRequest, EmbeddingsRequest, EmbeddingsReturn, WorkerAnswers,
                WorkerFails, CallFails, CallPanics, NextRound, Resting, Calling, Doings,
                Writing
  <2> QED BY <2>1, NoWriteStep
<1>2. ASSUME NEW c \in Chats, OtherCall(c)
      PROVE  WInv'
  BY <1>2 DEF OtherCall, WInv, FileTypes, LoneWritesAreAtomic, OpenFile, LoneWrite,
              SharedWith, TempOf, tcFiles
<1>3. ASSUME NEW c \in Chats, WriteCall(c) \/ PatchCall(c)
      PROVE  WInv'
  <2>1. Calling(c) /\ \E p \in Targets : BeginWrite(c, p)
    BY <1>3, ToolChatAssumption DEF WriteCall, PatchCall
  <2> QED BY <2>1, BeginWriteStep
<1>4. CASE TCCrash
  <2>1. /\ \A c \in Chats : doing'[c] = "idle" /\ fd'[c] = "none"
        /\ DOMAIN doing' = Chats /\ DOMAIN fd' = Chats /\ DOMAIN onto' = Chats
        /\ texts' = texts /\ temp' = temp /\ shared' = shared
    BY <1>4 DEF TCCrash
  <2> QED BY <2>1 DEF WInv, FileTypes, LoneWritesAreAtomic, OpenFile, LoneWrite,
                      SharedWith, Writing
<1>5. CASE UNCHANGED tcVars
  BY <1>5 DEF tcVars, tcFiles, WInv, FileTypes, LoneWritesAreAtomic, OpenFile,
              LoneWrite, SharedWith, TempOf
<1> QED BY <1>1, <1>2, <1>3, <1>4, <1>5, CreateTempStep, WriteTempStep,
           RenameTempStep, WriteFailsStep DEF TCNext

(* At every moment a target holds a whole text that was meant for it, as long*)
(* as no two writes of the process have had its temporary file at one time,  *)
(* for any number of chats, targets and temporary files (write_file and      *)
(* patch_file of coding_tools.rs).                                           *)
THEOREM LoneWritesStayAtomic == TCSpec => []LoneWritesAreAtomic
<1>1. WInv => LoneWritesAreAtomic
  BY DEF WInv
<1>2. WInv /\ [TCNext]_tcVars => WInv'
  BY NextPreservesWInv
<1> QED BY <1>1, <1>2, InitEstablishesWInv, PTL DEF TCSpec

-----------------------------------------------------------------------------
(***************************************************************************)
(* The journals.                                                           *)
(***************************************************************************)

JournalTypes ==
  /\ file \in [Journals -> Seq(Nat)] /\ lines \in Nat
  /\ acked \in [Journals -> SUBSET Nat]
  /\ writing \in [Appenders -> Journals \cup {Nowhere}]
  /\ half \in [Appenders -> Nat]
  /\ crashes \in Nat /\ failures \in Nat
  /\ \A s \in Journals : \A i \in 1..Len(file[s]) : file[s][i] <= lines

(* Who appends to a locked journal holds WRITE_LOCK. *)
LockHeld ==
  /\ \A a \in Appenders : writing[a] \in Locked => writeLock = a
  /\ \A a \in Appenders : half[a] # 0 => writing[a] # Nowhere

Appending(s) == \E a \in Appenders : writing[a] = s /\ half[a] # 0

(* The JSON a thread has written is the end of a locked journal, and a line  *)
(* that was acknowledged stands in it once, with a newline behind.           *)
LockedFile(s) ==
  LET f == file[s] IN
  /\ \A a \in Appenders : writing[a] = s /\ half[a] # 0 =>
       Len(f) > 0 /\ f[Len(f)] = half[a]
  /\ \A i, k \in 1..Len(f) : f[i] = f[k] /\ f[i] # Newline => i = k
  /\ \A n \in acked[s] : n # Newline /\ \E i \in 1..Len(f) - 1 : f[i] = n /\ f[i + 1] = Newline

(* Whether the end of the file will spoil one line more: it is torn, or the  *)
(* line at the end is behind one that is.                                    *)
Spoils(s) ==
  LET f == file[s] IN
  /\ Len(f) > 0 /\ f[Len(f)] # Newline
  /\ Appending(s) => ~Alone(f, Len(f))

(* Each crash and each failed append pays for one spoiled line. *)
Paid(s) ==
  /\ IsFiniteSet(Spoiled(s))
  /\ Cardinality(Spoiled(s)) + (IF Spoils(s) THEN 1 ELSE 0) <= crashes + failures

(* What every step of an append and every crash keep. *)
JInv ==
  /\ JournalTypes /\ LockHeld
  /\ \A s \in Locked : LockedFile(s) /\ Paid(s)

(* The journals are empty and nobody holds their lock at first.              *)
LEMMA InitEstablishesJInv == JLInit => JInv
<1> SUFFICES ASSUME JLInit PROVE JInv
  OBVIOUS
<1>1. <<>> \in Seq(Nat) /\ Len(<<>>) = 0
  OBVIOUS
<1>2. JournalTypes /\ LockHeld
  BY <1>1, JsonLinesAssumption DEF JLInit, JournalTypes, LockHeld
<1>3. ASSUME NEW s \in Locked PROVE LockedFile(s) /\ Paid(s)
  <2>1. file[s] = <<>> /\ acked[s] = {} /\ crashes = 0 /\ failures = 0 /\ s \in Journals
    BY JsonLinesAssumption DEF JLInit
  <2>2. Spoiled(s) = {} /\ ~Spoils(s)
    BY <1>1, <2>1 DEF Spoiled, Spoils
  <2>3. LockedFile(s)
    BY <1>1, <2>1 DEF LockedFile, JLInit
  <2>4. Paid(s)
    BY <2>1, <2>2, FS_EmptySet DEF Paid
  <2> QED BY <2>3, <2>4
<1> QED BY <1>2, <1>3 DEF JInv

(* g is f with x behind it. *)
Extended(f, x, g) ==
  /\ g \in Seq(Nat) /\ Len(g) = Len(f) + 1 /\ g[Len(g)] = x
  /\ \A i \in 1..Len(f) : g[i] = f[i]

(* What a piece at the end of a file does to the lines before it. *)
LEMMA AloneAfterAppend ==
  ASSUME NEW f \in Seq(Nat), NEW x, NEW g, Extended(f, x, g)
  PROVE  /\ \A i \in 1..Len(f) - 1 : Alone(g, i) <=> Alone(f, i)
         /\ Len(f) > 0 => (Alone(g, Len(f)) <=> Alone(f, Len(f)) /\ x = Newline)
         /\ Alone(g, Len(g)) <=>
              x # Newline /\ (Len(f) = 0 \/ f[Len(f)] = Newline)
<1>1. /\ g \in Seq(Nat) /\ Len(g) = Len(f) + 1 /\ g[Len(g)] = x
      /\ \A i \in 1..Len(f) : g[i] = f[i]
  BY DEF Extended
<1>2. Len(f) \in Nat
  OBVIOUS
<1>3. ASSUME NEW i \in 1..Len(f) - 1 PROVE Alone(g, i) <=> Alone(f, i)
  <2>1. /\ i \in 1..Len(f) /\ i + 1 \in 1..Len(f) /\ i # Len(f) /\ i # Len(g)
        /\ i = 1 \/ i - 1 \in 1..Len(f)
    <3>1. Len(g) = Len(f) + 1
      BY <1>1
    <3>2. PICK k \in Nat : k = Len(f)
      BY <1>2
    <3>3. /\ i \in 1..k /\ i + 1 \in 1..k /\ i # k /\ i # k + 1
          /\ i = 1 \/ i - 1 \in 1..k
      BY <3>2
    <3> QED BY <3>1, <3>2, <3>3
  <2>2. /\ g[i] = f[i] /\ g[i + 1] = f[i + 1]
        /\ i = 1 \/ g[i - 1] = f[i - 1]
    BY <1>1, <2>1
  <2> QED BY <2>1, <2>2 DEF Alone
<1>4. ASSUME Len(f) > 0
      PROVE  Alone(g, Len(f)) <=> Alone(f, Len(f)) /\ x = Newline
  <2>1. /\ Len(f) \in 1..Len(f) /\ Len(f) # Len(g) /\ Len(f) + 1 = Len(g)
        /\ Len(f) = 1 \/ Len(f) - 1 \in 1..Len(f)
    <3>1. Len(g) = Len(f) + 1
      BY <1>1
    <3>2. PICK n \in Nat : n = Len(f)
      BY <1>2
    <3> QED BY <1>4, <3>1, <3>2
  <2>2. /\ g[Len(f)] = f[Len(f)] /\ g[Len(f) + 1] = x
        /\ Len(f) = 1 \/ g[Len(f) - 1] = f[Len(f) - 1]
    BY <1>1, <2>1
  <2> QED BY <2>1, <2>2 DEF Alone
<1>5. Alone(g, Len(g)) <=> x # Newline /\ (Len(f) = 0 \/ f[Len(f)] = Newline)
  <2>1. /\ Len(g) - 1 = Len(f) /\ (Len(g) = 1 <=> Len(f) = 0)
        /\ Len(f) = 0 \/ Len(f) \in 1..Len(f)
    BY <1>1, <1>2
  <2>2. Len(f) = 0 \/ g[Len(g) - 1] = f[Len(f)]
    BY <1>1, <2>1
  <2> QED BY <1>1, <2>1, <2>2 DEF Alone
<1> QED BY <1>3, <1>4, <1>5

(* A journal no step touches owes what it owed before. *)
LEMMA PaidUntouched ==
  ASSUME JInv, NEW s \in Locked, file'[s] = file[s], acked'[s] = acked[s],
         crashes' = crashes, failures' = failures, Appending(s)' <=> Appending(s)
  PROVE  Paid(s)'
<1>1. Spoiled(s)' = Spoiled(s)
  BY DEF Spoiled
<1>2. Spoils(s)' <=> Spoils(s)
  BY DEF Spoils
<1> QED BY <1>1, <1>2 DEF JInv, Paid

(* A thread opens a journal; it has written nothing yet (BeginAppend). *)
LEMMA BeginAppendStep ==
  ASSUME JInv, NEW a \in Appenders, BeginAppend(a)
  PROVE  JInv'
<1>1. PICK s \in Journals :
        /\ writing[a] = Nowhere
        /\ s \in Locked => writeLock = Nowhere
        /\ writeLock' = IF s \in Locked THEN a ELSE writeLock
        /\ writing' = [writing EXCEPT ![a] = s]
        /\ UNCHANGED <<file, lines, acked, half, crashes, failures>>
  BY DEF BeginAppend
<1>2. half[a] = 0
  BY <1>1 DEF JInv, JournalTypes, LockHeld
<1>3. JournalTypes'
  BY <1>1 DEF JInv, JournalTypes
<1>4. LockHeld'
  BY <1>1, <1>2, JsonLinesAssumption DEF JInv, JournalTypes, LockHeld
<1>5. \A b \in Appenders, r \in Locked :
        (writing[b] = r /\ half[b] # 0)' <=> writing[b] = r /\ half[b] # 0
  BY <1>1, <1>2 DEF JInv, JournalTypes
<1>6. ASSUME NEW r \in Locked PROVE LockedFile(r)' /\ Paid(r)'
  <2>1. Appending(r)' <=> Appending(r)
    BY <1>5 DEF Appending
  <2>2. Paid(r)'
    BY <1>1, <2>1, PaidUntouched
  <2>3. LockedFile(r)'
    BY <1>1, <1>5 DEF JInv, LockedFile
  <2> QED BY <2>2, <2>3
<1> QED BY <1>3, <1>4, <1>6 DEF JInv

(* Under the lock nobody else appends to the same journal. *)
LEMMA OnlyAppender ==
  ASSUME JInv, NEW s \in Locked, NEW a \in Appenders, NEW b \in Appenders,
         writing[a] = s, writing[b] = s
  PROVE  a = b
BY DEF JInv, LockHeld

(* A text behind the others, whole or cut off: no acknowledged line that was *)
(* alone is spoiled by it, for a newline stands behind each.                 *)
LEMMA TextBehind ==
  ASSUME JInv, NEW s \in Journals,
         file' = [file EXCEPT ![s] = Append(@, lines + 1)], lines' = lines + 1, acked' = acked
  PROVE  /\ file' \in [Journals -> Seq(Nat)]
         /\ \A r \in Journals : \A i \in 1..Len(file'[r]) : file'[r][i] <= lines'
         /\ \A r \in Journals \ {s} : file'[r] = file[r]
         /\ Len(file'[s]) > 0 /\ file'[s][Len(file'[s])] = lines + 1
         /\ Alone(file'[s], Len(file'[s])) <=> (Len(file[s]) = 0 \/ file[s][Len(file[s])] = Newline)
         /\ s \in Locked =>
              /\ \A i, k \in 1..Len(file'[s]) :
                   file'[s][i] = file'[s][k] /\ file'[s][i] # Newline => i = k
              /\ \A m \in acked[s] :
                   m # Newline /\ \E i \in 1..Len(file'[s]) - 1 :
                                    file'[s][i] = m /\ file'[s][i + 1] = Newline
              /\ Spoiled(s)' \subseteq Spoiled(s)
<1>0. PICK n, f, g : n = lines + 1 /\ f = file[s] /\ g = file'[s]
  OBVIOUS
<1>1. n \in Nat /\ n # Newline /\ lines' = n
  BY <1>0 DEF JInv, JournalTypes, Newline
<1>2. f \in Seq(Nat) /\ g = Append(f, n)
  BY <1>0 DEF JInv, JournalTypes
<1>3. \A r \in Journals \ {s} : file'[r] = file[r]
  BY DEF JInv, JournalTypes
<1>4. /\ g \in Seq(Nat) /\ Len(g) = Len(f) + 1 /\ g[Len(g)] = n
      /\ \A i \in 1..Len(f) : g[i] = f[i]
      /\ \A i \in 1..Len(f) - 1 : Alone(g, i) <=> Alone(f, i)
      /\ Alone(g, Len(g)) <=> (Len(f) = 0 \/ f[Len(f)] = Newline)
  <2>1. f \in Seq(Nat) /\ n \in Nat /\ n # Newline /\ g = Append(f, n)
    BY <1>1, <1>2
  <2>2. Extended(f, n, g)
    BY <2>1 DEF Extended
  <2>3. /\ \A i \in 1..Len(f) - 1 : Alone(g, i) <=> Alone(f, i)
        /\ Alone(g, Len(g)) <=> n # Newline /\ (Len(f) = 0 \/ f[Len(f)] = Newline)
    BY <2>1, <2>2, AloneAfterAppend
  <2> QED BY <2>1, <2>2, <2>3 DEF Extended
<1>5. /\ \A i \in 1..Len(f) : f[i] <= lines /\ f[i] \in Nat
      /\ lines \in Nat /\ Len(f) \in Nat
  BY <1>0, <1>1, <1>2 DEF JInv, JournalTypes
<1>6. \A i \in 1..Len(g) : i \in 1..Len(f) \/ i = Len(g)
  BY <1>4, <1>5
<1>7. file' \in [Journals -> Seq(Nat)]
  BY <1>0, <1>1, <1>2, <1>4 DEF JInv, JournalTypes
<1>8. ASSUME NEW r \in Journals, NEW i \in 1..Len(file'[r])
      PROVE  file'[r][i] <= lines'
  <2>1. CASE r = s
    <3>1. g[i] <= lines'
      BY <1>0, <1>1, <1>4, <1>5, <1>6, <2>1, <1>8
    <3> QED BY <1>0, <2>1, <3>1
  <2>2. CASE r # s
    <3>1. file'[r] = file[r]
      BY <1>3, <2>2
    <3>2. file[r] \in Seq(Nat) /\ i \in 1..Len(file[r]) /\ file[r][i] <= lines
      BY <1>8, <3>1 DEF JInv, JournalTypes
    <3>3. PICK x \in Nat : x = file[r][i]
      BY <3>2
    <3>4. file'[r][i] = x /\ x <= lines /\ lines' = lines + 1
      BY <1>0, <1>1, <3>1, <3>2, <3>3
    <3> QED BY <1>5, <3>4
  <2> QED BY <2>1, <2>2
<1>9. ASSUME s \in Locked
      PROVE  /\ \A i, k \in 1..Len(g) : g[i] = g[k] /\ g[i] # Newline => i = k
             /\ \A m \in acked[s] :
                  m # Newline /\ \E i \in 1..Len(g) - 1 : g[i] = m /\ g[i + 1] = Newline
             /\ Spoiled(s)' \subseteq Spoiled(s)
  <2>2. LockedFile(s)
    BY <1>9 DEF JInv
  <2>4. \A i, k \in 1..Len(g) : g[i] = g[k] /\ g[i] # Newline => i = k
    <3> SUFFICES ASSUME NEW i \in 1..Len(g), NEW k \in 1..Len(g),
                        g[i] = g[k], g[i] # Newline
                 PROVE  i = k
      OBVIOUS
    <3>1. ASSUME NEW j \in 1..Len(f) PROVE g[j] = f[j] /\ f[j] # n
      <4>1. f[j] <= lines /\ f[j] \in Nat /\ lines \in Nat /\ n = lines + 1
        BY <1>0, <1>5
      <4> QED BY <1>4, <4>1
    <3>2. CASE i \in 1..Len(f) /\ k \in 1..Len(f)
      BY <1>0, <2>2, <3>1, <3>2 DEF LockedFile
    <3>3. CASE i = Len(g) \/ k = Len(g)
      BY <1>4, <1>6, <3>1, <3>3
    <3> QED BY <1>6, <3>2, <3>3
  <2>5. ASSUME NEW m \in acked[s]
        PROVE  m # Newline /\ \E i \in 1..Len(g) - 1 : g[i] = m /\ g[i + 1] = Newline
    <3>1. PICK i \in 1..Len(f) - 1 : f[i] = m /\ f[i + 1] = Newline
      BY <1>0, <2>2, <2>5 DEF LockedFile
    <3>2. /\ i \in 1..Len(f) /\ i + 1 \in 1..Len(f) /\ i \in 1..Len(g) - 1
      BY <1>4, <1>5, <3>1
    <3>3. m # Newline
      BY <1>0, <2>2, <2>5 DEF LockedFile
    <3> QED BY <1>4, <3>1, <3>2, <3>3
  <2>7. Spoiled(s)' \subseteq Spoiled(s)
    <3> SUFFICES ASSUME NEW m \in acked[s], NEW k \in 1..Len(g),
                        g[k] = m, ~Alone(g, k)
                 PROVE  m \in Spoiled(s)
      BY <1>0, <1>1 DEF Spoiled
    <3>1. PICK i \in 1..Len(f) - 1 : f[i] = m /\ f[i + 1] = Newline
      BY <1>0, <2>2 DEF LockedFile
    <3>2. i \in 1..Len(f) /\ i \in 1..Len(g)
      BY <1>4, <1>5, <3>1
    <3>3. m # Newline
      BY <1>0, <2>2 DEF LockedFile
    <3>4. k = i
      BY <1>4, <2>4, <3>1, <3>2, <3>3
    <3>5. ~Alone(f, i)
      BY <1>4, <3>1, <3>4
    <3> QED BY <1>0, <3>1, <3>2, <3>5 DEF Spoiled
  <2> QED BY <2>4, <2>5, <2>7
<1>10. Len(g) > 0
  BY <1>4, <1>5
<1>11. /\ Len(file'[s]) > 0 /\ file'[s][Len(file'[s])] = lines + 1
       /\ Alone(file'[s], Len(file'[s])) <=> (Len(file[s]) = 0 \/ file[s][Len(file[s])] = Newline)
  BY <1>0, <1>4, <1>10
<1>12. s \in Locked =>
              /\ \A i, k \in 1..Len(file'[s]) :
                   file'[s][i] = file'[s][k] /\ file'[s][i] # Newline => i = k
              /\ \A m \in acked[s] :
                   m # Newline /\ \E i \in 1..Len(file'[s]) - 1 :
                                    file'[s][i] = m /\ file'[s][i + 1] = Newline
              /\ Spoiled(s)' \subseteq Spoiled(s)
  BY <1>0, <1>9
<1> QED BY <1>3, <1>7, <1>8, <1>11, <1>12

(* What is owed and what stands in the journals a step leaves alone.         *)
LEMMA OthersUntouched ==
  ASSUME JInv, NEW s, NEW a \in Appenders, NEW r \in Locked, r # s, writing[a] = s,
         file'[r] = file[r], acked'[r] = acked[r],
         writing'[a] \in {s, Nowhere},
         \A b \in Appenders \ {a} : writing'[b] = writing[b] /\ half'[b] = half[b]
  PROVE  LockedFile(r)' /\ (crashes' = crashes /\ failures' = failures => Paid(r)')
         /\ Spoiled(r)' = Spoiled(r) /\ (Spoils(r)' <=> Spoils(r))
<1>1. r # Nowhere
  BY JsonLinesAssumption
<1>2. \A b \in Appenders :
        (writing[b] = r /\ half[b] # 0)' <=> writing[b] = r /\ half[b] # 0
  BY <1>1
<1>3. \A b \in Appenders : writing'[b] = r => half'[b] = half[b]
  BY <1>1
<1>4. Appending(r)' <=> Appending(r)
  BY <1>2 DEF Appending
<1>5. LockedFile(r)'
  <2>1. LockedFile(r)
    BY DEF JInv
  <2>2. \A b \in Appenders : (writing[b] = r /\ half[b] # 0)' =>
          Len(file'[r]) > 0 /\ file'[r][Len(file'[r])] = half'[b]
    BY <1>2, <1>3, <2>1 DEF LockedFile
  <2> QED BY <2>1, <2>2 DEF LockedFile
<1>6. crashes' = crashes /\ failures' = failures => Paid(r)'
  BY <1>4, PaidUntouched
<1>7. Spoiled(r)' = Spoiled(r) /\ (Spoils(r)' <=> Spoils(r))
  BY <1>4 DEF Spoiled, Spoils
<1> QED BY <1>5, <1>6, <1>7

(* The first write of an append: the JSON (AppendJson).  Behind a torn line  *)
(* it is part of that line, which the fault that tore it has paid for.       *)
LEMMA AppendJsonStep ==
  ASSUME JInv, NEW a \in Appenders, AppendJson(a)
  PROVE  JInv'
<1>0. PICK s, n, f, g : s = writing[a] /\ n = lines + 1 /\ f = file[s] /\ g = file'[s]
  OBVIOUS
<1>1. /\ s \in Journals /\ s # Nowhere /\ half[a] = 0 /\ n \in Nat /\ n # 0
      /\ lines' = lines + 1 /\ half' = [half EXCEPT ![a] = n]
      /\ file' = [file EXCEPT ![s] = Append(@, lines + 1)]
      /\ UNCHANGED <<acked, writing, writeLock, crashes, failures>>
  BY <1>0 DEF AppendJson, JInv, JournalTypes, Newline
<1>2. /\ file' \in [Journals -> Seq(Nat)]
      /\ \A r \in Journals : \A i \in 1..Len(file'[r]) : file'[r][i] <= lines'
      /\ \A r \in Journals \ {s} : file'[r] = file[r]
      /\ Len(g) > 0 /\ g[Len(g)] = n
      /\ Alone(g, Len(g)) <=> (Len(f) = 0 \/ f[Len(f)] = Newline)
      /\ s \in Locked =>
           /\ \A i, k \in 1..Len(g) : g[i] = g[k] /\ g[i] # Newline => i = k
           /\ \A m \in acked[s] :
                m # Newline /\ \E i \in 1..Len(g) - 1 : g[i] = m /\ g[i + 1] = Newline
           /\ Spoiled(s)' \subseteq Spoiled(s)
  <2>1. /\ file' \in [Journals -> Seq(Nat)]
        /\ \A r \in Journals : \A i \in 1..Len(file'[r]) : file'[r][i] <= lines'
        /\ \A r \in Journals \ {s} : file'[r] = file[r]
        /\ Len(file'[s]) > 0 /\ file'[s][Len(file'[s])] = lines + 1
        /\ Alone(file'[s], Len(file'[s])) <=> (Len(file[s]) = 0 \/ file[s][Len(file[s])] = Newline)
        /\ s \in Locked =>
              /\ \A i, k \in 1..Len(file'[s]) :
                   file'[s][i] = file'[s][k] /\ file'[s][i] # Newline => i = k
              /\ \A m \in acked[s] :
                   m # Newline /\ \E i \in 1..Len(file'[s]) - 1 :
                                    file'[s][i] = m /\ file'[s][i + 1] = Newline
              /\ Spoiled(s)' \subseteq Spoiled(s)
    BY <1>1, TextBehind
  <2>2. g = file'[s] /\ f = file[s] /\ n = lines + 1
    BY <1>0
  <2>3. Len(g) > 0 /\ g[Len(g)] = n /\ (Alone(g, Len(g)) <=> (Len(f) = 0 \/ f[Len(f)] = Newline))
    BY <2>1, <2>2
  <2>4. s \in Locked =>
           /\ \A i, k \in 1..Len(g) : g[i] = g[k] /\ g[i] # Newline => i = k
           /\ \A m \in acked[s] :
                m # Newline /\ \E i \in 1..Len(g) - 1 : g[i] = m /\ g[i + 1] = Newline
           /\ Spoiled(s)' \subseteq Spoiled(s)
    BY <2>1, <2>2
  <2> QED BY <2>1, <2>3, <2>4
<1>3. /\ \A b \in Appenders \ {a} : writing'[b] = writing[b] /\ half'[b] = half[b]
      /\ writing'[a] = s /\ half'[a] = n
  BY <1>0, <1>1 DEF JInv, JournalTypes
<1>4. JournalTypes'
  BY <1>1, <1>2 DEF JInv, JournalTypes
<1>5. LockHeld'
  BY <1>0, <1>1 DEF JInv, JournalTypes, LockHeld
<1>6. ASSUME NEW r \in Locked, r # s PROVE LockedFile(r)' /\ Paid(r)'
  <2>1. file'[r] = file[r] /\ acked'[r] = acked[r]
    BY <1>1, <1>2, <1>6, JsonLinesAssumption
  <2> QED BY <1>0, <1>1, <1>3, <1>6, <2>1, OthersUntouched
<1>7. ASSUME s \in Locked PROVE LockedFile(s)' /\ Paid(s)'
  <2>1. /\ \A b \in Appenders : writing[b] = s => b = a
        /\ ~Appending(s) /\ Appending(s)'
    <3>1. \A b \in Appenders : writing[b] = s => b = a
      BY <1>0, <1>7, OnlyAppender
    <3> QED BY <1>0, <1>1, <1>3, <3>1 DEF Appending
  <2>2. LockedFile(s)'
    <3>1. \A b \in Appenders : (writing[b] = s /\ half[b] # 0)' =>
            Len(g) > 0 /\ g[Len(g)] = half'[b]
      BY <1>1, <1>2, <1>3, <2>1
    <3>2. /\ \A i, k \in 1..Len(g) : g[i] = g[k] /\ g[i] # Newline => i = k
          /\ \A m \in acked'[s] :
               m # Newline /\ \E i \in 1..Len(g) - 1 : g[i] = m /\ g[i + 1] = Newline
      BY <1>1, <1>2, <1>7
    <3>3. g = file'[s]
      BY <1>0
    <3> QED BY <3>1, <3>2, <3>3 DEF LockedFile
  <2>3. Spoils(s)' => Spoils(s)
    <3>1. Spoils(s)' => ~Alone(g, Len(g))
      BY <1>0, <2>1 DEF Spoils
    <3>2. ~Alone(g, Len(g)) => Spoils(s)
      <4>1. Len(f) \in Nat
        BY <1>0, <1>1 DEF JInv, JournalTypes
      <4> QED BY <1>0, <1>2, <2>1, <4>1 DEF Spoils
    <3> QED BY <3>1, <3>2
  <2>4. Paid(s)'
    <3>1. IsFiniteSet(Spoiled(s)) /\ Cardinality(Spoiled(s)) \in Nat
      BY <1>7, FS_CardinalityType DEF JInv, Paid
    <3>2. /\ IsFiniteSet(Spoiled(s)') /\ Cardinality(Spoiled(s)') <= Cardinality(Spoiled(s))
          /\ Cardinality(Spoiled(s)') \in Nat
      BY <1>2, <1>7, <3>1, FS_Subset, FS_CardinalityType
    <3>3. Cardinality(Spoiled(s)) + (IF Spoils(s) THEN 1 ELSE 0) <= crashes + failures
      BY <1>7 DEF JInv, Paid
    <3>4. Cardinality(Spoiled(s)') + (IF Spoils(s)' THEN 1 ELSE 0) <= crashes' + failures'
      BY <1>1, <2>3, <3>1, <3>2, <3>3 DEF JInv, JournalTypes
    <3> QED BY <3>2, <3>4 DEF Paid
  <2> QED BY <2>2, <2>4
<1> QED BY <1>4, <1>5, <1>6, <1>7 DEF JInv

(* An append that fails leaves nothing or a text without its newline, and is *)
(* counted (AppendFails).                                                    *)
LEMMA AppendFailsStep ==
  ASSUME JInv, NEW a \in Appenders, AppendFails(a)
  PROVE  JInv'
<1>0. PICK s : s = writing[a]
  OBVIOUS
<1>1. /\ s \in Journals
      /\ half' = [half EXCEPT ![a] = 0] /\ writing' = [writing EXCEPT ![a] = Nowhere]
      /\ writeLock' = IF s \in Locked THEN Nowhere ELSE writeLock
      /\ failures' = failures + 1 /\ UNCHANGED <<acked, crashes>>
      /\ \/ UNCHANGED <<file, lines>>
         \/ half[a] = 0 /\ lines' = lines + 1 /\ file' = [file EXCEPT ![s] = Append(@, lines + 1)]
  BY <1>0 DEF AppendFails, Ends, WritesNothing, WritesBeginning, JInv, JournalTypes
<1>2. /\ file' \in [Journals -> Seq(Nat)] /\ lines' \in Nat
      /\ \A r \in Journals : \A i \in 1..Len(file'[r]) : file'[r][i] <= lines'
      /\ \A r \in Journals \ {s} : file'[r] = file[r]
      /\ s \in Locked =>
           /\ \A i, k \in 1..Len(file'[s]) :
                file'[s][i] = file'[s][k] /\ file'[s][i] # Newline => i = k
           /\ \A m \in acked[s] :
                m # Newline /\ \E i \in 1..Len(file'[s]) - 1 :
                                 file'[s][i] = m /\ file'[s][i + 1] = Newline
           /\ Spoiled(s)' \subseteq Spoiled(s)
  <2>1. CASE UNCHANGED <<file, lines>>
    <3>1. Spoiled(s)' = Spoiled(s)
      BY <2>1, <1>1 DEF Spoiled
    <3>2. s \in Locked => LockedFile(s)
      BY DEF JInv
    <3>3. s \in Locked =>
           /\ \A i, k \in 1..Len(file[s]) :
                file[s][i] = file[s][k] /\ file[s][i] # Newline => i = k
           /\ \A m \in acked[s] :
                m # Newline /\ \E i \in 1..Len(file[s]) - 1 :
                                 file[s][i] = m /\ file[s][i + 1] = Newline
      BY <3>2 DEF LockedFile
    <3>4. /\ file' \in [Journals -> Seq(Nat)] /\ lines' \in Nat
          /\ \A r \in Journals : \A i \in 1..Len(file'[r]) : file'[r][i] <= lines'
      BY <2>1 DEF JInv, JournalTypes
    <3> QED BY <2>1, <3>1, <3>3, <3>4
  <2>2. CASE half[a] = 0 /\ lines' = lines + 1 /\ file' = [file EXCEPT ![s] = Append(@, lines + 1)]
    <3>1. lines' \in Nat
      BY <2>2 DEF JInv, JournalTypes
    <3> QED BY <1>1, <2>2, <3>1, TextBehind
  <2> QED BY <1>1, <2>1, <2>2
<1>3. /\ \A b \in Appenders \ {a} : writing'[b] = writing[b] /\ half'[b] = half[b]
      /\ writing'[a] = Nowhere /\ half'[a] = 0
  BY <1>1 DEF JInv, JournalTypes
<1>4. JournalTypes'
  BY <1>1, <1>2 DEF JInv, JournalTypes
<1>5. LockHeld'
  <2>1. ASSUME NEW b \in Appenders, writing'[b] \in Locked PROVE writeLock' = b
    <3>1. b # a /\ writing[b] \in Locked
      BY <1>3, <2>1, JsonLinesAssumption
    <3>2. writeLock = b /\ s \notin Locked
      BY <1>0, <3>1 DEF JInv, LockHeld
    <3> QED BY <1>1, <3>2
  <2>2. \A b \in Appenders : half'[b] # 0 => writing'[b] # Nowhere
    BY <1>3 DEF JInv, LockHeld
  <2> QED BY <2>1, <2>2 DEF LockHeld
<1>6. crashes \in Nat /\ failures \in Nat
  BY DEF JInv, JournalTypes
<1>7. ASSUME NEW r \in Locked, r # s PROVE LockedFile(r)' /\ Paid(r)'
  <2>1. file'[r] = file[r] /\ acked'[r] = acked[r]
    BY <1>1, <1>2, <1>7, JsonLinesAssumption
  <2>2. LockedFile(r)' /\ Spoiled(r)' = Spoiled(r) /\ (Spoils(r)' <=> Spoils(r))
    BY <1>0, <1>3, <1>7, <2>1, OthersUntouched
  <2>3. /\ IsFiniteSet(Spoiled(r)) /\ Cardinality(Spoiled(r)) \in Nat
        /\ Cardinality(Spoiled(r)) + (IF Spoils(r) THEN 1 ELSE 0) <= crashes + failures
    BY <1>7, FS_CardinalityType DEF JInv, Paid
  <2>4. Cardinality(Spoiled(r)) + (IF Spoils(r) THEN 1 ELSE 0) <= crashes' + failures'
    BY <1>1, <1>6, <2>3
  <2> QED BY <2>2, <2>3, <2>4 DEF Paid
<1>8. ASSUME s \in Locked PROVE LockedFile(s)' /\ Paid(s)'
  <2>1. \A b \in Appenders : writing'[b] # s
    <3>1. \A b \in Appenders : writing[b] = s => b = a
      BY <1>0, <1>8, OnlyAppender
    <3>2. s # Nowhere
      BY <1>1, JsonLinesAssumption
    <3> QED BY <1>3, <3>1, <3>2
  <2>2. LockedFile(s)'
    BY <1>1, <1>2, <1>8, <2>1 DEF LockedFile
  <2>3. Paid(s)'
    <3>1. /\ IsFiniteSet(Spoiled(s)) /\ Cardinality(Spoiled(s)) \in Nat
          /\ Cardinality(Spoiled(s)) + (IF Spoils(s) THEN 1 ELSE 0) <= crashes + failures
      BY <1>8, FS_CardinalityType DEF JInv, Paid
    <3>2. /\ IsFiniteSet(Spoiled(s)') /\ Cardinality(Spoiled(s)') <= Cardinality(Spoiled(s))
          /\ Cardinality(Spoiled(s)') \in Nat
      BY <1>2, <1>8, <3>1, FS_Subset, FS_CardinalityType
    <3>3. Cardinality(Spoiled(s)') + (IF Spoils(s)' THEN 1 ELSE 0) <= crashes' + failures'
      BY <1>1, <1>6, <3>1, <3>2
    <3> QED BY <3>2, <3>3 DEF Paid
  <2> QED BY <2>2, <2>3
<1> QED BY <1>4, <1>5, <1>7, <1>8 DEF JInv

(* The second write: the newline, and the line is acknowledged               *)
(* (AppendNewline).  A line behind a torn one is spoiled now.                *)
LEMMA AppendNewlineStep ==
  ASSUME JInv, NEW a \in Appenders, AppendNewline(a)
  PROVE  JInv'
<1>0. PICK s, n, f, g : s = writing[a] /\ n = half[a] /\ f = file[s] /\ g = file'[s]
  OBVIOUS
<1>1. /\ s \in Journals /\ n \in Nat /\ n # 0
      /\ file' = [file EXCEPT ![s] = Append(@, 0)]
      /\ acked' = [acked EXCEPT ![s] = @ \cup {n}]
      /\ half' = [half EXCEPT ![a] = 0]
      /\ writing' = [writing EXCEPT ![a] = Nowhere]
      /\ writeLock' = IF s \in Locked THEN Nowhere ELSE writeLock
      /\ UNCHANGED <<lines, crashes, failures>>
  BY <1>0 DEF AppendNewline, Ends, JInv, JournalTypes, LockHeld, Newline
<1>2. f \in Seq(Nat) /\ g = Append(f, 0)
  BY <1>0, <1>1 DEF JInv, JournalTypes
<1>3. \A r \in Journals \ {s} : file'[r] = file[r] /\ acked'[r] = acked[r]
  BY <1>1 DEF JInv, JournalTypes
<1>4. /\ g \in Seq(Nat) /\ Len(g) = Len(f) + 1 /\ g[Len(g)] = 0
      /\ \A i \in 1..Len(f) : g[i] = f[i]
      /\ \A i \in 1..Len(f) - 1 : Alone(g, i) <=> Alone(f, i)
      /\ Len(f) > 0 => (Alone(g, Len(f)) <=> Alone(f, Len(f)))
  <2>1. f \in Seq(Nat) /\ 0 \in Nat /\ g = Append(f, 0)
    BY <1>2
  <2>2. Extended(f, 0, g)
    BY <2>1 DEF Extended
  <2>3. /\ \A i \in 1..Len(f) - 1 : Alone(g, i) <=> Alone(f, i)
        /\ Len(f) > 0 => (Alone(g, Len(f)) <=> Alone(f, Len(f)) /\ 0 = Newline)
    BY <2>1, <2>2, AloneAfterAppend
  <2> QED BY <2>2, <2>3 DEF Newline, Extended
<1>5. /\ \A i \in 1..Len(f) : f[i] <= lines /\ f[i] \in Nat
      /\ lines \in Nat /\ Len(f) \in Nat
  BY <1>0, <1>1, <1>2 DEF JInv, JournalTypes
<1>6. \A i \in 1..Len(g) : i \in 1..Len(f) \/ i = Len(g)
  BY <1>4, <1>5
<1>7. JournalTypes'
  <2>1. file' \in [Journals -> Seq(Nat)]
    BY <1>0, <1>1, <1>2, <1>4 DEF JInv, JournalTypes
  <2>2. ASSUME NEW r \in Journals, NEW i \in 1..Len(file'[r])
        PROVE  file'[r][i] <= lines'
    <3>1. CASE r = s
      <4>1. g[i] <= lines'
        BY <1>0, <1>1, <1>4, <1>5, <1>6, <3>1, <2>2
      <4> QED BY <1>0, <3>1, <4>1
    <3>2. CASE r # s
      <4>1. file'[r] = file[r]
        BY <1>3, <3>2
      <4>2. file[r][i] <= lines
        BY <2>2, <4>1 DEF JInv, JournalTypes
      <4> QED BY <1>1, <4>1, <4>2
    <3> QED BY <3>1, <3>2
  <2>3. acked' \in [Journals -> SUBSET Nat]
    BY <1>1 DEF JInv, JournalTypes
  <2> QED BY <1>1, <2>1, <2>2, <2>3 DEF JInv, JournalTypes
<1>8. \A b \in Appenders \ {a} : writing'[b] = writing[b] /\ half'[b] = half[b]
  BY <1>1 DEF JInv, JournalTypes
<1>9. writing'[a] = Nowhere /\ half'[a] = 0
  BY <1>1 DEF JInv, JournalTypes
<1>10. LockHeld'
  <2>1. ASSUME NEW b \in Appenders, writing'[b] \in Locked PROVE writeLock' = b
    <3>1. b # a /\ writing[b] \in Locked
      BY <1>8, <1>9, <2>1, JsonLinesAssumption
    <3>2. writeLock = b /\ s \notin Locked
      BY <1>0, <3>1 DEF JInv, LockHeld
    <3> QED BY <1>1, <3>2
  <2>2. \A b \in Appenders : half'[b] # 0 => writing'[b] # Nowhere
    BY <1>8, <1>9 DEF JInv, LockHeld
  <2> QED BY <2>1, <2>2 DEF LockHeld
<1>11. ASSUME NEW r \in Locked, r # s PROVE LockedFile(r)' /\ Paid(r)'
  <2>1. file'[r] = file[r] /\ acked'[r] = acked[r] /\ crashes' = crashes /\ failures' = failures
    BY <1>1, <1>3, <1>11, JsonLinesAssumption
  <2>2. \A b \in Appenders :
          (writing[b] = r /\ half[b] # 0)' <=> writing[b] = r /\ half[b] # 0
    BY <1>0, <1>8, <1>9, <1>11
  <2>3. \A b \in Appenders : writing[b] = r => half'[b] = half[b]
    BY <1>0, <1>8, <1>11
  <2>4. Paid(r)'
    <3>1. Appending(r)' <=> Appending(r)
      BY <2>2 DEF Appending
    <3> QED BY <2>1, <3>1, PaidUntouched
  <2>5. LockedFile(r)'
    <3>1. LockedFile(r)
      BY DEF JInv
    <3>2. \A b \in Appenders : (writing[b] = r /\ half[b] # 0)' =>
            Len(file'[r]) > 0 /\ file'[r][Len(file'[r])] = half'[b]
      BY <2>1, <2>2, <2>3, <3>1 DEF LockedFile
    <3> QED BY <2>1, <3>1, <3>2 DEF LockedFile
  <2> QED BY <2>4, <2>5
<1>12. ASSUME s \in Locked PROVE LockedFile(s)' /\ Paid(s)'
  <2>1. LockedFile(s) /\ Paid(s) /\ Len(f) > 0 /\ f[Len(f)] = n
    BY <1>0, <1>1, <1>12 DEF JInv, LockedFile
  <2>2. /\ Appending(s)
        /\ \A b \in Appenders : writing'[b] # s
    <3>1. \A b \in Appenders : writing[b] = s => b = a
      BY <1>0, <1>12, OnlyAppender
    <3>2. s # Nowhere
      BY <1>1, JsonLinesAssumption
    <3> QED BY <1>0, <1>1, <1>8, <1>9, <3>1, <3>2 DEF Appending
  <2>3. acked'[s] = acked[s] \cup {n} /\ n # Newline
    BY <1>1 DEF JInv, JournalTypes, Newline
  <2>4. \A i, k \in 1..Len(g) : g[i] = g[k] /\ g[i] # Newline => i = k
    <3> SUFFICES ASSUME NEW i \in 1..Len(g), NEW k \in 1..Len(g),
                        g[i] = g[k], g[i] # Newline
                 PROVE  i = k
      OBVIOUS
    <3>1. i \in 1..Len(f) /\ k \in 1..Len(f)
      BY <1>4, <1>6 DEF Newline
    <3>2. f[i] = g[i] /\ f[k] = g[k]
      BY <1>4, <3>1
    <3>3. \A j, l \in 1..Len(f) : f[j] = f[l] /\ f[j] # Newline => j = l
      BY <1>0, <2>1 DEF LockedFile
    <3> QED BY <3>1, <3>2, <3>3
  <2>5. Len(f) \in 1..Len(f) /\ Len(f) \in 1..Len(g) - 1 /\ Len(f) + 1 = Len(g)
    BY <1>4, <1>5, <2>1
  <2>6. ASSUME NEW m \in acked[s]
        PROVE  \E i \in 1..Len(f) - 1 : i \in 1..Len(f) /\ i \in 1..Len(g) - 1
                 /\ g[i] = m /\ f[i] = m /\ g[i + 1] = Newline /\ m # Newline
    <3>1. PICK i \in 1..Len(f) - 1 : f[i] = m /\ f[i + 1] = Newline /\ m # Newline
      BY <1>0, <2>1, <2>6 DEF LockedFile
    <3>2. i \in 1..Len(f) /\ i + 1 \in 1..Len(f) /\ i \in 1..Len(g) - 1
      BY <1>4, <1>5, <3>1
    <3> QED BY <1>4, <3>1, <3>2
  <2>7. ASSUME NEW m \in acked'[s]
        PROVE  m # Newline /\ \E i \in 1..Len(g) - 1 : g[i] = m /\ g[i + 1] = Newline
    <3>1. CASE m = n
      <4>1. g[Len(f)] = n /\ g[Len(f) + 1] = Newline
        BY <1>4, <2>1, <2>5 DEF Newline
      <4> QED BY <2>3, <2>5, <3>1, <4>1
    <3>2. CASE m \in acked[s]
      BY <2>6, <3>2
    <3> QED BY <2>3, <2>7, <3>1, <3>2
  <2>8. LockedFile(s)'
    BY <1>0, <2>2, <2>4, <2>7 DEF LockedFile
  <2>9. ~Spoils(s)'
    BY <1>0, <1>4 DEF Spoils, Newline
  <2>10. Spoiled(s)' \subseteq Spoiled(s) \cup (IF Spoils(s) THEN {n} ELSE {})
    <3> SUFFICES ASSUME NEW m \in acked'[s], NEW k \in 1..Len(g),
                        g[k] = m, ~Alone(g, k)
                 PROVE  m \in Spoiled(s) \/ (m = n /\ Spoils(s))
      BY <1>0 DEF Spoiled
    <3>1. CASE m \in acked[s]
      <4>1. PICK i \in 1..Len(f) - 1 : i \in 1..Len(f) /\ i \in 1..Len(g) - 1
                 /\ g[i] = m /\ f[i] = m /\ g[i + 1] = Newline /\ m # Newline
        BY <2>6, <3>1
      <4>2. i \in 1..Len(g)
        BY <1>4, <1>5, <4>1
      <4>3. k = i
        BY <2>4, <4>1, <4>2
      <4>4. ~Alone(f, i)
        BY <1>4, <4>1, <4>3
      <4> QED BY <1>0, <3>1, <4>1, <4>4 DEF Spoiled
    <3>2. CASE m = n
      <4>1. Len(f) \in 1..Len(g) /\ g[Len(f)] = n
        BY <1>4, <1>5, <2>1, <2>5
      <4>2. k = Len(f)
        BY <2>3, <2>4, <3>2, <4>1
      <4>3. ~Alone(f, Len(f))
        BY <1>4, <2>1, <4>2
      <4> QED BY <1>0, <2>1, <2>3, <3>2, <4>3 DEF Spoils
    <3> QED BY <2>3, <3>1, <3>2
  <2>11. Paid(s)'
    <3> DEFINE more == IF Spoils(s) THEN {n} ELSE {}
               bound == Spoiled(s) \cup more
    <3>1. /\ IsFiniteSet(Spoiled(s)) /\ Cardinality(Spoiled(s)) \in Nat
          /\ Cardinality(Spoiled(s)) + (IF Spoils(s) THEN 1 ELSE 0) <= crashes + failures
      BY <2>1, FS_CardinalityType DEF Paid
    <3>2. IsFiniteSet(bound) /\ Cardinality(bound) <= crashes + failures
      <4>1. CASE Spoils(s)
        <5>1. bound = Spoiled(s) \cup {n}
          BY <4>1
        <5>2. /\ IsFiniteSet(Spoiled(s) \cup {n})
              /\ Cardinality(Spoiled(s) \cup {n}) <= Cardinality(Spoiled(s)) + 1
          <6>1. /\ IsFiniteSet(Spoiled(s) \cup {n})
                /\ Cardinality(Spoiled(s) \cup {n}) =
                     IF n \in Spoiled(s) THEN Cardinality(Spoiled(s))
                     ELSE Cardinality(Spoiled(s)) + 1
            BY <3>1, FS_AddElement, Zenon
          <6> QED BY <3>1, <6>1
        <5>3. Cardinality(Spoiled(s) \cup {n}) \in Nat
          BY <5>2, FS_CardinalityType
        <5> QED BY <3>1, <4>1, <5>1, <5>2, <5>3 DEF JInv, JournalTypes
      <4>2. CASE ~Spoils(s)
        <5>1. bound = Spoiled(s)
          BY <4>2
        <5> QED BY <3>1, <4>2, <5>1 DEF JInv, JournalTypes
      <4> QED BY <4>1, <4>2
    <3>3. /\ IsFiniteSet(Spoiled(s)') /\ Cardinality(Spoiled(s)') <= Cardinality(bound)
          /\ Cardinality(Spoiled(s)') \in Nat /\ Cardinality(bound) \in Nat
      BY <2>10, <3>2, FS_Subset, FS_CardinalityType
    <3>4. Cardinality(Spoiled(s)') + 0 <= crashes' + failures'
      BY <1>1, <3>2, <3>3 DEF JInv, JournalTypes
    <3> QED BY <2>9, <3>3, <3>4 DEF Paid
  <2> QED BY <2>8, <2>11
<1> QED BY <1>0, <1>7, <1>10, <1>11, <1>12 DEF JInv

(* A crash may leave a line torn, and is counted (JLCrash). *)
LEMMA JLCrashStep ==
  ASSUME JInv, JLCrash
  PROVE  JInv'
<1>1. JournalTypes' /\ LockHeld'
  BY JsonLinesAssumption DEF JInv, JournalTypes, LockHeld, JLCrash
<1>2. ASSUME NEW s \in Locked PROVE LockedFile(s)' /\ Paid(s)'
  <2>1. LockedFile(s)'
    BY DEF JInv, LockedFile, JLCrash
  <2>2. Spoiled(s)' = Spoiled(s)
    BY DEF JLCrash, Spoiled
  <2>3. /\ IsFiniteSet(Spoiled(s)) /\ Cardinality(Spoiled(s)) \in Nat
        /\ Cardinality(Spoiled(s)) + (IF Spoils(s) THEN 1 ELSE 0) <= crashes + failures
    BY FS_CardinalityType DEF JInv, Paid
  <2>4. Cardinality(Spoiled(s)) + (IF Spoils(s)' THEN 1 ELSE 0) <= crashes' + failures'
    BY <2>3 DEF JLCrash, JInv, JournalTypes
  <2> QED BY <2>1, <2>2, <2>3, <2>4 DEF Paid
<1> QED BY <1>1, <1>2 DEF JInv

(* Every step of an append and every crash (persistence.rs, store.rs).       *)
LEMMA NextPreservesJInv ==
  ASSUME JInv, [JLNext]_jlVars
  PROVE  JInv'
<1>1. CASE UNCHANGED jlVars
  <2>1. JournalTypes' /\ LockHeld'
    BY <1>1 DEF jlVars, JInv, JournalTypes, LockHeld
  <2>2. ASSUME NEW s \in Locked PROVE LockedFile(s)' /\ Paid(s)'
    <3>1. Paid(s)'
      BY <1>1, PaidUntouched DEF jlVars, Appending
    <3>2. LockedFile(s)'
      BY <1>1 DEF jlVars, JInv, LockedFile
    <3> QED BY <3>1, <3>2
  <2> QED BY <2>1, <2>2 DEF JInv
<1> QED BY <1>1, BeginAppendStep, AppendJsonStep, AppendNewlineStep, AppendFailsStep, JLCrashStep
        DEF JLNext

(* Every policy proposal that append acknowledged stands in its file, and    *)
(* on a line of its own but for one a crash or failed append, for any number *)
(* of threads, journals, crashes and failures (analysis/store.rs).           *)
THEOREM JournalLosesOnePerFault == JLSpec => []LockedLosesOnePerFault
<1>1. ASSUME JInv PROVE LockedLosesOnePerFault
  <2> SUFFICES ASSUME NEW s \in Locked
               PROVE  /\ \A n \in acked[s] : \E i \in 1..Len(file[s]) : file[s][i] = n
                      /\ Cardinality(Spoiled(s)) <= crashes + failures
    BY DEF LockedLosesOnePerFault
  <2>1. ASSUME NEW n \in acked[s] PROVE \E i \in 1..Len(file[s]) : file[s][i] = n
    <3>1. PICK i \in 1..Len(file[s]) - 1 : file[s][i] = n
      BY <1>1 DEF JInv, LockedFile
    <3>2. file[s] \in Seq(Nat)
      BY <1>1, JsonLinesAssumption DEF JInv, JournalTypes
    <3> QED BY <3>1, <3>2
  <2>2. /\ IsFiniteSet(Spoiled(s)) /\ Cardinality(Spoiled(s)) \in Nat
        /\ Cardinality(Spoiled(s)) + (IF Spoils(s) THEN 1 ELSE 0) <= crashes + failures
    BY <1>1, FS_CardinalityType DEF JInv, Paid
  <2>3. crashes \in Nat /\ failures \in Nat
    BY <1>1 DEF JInv, JournalTypes
  <2>4. Cardinality(Spoiled(s)) <= crashes + failures
    BY <2>2, <2>3
  <2> QED BY <2>1, <2>4
<1> QED BY <1>1, InitEstablishesJInv, NextPreservesJInv, PTL DEF JLSpec

===============================================================================
