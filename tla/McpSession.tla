------------------------------ MODULE McpSession ------------------------------
(***************************************************************************)
(* The MCP client (mcp.rs): one server process per list or call, a thread  *)
(* that reads its lines into a channel, and requests with ids 1, 2, ...    *)
(* whose answers are looked for among everything the server writes.        *)
(*                                                                         *)
(* The server is external: it answers requests late, twice, with an error  *)
(* or without the fields wanted, and writes notifications and requests of  *)
(* its own.  Session numbers tell processes apart.                         *)
(***************************************************************************)
EXTENDS Naturals, Sequences

CONSTANTS
  Tools,      \* names a caller may ask for
  Allowed,    \* is_allowed_tool_name
  ServerIds,  \* ids the server gives its own requests
  MaxSessions, MaxReplies   \* bounds: sessions, lines written in one

ASSUME McpAssumption ==
  /\ Allowed \subseteq Tools
  /\ ServerIds \subseteq Nat /\ MaxSessions \in Nat /\ MaxReplies \in Nat

VARIABLES
  session,   \* number of the last session
  step,      \* where the caller stands
  asks,      \* what it was called for
  nextId,    \* next_id
  asked,     \* the server's stdin: requests, in the order of their ids
  alive,     \* sessions whose server process lives
  pipe,      \* lines of stdout the reader thread has not read
  lineQueue, \* lines in the channel
  written,   \* lines written in this session
  outcome    \* what the caller got

mcpLink == <<nextId, asked, alive, pipe, lineQueue, written>>
mcpVars == <<session, step, asks, outcome, mcpLink>>

NoResult == [is |-> "none"]

MCPInit ==
  /\ session = 0 /\ step = "idle" /\ asks = [does |-> "list"]
  /\ nextId = 1 /\ asked = <<>> /\ alive = {} /\ pipe = <<>> /\ lineQueue = <<>>
  /\ written = 0 /\ outcome = NoResult

MethodOf(j) == IF j.does = "list" THEN "tools/list" ELSE "tools/call"

Send(method) ==
  /\ asked' = Append(asked, [id |-> nextId, method |-> method, of |-> asks'])
  /\ nextId' = nextId + 1

(* list_tools, or call_tool: a name that is not released never reaches a     *)
(* server, and without a command there is none.  spawn gives the session its *)
(* own process, channel and ids; initialize is the first request.            *)
OpenSession(j) ==
  /\ step \in {"idle", "returned"} /\ session < MaxSessions
  /\ session' = session + 1
  /\ asks' = j /\ outcome' = NoResult
  /\ pipe' = <<>> /\ lineQueue' = <<>> /\ written' = 0
  /\ step' = "initialize"
  /\ nextId' = 2
  /\ asked' = <<[id |-> 1, method |-> "initialize", of |-> j]>>
  /\ alive' = alive \cup {session + 1}

(* The name is refused, or the process does not start. *)
RefuseSession(j) ==
  /\ step \in {"idle", "returned"} /\ session < MaxSessions
  /\ session' = session + 1
  /\ asks' = j /\ outcome' = [is |-> "error"] /\ step' = "returned"
  /\ UNCHANGED mcpLink

Serves(j) ==
  IF j.does = "call" /\ j.name \notin Allowed
  THEN RefuseSession(j)
  ELSE OpenSession(j) \/ RefuseSession(j)

(* The session is dropped: kill, wait, and the receiver is gone.  Both the   *)
(* ends that return a result and those with ? pass it.                       *)
CloseSession(r) ==
  /\ step' = "returned" /\ outcome' = r
  /\ alive' = alive \ {session}
  /\ pipe' = <<>> /\ lineQueue' = <<>>
  /\ UNCHANGED <<session, asks, nextId, asked, written>>

-----------------------------------------------------------------------------
Write(line) ==
  /\ session \in alive /\ written < MaxReplies
  /\ pipe' = Append(pipe, line)
  /\ written' = written + 1
  /\ UNCHANGED <<session, step, asks, outcome, nextId, asked, alive, lineQueue>>

ServerAnswers(q, how) == Write([id |-> q.id, how |-> how, to |-> q])

(* Its own request, or a notification, which has no id; 0 stands for none.   *)
ServerTalks(id) == Write([id |-> id, how |-> "request"])

ServerDies ==
  /\ session \in alive
  /\ alive' = alive \ {session}
  /\ UNCHANGED <<session, step, asks, outcome, nextId, asked, pipe, lineQueue, written>>

ReaderThread ==
  /\ pipe # <<>>
  /\ lineQueue' = Append(lineQueue, Head(pipe))
  /\ pipe' = Tail(pipe)
  /\ UNCHANGED <<session, step, asks, outcome, nextId, asked, alive, written>>

-----------------------------------------------------------------------------
Waiting == step \in {"initialize", "tools/list", "tools/call"}

WantedId == nextId - 1

(* Seeded fault: the next line is taken for the answer. *)
IsAnswer(line) == TRUE

(* A line that is not JSON, has no id or another one is skipped. *)
IsMatch(line) == line.id = WantedId

SkipLine ==
  /\ Waiting /\ lineQueue # <<>> /\ ~IsMatch(Head(lineQueue))
  /\ lineQueue' = Tail(lineQueue)
  /\ UNCHANGED <<session, step, asks, outcome, nextId, asked, alive, pipe, written>>

(* initialize looks at no field of its answer.  The second request fails to  *)
(* be written when the server is gone.                                       *)
Initialized ==
  /\ step = "initialize" /\ lineQueue # <<>> /\ IsMatch(Head(lineQueue))
  /\ IF Head(lineQueue).how = "error" \/ session \notin alive
     THEN CloseSession([is |-> "error"])
     ELSE /\ lineQueue' = Tail(lineQueue)
          /\ step' = MethodOf(asks)
          /\ asks' = asks
          /\ Send(MethodOf(asks))
          /\ UNCHANGED <<session, outcome, alive, pipe, written>>

(* mcp_tool_definitions: of the listed tools those with a released name, and *)
(* none when the listing failed.                                             *)
Offered(listed) == listed \cap Allowed

(* An answer without result.tools or result.content is an error; so is one   *)
(* that reports an error and has no text.                                    *)
ResultReceived ==
  /\ step \in {"tools/list", "tools/call"}
  /\ lineQueue # <<>> /\ IsMatch(Head(lineQueue))
  /\ CloseSession(IF Head(lineQueue).how = "ok"
                  THEN [is |-> "ok", line |-> Head(lineQueue),
                        tools |-> IF asks.does = "list" THEN Offered(Tools) ELSE {}]
                  ELSE [is |-> "error"])

(* recv_timeout, from the last line on; a channel whose sender is gone says so *)
(* at once.                                                                  *)
GiveUp ==
  /\ Waiting /\ lineQueue = <<>>
  /\ CloseSession([is |-> "error"])

JobsOfCallers == {[does |-> "list"]} \cup [does : {"call"}, name : Tools]

MCPNext ==
  \/ \E j \in JobsOfCallers : Serves(j)
  \/ \E i \in 1..Len(asked), how \in {"ok", "error", "malformed"} :
       ServerAnswers(asked[i], how)
  \/ \E id \in ServerIds \cup {0} : ServerTalks(id)
  \/ ServerDies \/ ReaderThread
  \/ SkipLine \/ Initialized \/ ResultReceived \/ GiveUp

MCPSpec == MCPInit /\ [][MCPNext]_mcpVars

-----------------------------------------------------------------------------
(* What a caller gets as the result of a tool is the answer of this          *)
(* session's server to this very call, whatever else was written before it:  *)
(* late or repeated answers to initialize, notifications and requests of the *)
(* server (request compares ids and reads on); a name that is not released   *)
(* is offered by no list and reached no server; and a caller that has        *)
(* returned left no process behind (Drop).  A request of the server that     *)
(* bears the id of the call is taken for an answer without a result: an      *)
(* error, never the result of the call.                                      *)
ResultIsOwnAnswer ==
  /\ outcome.is = "ok" =>
       /\ outcome.line.how = "ok"
       /\ outcome.line.to.method = MethodOf(asks) /\ outcome.line.to.of = asks
       /\ outcome.tools \subseteq Allowed
  /\ \A i \in 1..Len(asked) :
       asked[i].of.does = "call" => asked[i].of.name \in Allowed
  /\ step = "returned" => alive = {}
=============================================================================
