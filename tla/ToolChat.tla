------------------------------- MODULE ToolChat -------------------------------
(***************************************************************************)
(* A chat with tools: the handlers of /v1/chat/completions and             *)
(* /v1/embeddings, the loop that sends tool results back to the worker     *)
(* (run_chat_completion_with_tools of http.rs), and the tools that write   *)
(* the project (coding_tools.rs).  What they accept is in RequestEdge, how *)
(* the other tools end in ProjectTools.                                    *)
(*                                                                         *)
(* Every chat runs on the thread of its connection, without a lock while a *)
(* tool runs.  A file holds a text: Empty, or a text written for one       *)
(* target.  What a tool returns is only that it returned.                  *)
(***************************************************************************)
EXTENDS ProjectTools

CONSTANTS
  Chats,      \* connections; a later request reuses an identity
  Targets,    \* paths below the project root
  Stem,       \* the temporary file of a path: with_extension(tmp<pid>)
  Writes,     \* the targets a chat's worker asks to write
  OtherCalls, \* the other tool calls a worker may ask for
  MaxRounds,  \* MAX_TOOL_ROUNDS (4 in the code)
  MaxCalls,   \* bound: tool calls in one answer
  Usages,     \* token counts an answer may report
  Requests,   \* the chat requests that come in
  Embeddings, \* the embedding requests that come in
  MaxChats,   \* bound: requests in a behaviour
  NoText

Empty == "empty"
Stems == {Stem[p] : p \in Targets}

ASSUME ToolChatAssumption ==
  /\ Writes \in [Chats -> SUBSET Targets]
  /\ MaxRounds \in Nat /\ MaxCalls \in Nat /\ MaxChats \in Nat
  /\ Usages \subseteq Nat
  /\ NoText \notin Targets /\ Empty \notin Targets /\ Empty # NoText
  /\ {"none", "gone"} \cap (Targets \cup Stems) = {}
  \* Nobody asks to write a path that is itself named tmp<pid>.
  /\ Targets \cap Stems = {}

VARIABLES
  texts,    \* the text at a target
  temp,     \* the text in a temporary file
  fd,       \* where the file lies that a chat has open for writing
  shared,   \* the temporary files two writes had at one time (history)
  doing,    \* where the thread of a chat stands
  attached, \* the attachments of its request
  onto,     \* the target of its write
  calls,    \* tool calls of the last answer it has not made
  executed, \* results of this round
  reportedBack, \* tool results in worker_body
  made,     \* tool calls made in this chat (history)
  round,
  usage,    \* total_usage: None is 0 here, with reported below
  spent,    \* tokens of all answers (history)
  shown,    \* the usage the client is shown
  chats     \* requests so far

tcFiles == <<texts, temp, fd, shared>>
tcLoop  == <<calls, executed, reportedBack, made, round, usage, spent, shown>>
tcVars  == <<tcFiles, doing, attached, onto, tcLoop, chats>>

TCInit ==
  /\ texts = [p \in Targets |-> p]
  /\ temp = [s \in Stems |-> NoText]
  /\ fd = [c \in Chats |-> "none"]
  /\ shared = {}
  /\ doing = [c \in Chats |-> "idle"]
  /\ attached = [c \in Chats |-> <<>>]
  /\ onto = [c \in Chats |-> NoText]
  /\ calls = [c \in Chats |-> 0]
  /\ executed = [c \in Chats |-> 0]
  /\ reportedBack = [c \in Chats |-> 0]
  /\ made = [c \in Chats |-> 0]
  /\ round = [c \in Chats |-> 0]
  /\ usage = [c \in Chats |-> 0]
  /\ spent = [c \in Chats |-> 0]
  /\ shown = [c \in Chats |-> 0]
  /\ chats = 0

-----------------------------------------------------------------------------
End(c, at) == doing' = [doing EXCEPT ![c] = at]

Resting(c) == doing[c] \in {"idle", "answered", "failed"}

(* A chat request that a tool loop or a stream may follow.  With attachments *)
(* the worker is offered read_attachment alone; a stream goes through to the *)
(* client without a tool loop, and has no attachments.                       *)
Accepted(r) ==
  /\ AcceptsAttachments(r.attachments) /\ AcceptsChat(r)
  /\ ~(r.stream /\ r.attachments # <<>>)

(* handle_v1_chat. *)
ChatRequest(c) ==
  /\ Resting(c)
  /\ chats < MaxChats
  /\ chats' = chats + 1
  /\ \E r \in Requests :
       /\ End(c, IF ~Accepted(r) THEN "failed"
                 ELSE IF r.stream THEN "answered" ELSE "ask")
       /\ attached' = [attached EXCEPT ![c] = IF Accepted(r) THEN r.attachments ELSE <<>>]
  /\ calls' = [calls EXCEPT ![c] = 0]
  /\ executed' = [executed EXCEPT ![c] = 0]
  /\ reportedBack' = [reportedBack EXCEPT ![c] = 0]
  /\ made' = [made EXCEPT ![c] = 0]
  /\ round' = [round EXCEPT ![c] = 0]
  /\ usage' = [usage EXCEPT ![c] = 0]
  /\ spent' = [spent EXCEPT ![c] = 0]
  /\ shown' = [shown EXCEPT ![c] = 0]
  /\ UNCHANGED <<tcFiles, onto>>

(* handle_v1_embeddings: one request to the worker, and its data or a 502. *)
EmbeddingsRequest(c) ==
  /\ Resting(c)
  /\ chats < MaxChats
  /\ chats' = chats + 1
  /\ \E r \in Embeddings : End(c, IF AcceptsEmbeddings(r) THEN "embed" ELSE "failed")
  /\ UNCHANGED <<tcFiles, attached, onto, tcLoop>>

EmbeddingsReturn(c) ==
  /\ doing[c] = "embed"
  /\ End(c, "idle") \/ End(c, "failed")
  /\ UNCHANGED <<tcFiles, attached, onto, tcLoop, chats>>

-----------------------------------------------------------------------------
(* Seeded fault: the client sees the usage of the last answer. *)
WorkerAnswersLast(c) ==
  /\ doing[c] = "ask"
  /\ \E n \in 0..MaxCalls, tokens \in Usages :
       /\ usage' = [usage EXCEPT ![c] = tokens]
       /\ spent' = [spent EXCEPT ![c] = @ + tokens]
       /\ calls' = [calls EXCEPT ![c] = n]
       /\ shown' = [shown EXCEPT ![c] = IF n = 0 THEN tokens ELSE @]
       /\ End(c, IF n = 0 THEN "answered" ELSE "call")
  /\ UNCHANGED <<tcFiles, attached, onto, executed, reportedBack, made, round, chats>>

(* proxy_active_worker_json, accumulate_usage, normalize_chat_response.  An  *)
(* answer without tool calls is the last; apply_usage puts the sum into it.  *)
WorkerAnswers(c) ==
  /\ doing[c] = "ask"
  /\ \E n \in 0..MaxCalls, tokens \in Usages :
       /\ usage' = [usage EXCEPT ![c] = @ + tokens]
       /\ spent' = [spent EXCEPT ![c] = @ + tokens]
       /\ calls' = [calls EXCEPT ![c] = n]
       /\ shown' = [shown EXCEPT ![c] = IF n = 0 THEN usage[c] + tokens ELSE @]
       /\ End(c, IF n = 0 THEN "answered" ELSE "call")
  /\ UNCHANGED <<tcFiles, attached, onto, executed, reportedBack, made, round, chats>>

(* No worker, a changed model, a cancelled request or an answer that is no   *)
(* chat completion.                                                          *)
WorkerFails(c) ==
  /\ doing[c] = "ask"
  /\ End(c, "failed")
  /\ UNCHANGED <<tcFiles, attached, onto, tcLoop, chats>>

Calling(c) == doing[c] = "call" /\ calls[c] > 0

Made(c) ==
  /\ calls' = [calls EXCEPT ![c] = @ - 1]
  /\ executed' = [executed EXCEPT ![c] = @ + 1]
  /\ made' = [made EXCEPT ![c] = @ + 1]
  /\ UNCHANGED <<reportedBack, round, usage, spent, shown>>

(* execute_tool_calls makes the calls in turn.  A call that is no write      *)
(* leaves the targets as they are; of a command of run_code that is an       *)
(* assumption.                                                               *)
OtherCall(c) ==
  /\ Calling(c)
  /\ \E call \in OtherCalls : "result" \in Outcomes(call, attached[c])
  /\ Made(c)
  /\ UNCHANGED <<tcFiles, doing, attached, onto, chats>>

(* The first call that fails fails the chat.  What the calls before it did   *)
(* remains.                                                                  *)
CallFails(c) ==
  /\ Calling(c)
  /\ \E call \in OtherCalls : "error" \in Outcomes(call, attached[c])
  /\ End(c, "failed")
  /\ UNCHANGED <<tcFiles, attached, onto, tcLoop, chats>>

(* A panic ends the thread of the connection, which is never counted off.    *)
CallPanics(c) ==
  /\ Calling(c)
  /\ \E call \in OtherCalls : "panic" \in Outcomes(call, attached[c])
  /\ End(c, "gone")
  /\ UNCHANGED <<tcFiles, attached, onto, tcLoop, chats>>

-----------------------------------------------------------------------------
(* write_file and patch_file: create or truncate the temporary file, write   *)
(* the whole text, rename.  A patch has read the target before.              *)

(* The open files of chats, when the name from is given to something else. *)
Moved(from, to) ==
  [c \in Chats |-> IF fd[c] = from THEN to ELSE fd[c]]

Writing(at) == at \in {"create", "write", "rename"}

(* A write of c onto p begins.  The name of its temporary file depends on    *)
(* the path without its extension and on the process, and nothing looks      *)
(* whether another thread is at it.                                          *)
BeginWrite(c, p) ==
  /\ onto' = [onto EXCEPT ![c] = p]
  /\ shared' = shared \cup
       {Stem[onto[d]] : d \in {e \in Chats : Writing(doing[e]) /\ Stem[onto[e]] = Stem[p]}}
  /\ End(c, "create")
  /\ UNCHANGED <<texts, temp, fd, attached, tcLoop, chats>>

WriteCall(c) ==
  /\ Calling(c)
  /\ \E p \in Writes[c] : BeginWrite(c, p)

PatchCall(c) ==
  /\ Calling(c)
  /\ \E p \in Writes[c] : texts[p] = p /\ BeginWrite(c, p)

(* Seeded fault: the target itself is opened for writing. *)
CreateTarget(c) ==
  /\ doing[c] = "create"
  /\ texts' = [texts EXCEPT ![onto[c]] = Empty]
  /\ fd' = [fd EXCEPT ![c] = onto[c]]
  /\ End(c, "write")
  /\ UNCHANGED <<temp, shared, attached, onto, tcLoop, chats>>

CreateTemp(c) ==
  LET s == Stem[onto[c]] IN
  /\ doing[c] = "create"
  /\ temp' = [temp EXCEPT ![s] = Empty]
  /\ fd' = [fd EXCEPT ![c] = s]
  /\ End(c, "write")
  /\ UNCHANGED <<texts, shared, attached, onto, tcLoop, chats>>

WriteTemp(c) ==
  /\ doing[c] = "write"
  /\ temp' = IF fd[c] \in Stems THEN [temp EXCEPT ![fd[c]] = onto[c]] ELSE temp
  /\ texts' = IF fd[c] \in Targets THEN [texts EXCEPT ![fd[c]] = onto[c]] ELSE texts
  /\ fd' = [fd EXCEPT ![c] = "none"]
  /\ End(c, "rename")
  /\ UNCHANGED <<shared, attached, onto, tcLoop, chats>>

RenameTemp(c) ==
  LET p == onto[c]
      s == Stem[p]
  IN
  /\ doing[c] = "rename"
  /\ onto' = [onto EXCEPT ![c] = NoText]
  /\ IF temp[s] = NoText
     THEN End(c, "failed") /\ UNCHANGED <<tcFiles, tcLoop>>
     ELSE /\ texts' = [texts EXCEPT ![p] = temp[s]]
          /\ temp' = [temp EXCEPT ![s] = NoText]
          /\ fd' = [i \in Chats |-> IF fd[i] = p THEN "gone" ELSE Moved(s, p)[i]]
          /\ UNCHANGED shared
          /\ End(c, "call")
          /\ Made(c)
  /\ UNCHANGED <<attached, chats>>

(* The disk is full, or the directory is gone: what is written stays in the  *)
(* temporary file.                                                           *)
WriteFails(c) ==
  /\ Writing(doing[c])
  /\ fd' = [fd EXCEPT ![c] = "none"]
  /\ onto' = [onto EXCEPT ![c] = NoText]
  /\ End(c, "failed")
  /\ UNCHANGED <<texts, temp, shared, attached, tcLoop, chats>>

-----------------------------------------------------------------------------
(* All calls of the answer are made.  The limit is looked at only now;       *)
(* otherwise append_tool_results adds the answer and the results.            *)
NextRound(c) ==
  /\ doing[c] = "call" /\ calls[c] = 0
  /\ IF round[c] = MaxRounds
     THEN End(c, "failed") /\ UNCHANGED <<reportedBack, executed, round>>
     ELSE /\ reportedBack' = [reportedBack EXCEPT ![c] = @ + executed[c]]
          /\ executed' = [executed EXCEPT ![c] = 0]
          /\ round' = [round EXCEPT ![c] = @ + 1]
          /\ End(c, "ask")
  /\ UNCHANGED <<tcFiles, attached, onto, calls, made, usage, spent, shown, chats>>

(* The process dies and starts again. *)
TCCrash ==
  /\ \E c \in Chats : ~Resting(c)
  /\ doing' = [c \in Chats |-> "idle"]
  /\ attached' = [c \in Chats |-> <<>>]
  /\ fd' = [c \in Chats |-> "none"]
  /\ onto' = [c \in Chats |-> NoText]
  /\ UNCHANGED <<texts, temp, shared, tcLoop, chats>>

TCNext ==
  \/ \E c \in Chats :
       \/ ChatRequest(c) \/ EmbeddingsRequest(c) \/ EmbeddingsReturn(c)
       \/ WorkerAnswers(c) \/ WorkerFails(c)
       \/ OtherCall(c) \/ CallFails(c) \/ CallPanics(c) \/ WriteCall(c) \/ PatchCall(c)
       \/ CreateTemp(c) \/ WriteTemp(c) \/ RenameTemp(c) \/ WriteFails(c)
       \/ NextRound(c)
  \/ TCCrash

TCSpec == TCInit /\ [][TCNext]_tcVars

-----------------------------------------------------------------------------
(* coding_tools.rs 11: writes are atomic (temporary file and rename).  At    *)
(* every moment, a crash included, a target holds a whole text that was      *)
(* meant for it.                                                             *)
WritesAreAtomic == \A p \in Targets : texts[p] = p

(* How far that goes: the same, at every moment and through every failure    *)
(* and crash, for a target whose temporary file no two writes of one process *)
(* ever had at one time.  Writes of other targets, at any time, do not harm  *)
(* it, and neither does what an earlier write left in its temporary file.    *)
LoneWritesAreAtomic == \A p \in Targets : Stem[p] \notin shared => texts[p] = p

(* A chat that is answered accounts for all of it: the usage shown is that   *)
(* of all rounds (accumulate_usage, apply_usage), every tool that ran had    *)
(* its result sent to the worker before the answer, and there were no more   *)
(* than MAX_TOOL_ROUNDS rounds of tools.                                     *)
AnswerAccountsForRounds ==
  \A c \in Chats : doing[c] = "answered" =>
    /\ shown[c] = spent[c]
    /\ reportedBack[c] = made[c]
    /\ round[c] <= MaxRounds
=============================================================================
