------------------------------ MODULE RequestEdge -----------------------------
(***************************************************************************)
(* What the edge of the gateway takes: attachments (attachments.rs), chat  *)
(* and embedding requests (openai.rs), and the preparation of a prompt     *)
(* (prompt/): secrets refused, text compressed, tokens estimated and       *)
(* capped.                                                                 *)
(*                                                                         *)
(* A prompt is a sequence of lines, a line a fence or a sequence of words, *)
(* a word its kind and how many CJK and other characters it has.  The text *)
(* of an attachment is the sequence of the widths of its characters, with  *)
(* 0 for one that is not text.                                             *)
(***************************************************************************)
EXTENDS Naturals, SequencesExt

CONSTANTS
  MaxAttachments, MaxAttachmentBytes, MaxTotalBytes,
  ChunkBytes,     \* CHUNK_BYTES
  MaxCompletion,  \* MAX_COMPLETION_TOKENS
  TaskCap,        \* TASK_CAP, all three caps of PromptCaps::default
  NoId            \* an attachment that names no id

ASSUME EdgeAssumption ==
  /\ {MaxAttachments, MaxAttachmentBytes, MaxTotalBytes} \subseteq Nat
  /\ ChunkBytes \in Nat /\ ChunkBytes >= 4
  /\ MaxCompletion \in Nat /\ TaskCap \in Nat
  /\ NoId \notin Nat

Sum(list) == FoldSeq(LAMBDA n, total : n + total, 0, list)

-----------------------------------------------------------------------------
(* The id of the i-th attachment: attachment_<i> counts from 0, and may be   *)
(* what another one is named.                                                *)
IdOf(list, i) == IF list[i].id = NoId THEN i - 1 ELSE list[i].id

ValidAttachment(a) ==
  /\ a.plainName /\ a.plainId
  /\ a.knownExtension \/ a.knownMedia
  /\ a.text # <<>> /\ \A i \in DOMAIN a.text : a.text[i] > 0
  /\ Sum(a.text) <= MaxAttachmentBytes

(* AttachmentIndex::from_openai_request. *)
AcceptsAttachments(list) ==
  /\ Len(list) <= MaxAttachments
  /\ \A i \in DOMAIN list : ValidAttachment(list[i])
  /\ \A i, k \in DOMAIN list : i # k => IdOf(list, i) # IdOf(list, k)
  /\ Sum([i \in DOMAIN list |-> Sum(list[i].text)]) <= MaxTotalBytes

(* chunk_attachment: as many whole characters as fit, chunk after chunk. *)
ChunkCount(text) ==
  LET place[i \in 0..Len(text)] ==
        IF i = 0 THEN [chunks |-> 0, bytes |-> ChunkBytes]
        ELSE LET before == place[i - 1] IN
             IF before.bytes + text[i] <= ChunkBytes
             THEN [before EXCEPT !.bytes = @ + text[i]]
             ELSE [chunks |-> before.chunks + 1, bytes |-> text[i]]
  IN place[Len(text)].chunks

(* AttachmentIndex::read: one chunk, or (no chunk named) the whole text. *)
Readable(list, id, chunks) ==
  \E i \in DOMAIN list :
    /\ IdOf(list, i) = id
    /\ chunks \subseteq 0..(ChunkCount(list[i].text) - 1)

-----------------------------------------------------------------------------
(* compress: in a fence lines stay; outside, urls and fillers go, and lines  *)
(* that are empty or repeat the one before.  Empty lines at the end go.      *)
Compressed(line) ==
  [line EXCEPT !.words = SelectSeq(@, LAMBDA w : w.kind \notin {"url", "filler"})]

Compress(lines) ==
  LET after[i \in 0..Len(lines)] ==
        IF i = 0 THEN [text |-> <<>>, code |-> FALSE, previous |-> <<>>]
        ELSE LET s    == after[i - 1]
                 line == IF s.code THEN lines[i] ELSE Compressed(lines[i])
             IN  IF lines[i].fence
                 THEN [text |-> Append(s.text, lines[i]), code |-> ~s.code,
                       previous |-> <<>>]
                 ELSE IF ~s.code /\ line.words \in {<<>>, s.previous} THEN s
                 ELSE [s EXCEPT !.text = Append(@, line), !.previous = line.words]
      text == after[Len(lines)].text
      full == {i \in DOMAIN text : text[i].fence \/ text[i].words # <<>>}
  IN SubSeq(text, 1, Max(full \cup {0}))

(* estimate_tokens: a CJK character is a token, four others are; the spaces  *)
(* between words and the ends of lines but the last count.                   *)
Others(line) ==
  Sum([i \in DOMAIN line.words |-> line.words[i].other])
    + (IF line.words = <<>> THEN 0 ELSE Len(line.words) - 1)

EstimateTokens(lines) ==
  LET cjk   == Sum([i \in DOMAIN lines |->
                 Sum([k \in DOMAIN lines[i].words |-> lines[i].words[k].cjk])])
      other == Sum([i \in DOMAIN lines |-> Others(lines[i])])
                 + (IF lines = <<>> THEN 0 ELSE Len(lines) - 1)
  IN cjk + (other + 3) \div 4

ContainsSecret(lines) ==
  \E i \in DOMAIN lines : \E k \in DOMAIN lines[i].words :
    lines[i].words[k].kind = "secret"

(* caps::enforce. *)
Enforced(lines) == EstimateTokens(lines) <= TaskCap

(* prompt::prepare. *)
Prepares(lines) == ~ContainsSecret(lines) /\ Enforced(Compress(lines))

-----------------------------------------------------------------------------
(* The tools of is_allowed_tool_name; a chat may ask for these.              *)
AllowedTools ==
  {"read_attachment", "run_code", "read_file", "write_file", "list_files",
   "search_files", "patch_file", "git_status"}

ValidMessage(m) == m.role /\ (m.content # "none" \/ m.toolCalls)

(* chat_worker_body.  A content that is no string passes unprepared, and a   *)
(* max_tokens that is absent (0 here) is not limited.                        *)
AcceptsChat(r) ==
  /\ r.model /\ r.messages # <<>>
  /\ r.maxTokens <= MaxCompletion
  /\ \A i \in DOMAIN r.messages : ValidMessage(r.messages[i])
  /\ r.tools \subseteq AllowedTools
  /\ \A i \in DOMAIN r.messages :
       r.messages[i].content = "text" => Prepares(r.messages[i].text)

(* embeddings_worker_body: one text, or a list of texts and token arrays.    *)
(* Embedding input is not prepared.                                          *)
AcceptsEmbeddings(r) ==
  /\ r.model /\ r.input # <<>>
  /\ \A i \in DOMAIN r.input :
       \/ r.input[i].kind = "text" /\ r.input[i].length > 0
       \/ /\ ~r.single
          /\ r.input[i].kind = "integers" /\ r.input[i].length > 0
=============================================================================
