----------------------------- MODULE ProjectTools -----------------------------
(***************************************************************************)
(* The tools a model may call on the project (coding_tools.rs): which      *)
(* paths they take, what they visit, and how they can end.  A call ends    *)
(* with a result, with an error that fails the chat, or in a panic.        *)
(*                                                                         *)
(* A path is a sequence of components; the tree gives every path of the    *)
(* project, <<>> being its root, what is there.                            *)
(***************************************************************************)
EXTENDS RequestEdge

CONSTANTS
  Tree,           \* path -> [kind, inside, readable, bytes, straddles, hits, ext];
                  \* nothing below a directory that cannot be read
  SkippedNames,   \* .git, target, node_modules
  MaxDepth,       \* depth of walk and search
  MaxListEntries, \* MAX_LIST_ENTRIES
  MaxResponse,    \* MAX_TOOL_RESPONSE_BYTES
  PipeBuffer,     \* what a pipe takes while nobody reads it
  MaxSeconds      \* timeout_secs is clamped to 1..MaxSeconds

ASSUME ToolsAssumption ==
  /\ <<>> \in DOMAIN Tree
  /\ \A p \in DOMAIN Tree : p # <<>> => Front(p) \in DOMAIN Tree
  /\ {MaxDepth, MaxListEntries, MaxResponse, PipeBuffer, MaxSeconds} \subseteq Nat

InProject(path) == path \in DOMAIN Tree
IsDir(path) == InProject(path) /\ Tree[path].kind = "dir"

-----------------------------------------------------------------------------
(* safe_relative_path: no absolute path and no "..", "." goes; what exists   *)
(* of the path, the nearest ancestor at least, lies in the project.          *)
Resolved(raw) == SelectSeq(raw, LAMBDA name : name # ".")

Nearest(path) ==
  LET known == {n \in 0..Len(path) : InProject(SubSeq(path, 1, n))} IN
  SubSeq(path, 1, CHOOSE n \in known : \A m \in known : m <= n)

SafeRelativePath(raw) ==
  /\ raw # <<>>
  /\ \A i \in DOMAIN raw : raw[i] \notin {"/", ".."}
  /\ LET path == Resolved(raw)
         near == Nearest(path)
     IN Tree[near].inside /\ (near = path \/ IsDir(near))

-----------------------------------------------------------------------------
(* walk and search go down to MaxDepth, past the names they skip. *)
Below(base) ==
  {p \in DOMAIN Tree :
     /\ p # base /\ IsPrefix(base, p)
     /\ Len(p) - Len(base) <= MaxDepth + 1
     /\ \A i \in (Len(base) + 1)..Len(p) : p[i] \notin SkippedNames}

Visited(base) ==
  {base} \cup {p \in Below(base) : IsDir(p) /\ Len(p) - Len(base) <= MaxDepth}

AllReadable(base) ==
  \A d \in Visited(base) : IsDir(d) /\ Tree[d].readable

Hits(base, ext) ==
  LET files == {p \in Below(base) :
                  /\ Tree[p].kind = "file" /\ Tree[p].readable
                  /\ ext \in {"any", Tree[p].ext}}
  IN MapThenSumSet(LAMBDA p : Tree[p].hits, files)

-----------------------------------------------------------------------------
(* Text is cut at a byte: in the middle of a character, that is a panic. *)
Truncated(out) ==
  IF out.bytes > MaxResponse /\ out.straddles THEN {"panic"} ELSE {"result"}

ReadFile(call) ==
  LET path == Resolved(call.path) IN
  IF ~SafeRelativePath(call.path) \/ ~InProject(path) THEN {"error"}
  ELSE IF Tree[path].kind # "file" \/ ~Tree[path].readable THEN {"error"}
  ELSE Truncated(Tree[path])

(* One directory that cannot be read fails the listing. *)
ListFiles(call) ==
  IF SafeRelativePath(call.path) /\ AllReadable(Resolved(call.path))
  THEN {"result"} ELSE {"error"}

(* A search that has its hits stops before it meets such a directory, or     *)
(* not: the order of a directory is not given.                               *)
SearchFiles(call) ==
  IF ~SafeRelativePath(call.path) THEN {"error"}
  ELSE IF AllReadable(Resolved(call.path)) THEN {"result"}
  ELSE IF Hits(Resolved(call.path), call.ext) >= MaxListEntries
  THEN {"result", "error"} ELSE {"error"}

(* git may fail whatever it is asked. *)
GitStatus(call) ==
  IF call.format \in {"status", "diffstat", "diff"}
  THEN {"result", "error"} ELSE {"error"}

(* run_sandbox reads the pipes of the command only when it has ended: one    *)
(* that writes more than a pipe takes waits until its time is over.  A call  *)
(* whose command leaves a process behind that holds a pipe comes to nothing: *)
(* wait_with_output waits for that process, for any time.                    *)
RunSandbox(call) ==
  LET limit == IF call.timeout < 1 THEN 1
               ELSE IF call.timeout > MaxSeconds THEN MaxSeconds ELSE call.timeout
  IN IF call.empty \/ call.seconds > limit \/ call.bytes > PipeBuffer
     THEN {"error"}
     ELSE IF call.held THEN {} ELSE Truncated(call)

(* What refuses a write or a patch before it touches anything: a path        *)
(* outside, an old text that is not there, or there more than once.          *)
WriteRefused(call) == IF SafeRelativePath(call.path) THEN {} ELSE {"error"}

PatchRefused(call) ==
  IF "error" \in ReadFile(call) \/ call.occurrences # 1 THEN {"error"} ELSE {}

(* read_attachment: only with an index, and what the index has. *)
ReadAttachment(call, index) ==
  IF Readable(index, call.id, call.chunks) THEN {"result"} ELSE {"error"}

(* execute_tool_calls, execute: what a call of the worker can come to. *)
Outcomes(call, index) ==
  CASE call.tool = "read_file"       -> ReadFile(call)
    [] call.tool = "list_files"      -> ListFiles(call)
    [] call.tool = "search_files"    -> SearchFiles(call)
    [] call.tool = "git_status"      -> GitStatus(call)
    [] call.tool = "run_code"        -> RunSandbox(call)
    [] call.tool = "write_file"      -> WriteRefused(call)
    [] call.tool = "patch_file"      -> PatchRefused(call)
    [] call.tool = "read_attachment" -> ReadAttachment(call, index)
    [] OTHER                         -> {"error"}
=============================================================================
