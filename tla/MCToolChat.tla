------------------------------ MODULE MCToolChat ------------------------------
(* Small instances of ToolChat: two chats that write different targets. *)
EXTENDS ToolChat, TLC

CONSTANTS c1, c2, rs, md, toml, tmp1, tmp2

(* Two targets that differ only in the extension, as src/a.rs and src/a.md,  *)
(* have one temporary file; src/b.toml has its own.                          *)
TCStem   == rs :> tmp1 @@ md :> tmp1 @@ toml :> tmp2
TCWrites == c1 :> {rs} @@ c2 :> {md, toml}

-----------------------------------------------------------------------------
(* A project with a file over the response limit, one cut in the middle of a *)
(* character, directories nobody may read that are skipped and too deep from *)
(* the root, a link out of it.                                               *)
Dir(in, readable) == [kind |-> "dir", inside |-> in, readable |-> readable]
Text(bytes, straddles, hits, ext) ==
  [kind |-> "file", inside |-> TRUE, readable |-> TRUE, bytes |-> bytes,
   straddles |-> straddles, hits |-> hits, ext |-> ext]
TCTree ==
  <<>> :> Dir(TRUE, TRUE)
  @@ <<"src">> :> Dir(TRUE, TRUE)
  @@ <<"src", "long">> :> Text(3, FALSE, 2, "rs")
  @@ <<"src", "wide">> :> Text(3, TRUE, 1, "md")
  @@ <<"target">> :> Dir(TRUE, FALSE)
  @@ <<"src", "deep">> :> Dir(TRUE, FALSE)
  @@ <<"link">> :> Dir(FALSE, TRUE)

Read(path) == [tool |-> "read_file", path |-> path]
List(path) == [tool |-> "list_files", path |-> path]
Search(path, ext) == [tool |-> "search_files", path |-> path, ext |-> ext]
Status(format) == [tool |-> "git_status", format |-> format]
Run(seconds, bytes, straddles, held) ==
  [tool |-> "run_code", empty |-> FALSE, timeout |-> 9, seconds |-> seconds,
   bytes |-> bytes, straddles |-> straddles, held |-> held]
Patch(path, n) == [tool |-> "patch_file", path |-> path, occurrences |-> n]
Attached(id, chunks) ==
  [tool |-> "read_attachment", id |-> id, chunks |-> chunks]

TCOtherCalls ==
  {Read(<<"src", "long">>), Read(<<".", "src", "wide">>), Read(<<"..", "x">>),
   Read(<<"src">>), Read(<<"src", "long", "x">>), List(<<".">>),
   List(<<"target">>), Search(<<"src">>, "any"), Search(<<>>, "rs"),
   Status("diff"), Status("log"), Run(1, 3, TRUE, FALSE),
   Run(3, 1, FALSE, TRUE), Run(1, 5, FALSE, FALSE), Run(1, 3, FALSE, TRUE),
   Patch(<<"src", "long">>, 2),
   [tool |-> "write_file", path |-> <<"link", "new", "file">>],
   Attached(0, {1}), Attached(0, {2}), Attached(2, {}), [tool |-> "rm"]}

-----------------------------------------------------------------------------
Word(kind, cjk, other) == [kind |-> kind, cjk |-> cjk, other |-> other]
Line(fence, words) == [fence |-> fence, words |-> words]
Said(lines) ==
  [role |-> TRUE, content |-> "text", toolCalls |-> FALSE, text |-> lines]

(* A repeated line with a filler, a line in a fence: within the cap only     *)
(* when the first is compressed and the second is not counted twice.         *)
Short ==
  LET again == Line(FALSE, <<Word("filler", 0, 6), Word("plain", 1, 3)>>) IN
  <<again, again, Line(TRUE, <<Word("plain", 0, 3)>>),
    Line(FALSE, <<Word("url", 0, 9)>>), Line(TRUE, <<Word("plain", 0, 3)>>)>>
TooLong   == <<Line(FALSE, <<Word("plain", 8, 0)>>)>>
Secret == <<Line(FALSE, <<Word("secret", 0, 3)>>)>>

File(id, text) ==
  [id |-> id, text |-> text, plainName |-> TRUE, plainId |-> TRUE,
   knownExtension |-> TRUE, knownMedia |-> FALSE]

Ask(list, tokens, tools, stream, text) ==
  [attachments |-> list, model |-> TRUE, messages |-> <<Said(text)>>,
   maxTokens |-> tokens, tools |-> tools, stream |-> stream]

TCRequests ==
  {Ask(<<>>, 0, {"read_file"}, FALSE, Short),
   Ask(<<File(NoId, <<3, 3>>), File(2, <<1>>)>>, 1, {}, FALSE, Short),
   Ask(<<File(1, <<1>>), File(NoId, <<1>>)>>, 1, {}, FALSE, Short),
   Ask(<<File(1, <<0>>)>>, 1, {}, FALSE, Short),
   Ask(<<>>, 0, {}, TRUE, Short),
   Ask(<<File(1, <<1>>)>>, 0, {}, TRUE, Short),
   Ask(<<>>, 2, {}, FALSE, Short), Ask(<<>>, 0, {"rm"}, FALSE, Short),
   Ask(<<>>, 0, {}, FALSE, TooLong), Ask(<<>>, 0, {}, FALSE, Secret)}

TCEmbeddings ==
  {[model |-> TRUE, single |-> FALSE,
    input |-> <<[kind |-> "text", length |-> 1], [kind |-> "integers", length |-> 2]>>],
   [model |-> TRUE, single |-> TRUE, input |-> <<[kind |-> "text", length |-> 0]>>]}
=============================================================================
