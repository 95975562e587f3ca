--------------------------- MODULE MCOllamaStream ---------------------------
(* OllamaStream on chat streams of up to five chunks, with prose, two tool  *)
(* calls whose fragments can be interleaved, and every way to finish, and   *)
(* on generate streams of up to four chunks in any order.                   *)
EXTENDS OllamaStream

F(i, c, named, from, to) ==
    [index |-> i, call |-> c, named |-> named, from |-> from, to |-> to]

Tools(fragment) == [Blank EXCEPT !.tools = fragment]

ChatChunk ==
    {[Blank EXCEPT !.text = TRUE],
     [Blank EXCEPT !.finish = "length"],
     [Blank EXCEPT !.finish = "tool_calls"],
     [Blank EXCEPT !.finish = "tool_calls", !.usage = TRUE],
     [Blank EXCEPT !.usage = TRUE],
     [Blank EXCEPT !.text = TRUE, !.finish = "stop"],
     Tools(<<F(0, 1, TRUE, 0, 1)>>),
     Tools(<<F(0, 1, FALSE, 1, 2)>>),
     Tools(<<F(1, 2, TRUE, 0, 2)>>),
     Tools(<<F(NoIndex, 1, TRUE, 0, 0), F(1, 2, TRUE, 0, 1)>>),
     Tools(<<F(1, 2, FALSE, 1, 2), F(0, 1, FALSE, 0, 2)>>)}

\* Chunks that need not keep to the order: prose with the finish_reason,
\* prose with the usage, the usage on every chunk; and fragments with the
\* finish_reason, whose arguments are whole or not.
UnrulyChunk ==
    {[Blank EXCEPT !.text = t, !.finish = f, !.usage = u] :
        t \in BOOLEAN, u \in BOOLEAN, f \in {"none", "stop", "length"}}
    \cup {[Blank EXCEPT !.text = TRUE, !.tools = <<F(0, 1, TRUE, 0, 1)>>],
          [Blank EXCEPT !.tools = <<F(0, 1, TRUE, 0, 2)>>, !.finish = "tool_calls"],
          [Blank EXCEPT !.tools = <<F(0, 1, TRUE, 0, 1)>>, !.finish = "tool_calls"]}

MCChunk == [chat |-> ChatChunk, generate |-> UnrulyChunk]
MCMaxChunks == [chat |-> 5, generate |-> 4]
=============================================================================
