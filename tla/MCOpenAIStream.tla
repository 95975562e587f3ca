--------------------------- MODULE MCOpenAIStream ---------------------------
(* OpenAIStream on answers of up to three lines: text, reasoning beside     *)
(* each kind of content, usage with and without a model or in a chunk that  *)
(* does not decode, and lines that are no chunks.                           *)
EXTENDS OpenAIStream

Chunk == [Other EXCEPT !.kind = "chunk"]

MCLine ==
    {Other,
     [Other EXCEPT !.kind = "done"],
     [Other EXCEPT !.kind = "broken"],
     [Chunk EXCEPT !.content = "text", !.model = "a"],
     [Chunk EXCEPT !.content = "text", !.reasoning = "why"],
     [Chunk EXCEPT !.content = "empty", !.reasoning_content = "because", !.reasoning = "why"],
     [Chunk EXCEPT !.content = "empty", !.reasoning = "why", !.tools = "empty"],
     [Chunk EXCEPT !.reasoning_content = "because", !.tools = "some"],
     [Chunk EXCEPT !.content = "empty", !.model = "b", !.usage = "u"],
     [Chunk EXCEPT !.usage = "v"],
     [Chunk EXCEPT !.usage = "v", !.content = "parts", !.model = "c"]}
=============================================================================
