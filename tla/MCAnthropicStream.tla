------------------------- MODULE MCAnthropicStream -------------------------
(* AnthropicStream on streams of up to four chunks.  The chunks mix prose   *)
(* with fragments of two tool calls; the second call comes with an index of *)
(* its own or, as some providers send it, without one: then it has that of  *)
(* the first.                                                               *)
EXTENDS AnthropicStream

Plain == [choices |-> TRUE, reasoning |-> FALSE, content |-> FALSE,
          toolCalls |-> <<>>, finish |-> "none", tokens |-> NoTokens]

Fragment(c, i, f, t) == [kind |-> "tool", index |-> i, call |-> c, fresh |-> f, text |-> t]

Open1 == Fragment(1, 0, TRUE, FALSE)
More1 == Fragment(1, 0, FALSE, TRUE)
Open2 == Fragment(2, 1, TRUE, TRUE)
More2 == Fragment(2, 1, FALSE, TRUE)
Bare2 == Fragment(2, NoIndex, TRUE, TRUE)

MCChunk ==
    {[Plain EXCEPT !.reasoning = TRUE],
     [Plain EXCEPT !.content = TRUE],
     [Plain EXCEPT !.reasoning = TRUE, !.content = TRUE, !.toolCalls = <<Open1>>],
     [Plain EXCEPT !.choices = FALSE, !.tokens = 3],
     [Plain EXCEPT !.finish = "tool_calls", !.tokens = 2]}
    \cup {[Plain EXCEPT !.toolCalls = tcs] :
            tcs \in {<<Open1>>, <<More1>>, <<Open2>>, <<More2>>, <<Bare2>>,
                     <<Open1, Open2>>, <<More1, More2>>}}
=============================================================================
