--------------------------- MODULE MCConversation ---------------------------
(* Conversation with two functions and up to three answers: texts, thoughts, *)
(* one call, two calls of one function or of two, calls that cannot be       *)
(* encoded; Anthropic clients, and Ollama clients that name results or not,  *)
(* on a host whose clock is fine or coarse.                                  *)
EXTENDS Conversation

Says == [endpoint |-> "messages", system |-> FALSE, tools |-> {"f", "g"}, named |-> TRUE,
         choice |-> "absent", clock |-> "fine"]

MCSetting ==
    {Says,
     [Says EXCEPT !.system = TRUE, !.tools = {"none", "f"}, !.choice = "f"],
     [Says EXCEPT !.tools = {"none"}, !.choice = "tool"],
     [Says EXCEPT !.choice = "any"],
     [Says EXCEPT !.endpoint = "chat", !.system = TRUE],
     [Says EXCEPT !.endpoint = "chat", !.named = FALSE],
     [Says EXCEPT !.endpoint = "chat", !.clock = "coarse"],
     [Says EXCEPT !.endpoint = "generate", !.system = TRUE]}

Text     == [content |-> TRUE, reasoning_content |-> "absent", reasoning |-> FALSE,
             calls |-> <<>>, finish |-> "stop"]
Call(f)  == [fn |-> f, args |-> "object"]
Calls(c) == [Text EXCEPT !.content = FALSE, !.calls = c, !.finish = "tool_calls"]

MCReply ==
    {Text,
     [Text EXCEPT !.reasoning_content = "text", !.finish = "length"],
     [Text EXCEPT !.content = FALSE, !.reasoning = TRUE, !.finish = "content_filter"],
     [Calls(<<Call("f")>>) EXCEPT !.content = TRUE, !.reasoning = TRUE,
                                  !.reasoning_content = "empty"],
     Calls(<<Call("f"), Call("f")>>),
     Calls(<<Call("f"), Call("g")>>),
     Calls(<<[fn |-> "g", args |-> "empty"]>>),
     [Calls(<<Call("f"), [fn |-> "g", args |-> "cut"]>>) EXCEPT !.finish = "length"]}
=============================================================================
