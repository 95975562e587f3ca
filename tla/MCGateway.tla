----------------------------- MODULE MCGateway -----------------------------
(* Gateway on configurations of up to two upstreams, among them invalid     *)
(* ones and ones whose names collide by way of a level, and on requests for *)
(* every endpoint: well-formed ones with and without keys and levels, and   *)
(* one of each kind the handlers turn away.                                 *)
EXTENDS Gateway, TLC

MCPart == {"none", "absent", "on", "off", "high", "low", "x", "a", "b", "c", "d", "e", "m", "n",
           "served"}

Map(up, local, ctx, levels, level) ==
    [upstream |-> up, local |-> local, ctx |-> ctx, levels |-> levels, level |-> level]

Up(url, key, passthrough, retry, models) ==
    [url |-> url, key |-> key, passthrough |-> passthrough, retry |-> retry, models |-> models]

Plain   == Map(<<"a">>, <<"m">>, 0, <<>>, Empty)
Levels  == Map(<<"b">>, <<"m">>, 4, <<<<"high">>, <<"low">>>>, <<"x">>)
Dashed  == Map(<<"c">>, <<"m", "high">>, 0, <<>>, <<"low">>)
Nested  == Map(<<"d">>, <<"n">>, 0, <<Empty>>, Empty)
Unnamed == Map(<<"e">>, Empty, 0, <<>>, Empty)

MCConfig ==
    LET maps == {Plain, Levels, Dashed, Nested}
        ups1 == {Up("u", "k", FALSE, TRUE, <<m>>) : m \in maps \cup {Unnamed}}
        ups2 == {Up("v", "none", TRUE, FALSE, <<m, n>>) : m, n \in maps}
        bad  == {Up("bad", "none", FALSE, FALSE, <<Plain>>), Up("w", "k", TRUE, FALSE, <<Plain>>),
                 Up("w", "k", FALSE, FALSE, <<>>)}
    IN  {<<>>} \cup {<<u>> : u \in ups1 \cup bad}
        \cup {<<u, v>> : u \in ups1, v \in ups2} \cup {<<v, b>> : v \in ups2, b \in bad}

\* Bytes in order of the parts: none (no text), high, low, m, n.
Rank(part) == CHOOSE n \in 1..5 : <<"none", "high", "low", "m", "n">>[n] = part

MCBefore(s, t) ==
    \E n \in 0..Len(s) :
        /\ n < Len(t)
        /\ \A x \in 1..n : s[x] = t[x]
        /\ n < Len(s) => Rank(s[n + 1]) < Rank(t[n + 1])

Good == [endpoint |-> "chat", method |-> "POST", bearer |-> "p", xkey |-> "none", body |-> "good",
         model |-> <<"m">>, think |-> Absent, stream |-> "false"]

Models == {<<"m">>, <<"m", "high">>, <<"n", "none">>}

MCRequest ==
    {[Good EXCEPT !.endpoint = e, !.model = n] : e \in Endpoint, n \in Models}
    \cup {[Good EXCEPT !.endpoint = e, !.model = <<"m", "high">>, !.think = <<"low">>] :
             e \in {"chat", "completions"}}
    \cup {[Good EXCEPT !.endpoint = "generate", !.think = t] : t \in {<<"on">>, <<"off">>}}
    \cup {[Good EXCEPT !.endpoint = e, !.stream = "true"] : e \in {"generate", "messages"}}
    \cup {[Good EXCEPT !.endpoint = e, !.body = b] :
             e \in Chatty \cup Embeds \cup {"show", "copy", "pull"}, b \in {"big", "malformed", "idle", "odd"}}
    \cup {[Good EXCEPT !.bearer = b, !.xkey = x] : b \in {"absent", "none", "q"}, x \in {"none", "p"}}
    \cup {[Good EXCEPT !.endpoint = e, !.method = "GET"] :
             e \in {"chat", "tags", "ps", "models", "version", "stats", "root"}}
    \cup {[Good EXCEPT !.endpoint = e, !.method = "HEAD"] : e \in {"root", "blobs", "models"}}
    \cup {[Good EXCEPT !.endpoint = "delete", !.method = "DELETE"]}

\* A proxy with a key of its own, and an open one.
MCProxyKeys == {"p", "none"}

MCStatus == {200, 204, 404, 503}

MCReply ==
    {[sse |-> FALSE, json |-> TRUE, typed |-> t, usage |-> u, model |-> n] :
        t \in BOOLEAN, u \in BOOLEAN, n \in {Empty, <<"served">>}}
    \cup {[sse |-> s, json |-> FALSE, typed |-> FALSE, usage |-> FALSE, model |-> Empty] :
             s \in BOOLEAN}
=============================================================================
