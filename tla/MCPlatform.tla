----------------------------- MODULE MCPlatform -----------------------------
(***************************************************************************)
(* What a session stands on: configuration and start-up, the database      *)
(* connection, the LLM providers, skills, the logger, spans and reports.   *)
(* They share no state (Startup and DbConn share the configuration's       *)
(* operators), so one run checks them: part says which of them runs, the   *)
(* others stay in their initial states.                                    *)
(***************************************************************************)
EXTENDS Startup, DbConn, Llm, Skills, Logger, TraceSpans, Report

VARIABLE part

\* Configuration: connections by DSN and by host, aliases that fold to one key.
ByDsn(alias) ==
    [alias |-> alias, dsn |-> TRUE, given |-> {}, port |-> 0, password |-> "file"]
ByHost(alias, given, port) ==
    [alias |-> alias, dsn |-> FALSE, given |-> given, port |-> port, password |-> "none"]
Whole == {"host", "database", "user"}
MCCfDefault ==
    [Model |-> "none", ToolTimeout |-> 2, TotalTimeout |-> 3, Connections |-> <<>>]
MCCfSection ==
    [Model |-> "LLM", ToolTimeout |-> "Diagnose", TotalTimeout |-> "Diagnose",
     Connections |-> "Connections"]
ConnLayers ==
    {Sets([Connections |-> c]) :
        c \in {<<ByDsn(<<"p", "-">>)>>,
               <<ByDsn(<<"p", "-">>), ByHost(<<"p", "_">>, Whole, 1)>>,
               <<ByDsn(<<"p">>), ByDsn(<<"p">>)>>,
               <<ByDsn(<<"p">>), ByHost(<<"q">>, Whole, 9)>>,
               <<ByDsn(<<"p">>), ByHost(<<"q">>, Whole, 2)>>,
               <<ByHost(<<"q">>, {"host"}, 0)>>,
               <<[ByDsn(<<"p">>) EXCEPT !.given = Whole]>>}}
ModelLayers == {Sets([Model |-> m]) : m \in {"m1", "m2"}}
TimeLayers == {Sets([ToolTimeout |-> 4]), Sets([TotalTimeout |-> 0])}
World(p, u, r, l, e) == [policy |-> p, user |-> u, project |-> r, local |-> l, env |-> e]
MCCfWorlds ==
    {World(p, u, r, l, e) :
        p \in {Absent} \cup TimeLayers, u \in {Absent, Malformed} \cup ModelLayers,
        r \in {Absent} \cup TimeLayers, l \in {Absent, Sets([Model |-> "m1"])},
        e \in {Absent, Sets([Model |-> "m2"]),
               Sets([ToolTimeout |-> 1, TotalTimeout |-> 1])}}
    \cup {World(c, Absent, d, Absent, Absent) : c, d \in {Absent} \cup ConnLayers}
MCCfOptions ==
    {[cwd |-> w, settings |-> s, sources |-> x, overrides |-> v] :
        w \in BOOLEAN, s \in {Absent, Malformed, Sets([Model |-> "m1"])},
        x \in {{}, {"user"}, {"local"}, {"invalid"}}, v \in {Absent, Sets([Model |-> "m2"])}}

CommandLine(c, v, p, x) ==
    [cmd |-> c, version |-> v, prompt |-> p, choices |-> x, file |-> Absent]
MCStCommands ==
    {CommandLine("root", "no", FALSE, "bad"), CommandLine("root", "no", FALSE, "ok"),
     CommandLine("root", "version-verbose", FALSE, "ok"),
     CommandLine("root", "version", TRUE, "ok"), CommandLine("interact", "no", TRUE, "ok"),
     CommandLine("version", "no", FALSE, "ok"), CommandLine("sources", "no", FALSE, "ok")}
    \cup {[CommandLine("validate", "no", FALSE, "ok") EXCEPT !.file = f] :
            f \in {Absent, Malformed} \cup ModelLayers \cup TimeLayers \cup ConnLayers}
\* A machine where all goes well, and one for each thing that can fail.
Good == [tty |-> TRUE, logger |-> TRUE, screen |-> TRUE, provider |-> TRUE]
MCStMachines == {Good} \cup {[Good EXCEPT ![f] = FALSE] : f \in DOMAIN Good}

\* Database: configurations that passed validation.
DbByDsn(alias, drv) ==
    [alias |-> alias, dsn |-> TRUE, given |-> {}, port |-> 0, password |-> alias, driver |-> drv]
DbByHost(alias, drv, pw) ==
    [alias |-> alias, dsn |-> FALSE, given |-> Whole, port |-> 1, password |-> pw, driver |-> drv]
MCDbConfigs ==
    {[conns |-> cs, default |-> d] :
        cs \in {<<>>, <<DbByDsn(<<"p">>, "postgres")>>, <<DbByDsn(<<"q">>, "mysql")>>,
                <<DbByHost(<<"p", "-">>, "postgres", <<>>)>>,
                <<DbByHost(<<"p", "-">>, "postgres", <<>>),
                  DbByHost(<<"p", "_">>, "postgres", <<"p", "_">>)>>,
                <<DbByHost(<<"p">>, "postgres", <<"p">>), DbByHost(<<"q">>, "mysql", <<>>)>>,
                <<DbByHost(<<"q">>, "plain", <<>>), DbByDsn(<<"p">>, "postgres")>>},
        d \in {<<>>, <<"p">>, <<"q">>}}
MCDbAliases == {<<>>, <<"p">>, <<"q">>, <<"p", "-">>}
MCDbDrivers == [postgres |-> TRUE, plain |-> FALSE]
PgError(t, cl, co) == [timeout |-> t, class |-> cl, code |-> co]
MCDbErrors ==
    {PgError(TRUE, "57", "57014"), PgError(FALSE, "42", "42501"), PgError(FALSE, "28", "28P01"),
     PgError(FALSE, "net", "none"), PgError(FALSE, "3D", "3D000"), PgError(FALSE, "42", "42601"),
     PgError(FALSE, "53", "53300")}

\* LLM providers: configurations, requests, and what a server may send.
ModelOf(n, p, k, u) == [name |-> n, provider |-> p, key |-> k, url |-> u]
MCLlmConfigs ==
    {[active |-> "m", key |-> k, url |-> u, adaptive |-> ad, models |-> ms] :
        k \in {"", "k"}, u \in {"", "remote"}, ad \in BOOLEAN,
        ms \in {<<>>, <<ModelOf("x", "fake", "", "")>>,
                <<ModelOf("m", "openai-compat", "", "")>>,
                <<ModelOf("m", "ollama", "", "loopback")>>, <<ModelOf("m", "ollama", "", "")>>,
                <<ModelOf("m", "fake", "", ""), ModelOf("m", "mystery", "", "")>>}}
BlockOf(k, i) == [kind |-> k, id |-> i, nil |-> FALSE]
MsgOf(r, bs) == [role |-> r, blocks |-> bs]
Calls == MsgOf("assistant", <<BlockOf("text", 0), BlockOf("use", 1), BlockOf("use", 2)>>)
ReqOf(m, t, b, ms) == [max |-> m, thinking |-> t, budget |-> b, messages |-> ms]
Replies ==
    {<<BlockOf("result", 1), BlockOf("result", 2)>>,
     <<BlockOf("text", 0), BlockOf("result", 1), BlockOf("result", 2)>>,
     <<BlockOf("result", 1), BlockOf("text", 0), BlockOf("result", 2)>>,
     <<>>, <<[BlockOf("result", 1) EXCEPT !.nil = TRUE]>>, <<BlockOf("use", 1)>>}
MCLlmRequests ==
    {ReqOf(4, FALSE, 0, <<MsgOf("user", <<BlockOf("text", 0)>>), Calls, MsgOf("user", bs)>>) :
        bs \in Replies}
    \cup {ReqOf(0, FALSE, 0, <<Calls>>), ReqOf(4, TRUE, 4, <<Calls>>),
          ReqOf(4, TRUE, 1, <<Calls>>), ReqOf(4, FALSE, 0, <<MsgOf("system", <<>>)>>),
          ReqOf(4, FALSE, 0, <<>>)}
Chunk(r, f, t, tl, fi) ==
    [reasoning |-> r, refusal |-> f, text |-> t, tools |-> tl, finish |-> fi]
CallDelta(i, id, fr) == [index |-> i, id |-> id, frag |-> fr]
MCOpenaiChunks ==
    {Chunk(FALSE, FALSE, FALSE, <<>>, f) :
        f \in {"unset", "stop", "length", "tool_calls", "content_filter"}}
    \cup {Chunk(FALSE, FALSE, TRUE, <<>>, "unset"), Chunk(TRUE, FALSE, FALSE, <<>>, "unset"),
          Chunk(FALSE, TRUE, FALSE, <<>>, "unset"), Chunk(FALSE, FALSE, TRUE, <<>>, "stop"),
          Chunk(FALSE, FALSE, TRUE, <<CallDelta(0, "", <<"x">>)>>, "unset")}
    \cup {Chunk(FALSE, FALSE, FALSE, tl, f) :
            tl \in {<<CallDelta(0, "c0", <<>>)>>, <<CallDelta(0, "", <<"x">>)>>,
                    <<CallDelta(1, "c1", <<"y">>)>>, <<CallDelta(2, "c2", <<>>)>>,
                    <<CallDelta(1, "", <<"garbage">>), CallDelta(0, "", <<"z">>)>>},
            f \in {"unset", "tool_calls"}}
Sse(t, i, d, id) == [type |-> t, index |-> i, delta |-> d, tag |-> id]
MCAnthropicEvents ==
    {Sse(t, 0, <<>>, "") : t \in {"text", "thinking", "ping"}}
    \cup {Sse("tool_start", i, <<>>, "c") : i \in 1..3}
    \cup {Sse("json", i, d, "") : i \in 1..2, d \in {<<"x">>, <<"y", "z">>, <<"garbage">>}}
    \cup {Sse("message_delta", 0, <<>>, r) :
            r \in {"end_turn", "tool_use", "refusal", "max_tokens", "new"}}

\* Skills: three directories, two names that collide, and files that fail.
Roots(b, pl, h, c, ps) == [builtin |-> b, plugins |-> pl, home |-> h, cwd |-> c, paths |-> ps]
MCSkInputs ==
    {Roots(<<>>, <<>>, <<"none", "home">>, <<"none", "proj">>, <<>>),
     Roots(<<>>, <<>>, <<"home">>, <<"proj">>, <<"home">>),
     Roots(<<"plug">>, <<>>, <<"home">>, <<"link">>, <<"lost">>),
     Roots(<<>>, <<"plug">>, <<"link", "home">>, <<"none">>, <<>>)}
MCSkDirs ==
    [home |-> "dir", proj |-> "dir", plug |-> "dir", link |-> "symlink",
     lost |-> "absent", none |-> "absent"]
Entry(d, i, c) == [dir |-> d, is |-> i, doc |-> c]
MCSkEntries ==
    <<Entry("home", "file", "a"), Entry("home", "file", "b"), Entry("proj", "file", "a2"),
      Entry("proj", "file", "a3"), Entry("proj", "file", "bad"), Entry("plug", "file", "b"),
      Entry("plug", "file", "nofm"), Entry("plug", "symlink", "a"), Entry("plug", "file", "c")>>
Doc(p, n, de, x, t, k) ==
    [parse |-> p, name |-> n, desc |-> de, extra |-> x, tools |-> t, kebab |-> k]
MCSkDocs ==
    [a |-> Doc("ok", "a", TRUE, TRUE, {}, TRUE), a2 |-> Doc("ok", "a", TRUE, FALSE, {"t"}, TRUE),
     a3 |-> Doc("ok", "a", TRUE, FALSE, {}, TRUE), b |-> Doc("ok", "b", TRUE, FALSE, {}, FALSE),
     c |-> Doc("ok", "c", FALSE, FALSE, {}, TRUE),
     bad |-> Doc("ok", "bad name", TRUE, FALSE, {}, TRUE),
     nofm |-> Doc("NO_FRONTMATTER", "", FALSE, FALSE, {}, TRUE)]
MCSkDisabled == {{}, {"b"}}

\* Logger: levels 5 (unset) and 6 (not a level), filters that include and exclude.
LogInput(l, d, f, s) == [level |-> l, debug |-> d, filter |-> f, sidecar |-> s]
MCLgInputs ==
    {LogInput(l, d, f, TRUE) : l \in {5, 3, 6}, d \in BOOLEAN, f \in {<<>>, <<<<TRUE, "api">>>>}}
    \cup {LogInput(5, TRUE, <<<<TRUE, "api">>, <<FALSE, "db">>>>, FALSE)}
MCLgMessages == {<<1, {"api"}>>, <<3, {"db"}>>}

MCInit ==
    /\ part \in {"startup", "database", "llm", "skills", "logger", "spans", "report"}
    /\ StInit /\ DbInit /\ LlmInit /\ SkInit /\ LgInit /\ TsInit /\ RpInit

MCNext ==
    /\ UNCHANGED part
    /\ \/ /\ part = "startup" /\ StNext
          /\ UNCHANGED <<dbVars, llmVars, skVars, lgVars, tsVars, rpVars>>
       \/ /\ part = "database" /\ DbNext
          /\ UNCHANGED <<stVars, llmVars, skVars, lgVars, tsVars, rpVars>>
       \/ /\ part = "llm" /\ LlmNext
          /\ UNCHANGED <<stVars, dbVars, skVars, lgVars, tsVars, rpVars>>
       \/ /\ part = "skills" /\ SkNext
          /\ UNCHANGED <<stVars, dbVars, llmVars, lgVars, tsVars, rpVars>>
       \/ /\ part = "logger" /\ LgNext
          /\ UNCHANGED <<stVars, dbVars, llmVars, skVars, tsVars, rpVars>>
       \/ /\ part = "spans" /\ TsNext
          /\ UNCHANGED <<stVars, dbVars, llmVars, skVars, lgVars, rpVars>>
       \/ /\ part = "report" /\ RpNext
          /\ UNCHANGED <<stVars, dbVars, llmVars, skVars, lgVars, tsVars>>

MCSpec ==
    MCInit /\ [][MCNext]_<<part, stVars, dbVars, llmVars, skVars, lgVars, tsVars, rpVars>>
=============================================================================
