-------------------------- MODULE MC_HttpConnection --------------------------
(* HttpConnection for TLC: every URL of a small set against every table of  *)
(* routes, and streams of up to three requests, sent one by one or all at   *)
(* once, on a disk that works or does not, and that may hold files of       *)
(* bodies before.                                                           *)
EXTENDS HttpConnection

Rule(path) == [path |-> path, methods |-> {}, enabled |-> TRUE]
Table(base, rules) == [base |-> base, rules |-> rules]

A == <<"/", "a">>

\* parameters of all types, overlapping, one rule with a slash at its end
Overlap == Table(<<>>, <<Rule(A \o <<"/", "INT">>),
                         Rule(A \o <<"/", "STRING">>),
                         Rule(A \o <<"/", "INT", "/", "b">>),
                         Rule(A \o <<"/", "STRING", "/", "STRING">>),
                         Rule(A \o <<"/", "STRING", "/", "INT">>),
                         Rule(A \o <<"/", "UINT", "/", "PATH">>),
                         Rule(A \o <<"/", "b", "/">>)>>)

\* one path is the start of others; under a base, with a file server
Based == Table(A, <<Rule(<<"/", "b", "1">>), Rule(<<"/", "b", "1", "a", "b">>),
                    Rule(<<"/", "b", "1", "a", "a">>), Rule(<<"/", "b", "DOUBLE">>),
                    Rule(FileServerRoute),
                    [path |-> <<"/", "a">>, methods |-> {"POST"}, enabled |-> FALSE]>>)

\* rules the server does not start with
Slash  == Table(<<>>, <<Rule(<<"/">>)>>)
Double == Table(<<>>, <<Rule(A \o <<"/">>), Rule(A)>>)

Segment == {<<"a">>, <<"b">>, <<"1">>, <<"-", "1">>, <<"1", ".", "1">>, <<"b", "1">>, <<"b", "-", "1">>,
            <<"1", "1", "1">>, <<"+", "1">>, <<"b", "1", "a", "b">>, <<"a", "b", "1", "a", "a">>}
Urls == {<<"/">>, A} \cup
        {A \o <<"/">> \o s : s \in Segment} \cup
        {A \o <<"/">> \o s \o <<"/">> \o t : s \in Segment, t \in {<<>>} \cup Segment}

Get(url) == [url |-> url, method |-> "GET", body |-> <<>>, coding |-> "none",
             close |-> FALSE, upgrade |-> FALSE, bad |-> FALSE]

Ask    == Get(A \o <<"/", "1", "?", "b">>)
Closes == [Ask EXCEPT !.close = TRUE]
Bad    == [Ask EXCEPT !.bad = TRUE]
Socket == [Ask EXCEPT !.upgrade = TRUE]
Post(body) == [Ask EXCEPT !.coding = "length", !.body = body]
Chunks(body) == [Post(body) EXCEPT !.coding = "chunked"]
Small  == Post(<<"x", "y">>)
Large  == Post(<<"x", "y", "z", "w">>)
Huge   == Post(<<"x", "y", "z", "w", "v", "u">>)
Put    == [Small EXCEPT !.method = "PUT"]
HeadOf == [Ask EXCEPT !.method = "HEAD"]

Setting(table, stream, pipelined, disk) ==
    [table |-> table, stream |-> stream, pipelined |-> pipelined, disk |-> disk,
     old |-> <<>>, shared |-> FALSE]

Kinds == {Ask, Small, Large, Socket, Chunks(<<"x">>)}
Ends  == {Ask, Large, Closes, Bad, Huge, Put, Chunks(<<>>)}

MCSettings ==
    {Setting(t, <<Get(u)>>, FALSE, "works") : t \in {Overlap, Based}, u \in Urls} \cup
    {Setting(t, <<Ask>>, FALSE, "works") : t \in {Slash, Double}} \cup
    {Setting(Overlap, <<k, e>>, p, "works") : k \in Kinds, e \in Ends, p \in BOOLEAN} \cup
    {Setting(Overlap, <<Small, k, e>>, p, "works") :
        k \in {Small, Socket}, e \in {Small, Closes}, p \in BOOLEAN} \cup
    {Setting(Overlap, <<Large>>, FALSE, d) : d \in {"open fails", "write fails"}} \cup
    {Setting(Overlap, <<HeadOf, Ask>>, FALSE, "works")} \cup
    {[Setting(Overlap, <<Large, Ask>>, FALSE, "works") EXCEPT !.old = old, !.shared = shared] :
        old \in {<<"1", "2">>, <<"1", "2", "3", "4", "5">>}, shared \in BOOLEAN}
==============================================================================
