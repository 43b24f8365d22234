------------------------------ MODULE MCHttpWire ------------------------------
(* Responses of every framing, cut short anywhere, with lines of just the limit
   and of one token more, and redirects of each kind. *)
EXTENDS HttpWire

Abs(host, rest) == <<"http", ":", "/", "/">> \o host \o rest
SomeUrls == {
    Abs(<<"a">>, << >>),
    Abs(<<"u", "@", "a", ":", "8080">>, <<"/", "d", "/", "f", "?", "q", "/", "r", "#", "x">>),
    <<"https", ":", "/", "/", "[", "1", ":", ":", "2", "]", ":", "8080", "?", "q">>,
    <<"https", ":", "/", "/", "a", ":", "/", "d">>,
    <<"ftp", ":", "/", "/", "a">>,
    Abs(<<"a", ":", "x">>, << >>),
    <<"a", "/", "d">> }

Many(token, n) == [i \in 1 .. n |-> token]
Line(text) == text \o <<"CR", "LF">>
Top(code, headers) == Line(<<"HTTP/", " ", code>>) \o headers
Field(name, value) == Line(<<name, ":">> \o value)
Blank == <<"CR", "LF">>
Body(code, headers, content) == Top(code, headers) \o Blank \o content
Chunked == Field("Transfer-Encoding", <<"chunked">>)

SomeStreams == {
    Body("200", Field("Content-Length", <<"2">>), <<"x", "LF", "y">>),
    Body("200", Field("Content-Length", <<"3">>), <<"x", "y", "z">>),
    Body("200", <<"junk", "LF">> \o Field("Content-Length", <<"-", "1">>), <<"x", "CR">>),
    Body("206", << >>, <<"x", "LF", "y">>),
    Body("200", Chunked, Line(<<"2", ";", "e">>) \o <<"LF", "x">> \o Line(<< >>)
                             \o Line(<<"1">>) \o Line(<<"y">>) \o Line(<<"0">>) \o Line(<<"t">>) \o Blank),
    Body("200", Chunked, Line(<<"1">>) \o Line(<<"x">>) \o Line(<<"z">>)),
    Body("200", Chunked, Line(<<"1", ";">> \o Many("e", 10)) \o Line(<<"x">>) \o Line(<<"1", ";">> \o Many("e", 11))
                             \o Line(<<"y">>) \o Line(<<"0">>) \o Blank),
    Body("200", Chunked, Line(<<"1">>) \o Line(<<"x">>) \o Line(<<"0">>) \o Line(Many("t", 13)) \o Blank),
    Body("404", << >>, <<"x">>),
    Body("600", << >>, << >>),
    Body("301", << >>, << >>),
    Body("301", Field("Location", <<"/", "e", "#", "y">>), << >>),
    Body("301", Field("Location", <<"e">>), << >>),
    Body("301", Field("Location", <<"https", ":", "/", "/", "[", "1", ":", ":", "2", "]">>), << >>),
    Body("301", Field("Location", <<"https", ":", "/", "/", "a", ":", "80">>), << >>),
    Body("200", Line(<<"m", ":">> \o Many("v", 11)), << >>),
    Body("200", Field("m", <<"v">>) \o Field("m", <<"v">>) \o Field("m", <<"v">>), << >>) }

SomeTokens == {"http", "https", "80", "443", ":", "/", "[", "]"}
                  \cup UNION {Range(text) : text \in SomeUrls \cup SomeStreams}
===============================================================================
