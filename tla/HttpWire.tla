-------------------------------- MODULE HttpWire --------------------------------
(***************************************************************************)
(* HttpClient.cpp between the socket and its caller: URLs, the buffered    *)
(* reader, the response head, the two body framings, redirects, and        *)
(* getString() on top.  HttpService abstracts all of this to "a head       *)
(* arrives", "a body byte arrives"; here recv() returns any number of      *)
(* tokens the buffer holds, wherever they fall, and the peer may close     *)
(* after any of them.                                                      *)
(*                                                                         *)
(* Text is a sequence of tokens: each delimiter the code searches for is   *)
(* one, a word between two of them is one.                                 *)
(***************************************************************************)
EXTENDS Integers, Sequences, FiniteSets, SequencesExt

CONSTANTS
    Tokens,         \* words and delimiters
    UrlTexts,       \* URLs a caller may ask for
    Streams,        \* responses a server may send
    BufferSize,     \* kReadBufferSize
    MaxLine,        \* kMaxLineLength
    MaxHeaders,     \* kMaxHeaderCount
    MaxRedirects,   \* Request::maxRedirects
    MaxBytes        \* getString()'s maxBytes

Text == Seq(Tokens)

ASSUME WireAssumption ==
    /\ {BufferSize, MaxLine, MaxHeaders} \subseteq Nat \ {0} /\ {MaxRedirects, MaxBytes} \subseteq Nat
    /\ {"http", "https", "80", "443", ":", "/", "[", "]"} \subseteq Tokens
    /\ UrlTexts \subseteq Text /\ Streams \subseteq Text

-------------------------------------------------------------------------------
(* Searching in text *)

Places(text, tokens) == {i \in DOMAIN text : text[i] \in tokens}
\* find_first_of() and rfind(), 0 for npos
Find(text, tokens) ==
    IF Places(text, tokens) = {} THEN 0 ELSE Min(Places(text, tokens))
RFind(text, tokens) == IF Places(text, tokens) = {} THEN 0 ELSE Max(Places(text, tokens))
From(text, i) == SubSeq(text, i, Len(text))
To(text, i) == SubSeq(text, 1, i)

\* find("://")
SchemeEnd(text) ==
    LET hits == {i \in 1 .. Len(text) - 2 : SubSeq(text, i, i + 2) = <<":", "/", "/">>}
    IN IF hits = {} THEN 0 ELSE Min(hits)

\* What strtoll() and atoi() make of a word.
Numerals == [n \in {"0", "1", "2", "3", "80", "443", "8080", "200", "206", "301", "404", "600"} |->
    CASE n = "0" -> 0 [] n = "1" -> 1 [] n = "2" -> 2 [] n = "3" -> 3 [] n = "80" -> 80
      [] n = "443" -> 443 [] n = "8080" -> 8080 [] n = "200" -> 200 [] n = "206" -> 206
      [] n = "301" -> 301 [] n = "404" -> 404 [] n = "600" -> 600]
Number(text) ==
    IF text = << >> THEN 0
    ELSE IF text[1] \in DOMAIN Numerals THEN Numerals[text[1]]
    ELSE IF text[1] = "-" /\ Len(text) > 1 /\ text[2] \in DOMAIN Numerals THEN - Numerals[text[2]]
    ELSE 0
IsNumber(text) == text # << >> /\ text[1] \in DOMAIN Numerals \cup {"-"}

-------------------------------------------------------------------------------
(* URLs *)

Bad == [scheme |-> "", host |-> << >>, port |-> << >>, target |-> << >>]
DefaultPort(scheme) == IF scheme = "https" THEN <<"443">> ELSE <<"80">>

\* Mutant: an IPv6 literal keeps no brackets.
hostHeader_bare(u) ==
    IF u.port = DefaultPort(u.scheme) THEN u.host ELSE u.host \o <<":">> \o u.port

hostHeader(u) ==
    LET bare == IF ":" \in Range(u.host) THEN <<"[">> \o u.host \o <<"]">> ELSE u.host
    IN IF u.port = DefaultPort(u.scheme) THEN bare ELSE bare \o <<":">> \o u.port
toString(u) == <<u.scheme, ":", "/", "/">> \o hostHeader(u) \o u.target

\* The host and port of an authority, with the brackets of an IPv6 literal gone.
HostPort(authority) ==
    LET close == Find(authority, {"]"})
        rest == From(authority, close + 1)
        colon == RFind(authority, {":"})
    IN IF authority[1] = "["
       THEN IF close = 0 THEN << << >>, << >> >>
            ELSE <<SubSeq(authority, 2, close - 1),
                   IF rest # << >> /\ rest[1] = ":" THEN From(rest, 2) ELSE << >> >>
       ELSE IF colon = 0 THEN <<authority, << >> >>
            ELSE <<To(authority, colon - 1), From(authority, colon + 1)>>

\* The URL in the text, or Bad.  User information and fragment are dropped.
parseUrl(text) ==
    LET sep == SchemeEnd(text)
        after == From(text, sep + 3)
        end == Find(after, {"/", "?", "#"})
        whole == IF end = 0 THEN after ELSE To(after, end - 1)
        authority == From(whole, RFind(whole, {"@"}) + 1)
        hp == HostPort(authority)
        rest == IF end = 0 THEN <<"/">> ELSE From(after, end)
        target == IF rest[1] = "/" THEN rest ELSE <<"/">> \o rest
        fragment == Find(target, {"#"})
        port == IF hp[2] = << >> THEN DefaultPort(text[1]) ELSE hp[2]
    IN IF \/ sep # 2 \/ text[1] \notin {"http", "https"} \/ authority = << >>
          \/ hp[1] = << >> \/ ~ Range(port) \subseteq DOMAIN Numerals
       THEN Bad
       ELSE [scheme |-> text[1], host |-> hp[1], port |-> port,
             target |-> IF fragment = 0 THEN target ELSE To(target, fragment - 1)]

\* Mutant: a relative location is put right behind the host.
Directory_none(target) == << >>

\* The target up to its last slash, which may be one of its query.
Directory(target) == To(target, RFind(target, {"/"}))

resolveRedirect(base, location) ==
    IF location = << >> \/ SchemeEnd(location) # 0 THEN location
    ELSE toString([base EXCEPT !.target =
             IF location[1] = "/" THEN location ELSE Directory(base.target) \o location])

-------------------------------------------------------------------------------
(* State *)

VARIABLES
    current,    \* get(): the text of the URL of this hop
    hop,
    url,        \* what parseUrl() made of it
    pc,         \* what is being read
    stream,     \* what the server sends in this exchange
    pos,        \* how much of it has been received
    buffer,     \* Reader: received and not consumed
    line,       \* readLine(): the line so far
    head,       \* the status code and the header bag
    left,       \* pumpPlain(): bytes still wanted, negative for until EOF
    body,       \* getString(): the body so far
    error

vars == <<current, hop, url, pc, stream, pos, buffer, line, head, left, body, error>>

LineStates == {"status", "headers", "size", "crlf", "trailer"}
NoHead == [code |-> 0, items |-> << >>]

Init ==
    /\ current \in UrlTexts /\ hop = 0 /\ url = Bad /\ pc = "parse"
    /\ stream = << >> /\ pos = 0 /\ buffer = << >> /\ line = << >>
    /\ head = NoHead /\ left = 0 /\ body = << >> /\ error = "ok"

\* The exchange ends: "refused" before there is a body, "done" in it.
Finish(err) ==
    /\ pc' = IF pc \in {"parse", "status", "headers"} THEN "refused" ELSE "done"
    /\ error' = err

-------------------------------------------------------------------------------
(* Header bag: only the first value of a name counts *)

Header(name) ==
    LET hits == {i \in DOMAIN head.items : head.items[i][1] = name}
    IN IF hits = {} THEN << >> ELSE head.items[Min(hits)][2]

isRedirect(code) == code \in {301, 302, 303, 307, 308}

-------------------------------------------------------------------------------
(* get(): one hop *)

StartHop ==
    /\ pc = "parse"
    /\ \/ /\ hop > MaxRedirects
          /\ Finish("TooLarge") /\ UNCHANGED <<url, stream>>
       \/ /\ hop <= MaxRedirects
          /\ url' = parseUrl(current)
          /\ \/ url' = Bad /\ Finish("BadUrl") /\ UNCHANGED stream
             \/ url' # Bad /\ stream' \in Streams /\ pc' = "status" /\ UNCHANGED error
    /\ pos' = 0 /\ buffer' = << >> /\ line' = << >> /\ head' = NoHead /\ left' = 0
    /\ UNCHANGED <<current, hop, body>>

-------------------------------------------------------------------------------
(* Reader::fill(): only ever called on an empty buffer *)

NeedsMore ==
    /\ buffer = << >>
    /\ pc \in LineStates \/ (pc \in {"plain", "data"} /\ left # 0)

Fill ==
    /\ NeedsMore
    /\ \E n \in 1 .. BufferSize :
          /\ pos + n <= Len(stream)
          /\ pos' = pos + n
          /\ buffer' = SubSeq(stream, pos + 1, pos + n)
    /\ UNCHANGED <<current, hop, url, pc, stream, line, head, left, body, error>>

\* The peer closes, or the line stays silent for the idle timeout: the end of a
\* body without length, forgiven among the trailers, an error elsewhere.
Eof(silent) ==
    /\ NeedsMore
    /\ Finish(IF pc = "trailer" \/ (pc = "plain" /\ left < 0 /\ ~ silent) THEN "ok" ELSE "Io")
    /\ UNCHANGED <<current, hop, url, stream, pos, buffer, line, head, left, body>>

-------------------------------------------------------------------------------
(* Lines *)

Stripped(text) == IF text # << >> /\ RFind(text, {"CR"}) = Len(text) THEN Front(text) ELSE text

StatusLine(text) ==
    LET code == Number(From(text, Find(text, {" "}) + 1))
    IN IF /\ text # << >> /\ text[1] = "HTTP/" /\ Find(text, {" "}) # 0
          /\ code >= 100 /\ code < 600
       THEN /\ head' = [head EXCEPT !.code = code] /\ pc' = "headers"
            /\ UNCHANGED <<current, hop, left, error>>
       ELSE Finish("Io") /\ UNCHANGED <<current, hop, left, head>>

HeaderLine(text) ==
    LET colon == Find(text, {":"})
    IN /\ IF colon # 0 /\ Len(head.items) >= MaxHeaders
          THEN Finish("TooLarge") /\ UNCHANGED head
          ELSE /\ head' = IF colon = 0 THEN head
                          ELSE [head EXCEPT !.items =
                                   Append(@, <<To(text, colon - 1), From(text, colon + 1)>>)]
               /\ UNCHANGED <<pc, error>>
       /\ UNCHANGED <<current, hop, left>>

\* The blank line: a redirect goes round get()'s loop, a failure status ends it,
\* otherwise the body starts.
ContentLength ==
    IF Header(<<"Content-Length">>) = << >> THEN -1 ELSE Number(Header(<<"Content-Length">>))
HeadEnds ==
    LET location == Header(<<"Location">>)
    IN /\ \/ /\ isRedirect(head.code) /\ location # << >>
             /\ current' = resolveRedirect(url, location)
             /\ hop' = hop + 1 /\ pc' = "parse" /\ UNCHANGED <<left, error>>
          \/ /\ isRedirect(head.code) /\ location = << >>
             /\ Finish("Io") /\ UNCHANGED <<current, hop, left>>
          \/ /\ head.code >= 400
             /\ Finish("HttpStatus") /\ UNCHANGED <<current, hop, left>>
          \/ /\ head.code < 400 /\ ~ isRedirect(head.code)
             /\ pc' = IF "chunked" \in Range(Header(<<"Transfer-Encoding">>)) THEN "size" ELSE "plain"
             /\ left' = ContentLength
             /\ UNCHANGED <<current, hop, error>>
       /\ UNCHANGED head

SizeLine(text) ==
    LET semi == Find(text, {";"})
        digits == IF semi = 0 THEN text ELSE To(text, semi - 1)
        size == Number(digits)
    IN /\ IF ~ IsNumber(digits) \/ size < 0 THEN Finish("Io") /\ UNCHANGED left
          ELSE pc' = (IF size = 0 THEN "trailer" ELSE "data") /\ left' = size /\ UNCHANGED error
       /\ UNCHANGED <<current, hop, head>>

CrlfLine(text) == pc' = "size" /\ UNCHANGED <<current, hop, head, left, error>>
TrailerLine(text) ==
    /\ IF text = << >> THEN Finish("ok") ELSE UNCHANGED <<pc, error>>
    /\ UNCHANGED <<current, hop, head, left>>

LineDone(text) ==
    CASE pc = "status" -> StatusLine(text)
      [] pc = "headers" -> IF text = << >> THEN HeadEnds ELSE HeaderLine(text)
      [] pc = "size" -> SizeLine(text)
      [] pc = "crlf" -> CrlfLine(text)
      [] pc = "trailer" -> TrailerLine(text)

\* Mutant: what follows the line in the buffer is dropped with it.
Unread_dropped(n) == << >>

\* The buffer behind its first n tokens.
Unread(n) == From(buffer, n + 1)

TooLong(text) == Len(text) > MaxLine

\* readLine(): take tokens up to the line end, or all there are; a line at its
\* limit fails, in the trailers without consequence.
ReadLine ==
    /\ pc \in LineStates /\ buffer # << >>
    /\ LET lf == Find(buffer, {"LF"})
           text == line \o (IF lf = 0 THEN buffer ELSE To(buffer, lf - 1))
       IN \/ /\ TooLong(text)
             /\ Finish(IF pc = "trailer" THEN "ok" ELSE "Io")
             /\ UNCHANGED <<current, hop, head, left, buffer, line>>
          \/ /\ ~ TooLong(text) /\ lf = 0
             /\ line' = text /\ buffer' = << >>
             /\ UNCHANGED <<current, hop, head, left, pc, error>>
          \/ /\ ~ TooLong(text) /\ lf # 0
             /\ line' = << >> /\ buffer' = Unread(lf)
             /\ LineDone(Stripped(text))
    /\ UNCHANGED <<url, stream, pos, body>>

-------------------------------------------------------------------------------
(* Bodies *)

\* How much of n buffered tokens the sink is handed.
Slice(n) == IF left < 0 \/ n <= left THEN n ELSE left

\* pumpPlain(): hand a slice to the sink; getString()'s gives up past MaxBytes
\* and then forgets what it has.
Pump ==
    /\ pc \in {"plain", "data"} /\ buffer # << >> /\ left # 0
    /\ LET n == Slice(Len(buffer))
       IN \/ /\ Len(body) + n > MaxBytes
             /\ Finish("TooLarge") /\ body' = << >>
             /\ UNCHANGED <<left, buffer>>
          \/ /\ Len(body) + n <= MaxBytes
             /\ body' = body \o To(buffer, n)
             /\ buffer' = Unread(n)
             /\ left' = IF left < 0 THEN left ELSE left - n
             /\ UNCHANGED <<pc, error>>
    /\ UNCHANGED <<current, hop, url, stream, pos, line, head>>

\* All that was wanted is there.
PumpDone ==
    /\ pc \in {"plain", "data"} /\ left = 0
    /\ IF pc = "plain" THEN Finish("ok") ELSE pc' = "crlf" /\ UNCHANGED error
    /\ UNCHANGED <<current, hop, url, stream, pos, buffer, line, head, left, body>>

Next ==
    \/ StartHop
    \/ Fill
    \/ \E silent \in BOOLEAN : Eof(silent)
    \/ ReadLine
    \/ Pump
    \/ PumpDone

Spec == Init /\ [][Next]_vars

-------------------------------------------------------------------------------
(* What a response means, read off the received tokens as a whole *)

Verdict(err, bytes) ==
    IF Len(bytes) > MaxBytes THEN [error |-> "TooLarge", body |-> << >>]
    ELSE [error |-> err, body |-> bytes]

\* The line that starts at i: its text and where the next one starts; 0 when it
\* has no end or is too long.
LineAt(text, i) ==
    LET ends == {j \in i .. Len(text) : text[j] = "LF"}
    IN IF ends = {} \/ Min(ends) - i > MaxLine THEN [text |-> << >>, next |-> 0]
       ELSE [text |-> Stripped(SubSeq(text, i, Min(ends) - 1)), next |-> Min(ends) + 1]

\* The chunks that start at i: how they end and the bytes they carry, given the
\* same, D, of those that start behind i.
ChunkAt(text, i, D) ==
    LET l == LineAt(text, i)
        semi == Find(l.text, {";"})
        digits == IF semi = 0 THEN l.text ELSE To(l.text, semi - 1)
        size == Number(digits)
        have == Len(text) + 1 - l.next
        after == LineAt(text, l.next + size)
        data == SubSeq(text, l.next, l.next + size - 1)
    IN IF l.next = 0 \/ ~ IsNumber(digits) \/ size < 0 THEN <<"Io", << >> >>
       ELSE IF size = 0 THEN <<"ok", << >> >>
       ELSE IF have < size THEN <<"Io", From(text, l.next)>>
       ELSE IF after.next = 0 THEN <<"Io", data>>
       ELSE <<D[after.next][1], data \o D[after.next][2]>>
ChunksFrom(text) == LET D[i \in 1 .. Len(text) + 1] == ChunkAt(text, i, D) IN D
Chunks(text) == ChunksFrom(text)[1]

\* The body of a response with the head that was read, given the tokens behind it.
Meaning(text, silent) ==
    IF "chunked" \in Range(Header(<<"Transfer-Encoding">>))
    THEN Verdict(Chunks(text)[1], Chunks(text)[2])
    ELSE LET n == ContentLength
         IN IF n < 0 THEN Verdict(IF silent THEN "Io" ELSE "ok", text)
            ELSE IF Len(text) < n THEN Verdict("Io", text) ELSE Verdict("ok", To(text, n))

\* A line end that follows another one at once, or with a CR between.
BlankAt(text, j) ==
    /\ text[j] = "LF"
    /\ \E i \in {j - 1, j - 2} :
          i > 0 /\ text[i] = "LF" /\ \A k \in i + 1 .. j - 1 : text[k] = "CR"

\* Where the head ends in the received tokens.
BodyStart(text) == Min({j \in DOMAIN text : BlankAt(text, j)}) + 1

-------------------------------------------------------------------------------
(* Properties *)

\* However recv() cut the stream, what getString() returns is what the received
\* tokens mean: not a byte of the body is lost with the head, taken from the
\* next chunk's header or left out, and success means the whole body.
MeaningKept ==
    pc = "done" =>
        \E silent \in BOOLEAN :
            [error |-> error, body |-> body] =
                Meaning(From(To(stream, pos), BodyStart(To(stream, pos))), silent)

\* Every URL a hop uses is one its own text stands for: toString() of it, which
\* is also the finalUrl reported and the base of a redirect, parses back to it.
RoundTrip == url # Bad => parseUrl(toString(url)) = url

\* A redirect without a scheme leads to a URL that parses, on the scheme, host
\* and port it came from, through resolveRedirect(), toString() and parseUrl().
StaysOnHost ==
    (pc = "parse" /\ hop > 0 /\ SchemeEnd(Header(<<"Location">>)) = 0) =>
        LET next == parseUrl(current)
        IN next # Bad /\ [next EXCEPT !.target = url.target] = url
===============================================================================
