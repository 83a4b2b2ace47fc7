---------------------------- MODULE HttpMessage ----------------------------
(***************************************************************************)
(* HTTPRequest and HTTPResponse (hw6, hw7) and the text they travel as.    *)
(*                                                                         *)
(* A text is a sequence of tokens: the four separators the parsers search  *)
(* for (line end, ": ", blank, slash) and, between them, words.  A length  *)
(* counts tokens.  The text of a line end is one token: a text that ends   *)
(* inside it holds the same line ends as one that ends before it.          *)
(***************************************************************************)
EXTENDS Integers, Sequences, FiniteSetsExt, TLC

CRLF  == "CRLF"
Colon == ": "
Blank == " "
Slash == "/"

ContentLength == "Content-Length"
Connection    == "Connection"
Server        == "Server"

\* The order of a std::map of header lines.
HeaderOrder == <<Connection, ContentLength, Server>>

StatusCode ==
    {0} \union (100 .. 102) \union (200 .. 208) \union {226}
        \union (300 .. 308) \union (400 .. 419) \union (421 .. 424)
        \union {426, 428, 429, 431, 444, 449, 451, 499}
        \union (500 .. 511) \union (520 .. 525) \union {599}

\* getCodeMessage: no text for two of the codes, otherwise a word or more.
CodeMessage(code) ==
    IF code \in {0, 306} THEN <<>>
    ELSE IF code \in {100, 102, 200, 201, 202, 207, 302, 401, 403, 409, 410,
                      422, 423}
         THEN <<"Word">>
         ELSE <<"Two", Blank, "Words">>

\* std::to_string, and sscanf and operator>>, which leave 0 where there is
\* no number to read.  Every length and key is at most MaxNumber.
MaxNumber == 9
Digits(n) == ToString(n)

\* A token is a string; the assumption says so of the ones written here and in
\* the examples, for the provers.
Token == STRING
ASSUME TokenAssumption ==
    {CRLF, Colon, Blank, Slash, Connection, ContentLength, Server,
     "HTTP", "1.1", "Word", "Two", "Words", "OK", "A", "B", "C", "D", "E",
     "Keep-Alive", "MyFileServer"} \subseteq Token

\* What is between separators.
IsWord(token) == token \in Token \ {CRLF, Colon, Blank, Slash}

\* The decimal numerals of lengths and status codes, two of which the examples
\* have in their texts.
ASSUME DigitsAssumption ==
    /\ \A n \in 0 .. 599 : IsWord(Digits(n))
    /\ \A m, n \in 0 .. 599 : Digits(m) = Digits(n) => m = n
    /\ Digits(5) = "5" /\ Digits(200) = "200"

Scan(words) ==
    IF words # <<>> /\ \E n \in 0 .. MaxNumber : Digits(n) = words[1]
    THEN CHOOSE n \in 0 .. MaxNumber : Digits(n) = words[1]
    ELSE 0

\* str.find(token, from), in the text or in the line that ends before to;
\* 0 is npos.
Find(text, token, from, to) ==
    IF \E i \in from .. to - 1 : text[i] = token
    THEN CHOOSE i \in from .. to - 1 :
            text[i] = token /\ \A j \in from .. i - 1 : text[j] # token
    ELSE 0

-----------------------------------------------------------------------------
(* Writing *)

\* addHeaderLine, on the map of header lines.
AddLine(headers, name, info) ==
    [n \in DOMAIN headers \union {name} |->
        IF n = name THEN info ELSE headers[n]]

HeaderLine(name, info) == <<name, Colon>> \o info \o <<CRLF>>

\* getHeaders
HeaderText(headers) ==
    LET Line(i) == IF HeaderOrder[i] \in DOMAIN headers
                   THEN HeaderLine(HeaderOrder[i], headers[HeaderOrder[i]])
                   ELSE <<>>
    IN  Line(1) \o Line(2) \o Line(3)

\* The Content-Length line that toString inserts, and keeps, in the message.
WithLength(message) ==
    IF ContentLength \notin DOMAIN message.headers /\ message.body # <<>>
    THEN [message EXCEPT !.headers =
            AddLine(@, ContentLength, <<Digits(Len(message.body))>>)]
    ELSE message

RequestLine(request) ==
    <<request.method, Blank>> \o request.target
        \o <<Blank, "HTTP", Slash, request.version, CRLF>>

StatusLine(response) ==
    <<"HTTP", Slash, response.version, Blank, Digits(response.status), Blank>>
        \o CodeMessage(response.status) \o <<CRLF>>

RequestText(request) ==
    RequestLine(request) \o HeaderText(WithLength(request).headers)
        \o <<CRLF>> \o request.body

ResponseText(response) ==
    StatusLine(response) \o HeaderText(WithLength(response).headers)
        \o <<CRLF>> \o response.body

-----------------------------------------------------------------------------
(* Reading: fromString on a message that has no headers yet *)

\* Where the line that begins at i ends; 0 if its end is not there.
LineEnd(text, i) == Find(text, CRLF, i, Len(text) + 1)

\* The line end that stands alone on its line, after the header lines.
IsEmptyLine(text, i) == text[i] = CRLF /\ text[i - 1] = CRLF
EmptyLine(text) ==
    IF \E i \in 2 .. Len(text) : IsEmptyLine(text, i)
    THEN CHOOSE i \in 2 .. Len(text) :
            /\ IsEmptyLine(text, i)
            /\ \A j \in 2 .. i - 1 : ~IsEmptyLine(text, j)
    ELSE 0

\* The header lines, by the places where they begin, and their ": ".
HeaderStarts(text) ==
    {i \in 2 .. EmptyLine(text) - 1 : text[i - 1] = CRLF}
ColonAt(text, i) == Find(text, Colon, i, LineEnd(text, i))

\* addHeaderLine keeps the last line of a name.
Headers(text) ==
    [name \in {text[i] : i \in HeaderStarts(text)} |->
        LET i == Max({i \in HeaderStarts(text) : text[i] = name})
        IN  SubSeq(text, ColonAt(text, i) + 1, LineEnd(text, i) - 1)]

\* Mutant: the length of the body is not compared.
BodyFitsAny(text) == TRUE

BodyFits(text) ==
    ContentLength \in DOMAIN Headers(text) =>
        Len(text) - EmptyLine(text) = Scan(Headers(text)[ContentLength])

\* What follows the empty line is a body only if a Content-Length says so.
Body(text) == IF ContentLength \in DOMAIN Headers(text)
              THEN SubSeq(text, EmptyLine(text) + 1, Len(text))
              ELSE <<>>

\* None of the throws that come after the first line's happens.
RestParses(text) ==
    /\ EmptyLine(text) # 0
    /\ \A i \in HeaderStarts(text) : ColonAt(text, i) # 0
    /\ BodyFits(text)

\* The two blanks of the first line, and the slash of each kind of message.
FirstBlank(text)  == Find(text, Blank, 1, LineEnd(text, 1))
SecondBlank(text) ==
    Find(text, Blank, FirstBlank(text) + 1, LineEnd(text, 1))
RequestSlash(text) ==
    Find(text, Slash, SecondBlank(text) + 1, LineEnd(text, 1))
ResponseSlash(text) == Find(text, Slash, 1, LineEnd(text, 1))

RequestParses(text) ==
    /\ LineEnd(text, 1) # 0
    /\ FirstBlank(text) # 0 /\ SecondBlank(text) # 0
    /\ RequestSlash(text) # 0
    /\ RestParses(text)

RequestOf(text) ==
    [method  |-> text[1],
     target  |-> SubSeq(text, FirstBlank(text) + 1, SecondBlank(text) - 1),
     version |-> text[RequestSlash(text) + 1],
     headers |-> Headers(text),
     body    |-> Body(text)]

\* A status that is not a number throws too: out of std::stoi.
IsStatus(word) == \E code \in StatusCode : Digits(code) = word
ResponseParses(text) ==
    /\ LineEnd(text, 1) # 0
    /\ ResponseSlash(text) # 0
    /\ FirstBlank(text) # 0 /\ SecondBlank(text) # 0
    /\ IsStatus(text[FirstBlank(text) + 1])
    /\ RestParses(text)

ResponseOf(text) ==
    [version |-> text[ResponseSlash(text) + 1],
     status  |-> CHOOSE code \in StatusCode :
                    Digits(code) = text[FirstBlank(text) + 1],
     headers |-> Headers(text),
     body    |-> Body(text)]

\* doKeepAlive, which compares the header's information in lower case.
DoKeepAlive(request) ==
    /\ Connection \in DOMAIN request.headers
    /\ request.headers[Connection] \in {<<"keep-alive">>, <<"Keep-Alive">>}

-----------------------------------------------------------------------------
(* Messages that a text can carry *)

OneLine(words) ==
    words \in Seq(Token) /\ \A i \in DOMAIN words : words[i] # CRLF

\* No part of a header line holds a line end, and a Content-Length that is set
\* is the body's.
WellFormed(headers, body) ==
    /\ headers \in [DOMAIN headers -> Seq(Token)]
    /\ DOMAIN headers \subseteq {HeaderOrder[i] : i \in 1 .. 3}
    /\ \A name \in DOMAIN headers : OneLine(headers[name])
    /\ body \in Seq(Token) /\ Len(body) <= MaxNumber
    /\ ContentLength \in DOMAIN headers =>
            headers[ContentLength] = <<Digits(Len(body))>>

IsRequest(request) ==
    /\ request = [method  |-> request.method,  target |-> request.target,
                  version |-> request.version, headers |-> request.headers,
                  body    |-> request.body]
    /\ IsWord(request.method) /\ IsWord(request.version)
    /\ OneLine(request.target) /\ \A i \in DOMAIN request.target :
                                       request.target[i] # Blank
    /\ WellFormed(request.headers, request.body)
=============================================================================
