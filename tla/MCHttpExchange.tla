--------------------------- MODULE MCHttpExchange ---------------------------
EXTENDS HttpExchange

Get(key, headers) ==
    [method |-> "GET", target |-> <<Slash, "?entry=", key>>,
     version |-> "1.1", headers |-> headers, body |-> <<>>]
Post(headers) ==
    [method |-> "POST", target |-> <<Slash, "form">>, version |-> "1.1",
     headers |-> headers, body |-> <<"a", CRLF, CRLF, Colon, "b">>]

NoHeaders == [name \in {} |-> <<>>]
Keep  == Connection :> <<"keep-alive">>
Close == Connection :> <<"close">>

MCPrograms == {<<Get("1", Keep), Post(Close)>>,
               <<Post(Keep), Get("7", Keep)>>,
               <<Get("0", NoHeaders), Get("x", NoHeaders)>>}
MCEntries == <<<<"zero">>, <<"one", CRLF, CRLF, "uno">>>>

\* The sizes of all answers, and one that is too short and one too long.
MCAnswerSizes ==
    {1, 50} \union
    {Len(ResponseText(OnRequest(which, p[i]))) :
        which \in Services, p \in Programs, i \in 1 .. 2}
=============================================================================
