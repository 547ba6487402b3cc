-------------------------------- MODULE Parser --------------------------------
(* HttpRequest::searchable_text (waf-core/src/parser.rs): which texts of a     *)
(* request the detectors get to see, and in which order.                       *)
(*                                                                             *)
(* A value is what the rules find out about a string: the patterns it matches  *)
(* as it stands, those it matches only once decoded, its shape, and the header *)
(* names it begins with.  The decoding itself (url_decode_limited, hex_decode) *)
(* is in which patterns are counted as `encoded'.                              *)
(*                                                                             *)
(* The names of headers are in lower case, as the server makes them            *)
(* (main.rs:399): comparisons that ignore case are equalities of names.        *)
EXTENDS Sequences, SequencesExt

CONSTANTS Patterns,  \* what a text may match
          Nothing    \* no content type, a body that is not UTF-8

Shapes == {"empty", "nulls", "controls", "single", "plain"}
Value  == {v \in [matches : SUBSET Patterns, encoded : SUBSET Patterns, shape : Shapes,
                  says : SUBSET {"user-agent", "referer"}] :
             v.says # {} => v.shape \notin {"empty", "single"}}

\* A header that was sent several times has its values joined, and a first one.
Header == [name : STRING, value : Value, first : Value]
Cookie == [name : STRING, value : Value]

\* Both are hash maps, which may be iterated in any order: a request has them in
\* one of the orders, and no name twice.
NamesDiffer(s) == \A i, j \in DOMAIN s : s[i].name = s[j].name => i = j

HttpRequest == {req \in [path : Value, query : Value, headers : Seq(Header),
                         body : Value \cup {Nothing}, cookies : Seq(Cookie)] :
                  NamesDiffer(req.headers) /\ NamesDiffer(req.cookies)}

\* The elements of a sequence at some of its indices, in order.
Filtered(s, kept) ==
    FlattenSeq([i \in DOMAIN s |-> IF i \in kept THEN <<s[i]>> ELSE <<>>])

Text(location, name, value) == [location |-> location, name |-> name, value |-> value]

\* A path or a query is searched unless it is empty, a body even then.
Filled(location, value) ==
    IF value.shape = "empty" THEN <<>> ELSE <<Text(location, "", value)>>
Present(location, value) ==
    IF value = Nothing THEN <<>> ELSE <<Text(location, "", value)>>

\* The first value of a header, or nothing.
GetHeader(req, name) ==
    IF \E i \in DOMAIN req.headers : req.headers[i].name = name
    THEN req.headers[CHOOSE i \in DOMAIN req.headers : req.headers[i].name = name].first
    ELSE Nothing

Searched(header) == header.name \notin {"host", "connection"}

HeaderTexts(header) ==
    IF Searched(header) THEN <<Text("header", header.name, header.value)>> ELSE <<>>
CookieTexts(cookie) == <<Text("cookie", "", cookie.value)>>

\* The content type is searched twice, on its own and among the headers.
SearchableText(req) ==
    Filled("path", req.path) \o Filled("query", req.query)
    \o Present("content_type", GetHeader(req, "content-type"))
    \o FlattenSeq([i \in DOMAIN req.headers |-> HeaderTexts(req.headers[i])])
    \o Present("body", req.body)
    \o FlattenSeq([i \in DOMAIN req.cookies |-> CookieTexts(req.cookies[i])])
==============================================================================
