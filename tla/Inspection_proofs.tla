--------------------------- MODULE Inspection_proofs ---------------------------
(* Proofs about the inspection of requests, for any requests, weights and      *)
(* thresholds.                                                                 *)
EXTENDS Inspection, Scoring_proofs, Lists_proofs

(************************** what is searched ***********************************)

Locations == {"path", "query", "content_type", "header", "body", "cookie"}

\* The texts a request can have: never its Host or Connection header.
Texts == {text \in [location : Locations, name : STRING \cup {""}, value : Value] :
             text.location = "header" => text.name \notin {"host", "connection"}}

\* What is searched of the request line, of the content type, of the body, and of
\* each header and cookie.
LineTexts(req) == Filled("path", req.path) \o Filled("query", req.query)
TypeTexts(req) == Present("content_type", GetHeader(req, "content-type"))
BodyTexts(req) == Present("body", req.body)
OfHeader == [h \in Header |-> HeaderTexts(h)]
OfCookie == [c \in Cookie |-> CookieTexts(c)]

LEMMA FunctionIsSeq ==
    ASSUME NEW T, NEW n \in Nat, NEW f \in [1..n -> T]
    PROVE  f \in Seq(T) /\ Len(f) = n
OBVIOUS

LEMMA RequestType ==
    ASSUME NEW req \in HttpRequest
    PROVE  /\ req.path \in Value /\ req.query \in Value
           /\ req.headers \in Seq(Header) /\ req.cookies \in Seq(Cookie)
           /\ req.body \in Value \cup {Nothing}
           /\ NamesDiffer(req.headers)
           /\ Distinct(req.headers) /\ Distinct(req.cookies)
           /\ DOMAIN req.headers = 1..Len(req.headers)
           /\ DOMAIN req.cookies = 1..Len(req.cookies)
           /\ \A i \in 1..Len(req.headers) : req.headers[i] \in Header
           /\ \A i \in 1..Len(req.cookies) : req.cookies[i] \in Cookie
<1>1. /\ req \in [path : Value, query : Value, headers : Seq(Header),
                  body : Value \cup {Nothing}, cookies : Seq(Cookie)]
      /\ NamesDiffer(req.headers) /\ NamesDiffer(req.cookies)
  BY DEF HttpRequest
<1>2. req.headers \in Seq(Header) /\ req.cookies \in Seq(Cookie)
  BY <1>1
<1>3. /\ DOMAIN req.headers = 1..Len(req.headers)
      /\ \A i \in 1..Len(req.headers) : req.headers[i] \in Header
      /\ DOMAIN req.cookies = 1..Len(req.cookies)
      /\ \A i \in 1..Len(req.cookies) : req.cookies[i] \in Cookie
  BY <1>2, LenProperties
<1>4. Distinct(req.headers) /\ Distinct(req.cookies)
  BY <1>1, <1>3 DEF Distinct, NamesDiffer
<1> QED BY <1>1, <1>2, <1>3, <1>4

\* The texts that are not of a header.
LEMMA SingleTextType ==
    ASSUME NEW location \in Locations \ {"header"}, NEW value \in Value \cup {Nothing}
    PROVE  /\ value \in Value => <<Text(location, "", value)>> \in Seq(Texts)
           /\ value \in Value => Filled(location, value) \in Seq(Texts)
           /\ Present(location, value) \in Seq(Texts)
<1> DEFINE text == Text(location, "", value)
<1>1. ASSUME value \in Value PROVE text \in Texts
  <2>1. text.location # "header"
    BY DEF Text
  <2>2. text \in [location : Locations, name : STRING \cup {""}, value : Value]
    BY <1>1 DEF Text
  <2> HIDE DEF text
  <2> QED BY <2>1, <2>2 DEF Texts
<1> HIDE DEF text
<1>2. <<>> \in Seq(Texts) /\ (value \in Value => <<text>> \in Seq(Texts))
  BY <1>1, EmptySeq
<1>3. /\ Filled(location, value) = IF value.shape = "empty" THEN <<>> ELSE <<text>>
      /\ Present(location, value) = IF value = Nothing THEN <<>> ELSE <<text>>
  BY DEF Filled, Present, text
<1>4. /\ value \in Value => Filled(location, value) \in Seq(Texts)
      /\ Present(location, value) \in Seq(Texts)
  BY <1>2, <1>3
<1> QED BY <1>2, <1>4 DEF text

LEMMA OfHeaderType == OfHeader \in Maps(Header, Texts)
<1> SUFFICES ASSUME NEW h \in Header
             PROVE  HeaderTexts(h) \in Seq(Texts)
  BY DEF OfHeader, Maps
<1>1. CASE Searched(h)
  <2>1. Text("header", h.name, h.value) \in Texts
    BY <1>1 DEF Text, Texts, Locations, Header, Searched
  <2> QED BY <1>1, <2>1 DEF HeaderTexts
<1>2. CASE ~Searched(h)
  BY <1>2, EmptySeq DEF HeaderTexts
<1> QED BY <1>1, <1>2

LEMMA OfCookieType == OfCookie \in Maps(Cookie, Texts)
<1> SUFFICES ASSUME NEW c \in Cookie
             PROVE  CookieTexts(c) \in Seq(Texts)
  BY DEF OfCookie, Maps
<1>1. c.value \in Value /\ "cookie" \in Locations \ {"header"}
  BY DEF Cookie, Locations
<1> QED BY <1>1, SingleTextType DEF CookieTexts

LEMMA GetHeaderType ==
    ASSUME NEW req \in HttpRequest, NEW name
    PROVE  GetHeader(req, name) \in Value \cup {Nothing}
<1> DEFINE k == CHOOSE i \in DOMAIN req.headers : req.headers[i].name = name
<1>1. CASE \E i \in DOMAIN req.headers : req.headers[i].name = name
  <2>1. k \in DOMAIN req.headers
    BY <1>1
  <2> HIDE DEF k
  <2>2. req.headers[k].first \in Value
    BY <2>1, RequestType DEF Header
  <2> QED BY <1>1, <2>2 DEF GetHeader, k
<1>2. CASE ~\E i \in DOMAIN req.headers : req.headers[i].name = name
  BY <1>2 DEF GetHeader
<1> QED BY <1>1, <1>2

LEMMA PartTypes ==
    ASSUME NEW req \in HttpRequest
    PROVE  /\ LineTexts(req) \in Seq(Texts)
           /\ TypeTexts(req) \in Seq(Texts)
           /\ BodyTexts(req) \in Seq(Texts)
           /\ Bind(OfHeader, req.headers) \in Seq(Texts)
           /\ Bind(OfCookie, req.cookies) \in Seq(Texts)
<1>1. {"path", "query", "content_type", "body"} \subseteq Locations \ {"header"}
  BY DEF Locations
<1>2. /\ Filled("path", req.path) \in Seq(Texts)
      /\ Filled("query", req.query) \in Seq(Texts)
  BY <1>1, RequestType, SingleTextType
<1>3. TypeTexts(req) \in Seq(Texts) /\ BodyTexts(req) \in Seq(Texts)
  BY <1>1, RequestType, GetHeaderType, SingleTextType DEF TypeTexts, BodyTexts
<1>4. LineTexts(req) \in Seq(Texts)
  BY <1>2, ConcatProperties DEF LineTexts
<1>5. Bind(OfHeader, req.headers) \in Seq(Texts) /\ Bind(OfCookie, req.cookies) \in Seq(Texts)
  BY OfHeaderType, OfCookieType, RequestType, BindType
<1> QED BY <1>3, <1>4, <1>5

\* The texts of a request.
LEMMA SearchedParts ==
    ASSUME NEW req \in HttpRequest
    PROVE  /\ SearchableText(req) \in Seq(Texts)
           /\ SearchableText(req)
                = (((LineTexts(req) \o TypeTexts(req)) \o Bind(OfHeader, req.headers))
                   \o BodyTexts(req)) \o Bind(OfCookie, req.cookies)
<1> DEFINE H == FlattenSeq([i \in DOMAIN req.headers |-> HeaderTexts(req.headers[i])])
           K == FlattenSeq([i \in DOMAIN req.cookies |-> CookieTexts(req.cookies[i])])
           hs == Bind(OfHeader, req.headers)
           ks == Bind(OfCookie, req.cookies)
<1>1. H = hs /\ K = ks
  <2>1. /\ \A i \in DOMAIN req.headers : HeaderTexts(req.headers[i]) = OfHeader[req.headers[i]]
        /\ \A i \in DOMAIN req.cookies : CookieTexts(req.cookies[i]) = OfCookie[req.cookies[i]]
    BY RequestType DEF OfHeader, OfCookie
  <2>2. /\ Mapped(OfHeader, req.headers)
             = [i \in DOMAIN req.headers |-> HeaderTexts(req.headers[i])]
        /\ Mapped(OfCookie, req.cookies)
             = [i \in DOMAIN req.cookies |-> CookieTexts(req.cookies[i])]
    BY <2>1 DEF Mapped
  <2> QED BY <2>2 DEF Bind
<1>2. SearchableText(req)
        = (((LineTexts(req) \o TypeTexts(req)) \o H) \o BodyTexts(req)) \o K
  BY DEF SearchableText, LineTexts, TypeTexts, BodyTexts
<1> HIDE DEF H, K
<1>3. SearchableText(req)
        = (((LineTexts(req) \o TypeTexts(req)) \o hs) \o BodyTexts(req)) \o ks
  BY <1>1, <1>2
<1>4. /\ LineTexts(req) \in Seq(Texts) /\ TypeTexts(req) \in Seq(Texts) /\ hs \in Seq(Texts)
      /\ BodyTexts(req) \in Seq(Texts) /\ ks \in Seq(Texts)
  BY PartTypes
<1> HIDE DEF hs, ks
<1>5. ((LineTexts(req) \o TypeTexts(req)) \o hs) \o BodyTexts(req) \in Seq(Texts)
  <2>1. (LineTexts(req) \o TypeTexts(req)) \o hs \in Seq(Texts)
    BY <1>4, ConcatProperties
  <2> DEFINE z == (LineTexts(req) \o TypeTexts(req)) \o hs
  <2>2. z \in Seq(Texts)
    BY <2>1
  <2> HIDE DEF z
  <2>3. z \o BodyTexts(req) \in Seq(Texts)
    BY <1>4, <2>2, ConcatProperties
  <2> QED BY <2>3 DEF z
<1>6. SearchableText(req) \in Seq(Texts)
  <2> DEFINE z == ((LineTexts(req) \o TypeTexts(req)) \o hs) \o BodyTexts(req)
  <2>1. z \in Seq(Texts)
    BY <1>5
  <2> HIDE DEF z
  <2>2. z \o ks \in Seq(Texts)
    BY <1>4, <2>1, ConcatProperties
  <2> QED BY <1>3, <2>2 DEF z
<1> QED BY <1>3, <1>6 DEF hs, ks

(************************** further headers and cookies ************************)

\* How much a function of the texts gives for a request, part by part.
LEMMA CountOfParts ==
    ASSUME NEW req \in HttpRequest, NEW U, NEW g \in Maps(Texts, U)
    PROVE  Len(Bind(g, SearchableText(req)))
             = (((Len(Bind(g, LineTexts(req))) + Len(Bind(g, TypeTexts(req))))
                  + Len(Bind([h \in Header |-> Bind(g, OfHeader[h])], req.headers)))
                 + Len(Bind(g, BodyTexts(req))))
                + Len(Bind([c \in Cookie |-> Bind(g, OfCookie[c])], req.cookies))
<1> DEFINE L == LineTexts(req)
           C == TypeTexts(req)
           H == Bind(OfHeader, req.headers)
           B == BodyTexts(req)
           K == Bind(OfCookie, req.cookies)
           LC == L \o C
           LCH == LC \o H
           LCHB == LCH \o B
<1>1. /\ L \in Seq(Texts) /\ C \in Seq(Texts) /\ H \in Seq(Texts) /\ B \in Seq(Texts)
      /\ K \in Seq(Texts)
  BY PartTypes
<1>2. SearchableText(req) = LCHB \o K
  BY SearchedParts
<1>3. /\ Bind(g, H) = Bind([h \in Header |-> Bind(g, OfHeader[h])], req.headers)
      /\ Bind(g, K) = Bind([c \in Cookie |-> Bind(g, OfCookie[c])], req.cookies)
  BY OfHeaderType, OfCookieType, RequestType, BindTwice
<1> HIDE DEF L, C, H, B, K
<1>4. \A x, y \in Seq(Texts) :
         x \o y \in Seq(Texts) /\ Len(Bind(g, x \o y)) = Len(Bind(g, x)) + Len(Bind(g, y))
  BY CountConcat
<1>5. LC \in Seq(Texts) /\ Len(Bind(g, LC)) = Len(Bind(g, L)) + Len(Bind(g, C))
  BY <1>1, <1>4
<1> HIDE DEF LC
<1>6. LCH \in Seq(Texts) /\ Len(Bind(g, LCH)) = Len(Bind(g, LC)) + Len(Bind(g, H))
  BY <1>1, <1>4, <1>5
<1> HIDE DEF LCH
<1>7. LCHB \in Seq(Texts) /\ Len(Bind(g, LCHB)) = Len(Bind(g, LCH)) + Len(Bind(g, B))
  BY <1>1, <1>4, <1>6
<1> HIDE DEF LCHB
<1>8. Len(Bind(g, LCHB \o K)) = Len(Bind(g, LCHB)) + Len(Bind(g, K))
  BY <1>1, <1>4, <1>7
<1> QED BY <1>2, <1>3, <1>5, <1>6, <1>7, <1>8 DEF L, C, B

\* What an extended request keeps.
LEMMA ExtendedParts ==
    ASSUME NEW req \in HttpRequest, NEW other \in HttpRequest, Extends(req, other)
    PROVE  /\ LineTexts(other) = LineTexts(req) /\ BodyTexts(other) = BodyTexts(req)
           /\ ToSet(req.headers) \subseteq ToSet(other.headers)
           /\ ToSet(req.cookies) \subseteq ToSet(other.cookies)
<1>1. other.path = req.path /\ other.query = req.query /\ other.body = req.body
  <2>1. /\ req \in [path : Value, query : Value, headers : Seq(Header),
                    body : Value \cup {Nothing}, cookies : Seq(Cookie)]
        /\ other = [req EXCEPT !.headers = other.headers, !.cookies = other.cookies]
    BY DEF HttpRequest, Extends
  <2> QED BY <2>1
<1> QED BY <1>1 DEF Extends, LineTexts, BodyTexts

\* A header is found wherever it is.
LEMMA KeptHeader ==
    ASSUME NEW req \in HttpRequest, NEW other \in HttpRequest,
           ToSet(req.headers) \subseteq ToSet(other.headers), NEW name
    PROVE  \/ GetHeader(req, name) = Nothing
           \/ GetHeader(req, name) = GetHeader(other, name)
<1> DEFINE r == req.headers
           o == other.headers
           k == CHOOSE i \in DOMAIN r : r[i].name = name
           l == CHOOSE i \in DOMAIN o : o[i].name = name
<1>1. \A i, j \in DOMAIN o : o[i].name = o[j].name => i = j
  BY RequestType DEF NamesDiffer
<1>2. \A i \in DOMAIN r : \E j \in DOMAIN o : r[i] = o[j]
  BY DEF ToSet
<1>3. /\ GetHeader(req, name) = IF \E i \in DOMAIN r : r[i].name = name
                                THEN r[k].first ELSE Nothing
      /\ GetHeader(other, name) = IF \E i \in DOMAIN o : o[i].name = name
                                  THEN o[l].first ELSE Nothing
  BY DEF GetHeader
<1> HIDE DEF r, o
<1>4. CASE \E i \in DOMAIN r : r[i].name = name
  <2>1. k \in DOMAIN r /\ r[k].name = name
    BY <1>4
  <2>2. \E i \in DOMAIN o : o[i].name = name
    BY <1>2, <1>4
  <2>3. l \in DOMAIN o /\ o[l].name = name
    BY <2>2
  <2> HIDE DEF k, l
  <2>4. PICK j \in DOMAIN o : r[k] = o[j]
    BY <1>2, <2>1
  <2>5. j = l
    BY <1>1, <2>1, <2>3, <2>4
  <2> QED BY <1>3, <1>4, <2>2, <2>4, <2>5
<1>5. CASE ~\E i \in DOMAIN r : r[i].name = name
  BY <1>3, <1>5
<1> QED BY <1>4, <1>5

\* Whatever is counted of the texts, a request with further headers and cookies
\* has no less of it, wherever they are iterated.
LEMMA MoreIsCounted ==
    ASSUME NEW req \in HttpRequest, NEW other \in HttpRequest, Extends(req, other),
           NEW U, NEW g \in Maps(Texts, U)
    PROVE  Len(Bind(g, SearchableText(req))) <= Len(Bind(g, SearchableText(other)))
<1> DEFINE h == [x \in Header |-> Bind(g, OfHeader[x])]
           k == [x \in Cookie |-> Bind(g, OfCookie[x])]
<1>1. h \in Maps(Header, U) /\ k \in Maps(Cookie, U)
  <2>1. /\ \A x \in Header : Bind(g, OfHeader[x]) \in Seq(U)
        /\ \A x \in Cookie : Bind(g, OfCookie[x]) \in Seq(U)
    BY OfHeaderType, OfCookieType, MapsValue, BindType
  <2> QED BY <2>1 DEF Maps
<1>2. /\ Len(Bind(g, SearchableText(req)))
           = (((Len(Bind(g, LineTexts(req))) + Len(Bind(g, TypeTexts(req))))
                + Len(Bind(h, req.headers))) + Len(Bind(g, BodyTexts(req))))
             + Len(Bind(k, req.cookies))
      /\ Len(Bind(g, SearchableText(other)))
           = (((Len(Bind(g, LineTexts(other))) + Len(Bind(g, TypeTexts(other))))
                + Len(Bind(h, other.headers))) + Len(Bind(g, BodyTexts(other))))
             + Len(Bind(k, other.cookies))
  BY CountOfParts
<1> HIDE DEF h, k
<1>3. /\ LineTexts(other) = LineTexts(req) /\ BodyTexts(other) = BodyTexts(req)
      /\ ToSet(req.headers) \subseteq ToSet(other.headers)
      /\ ToSet(req.cookies) \subseteq ToSet(other.cookies)
  BY ExtendedParts
<1>4. /\ Len(Bind(h, req.headers)) <= Len(Bind(h, other.headers))
      /\ Len(Bind(k, req.cookies)) <= Len(Bind(k, other.cookies))
  BY <1>1, <1>3, RequestType, FewerCount
<1>5. Len(Bind(g, TypeTexts(req))) <= Len(Bind(g, TypeTexts(other)))
  <2>1. CASE GetHeader(req, "content-type") = Nothing
    <3>1. TypeTexts(req) = <<>>
      BY <2>1 DEF TypeTexts, Present
    <3>2. Len(Bind(g, TypeTexts(req))) = 0 /\ Len(Bind(g, TypeTexts(other))) \in Nat
      BY <3>1, BindEmpty, EmptySeq, PartTypes, BindType, LenProperties
    <3> QED BY <3>2
  <2>2. CASE GetHeader(req, "content-type") = GetHeader(other, "content-type")
    <3>1. TypeTexts(req) = TypeTexts(other)
      BY <2>2 DEF TypeTexts
    <3>2. Len(Bind(g, TypeTexts(req))) \in Nat
      BY PartTypes, BindType, LenProperties
    <3> QED BY <3>1, <3>2
  <2> QED BY <1>3, <2>1, <2>2, KeptHeader
<1>6. /\ Len(Bind(g, LineTexts(req))) \in Nat /\ Len(Bind(g, BodyTexts(req))) \in Nat
      /\ Len(Bind(g, TypeTexts(req))) \in Nat /\ Len(Bind(g, TypeTexts(other))) \in Nat
  BY PartTypes, BindType, LenProperties
<1>7. /\ Len(Bind(h, req.headers)) \in Nat /\ Len(Bind(h, other.headers)) \in Nat
      /\ Len(Bind(k, req.cookies)) \in Nat /\ Len(Bind(k, other.cookies)) \in Nat
  BY <1>1, RequestType, BindType, LenProperties
<1>8. \A a, b, c, d, e, u, v, w \in Nat :
         c <= u /\ d <= v /\ e <= w => (((a + c) + d) + b) + e <= (((a + u) + v) + b) + w
  OBVIOUS
<1> QED BY <1>2, <1>3, <1>4, <1>5, <1>6, <1>7, <1>8

(************************** the rule detectors *********************************)

RuleSet == UNION {ToSet(RuleTable[c]) : c \in DOMAIN RuleTable}
HitsOf(rules) == [text \in Texts |-> Hits(rules, text)]

\* A report is the confidences of the threats of a detector.
ConfidenceOf(s) == [i \in DOMAIN s |-> s[i].confidence]

\* Which rules each category has.
LEMMA RuleTableFacts ==
    /\ DOMAIN RuleTable =
           {"SqlInjection", "Xss", "CommandInjection", "LfiRfi", "Ssti", "Ssrf",
            "Deserialization", "HeaderInjection", "PathTraversal", "ProtocolViolation"}
    /\ RuleTable["SqlInjection"] = SqlInjectionRules
    /\ RuleTable["Xss"] = XssRules
    /\ RuleTable["CommandInjection"] = CmdiRules
    /\ RuleTable["LfiRfi"] = LfiRfiRules
    /\ RuleTable["Ssti"] = SstiRules
    /\ RuleTable["Ssrf"] = SsrfRules
    /\ RuleTable["Deserialization"] = DeserializationRules
    /\ RuleTable["HeaderInjection"] = HeaderInjectionRules
    /\ RuleTable["PathTraversal"] = PathTraversalRules
    /\ RuleTable["ProtocolViolation"] = <<>>
BY DEF RuleTable

LEMMA RuleTableType ==
    ASSUME NEW c \in DOMAIN RuleTable
    PROVE  RuleTable[c] \in Seq(RuleSet)
<1>1. SqlInjectionRules \in Seq(ToSet(SqlInjectionRules))
  BY DEF SqlInjectionRules, ToSet
<1>2. XssRules \in Seq(ToSet(XssRules))
  BY DEF XssRules, ToSet
<1>3. CmdiRules \in Seq(ToSet(CmdiRules))
  BY DEF CmdiRules, ToSet
<1>4. LfiRfiRules \in Seq(ToSet(LfiRfiRules))
  BY DEF LfiRfiRules, ToSet
<1>5. SstiRules \in Seq(ToSet(SstiRules))
  BY DEF SstiRules, ToSet
<1>6. SsrfRules \in Seq(ToSet(SsrfRules))
  BY DEF SsrfRules, ToSet
<1>7. DeserializationRules \in Seq(ToSet(DeserializationRules))
  BY DEF DeserializationRules, ToSet
<1>8. HeaderInjectionRules \in Seq(ToSet(HeaderInjectionRules))
  BY DEF HeaderInjectionRules, ToSet
<1>9. PathTraversalRules \in Seq(ToSet(PathTraversalRules))
  BY DEF PathTraversalRules, ToSet
<1>10. <<>> \in Seq(ToSet(<<>>))
  BY EmptySeq
<1>11. RuleTable[c] \in Seq(ToSet(RuleTable[c]))
  BY <1>1, <1>2, <1>3, <1>4, <1>5, <1>6, <1>7, <1>8, <1>9, <1>10, RuleTableFacts
<1>12. ToSet(RuleTable[c]) \subseteq RuleSet
  BY DEF RuleSet
<1> QED BY <1>11, <1>12, SeqMonotonic

LEMMA HitsType ==
    ASSUME NEW rules \in Seq(RuleSet)
    PROVE  HitsOf(rules) \in Maps(Texts, RuleSet)
<1>1. \A text \in Texts : Hits(rules, text) \in Seq(RuleSet)
  BY FilteredType DEF Hits
<1> QED BY <1>1 DEF HitsOf, Maps

LEMMA ScanIsBind ==
    ASSUME NEW rules \in Seq(RuleSet), NEW texts \in Seq(Texts)
    PROVE  /\ Scan(rules, texts) = Bind(HitsOf(rules), texts)
           /\ Scan(rules, texts) \in Seq(RuleSet)
<1>1. \A i \in DOMAIN texts : texts[i] \in Texts
  BY LenProperties
<1>2. Mapped(HitsOf(rules), texts) = [i \in DOMAIN texts |-> Hits(rules, texts[i])]
  BY <1>1 DEF Mapped, HitsOf
<1>3. Scan(rules, texts) = Bind(HitsOf(rules), texts)
  BY <1>2 DEF Scan, Bind
<1> QED BY <1>3, HitsType, BindType

LEMMA ReportOfRules ==
    ASSUME NEW c \in DOMAIN RuleTable, NEW texts \in Seq(Texts)
    PROVE  /\ Report(c, texts) = ConfidenceOf(Bind(HitsOf(RuleTable[c]), texts))
           /\ Bind(HitsOf(RuleTable[c]), texts) \in Seq(RuleSet)
<1>1. c # "BotChallenge"
  BY DEF RuleTable
<1>2. /\ Scan(RuleTable[c], texts) = Bind(HitsOf(RuleTable[c]), texts)
      /\ Scan(RuleTable[c], texts) \in Seq(RuleSet)
  BY RuleTableType, ScanIsBind
<1> QED BY <1>1, <1>2 DEF Report, ConfidenceOf

\* The report has as many entries as the detector has threats.
LEMMA ConfidenceLength ==
    ASSUME NEW T, NEW s \in Seq(T)
    PROVE  /\ Len(ConfidenceOf(s)) = Len(s) /\ Len(s) \in Nat
           /\ DOMAIN ConfidenceOf(s) = 1..Len(s) /\ DOMAIN s = 1..Len(s)
           /\ \A i \in 1..Len(s) : ConfidenceOf(s)[i] = s[i].confidence /\ s[i] \in T
<1>1. /\ DOMAIN s = 1..Len(s) /\ Len(s) \in Nat
      /\ \A i \in 1..Len(s) : s[i] \in T
  BY LenProperties
<1>2. ConfidenceOf(s) = [i \in 1..Len(s) |-> s[i].confidence]
  BY <1>1 DEF ConfidenceOf
<1>3. ConfidenceOf(s) \in [1..Len(s) -> {s[i].confidence : i \in 1..Len(s)}]
  BY <1>2
<1>4. Len(ConfidenceOf(s)) = Len(s)
  BY <1>1, <1>3, FunctionIsSeq
<1> QED BY <1>1, <1>2, <1>4

(************************** the bot detector ***********************************)

BotIds == {"BOT-001", "BOT-002", "BOT-003", "BOT-004", "BOT-010", "BOT-011", "BOT-012",
           "BOT-013", "BOT-020"}

\* The threats the bot detector can report: scanners are worth 90 or more, and
\* only an indicator may be located outside the headers.
Signs == {t \in [id : BotIds, confidence : 45..95, location : Locations] :
            /\ Scanner(t) => t.confidence >= 90
            /\ t.id = "BOT-003" => t.confidence = 75
            /\ t.id = "BOT-004" => t.confidence = 85
            /\ t.id # "BOT-003" => t.location = "header"}

SignsOf == [text \in Texts |-> OfText(text)]
Missing == Threat("BOT-020", 45, "header")
Indicator == Threat("BOT-003", 75, "header")

LEMMA EveryTextSigns ==
    ASSUME NEW text \in Texts
    PROVE  /\ OfAgent(text) \in Seq(Signs) /\ OfReferer(text) \in Seq(Signs)
           /\ OfAnyText(text) \in Seq(Signs) /\ OfEncoded(text) \in Seq(Signs)
           /\ Anomaly(text) \in Seq(Signs)
<1>0. MapLocation(text.location) \in Locations /\ "header" \in Locations
  BY DEF MapLocation, Locations, Texts
<1>1. /\ Threat("BOT-001", 95, "header") \in Signs
      /\ Threat("BOT-002", 90, "header") \in Signs
      /\ Threat("BOT-003", 75, MapLocation(text.location)) \in Signs
      /\ Threat("BOT-004", 85, "header") \in Signs
      /\ Threat("BOT-010", 60, "header") \in Signs
      /\ Threat("BOT-011", 90, "header") \in Signs
      /\ Threat("BOT-012", 75, "header") \in Signs
      /\ Threat("BOT-013", 50, "header") \in Signs
  BY <1>0 DEF Threat, Signs, BotIds, Scanner
<1>2. <<>> \in Seq(Signs) /\ \A t \in Signs : <<t>> \in Seq(Signs)
  BY EmptySeq
<1>3. /\ OfAgent(text) \in Seq(Signs) /\ OfReferer(text) \in Seq(Signs)
      /\ OfAnyText(text) \in Seq(Signs) /\ OfEncoded(text) \in Seq(Signs)
  BY <1>1, <1>2 DEF OfAgent, OfReferer, OfAnyText, OfEncoded, InHeaders
<1>4. Anomaly(text) \in Seq(Signs)
  BY <1>1, <1>2 DEF Anomaly, InHeaders
<1> QED BY <1>3, <1>4

LEMMA SignsOfText ==
    ASSUME NEW text \in Texts
    PROVE  OfText(text) \in Seq(Signs)
BY EveryTextSigns, ConcatProperties DEF OfText

\* What is left of the signs when a scanner was found, and when not.
LeftBy(found_scanner) == IF found_scanner THEN Signs \ {Indicator} ELSE Signs
HasScanner(signs) == \E i \in 1..Len(signs) : signs[i] \in {t \in Signs : Scanner(t)}
AllSigns(texts) == Bind(SignsOf, texts) \o ProtocolAnomalies(texts)
HeaderTextsOf(texts) == Bind(Only(Texts, {text \in Texts : text.location = "header"}), texts)

LEMMA SignsOfType == SignsOf \in Maps(Texts, Signs)
BY SignsOfText DEF SignsOf, Maps

\* The whole-request test never sees a Host header.
LEMMA AnomalyOfTexts ==
    ASSUME NEW texts \in Seq(Texts)
    PROVE  /\ ProtocolAnomalies(texts) = IF Len(HeaderTextsOf(texts)) >= 2
                                         THEN <<Missing>> ELSE <<>>
           /\ Missing \in Signs
           /\ ProtocolAnomalies(texts) \in Seq(Signs)
<1>1. \A i \in DOMAIN texts : texts[i] \in Texts
  BY LenProperties
<1>2. ~HasHost(texts)
  BY <1>1 DEF HasHost, Texts
<1>3. HeadersOf(texts) = HeaderTextsOf(texts)
  <2> DEFINE kept == {i \in DOMAIN texts : texts[i].location = "header"}
             K == {text \in Texts : text.location = "header"}
  <2>1. \A i \in DOMAIN texts : i \in kept <=> texts[i] \in K
    BY <1>1
  <2> HIDE DEF kept, K
  <2>2. Filtered(texts, kept) = Bind(Only(Texts, K), texts)
    BY <2>1, FilteredIsOnly
  <2> QED BY <2>2 DEF HeadersOf, HeaderTextsOf, kept, K
<1>4. Missing \in Signs
  BY DEF Missing, Threat, Signs, BotIds, Locations, Scanner
<1>5. <<>> \in Seq(Signs) /\ <<Missing>> \in Seq(Signs)
  BY <1>4, EmptySeq
<1> QED BY <1>2, <1>3, <1>4, <1>5 DEF ProtocolAnomalies, InHeaders, Missing

LEMMA AllSignsType ==
    ASSUME NEW texts \in Seq(Texts)
    PROVE  /\ Bind(SignsOf, texts) \in Seq(Signs)
           /\ AllSigns(texts) \in Seq(Signs)
<1>1. Bind(SignsOf, texts) \in Seq(Signs)
  BY SignsOfType, BindType
<1> QED BY <1>1, AnomalyOfTexts, ConcatProperties DEF AllSigns

\* The suppression of duplicates takes away the indicators in headers, when a
\* scanner was found, and nothing else.
LEMMA DeduplicatedIsOnly ==
    ASSUME NEW signs \in Seq(Signs)
    PROVE  Deduplicated(signs) = Bind(Only(Signs, LeftBy(HasScanner(signs))), signs)
<1> DEFINE kept == {i \in DOMAIN signs : ~Duplicate(i, signs)}
           K == LeftBy(HasScanner(signs))
<1>1. DOMAIN signs = 1..Len(signs) /\ \A i \in DOMAIN signs : signs[i] \in Signs
  BY LenProperties
<1>2. \A t \in Signs : Scanner(t) => t.location = "header"
  BY DEF Signs, Scanner
<1>3. \A t \in Signs : Weak(t) /\ t.location = "header" <=> t = Indicator
  BY DEF Signs, Weak, Indicator, Threat
<1>4. ASSUME NEW i \in DOMAIN signs PROVE i \in kept <=> signs[i] \in K
  <2>1. Duplicate(i, signs) <=> HasScanner(signs) /\ signs[i] = Indicator
    <3>1. ASSUME Duplicate(i, signs) PROVE HasScanner(signs) /\ signs[i] = Indicator
      BY <1>1, <1>2, <1>3, <3>1 DEF Duplicate, HasScanner
    <3>2. ASSUME HasScanner(signs), signs[i] = Indicator PROVE Duplicate(i, signs)
      <4>1. PICK j \in 1..Len(signs) : Scanner(signs[j]) /\ signs[j] \in Signs
        BY <3>2 DEF HasScanner
      <4>2. signs[i].location = "header" /\ Weak(signs[i])
        BY <1>1, <1>3, <3>2
      <4> QED BY <1>1, <1>2, <4>1, <4>2 DEF Duplicate
    <3> QED BY <3>1, <3>2
  <2> QED BY <1>1, <2>1 DEF LeftBy
<1> HIDE DEF kept, K
<1>5. Filtered(signs, kept) = Bind(Only(Signs, K), signs)
  BY <1>4, FilteredIsOnly
<1> QED BY <1>5 DEF Deduplicated, kept, K

LEMMA ScanIsLeft ==
    ASSUME NEW texts \in Seq(Texts)
    PROVE  /\ ScanForBots(texts)
                = Bind(Only(Signs, LeftBy(HasScanner(AllSigns(texts)))), AllSigns(texts))
           /\ ScanForBots(texts) \in Seq(Signs)
           /\ Report("BotChallenge", texts) = ConfidenceOf(ScanForBots(texts))
<1>1. \A i \in DOMAIN texts : texts[i] \in Texts
  BY LenProperties
<1>2. Mapped(SignsOf, texts) = [i \in DOMAIN texts |-> OfText(texts[i])]
  BY <1>1 DEF Mapped, SignsOf
<1>3. ScanForBots(texts) = Deduplicated(AllSigns(texts))
  BY <1>2 DEF ScanForBots, AllSigns, Bind
<1>4. ScanForBots(texts)
        = Bind(Only(Signs, LeftBy(HasScanner(AllSigns(texts)))), AllSigns(texts))
  BY <1>3, AllSignsType, DeduplicatedIsOnly
<1>5. Report("BotChallenge", texts) = ConfidenceOf(ScanForBots(texts))
  BY DEF Report, ConfidenceOf
<1> QED BY <1>4, <1>5, AllSignsType, OnlyType, BindType

\* What a sign is worth, and which are kept whatever was found.
LEMMA SignFacts ==
    /\ \A t \in Signs : t.confidence \in 45..95
    /\ Missing \in Signs /\ Missing.confidence = 45 /\ Missing # Indicator
    /\ \A t \in Signs : Scanner(t) => t.confidence >= 90 /\ t # Indicator
<1>1. Missing \in Signs
  BY DEF Missing, Threat, Signs, BotIds, Locations, Scanner
<1>2. Missing.confidence = 45 /\ Missing # Indicator
  BY DEF Missing, Indicator, Threat
<1>3. ~Scanner(Indicator)
  BY DEF Indicator, Threat, Scanner
<1> QED BY <1>1, <1>2, <1>3 DEF Signs

\* With further headers and cookies, no fewer signs are in a given set.
LEMMA MoreSigns ==
    ASSUME NEW req \in HttpRequest, NEW other \in HttpRequest, Extends(req, other),
           NEW K
    PROVE  Len(Bind(Only(Signs, K), AllSigns(SearchableText(req))))
             <= Len(Bind(Only(Signs, K), AllSigns(SearchableText(other))))
<1> DEFINE A == SearchableText(req)
           B == SearchableText(other)
           f == Only(Signs, K)
           k == [text \in Texts |-> Bind(f, SignsOf[text])]
<1>1. A \in Seq(Texts) /\ B \in Seq(Texts)
  BY SearchedParts
<1>2. f \in Maps(Signs, Signs)
  BY OnlyType
<1>3. Len(HeaderTextsOf(A)) <= Len(HeaderTextsOf(B))
  BY OnlyType, MoreIsCounted DEF HeaderTextsOf
<1>4. k \in Maps(Texts, Signs)
  <2>1. \A text \in Texts : Bind(f, SignsOf[text]) \in Seq(Signs)
    BY <1>2, SignsOfType, MapsValue, BindType
  <2> QED BY <2>1 DEF Maps
<1> HIDE DEF f
<1>5. Len(Bind(k, A)) <= Len(Bind(k, B))
  <2> HIDE DEF k
  <2> QED BY <1>4, MoreIsCounted
<1> HIDE DEF A, B
<1>6. ASSUME NEW t \in {A, B}
      PROVE  /\ Len(Bind(f, AllSigns(t)))
                  = Len(Bind(k, t)) + Len(Bind(f, ProtocolAnomalies(t)))
             /\ Len(Bind(k, t)) \in Nat /\ Len(Bind(f, ProtocolAnomalies(t))) \in Nat
             /\ Len(HeaderTextsOf(t)) \in Nat
  <2> DEFINE base == Bind(SignsOf, t)
             an == ProtocolAnomalies(t)
  <2>1. t \in Seq(Texts)
    BY <1>1
  <2>2. base \in Seq(Signs) /\ an \in Seq(Signs)
    BY <2>1, AllSignsType, AnomalyOfTexts
  <2>3. Bind(f, base) = Bind(k, t)
    BY <1>2, <2>1, SignsOfType, BindTwice
  <2>4. AllSigns(t) = base \o an
    BY DEF AllSigns
  <2>5. Len(HeaderTextsOf(t)) \in Nat
    BY <2>1, OnlyPosition, LenProperties DEF HeaderTextsOf
  <2> HIDE DEF base, an
  <2>6. Len(Bind(f, base \o an)) = Len(Bind(f, base)) + Len(Bind(f, an))
    BY <1>2, <2>2, CountConcat
  <2>7. Len(Bind(f, base)) \in Nat /\ Len(Bind(f, an)) \in Nat
    BY <1>2, <2>2, BindType, LenProperties
  <2> HIDE DEF k
  <2> QED BY <2>3, <2>4, <2>5, <2>6, <2>7 DEF an
<1> HIDE DEF k
<1>7. Len(Bind(f, ProtocolAnomalies(A))) <= Len(Bind(f, ProtocolAnomalies(B)))
  <2>1. /\ ProtocolAnomalies(A) = IF Len(HeaderTextsOf(A)) >= 2 THEN <<Missing>> ELSE <<>>
        /\ ProtocolAnomalies(B) = IF Len(HeaderTextsOf(B)) >= 2 THEN <<Missing>> ELSE <<>>
    BY <1>1, AnomalyOfTexts
  <2>2. Len(HeaderTextsOf(A)) \in Nat /\ Len(HeaderTextsOf(B)) \in Nat
    BY <1>6
  <2>3. ProtocolAnomalies(A) = <<>> \/ ProtocolAnomalies(A) = ProtocolAnomalies(B)
    BY <1>3, <2>1, <2>2
  <2>4. Len(Bind(f, <<>>)) = 0
    BY BindEmpty, EmptySeq
  <2>5. /\ Len(Bind(f, ProtocolAnomalies(A))) \in Nat
        /\ Len(Bind(f, ProtocolAnomalies(B))) \in Nat
    BY <1>6
  <2> QED BY <2>3, <2>4, <2>5
<1>8. /\ Len(Bind(f, AllSigns(A))) = Len(Bind(k, A)) + Len(Bind(f, ProtocolAnomalies(A)))
      /\ Len(Bind(f, AllSigns(B))) = Len(Bind(k, B)) + Len(Bind(f, ProtocolAnomalies(B)))
      /\ Len(Bind(k, A)) \in Nat /\ Len(Bind(k, B)) \in Nat
      /\ Len(Bind(f, ProtocolAnomalies(A))) \in Nat
      /\ Len(Bind(f, ProtocolAnomalies(B))) \in Nat
  BY <1>6
<1>9. Len(Bind(f, AllSigns(A))) <= Len(Bind(f, AllSigns(B)))
  BY <1>5, <1>7, <1>8
<1> QED BY <1>9 DEF A, B, f

\* A scanner that was found is found again.
LEMMA ScannerStays ==
    ASSUME NEW req \in HttpRequest, NEW other \in HttpRequest, Extends(req, other),
           HasScanner(AllSigns(SearchableText(req)))
    PROVE  HasScanner(AllSigns(SearchableText(other)))
<1> DEFINE a == AllSigns(SearchableText(req))
           b == AllSigns(SearchableText(other))
           Sc == {t \in Signs : Scanner(t)}
<1>1. a \in Seq(Signs) /\ b \in Seq(Signs)
  BY SearchedParts, AllSignsType
<1>2. Len(Bind(Only(Signs, Sc), a)) <= Len(Bind(Only(Signs, Sc), b))
  BY MoreSigns
<1>3. \E i \in 1..Len(a) : a[i] \in Sc
  BY DEF HasScanner
<1> HIDE DEF a, b, Sc
<1>4. Len(Bind(Only(Signs, Sc), a)) # 0
  BY <1>1, <1>3, OnlySome
<1>5. Len(Bind(Only(Signs, Sc), a)) \in Nat /\ Len(Bind(Only(Signs, Sc), b)) \in Nat
  BY <1>1, OnlyPosition, LenProperties
<1>6. Len(Bind(Only(Signs, Sc), b)) # 0
  BY <1>2, <1>4, <1>5
<1>7. \E i \in 1..Len(b) : b[i] \in Sc
  BY <1>1, <1>6, OnlySome
<1> QED BY <1>7 DEF HasScanner, b, Sc

(************************** two reports compared *******************************)

\* One of the threats taken from a report is certain enough on its own.
Certain(r) == \E t \in Confidences(Taken(r)) : t >= HighConfidence

\* A report counts for at least as much as another: it is certain, or has no
\* fewer hits.
Ahead(r, s) == Certain(s) \/ AtMost(Len(r), MaxHits) <= AtMost(Len(s), MaxHits)

LEMMA CertainReport ==
    ASSUME NEW r \in Reports
    PROVE  Certain(r) <=> \E p \in 1..Len(r) : p <= 3 /\ r[p] >= HighConfidence
<1> DEFINE n == AtMost(Len(r), MaxHits)
<1>1. r \in Seq(0..100) /\ Len(r) \in Nat
  BY LenProperties DEF Reports
<1>2. /\ DOMAIN Taken(r) = 1..n
      /\ \A i \in 1..n : Taken(r)[i] = r[i]
  BY <1>1, TakenReport
<1>3. \A p \in Nat : p \in 1..n <=> p \in 1..Len(r) /\ p <= 3
  BY <1>1 DEF AtMost, MaxHits
<1>4. n \in Nat
  BY <1>1 DEF AtMost, MaxHits
<1> HIDE DEF n
<1>5. Certain(r) <=> \E p \in 1..n : r[p] >= HighConfidence
  BY <1>2 DEF Certain, Confidences
<1>6. (\E p \in 1..n : r[p] >= HighConfidence)
        <=> \E p \in 1..Len(r) : p <= 3 /\ r[p] >= HighConfidence
  BY <1>1, <1>3, <1>4
<1> QED BY <1>5, <1>6

\* No rule has fewer hits with further headers and cookies.
LEMMA MoreHits ==
    ASSUME NEW req \in HttpRequest, NEW other \in HttpRequest, Extends(req, other),
           NEW c \in DOMAIN RuleTable
    PROVE  /\ Len(Report(c, SearchableText(req))) <= Len(Report(c, SearchableText(other)))
           /\ Len(Report(c, SearchableText(req))) \in Nat
           /\ Len(Report(c, SearchableText(other))) \in Nat
<1> DEFINE A == SearchableText(req)
           B == SearchableText(other)
           g == HitsOf(RuleTable[c])
<1>1. A \in Seq(Texts) /\ B \in Seq(Texts)
  BY SearchedParts
<1>2. g \in Maps(Texts, RuleSet)
  BY RuleTableType, HitsType
<1> HIDE DEF g
<1>3. Len(Bind(g, A)) <= Len(Bind(g, B))
  BY <1>2, MoreIsCounted
<1> HIDE DEF A, B
<1>4. /\ Report(c, A) = ConfidenceOf(Bind(g, A)) /\ Report(c, B) = ConfidenceOf(Bind(g, B))
      /\ Bind(g, A) \in Seq(RuleSet) /\ Bind(g, B) \in Seq(RuleSet)
  BY <1>1, ReportOfRules DEF g
<1>5. /\ Len(Report(c, A)) = Len(Bind(g, A)) /\ Len(Report(c, A)) \in Nat
      /\ Len(Report(c, B)) = Len(Bind(g, B)) /\ Len(Report(c, B)) \in Nat
  BY <1>4, ConfidenceLength
<1> QED BY <1>3, <1>5 DEF A, B

\* Nor has the bot detector, if a scanner was found before or none is found now.
LEMMA MoreBots ==
    ASSUME NEW req \in HttpRequest, NEW other \in HttpRequest, Extends(req, other),
           HasScanner(AllSigns(SearchableText(other)))
              => HasScanner(AllSigns(SearchableText(req)))
    PROVE  /\ Len(Report("BotChallenge", SearchableText(req)))
                <= Len(Report("BotChallenge", SearchableText(other)))
           /\ Len(Report("BotChallenge", SearchableText(req))) \in Nat
           /\ Len(Report("BotChallenge", SearchableText(other))) \in Nat
<1> DEFINE A == SearchableText(req)
           B == SearchableText(other)
           K == LeftBy(HasScanner(AllSigns(A)))
<1>1. A \in Seq(Texts) /\ B \in Seq(Texts)
  BY SearchedParts
<1>2. HasScanner(AllSigns(A)) <=> HasScanner(AllSigns(B))
  BY ScannerStays
<1>3. Len(Bind(Only(Signs, K), AllSigns(A))) <= Len(Bind(Only(Signs, K), AllSigns(B)))
  <2> HIDE DEF K
  <2> QED BY MoreSigns
<1>4. K = LeftBy(HasScanner(AllSigns(B)))
  BY <1>2 DEF LeftBy
<1> HIDE DEF A, B
<1>5. /\ ScanForBots(A) = Bind(Only(Signs, K), AllSigns(A)) /\ ScanForBots(A) \in Seq(Signs)
      /\ ScanForBots(B) = Bind(Only(Signs, K), AllSigns(B)) /\ ScanForBots(B) \in Seq(Signs)
      /\ Report("BotChallenge", A) = ConfidenceOf(ScanForBots(A))
      /\ Report("BotChallenge", B) = ConfidenceOf(ScanForBots(B))
  BY <1>1, <1>4, ScanIsLeft
<1>6. /\ Len(Report("BotChallenge", A)) = Len(ScanForBots(A))
      /\ Len(Report("BotChallenge", A)) \in Nat
      /\ Len(Report("BotChallenge", B)) = Len(ScanForBots(B))
      /\ Len(Report("BotChallenge", B)) \in Nat
  BY <1>5, ConfidenceLength
<1> QED BY <1>3, <1>5, <1>6 DEF A, B

\* A scanner that only the further headers and cookies reveal is certain enough,
\* unless it comes after three other threats.
LEMMA NewScanner ==
    ASSUME NEW texts \in Seq(Texts), HasScanner(AllSigns(texts)), HighConfidence <= 90,
           Report("BotChallenge", texts) \in Reports
    PROVE  \/ Certain(Report("BotChallenge", texts))
           \/ Len(Report("BotChallenge", texts)) > 3
<1> DEFINE a == AllSigns(texts)
           K == LeftBy(HasScanner(a))
           k == Bind(Only(Signs, K), a)
           r == Report("BotChallenge", texts)
<1>1. a \in Seq(Signs)
  BY AllSignsType
<1>2. r = ConfidenceOf(k) /\ k \in Seq(Signs)
  BY ScanIsLeft
<1>3. PICK i \in 1..Len(a) : a[i] \in Signs /\ Scanner(a[i])
  BY DEF HasScanner
<1>4. /\ a[i] \in K
      /\ a[i].confidence \in 45..95 /\ a[i].confidence >= 90
  BY <1>3, SignFacts DEF LeftBy
<1> HIDE DEF a, K
<1>5. PICK q \in 1..i : q <= Len(k) /\ k[q] = a[i]
  BY <1>1, <1>3, <1>4, OnlyPosition
<1> HIDE DEF k
<1>6. Len(r) = Len(k) /\ Len(k) \in Nat /\ \A p \in 1..Len(k) : r[p] = k[p].confidence
  BY <1>2, ConfidenceLength
<1>7. q \in 1..Len(r) /\ r[q] = a[i].confidence
  BY <1>5, <1>6
<1>8. r[q] >= HighConfidence
  <2>1. \A c \in 45..95 : c >= 90 => c >= HighConfidence
    BY ConfidenceAssumption
  <2> QED BY <1>4, <1>7, <2>1
<1> HIDE DEF r
<1>9. r \in Reports
  BY DEF r
<1>10. q <= 3 => Certain(r)
  BY <1>7, <1>8, <1>9, CertainReport
<1>11. q > 3 => Len(r) > 3
  BY <1>6, <1>7
<1> QED BY <1>7, <1>10, <1>11 DEF r

\* With further headers and cookies, every report counts for at least as much.
LEMMA ExtendedIsAhead ==
    ASSUME NEW req \in HttpRequest, NEW other \in HttpRequest, Extends(req, other),
           HighConfidence <= 90, NEW c \in Categories,
           Report(c, SearchableText(req)) \in Reports,
           Report(c, SearchableText(other)) \in Reports
    PROVE  Ahead(Report(c, SearchableText(req)), Report(c, SearchableText(other)))
<1> DEFINE r == Report(c, SearchableText(req))
           s == Report(c, SearchableText(other))
<1>1. r \in Reports /\ s \in Reports /\ Len(r) \in Nat /\ Len(s) \in Nat
  BY LenProperties DEF Reports
<1>2. Len(r) <= Len(s) \/ Certain(s) \/ Len(s) > 3
  <2>1. CASE c \in DOMAIN RuleTable
    BY <2>1, MoreHits
  <2>2. CASE c = "BotChallenge" /\ HasScanner(AllSigns(SearchableText(other)))
    BY <2>2, SearchedParts, NewScanner
  <2>3. CASE c = "BotChallenge" /\ ~HasScanner(AllSigns(SearchableText(other)))
    BY <2>3, MoreBots
  <2> QED BY <2>1, <2>2, <2>3, CategoriesAssumption
<1> HIDE DEF r, s
<1>3. Ahead(r, s)
  BY <1>1, <1>2 DEF Ahead, AtMost, MaxHits
<1> QED BY <1>3 DEF r, s

\* The same headers and cookies in another order make reports of the same length.
LEMMA ReportsOfOrder ==
    ASSUME NEW req \in HttpRequest, NEW other \in HttpRequest, Reorders(req, other),
           NEW c \in Categories
    PROVE  Len(Report(c, SearchableText(req))) = Len(Report(c, SearchableText(other)))
<1>1. Extends(req, other) /\ Extends(other, req)
  BY DEF Reorders
<1>2. CASE c \in DOMAIN RuleTable
  BY <1>1, <1>2, MoreHits
<1>3. CASE c = "BotChallenge"
  <2>1. HasScanner(AllSigns(SearchableText(req)))
          <=> HasScanner(AllSigns(SearchableText(other)))
    BY <1>1, ScannerStays
  <2>2. /\ Len(Report("BotChallenge", SearchableText(req)))
             <= Len(Report("BotChallenge", SearchableText(other)))
        /\ Len(Report("BotChallenge", SearchableText(req))) \in Nat
        /\ Len(Report("BotChallenge", SearchableText(other))) \in Nat
    BY <1>1, <2>1, MoreBots
  <2>3. Len(Report("BotChallenge", SearchableText(other)))
             <= Len(Report("BotChallenge", SearchableText(req)))
    BY <1>1, <2>1, MoreBots
  <2> QED BY <1>3, <2>2, <2>3
<1> QED BY <1>2, <1>3, CategoriesAssumption

(************************** the two evaluations ********************************)

\* The reports are those on the two requests.
Linked == /\ request \in Inspected /\ variant \in Variants(request)
          /\ found = Found(request) /\ more = Found(variant)

Hit(ts) == \E t \in ts : t >= HighConfidence

AllAhead    == \A c \in Categories : Ahead(found[c], more[c])
SameLengths == \A c \in Categories : Len(found[c]) = Len(more[c])

\* The second evaluation has a threat that is certain enough, or as high a score
\* as the first.
Standing ==
    \/ /\ Hit(more_threats)
       /\ stage = "done" /\ threshold <= MaxScore => more_action # "Allow"
    \/ /\ total <= more_total
       /\ action = "ThreatScoreExceeded" => more_action # "Allow"

\* What TypeOK and the pass-all policy do not say of two evaluations.
InspectionInv == /\ TypeOK /\ Second!TypeOK /\ Linked /\ PassAllHonoured
                 /\ AllAhead => Standing
                 /\ SameLengths => total = more_total

\* Everything that the second evaluation defines anew is as in the first.
LEMMA StepsTogether ==
    ASSUME TypeOK, Second!TypeOK, PairNext
    PROVE  \/ /\ stage = "add" /\ next \in 1..Len(Order) /\ Order[next] \in Categories
              /\ total' = total + Points(Order[next], found[Order[next]])
              /\ more_total' = more_total + Points(Order[next], more[Order[next]])
              /\ threats' = threats \cup Confidences(Taken(found[Order[next]]))
              /\ more_threats' = more_threats \cup Confidences(Taken(more[Order[next]]))
              /\ next' = next + 1
              /\ UNCHANGED <<found, more, threshold, stage, action, more_action>>
           \/ /\ total' = AtMost(total, MaxScore) /\ more_total' = AtMost(more_total, MaxScore)
              /\ action' = IF total' >= threshold THEN "ThreatScoreExceeded" ELSE "Allow"
              /\ more_action' = IF more_total' >= threshold THEN "ThreatScoreExceeded" ELSE "Allow"
              /\ stage' = "override"
              /\ UNCHANGED <<found, more, threshold, next, threats, more_threats>>
           \/ /\ stage = "override" /\ stage' = "done"
              /\ action' = IF action = "Allow" /\ threshold <= MaxScore /\ Hit(threats)
                           THEN "DirectBlock" ELSE action
              /\ more_action' = IF more_action = "Allow" /\ threshold <= MaxScore
                                   /\ Hit(more_threats)
                                THEN "DirectBlock" ELSE more_action
              /\ UNCHANGED <<found, more, threshold, next, total, more_total,
                             threats, more_threats>>
<1>1. CASE AddCategory /\ Second!AddCategory
  <2>1. next \in 1..Len(Order) /\ Len(Order) \in Nat
    BY <1>1, OrderAssumption DEF AddCategory, TypeOK
  <2>2. Order[next] \in Categories
    BY <2>1, OrderAssumption
  <2> QED BY <1>1, <2>1, <2>2
        DEF AddCategory, Second!AddCategory, Points, Second!Points, Taken, Second!Taken,
            Confidences, Second!Confidences, AtMost, Second!AtMost, MaxHits, Second!MaxHits
<1>2. CASE Judge /\ Second!Judge
  BY <1>2 DEF Judge, Second!Judge, AtMost, Second!AtMost, MaxScore, Second!MaxScore
<1>3. CASE Override /\ Second!Override
  BY <1>3 DEF Override, Second!Override, IsThresholdReachable, Second!IsThresholdReachable,
              MaxScore, Second!MaxScore, Hit
<1> QED BY <1>1, <1>2, <1>3 DEF PairNext

\* The points of a category depend on the number of hits alone.
LEMMA PointsOfHits ==
    ASSUME NEW c \in Categories, NEW r \in Reports, NEW s \in Reports
    PROVE  /\ Points(c, r) \in Nat
           /\ AtMost(Len(r), MaxHits) <= AtMost(Len(s), MaxHits) => Points(c, r) <= Points(c, s)
           /\ Len(r) = Len(s) => Points(c, r) = Points(c, s)
<1> DEFINE m == AtMost(Len(r), MaxHits)
           n == AtMost(Len(s), MaxHits)
<1>1. r \in Seq(0..100) /\ s \in Seq(0..100) /\ Len(r) \in Nat /\ Len(s) \in Nat
  BY LenProperties DEF Reports
<1>2. Len(Taken(r)) = m /\ Len(Taken(s)) = n
  BY <1>1, TakenReport
<1>3. m \in 0..3 /\ n \in 0..3
  BY <1>1, HitsOfLength
<1>4. Weight[c] \in 0..100
  BY WeightAssumption
<1>5. Len(r) = Len(s) => m = n
  OBVIOUS
<1>6. Points(c, r) = Weight[c] * m /\ Points(c, s) = Weight[c] * n
  BY <1>2 DEF Points
<1> HIDE DEF m, n
<1>7. m <= n => Weight[c] * m <= Weight[c] * n
  BY <1>3, <1>4, HitsAreMonotone
<1> QED BY <1>5, <1>6, <1>7, PointsType DEF m, n

\* A step of the two evaluations keeps the second one ahead.
LEMMA StaysStanding ==
    ASSUME TypeOK, Second!TypeOK, AllAhead, Standing, PairNext
    PROVE  Standing'
<1>1. /\ total \in Nat /\ more_total \in Nat /\ threshold \in Nat
      /\ stage \in {"add", "override", "done"}
  BY ThresholdAssumption DEF TypeOK, Second!TypeOK
<1>2. CASE stage = "add" /\ stage' = "add"
  <2> DEFINE c == Order[next]
  <2>1. /\ c \in Categories
        /\ total' = total + Points(c, found[c]) /\ more_total' = more_total + Points(c, more[c])
        /\ more_threats' = more_threats \cup Confidences(Taken(more[c]))
        /\ UNCHANGED <<action, more_action>>
    BY <1>2, StepsTogether
  <2> HIDE DEF c
  <2>2. found[c] \in Reports /\ more[c] \in Reports
    BY <2>1 DEF TypeOK, Second!TypeOK, Second!Reports, Reports
  <2>3. Ahead(found[c], more[c])
    BY <2>1 DEF AllAhead
  <2>4. /\ Points(c, found[c]) \in Nat /\ Points(c, more[c]) \in Nat
        /\ AtMost(Len(found[c]), MaxHits) <= AtMost(Len(more[c]), MaxHits)
              => Points(c, found[c]) <= Points(c, more[c])
    BY <2>1, <2>2, PointsOfHits
  <2>5. /\ Certain(more[c]) => Hit(more_threats')
        /\ Hit(more_threats) => Hit(more_threats')
    BY <2>1 DEF Hit, Certain
  <2>6. CASE Hit(more_threats')
    BY <1>2, <2>6 DEF Standing, Hit
  <2>7. CASE ~Hit(more_threats')
    <3>1. /\ total <= more_total
          /\ action = "ThreatScoreExceeded" => more_action # "Allow"
      BY <2>5, <2>7 DEF Standing
    <3>2. Points(c, found[c]) <= Points(c, more[c])
      BY <2>3, <2>4, <2>5, <2>7 DEF Ahead
    <3>3. total' <= more_total'
      BY <1>1, <2>1, <2>4, <3>1, <3>2
    <3> QED BY <2>1, <3>1, <3>3 DEF Standing
  <2> QED BY <2>6, <2>7
<1>3. CASE stage' = "override"
  <2>1. /\ total' = AtMost(total, MaxScore) /\ more_total' = AtMost(more_total, MaxScore)
        /\ action' = IF total' >= threshold THEN "ThreatScoreExceeded" ELSE "Allow"
        /\ more_action' = IF more_total' >= threshold THEN "ThreatScoreExceeded" ELSE "Allow"
        /\ UNCHANGED <<threats, more_threats, threshold>>
    BY <1>3, StepsTogether
  <2>2. CASE Hit(more_threats)
    BY <1>3, <2>1, <2>2 DEF Standing, Hit
  <2>3. CASE ~Hit(more_threats)
    <3>1. total <= more_total
      BY <2>3 DEF Standing
    <3>2. total' <= more_total' /\ total' \in Nat /\ more_total' \in Nat
      BY <1>1, <2>1, <3>1 DEF AtMost, MaxScore
    <3>3. action' # "Allow" => more_action' # "Allow"
      BY <1>1, <2>1, <3>2
    <3> QED BY <3>2, <3>3 DEF Standing
  <2> QED BY <2>2, <2>3
<1>4. CASE stage = "override" /\ stage' = "done"
  <2>1. /\ action' = IF action = "Allow" /\ threshold <= MaxScore /\ Hit(threats)
                     THEN "DirectBlock" ELSE action
        /\ more_action' = IF more_action = "Allow" /\ threshold <= MaxScore
                             /\ Hit(more_threats)
                          THEN "DirectBlock" ELSE more_action
        /\ UNCHANGED <<total, more_total, threats, more_threats, threshold>>
    BY <1>4, StepsTogether
  <2>2. CASE Hit(more_threats)
    <3>1. threshold <= MaxScore => more_action' # "Allow"
      BY <2>1, <2>2
    <3> QED BY <2>1, <2>2, <3>1 DEF Standing, Hit, MaxScore
  <2>3. CASE ~Hit(more_threats)
    <3>1. /\ total <= more_total
          /\ action = "ThreatScoreExceeded" => more_action # "Allow"
      BY <2>3 DEF Standing
    <3>2. /\ action' = "ThreatScoreExceeded" => action = "ThreatScoreExceeded"
          /\ more_action' = more_action
      BY <2>1, <2>3
    <3> QED BY <2>1, <3>1, <3>2 DEF Standing
  <2> QED BY <2>2, <2>3
<1> QED BY <1>1, <1>2, <1>3, <1>4, StepsTogether

\* The same number of threats everywhere makes the same score.
LEMMA StaysEqual ==
    ASSUME TypeOK, Second!TypeOK, SameLengths, total = more_total, PairNext
    PROVE  total' = more_total'
<1>1. CASE stage = "add" /\ stage' = "add"
  <2> DEFINE c == Order[next]
  <2>1. /\ c \in Categories
        /\ total' = total + Points(c, found[c]) /\ more_total' = more_total + Points(c, more[c])
    BY <1>1, StepsTogether
  <2> HIDE DEF c
  <2>2. found[c] \in Reports /\ more[c] \in Reports
    BY <2>1 DEF TypeOK, Second!TypeOK, Second!Reports, Reports
  <2>3. Len(found[c]) = Len(more[c])
    BY <2>1 DEF SameLengths
  <2>4. Points(c, found[c]) = Points(c, more[c])
    BY <2>1, <2>2, <2>3, PointsOfHits
  <2> QED BY <2>1, <2>4
<1>2. CASE ~(stage = "add" /\ stage' = "add")
  BY <1>2, StepsTogether
<1> QED BY <1>1, <1>2

\* The two evaluations keep what was said of them.
LEMMA InspectionInvariant == InspectionSpec => []InspectionInv
<1>1. InspectionInit => InspectionInv
  <2> SUFFICES ASSUME InspectionInit PROVE InspectionInv
    OBVIOUS
  <2>1. TypeOK
    BY InitialTypes DEF InspectionInit
  <2>2. Second!TypeOK
    BY OrderAssumption DEF InspectionInit, Second!Init, Second!TypeOK, Second!Actions
  <2>3. Linked
    BY DEF InspectionInit, Linked
  <2>4. /\ total = 0 /\ more_total = 0 /\ threats = {} /\ more_threats = {}
        /\ action = "Allow" /\ more_action = "Allow"
    BY DEF InspectionInit, Init, Second!Init
  <2>5. PassAllHonoured /\ Standing
    BY <2>4 DEF PassAllHonoured, Standing, Hit
  <2> QED BY <2>1, <2>2, <2>3, <2>4, <2>5 DEF InspectionInv
<1>2. InspectionInv /\ [InspectionNext]_inspectionVars => InspectionInv'
  <2> SUFFICES ASSUME InspectionInv, [InspectionNext]_inspectionVars PROVE InspectionInv'
    OBVIOUS
  <2>1. CASE InspectionNext
    <3>1. PairNext /\ UNCHANGED <<request, variant>>
      BY <2>1 DEF InspectionNext
    <3>2. TypeOK /\ Second!TypeOK /\ Linked /\ PassAllHonoured
      BY DEF InspectionInv
    <3>3. Next
      BY <3>1 DEF PairNext, Next
    <3>4. UNCHANGED <<found, more>>
      BY <3>1, <3>2, StepsTogether
    <3>5. TypeOK' /\ Second!TypeOK' /\ PassAllHonoured'
      BY <3>1, <3>2, <3>3, EvaluationTypes, SecondTypes, PassAllKept
    <3>6. Linked'
      BY <3>1, <3>2, <3>4 DEF Linked, Found, Report
    <3>7. AllAhead' => Standing'
      <4>1. AllAhead' => AllAhead
        BY <3>4 DEF AllAhead
      <4> QED BY <3>1, <3>2, <4>1, StaysStanding DEF InspectionInv
    <3>8. SameLengths' => total' = more_total'
      <4>1. SameLengths' => SameLengths
        BY <3>4 DEF SameLengths
      <4> QED BY <3>1, <3>2, <4>1, StaysEqual DEF InspectionInv
    <3> QED BY <3>5, <3>6, <3>7, <3>8 DEF InspectionInv
  <2>2. CASE UNCHANGED inspectionVars
    <3> USE <2>2 DEF inspectionVars, pairVars, vars, evaluation
    <3>1. TypeOK' /\ Second!TypeOK' /\ PassAllHonoured'
      BY DEF InspectionInv, TypeOK, Second!TypeOK, PassAllHonoured
    <3>2. Linked'
      BY DEF InspectionInv, Linked, Found, Report
    <3>3. (AllAhead' => Standing') /\ (SameLengths' => total' = more_total')
      BY DEF InspectionInv, AllAhead, Standing, SameLengths, Hit
    <3> QED BY <3>1, <3>2, <3>3 DEF InspectionInv
  <2> QED BY <2>1, <2>2
<1> QED BY <1>1, <1>2, PTL DEF InspectionSpec

\* The second request is ahead of the first in every category.
LEMMA LinkedAhead ==
    ASSUME TypeOK, Second!TypeOK, Linked, HighConfidence <= 90
    PROVE  AllAhead
<1> SUFFICES ASSUME NEW c \in Categories PROVE Ahead(found[c], more[c])
  BY DEF AllAhead
<1>1. request \in HttpRequest /\ variant \in HttpRequest /\ Extends(request, variant)
  BY InspectedAssumption, VariantsAssumption DEF Linked
<1>2. found[c] = Report(c, SearchableText(request)) /\ more[c] = Report(c, SearchableText(variant))
  BY DEF Linked, Found
<1>3. found[c] \in Reports /\ more[c] \in Reports
  BY DEF TypeOK, Second!TypeOK, Second!Reports, Reports
<1> QED BY <1>1, <1>2, <1>3, ExtendedIsAhead

\* The same headers and cookies in another order make reports of the same length.
LEMMA LinkedLengths ==
    ASSUME Linked, Reorders(request, variant)
    PROVE  SameLengths
<1> SUFFICES ASSUME NEW c \in Categories PROVE Len(found[c]) = Len(more[c])
  BY DEF SameLengths
<1>1. request \in HttpRequest /\ variant \in HttpRequest
  BY InspectedAssumption, VariantsAssumption DEF Linked
<1>2. found[c] = Report(c, SearchableText(request)) /\ more[c] = Report(c, SearchableText(variant))
  BY DEF Linked, Found
<1> QED BY <1>1, <1>2, ReportsOfOrder

\* Further headers and cookies, wherever the hash maps have them iterated, never
\* get a request through that was blocked for its score, for any requests,
\* weights and thresholds, while the threshold of confidence is one that a
\* scanner in a referer meets (parser.rs:145, bot_detection.rs:308,
\* scoring.rs:169, engine.rs:79).
THEOREM FurtherTextNeverUnblocks == InspectionSpec => []MoreTextNeverUnblocks
<1>1. InspectionInv => MoreTextNeverUnblocks
  <2> SUFFICES ASSUME InspectionInv, HighConfidence <= 90, stage = "done",
                      action = "ThreatScoreExceeded"
               PROVE  more_action # "Allow"
    BY DEF MoreTextNeverUnblocks
  <2>1. AllAhead
    BY LinkedAhead DEF InspectionInv
  <2>2. Standing
    BY <2>1 DEF InspectionInv
  <2>3. threshold <= MaxScore
    <3>1. ~(threshold > MaxScore)
      BY DEF InspectionInv, PassAllHonoured
    <3>2. threshold \in Nat
      BY ThresholdAssumption DEF InspectionInv, TypeOK
    <3> QED BY <3>1, <3>2 DEF MaxScore
  <2> QED BY <2>2, <2>3 DEF Standing
<1> QED BY <1>1, InspectionInvariant, PTL

\* The order in which hash maps happen to give the headers and the cookies has no
\* part in the score, for any requests, weights and thresholds (parser.rs:145,
\* parser.rs:153).
THEOREM OrderIsIgnored == InspectionSpec => []ScoreIgnoresOrder
<1>1. InspectionInv => ScoreIgnoresOrder
  BY LinkedLengths DEF InspectionInv, ScoreIgnoresOrder
<1> QED BY <1>1, InspectionInvariant, PTL

(************************** a quiet request ************************************)

QuietTexts == {text \in Texts : Quiet(text)}

\* No rule matches a quiet text.
LEMMA NoHits ==
    ASSUME NEW c \in DOMAIN RuleTable, NEW texts \in Seq(QuietTexts)
    PROVE  Len(Report(c, texts)) = 0
<1> DEFINE rules == RuleTable[c]
<1>1. rules \in Seq(RuleSet) /\ texts \in Seq(Texts)
  <2>1. QuietTexts \subseteq Texts
    BY DEF QuietTexts
  <2> QED BY <2>1, RuleTableType, SeqMonotonic
<1> HIDE DEF rules
<1>2. ASSUME NEW text \in QuietTexts PROVE HitsOf(rules)[text] = <<>>
  <2> DEFINE kept == {i \in DOMAIN rules : Matches(rules[i].id, text)}
  <2>1. text \in Texts /\ text.value.matches = {} /\ text.value.encoded = {}
    BY DEF QuietTexts, Quiet
  <2>2. \A i \in DOMAIN rules : i \notin kept
    BY <2>1 DEF Matches
  <2>3. HitsOf(rules)[text] = Filtered(rules, kept)
    BY <2>1 DEF HitsOf, Hits
  <2> HIDE DEF kept
  <2>4. Filtered(rules, kept) = <<>>
    BY <1>1, <2>2, FilteredNone
  <2> QED BY <2>3, <2>4
<1>3. Bind(HitsOf(rules), texts) = <<>>
  <2> DEFINE g == HitsOf(rules)
  <2>1. \A text \in QuietTexts : g[text] = <<>>
    BY <1>2
  <2> HIDE DEF g
  <2>2. Bind(g, texts) = <<>>
    BY <2>1, BindNothing
  <2> QED BY <2>2 DEF g
<1>4. Report(c, texts) = ConfidenceOf(<<>>)
  BY <1>1, <1>3, ReportOfRules DEF rules
<1>5. Len(ConfidenceOf(<<>>)) = 0
  <2>1. <<>> \in Seq({}) /\ Len(<<>>) = 0
    BY EmptySeq
  <2> QED BY <2>1, ConfidenceLength
<1> QED BY <1>4, <1>5

\* Quiet texts bear no signs, and all that is left is the missing Host header.
LEMMA NoSigns ==
    ASSUME NEW texts \in Seq(QuietTexts)
    PROVE  /\ Len(Report("BotChallenge", texts)) \in 0..1
           /\ \A p \in 1..Len(Report("BotChallenge", texts)) :
                 Report("BotChallenge", texts)[p] = 45
<1> DEFINE m == ProtocolAnomalies(texts)
           b == HasScanner(AllSigns(texts))
           f == Only(Signs, LeftBy(b))
<1>1. texts \in Seq(Texts)
  <2>1. QuietTexts \subseteq Texts
    BY DEF QuietTexts
  <2> QED BY <2>1, SeqMonotonic
<1>2. ASSUME NEW text \in QuietTexts PROVE SignsOf[text] = <<>>
  <2>1. /\ text \in Texts /\ text.value.matches = {} /\ text.value.encoded = {}
        /\ PassesFor("user-agent", text) => text.value.shape = "plain"
    BY DEF QuietTexts, Quiet
  <2>2. OfAgent(text) = <<>> /\ OfReferer(text) = <<>> /\ OfAnyText(text) = <<>>
        /\ OfEncoded(text) = <<>>
    BY <2>1 DEF OfAgent, OfReferer, OfAnyText, OfEncoded, MatchesScanner
  <2>3. Anomaly(text) = <<>>
    BY <2>1 DEF Anomaly
  <2>4. OfText(text) = <<>> \o <<>> \o <<>> \o <<>> \o <<>>
    BY <2>2, <2>3 DEF OfText
  <2>5. <<>> \o <<>> = <<>>
    BY EmptySeq, ConcatEmptySeq
  <2> QED BY <2>1, <2>4, <2>5 DEF SignsOf
<1>3. AllSigns(texts) = <<>> \o m
  <2> DEFINE g == SignsOf
  <2>1. \A text \in QuietTexts : g[text] = <<>>
    BY <1>2
  <2> HIDE DEF g
  <2>2. Bind(g, texts) = <<>>
    BY <2>1, BindNothing
  <2> QED BY <2>2 DEF AllSigns, g
<1>4. m = <<>> \/ m = <<Missing>>
  BY <1>1, AnomalyOfTexts
<1>5. ScanForBots(texts) = Bind(f, m)
  <2>1. ScanForBots(texts) = Bind(f, <<>> \o m)
    BY <1>1, <1>3, ScanIsLeft
  <2>2. <<>> \o m = m
    BY <1>1, AnomalyOfTexts, ConcatEmptySeq
  <2> QED BY <2>1, <2>2
<1> HIDE DEF m, b
<1>6. Bind(f, m) = m
  <2>1. f \in Maps(Signs, Signs) /\ f[Missing] = <<Missing>>
    <3>1. Missing \in Signs /\ Missing \in LeftBy(b)
      BY SignFacts DEF LeftBy
    <3> QED BY <3>1, OnlyType DEF Only
  <2> HIDE DEF f
  <2>2. Bind(f, <<>>) = <<>> /\ Bind(f, <<Missing>>) = <<Missing>>
    BY <2>1, BindEmpty, BindOne, SignFacts
  <2> QED BY <1>4, <2>2
<1>7. Report("BotChallenge", texts) = ConfidenceOf(m)
  BY <1>1, <1>5, <1>6, ScanIsLeft
<1>8. /\ m \in Seq(Signs) /\ Len(m) \in 0..1
      /\ \A p \in 1..Len(m) : m[p] = Missing
  <2>1. CASE m = <<>>
    <3>1. Len(m) = 0 /\ m \in Seq(Signs)
      BY <2>1, EmptySeq
    <3> QED BY <3>1
  <2>2. CASE m = <<Missing>>
    <3>1. m \in Seq(Signs) /\ Len(m) = 1 /\ m[1] = Missing
      BY <2>2, SignFacts
    <3> QED BY <3>1
  <2> QED BY <1>4, <2>1, <2>2
<1>9. /\ Len(ConfidenceOf(m)) = Len(m)
      /\ \A p \in 1..Len(m) : ConfidenceOf(m)[p] = 45
  BY <1>8, ConfidenceLength, SignFacts
<1> QED BY <1>7, <1>8, <1>9

\* Nothing in any report, but perhaps one threat of 45 from the bot detector.
QuietReports ==
    \A c \in Categories :
        /\ c # "BotChallenge" => Len(found[c]) = 0
        /\ c = "BotChallenge" => /\ Len(found[c]) \in 0..1
                                 /\ \A p \in 1..Len(found[c]) : found[c][p] = 45

\* What such reports are worth so far.
ForBots == IF \E i \in 1..next - 1 : Order[i] = "BotChallenge"
           THEN Weight["BotChallenge"] ELSE 0

QuietStanding ==
    /\ \A t \in threats : t <= 45
    /\ total <= ForBots
    /\ HighConfidence > 45 /\ threshold > Weight["BotChallenge"] => action = "Allow"

LEMMA QuietTaken ==
    ASSUME TypeOK, QuietReports, NEW c \in Categories
    PROVE  /\ \A t \in Confidences(Taken(found[c])) : t = 45
           /\ c # "BotChallenge" => Points(c, found[c]) = 0
           /\ Points(c, found[c]) \in Nat /\ Points(c, found[c]) <= Weight[c]
<1> DEFINE r == found[c]
           n == AtMost(Len(r), MaxHits)
<1>1. /\ r \in Reports /\ r \in Seq(0..100) /\ Len(r) \in 0..1
      /\ c # "BotChallenge" => Len(r) = 0
      /\ \A p \in 1..Len(r) : r[p] = 45
  BY DEF TypeOK, Reports, QuietReports
<1> HIDE DEF r
<1>2. n = Len(r)
  BY <1>1 DEF AtMost, MaxHits
<1>3. /\ Taken(r) \in Seq(0..100) /\ Len(Taken(r)) = n
      /\ \A i \in 1..n : Taken(r)[i] = r[i]
  BY <1>1, TakenReport
<1>4. \A t \in Confidences(Taken(r)) : t = 45
  <2>1. DOMAIN Taken(r) = 1..Len(r)
    BY <1>2, <1>3, LenProperties
  <2> QED BY <1>1, <1>2, <1>3, <2>1 DEF Confidences
<1>5. Points(c, r) = Weight[c] * Len(r) /\ Weight[c] \in 0..100
  BY <1>2, <1>3, WeightAssumption DEF Points
<1>6. Len(r) = 0 \/ Len(r) = 1
  BY <1>1
<1>7. Weight[c] * 0 = 0 /\ Weight[c] * 1 = Weight[c]
  <2>1. \A w \in 0..100 : w * 0 = 0 /\ w * 1 = w
    OBVIOUS
  <2> QED BY <1>5, <2>1
<1>8. Points(c, r) \in {0, Weight[c]}
  BY <1>5, <1>6, <1>7
<1>9. c # "BotChallenge" => Points(c, r) = 0
  BY <1>1, <1>5, <1>7
<1>10. Points(c, r) \in Nat /\ Points(c, r) <= Weight[c]
  <2>1. \A w \in 0..100 : \A p \in {0, w} : p \in Nat /\ p <= w
    OBVIOUS
  <2> QED BY <1>5, <1>8, <2>1
<1> QED BY <1>4, <1>9, <1>10 DEF r

\* A step of the engine adds no more than that.
LEMMA StaysQuiet ==
    ASSUME TypeOK, QuietReports, QuietStanding, Next
    PROVE  QuietStanding'
<1> DEFINE w == Weight["BotChallenge"]
<1>1. /\ total \in Nat /\ threshold \in Nat /\ HighConfidence \in 0..100
      /\ w \in 0..100 /\ next \in 1..Len(Order) + 1 /\ Len(Order) \in Nat
      /\ \A t \in threats : t \in 0..100
  BY ThresholdAssumption, ConfidenceAssumption, WeightAssumption, CategoriesAssumption,
     OrderAssumption DEF TypeOK
<1> HIDE DEF w
<1>2. ForBots \in Nat /\ ForBots <= w
  <2>1. ForBots = 0 \/ ForBots = w
    BY DEF ForBots, w
  <2> QED BY <1>1, <2>1
<1>3. CASE AddCategory
  <2> DEFINE c == Order[next]
  <2>1. /\ total' = total + Points(c, found[c])
        /\ threats' = threats \cup Confidences(Taken(found[c]))
        /\ next' = next + 1
        /\ next <= Len(Order)
        /\ UNCHANGED <<found, threshold, action>>
    BY <1>3 DEF AddCategory
  <2>2. next \in 1..Len(Order) /\ c \in Categories
    BY <1>1, <2>1, OrderAssumption
  <2>3. \A i \in 1..next - 1 : Order[i] # c
    <3>1. \A i, j \in 1..Len(Order) : Order[i] = Order[j] => i = j
      BY OrderAssumption, LenProperties
    <3>2. \A i \in 1..next - 1 : i \in 1..Len(Order) /\ i # next
      BY <1>1, <2>2
    <3> QED BY <2>2, <3>1, <3>2
  <2>4. \A i : i \in 1..next' - 1 <=> i \in 1..next - 1 \/ i = next
    BY <1>1, <2>1
  <2> HIDE DEF c
  <2>5. /\ \A t \in Confidences(Taken(found[c])) : t = 45
        /\ c # "BotChallenge" => Points(c, found[c]) = 0
        /\ Points(c, found[c]) \in Nat /\ Points(c, found[c]) <= Weight[c]
    BY <2>2, QuietTaken
  <2>6. total' <= ForBots'
    <3>1. CASE c = "BotChallenge"
      <4>1. ForBots = 0 /\ ForBots' = w
        BY <2>3, <2>4, <3>1 DEF ForBots, c, w
      <4>2. total = 0
        BY <1>1, <4>1 DEF QuietStanding
      <4> QED BY <1>1, <2>1, <2>5, <3>1, <4>1, <4>2 DEF w
    <3>2. CASE c # "BotChallenge"
      <4>1. ForBots' = ForBots
        BY <2>4, <3>2 DEF ForBots, c
      <4> QED BY <1>1, <2>1, <2>5, <3>2, <4>1 DEF QuietStanding
    <3> QED BY <3>1, <3>2
  <2>7. \A t \in threats' : t <= 45
    <3>1. \A t \in Confidences(Taken(found[c])) : t <= 45
      BY <2>5
    <3> QED BY <2>1, <3>1 DEF QuietStanding
  <2> QED BY <2>1, <2>6, <2>7 DEF QuietStanding
<1>4. CASE Judge
  <2>1. /\ total' = AtMost(total, MaxScore)
        /\ action' = IF total' >= threshold THEN "ThreatScoreExceeded" ELSE "Allow"
        /\ UNCHANGED <<threshold, next, threats>>
    BY <1>4 DEF Judge
  <2>2. ForBots' = ForBots
    BY <2>1 DEF ForBots
  <2>3. total' <= ForBots /\ total' \in Nat
    BY <1>1, <1>2, <2>1 DEF QuietStanding, AtMost, MaxScore
  <2>4. threshold > w => action' = "Allow"
    BY <1>1, <1>2, <2>1, <2>3
  <2> QED BY <2>1, <2>2, <2>3, <2>4 DEF QuietStanding, w
<1>5. CASE Override
  <2>1. /\ action' = IF /\ action = "Allow" /\ IsThresholdReachable
                        /\ \E t \in threats : t >= HighConfidence
                     THEN "DirectBlock" ELSE action
        /\ UNCHANGED <<total, threshold, next, threats>>
    BY <1>5 DEF Override
  <2>2. ForBots' = ForBots
    BY <2>1 DEF ForBots
  <2>3. HighConfidence > 45 => ~\E t \in threats : t >= HighConfidence
    <3>1. HighConfidence > 45 => \A t \in 0..100 : t <= 45 => ~(t >= HighConfidence)
      BY <1>1
    <3> QED BY <1>1, <3>1 DEF QuietStanding
  <2> QED BY <2>1, <2>2, <2>3 DEF QuietStanding
<1> QED BY <1>3, <1>4, <1>5 DEF Next

\* A request all of whose texts are quiet has quiet reports.
LEMMA LinkedQuiet ==
    ASSUME Linked, \A text \in ToSet(SearchableText(request)) : Quiet(text)
    PROVE  QuietReports
<1> DEFINE texts == SearchableText(request)
<1>1. request \in HttpRequest
  BY InspectedAssumption DEF Linked
<1>2. texts \in Seq(QuietTexts)
  <2>1. texts \in Seq(Texts)
    BY <1>1, SearchedParts
  <2>2. \A text \in ToSet(texts) : Quiet(text)
    OBVIOUS
  <2> HIDE DEF texts
  <2>3. /\ DOMAIN texts = 1..Len(texts) /\ Len(texts) \in Nat
        /\ \A i \in 1..Len(texts) : texts[i] \in Texts
    BY <2>1, LenProperties
  <2>4. \A i \in 1..Len(texts) : texts[i] \in QuietTexts
    BY <2>2, <2>3 DEF ToSet, QuietTexts
  <2>5. texts = [i \in 1..Len(texts) |-> texts[i]]
    BY <2>1, <2>3
  <2>6. texts \in [1..Len(texts) -> QuietTexts]
    BY <2>4, <2>5
  <2> QED BY <2>3, <2>6, FunctionIsSeq
<1>3. \A c \in Categories : found[c] = Report(c, texts)
  BY DEF Linked, Found
<1> HIDE DEF texts
<1>4. ASSUME NEW c \in Categories, c # "BotChallenge" PROVE Len(Report(c, texts)) = 0
  BY <1>2, <1>4, NoHits, CategoriesAssumption
<1>5. /\ Len(Report("BotChallenge", texts)) \in 0..1
      /\ \A p \in 1..Len(Report("BotChallenge", texts)) :
            Report("BotChallenge", texts)[p] = 45
  BY <1>2, NoSigns
<1>6. ASSUME NEW c \in Categories, c = "BotChallenge"
      PROVE  Len(found[c]) \in 0..1 /\ \A p \in 1..Len(found[c]) : found[c][p] = 45
  BY <1>3, <1>5, <1>6
<1>7. \A c \in Categories : c # "BotChallenge" => Len(found[c]) = 0
  BY <1>3, <1>4
<1> QED BY <1>6, <1>7 DEF QuietReports

\* Nothing to find means nothing to pay: for any requests and any weights, a
\* request whose texts match nothing passes every threshold above the points of
\* the one bot threat it cannot avoid (bot_detection.rs:251).
THEOREM NothingFoundPasses == InspectionSpec => []QuietRequestPasses
<1> DEFINE QuietInv == QuietReports => QuietStanding
<1>1. InspectionInit => QuietInv
  <2> SUFFICES ASSUME InspectionInit PROVE QuietStanding
    OBVIOUS
  <2>1. total = 0 /\ threats = {} /\ action = "Allow"
    BY DEF InspectionInit, Init
  <2>2. Weight["BotChallenge"] \in 0..100
    BY WeightAssumption, CategoriesAssumption
  <2>3. ForBots \in Nat
    BY <2>2 DEF ForBots
  <2> QED BY <2>1, <2>3 DEF QuietStanding
<1>2. InspectionInv /\ QuietInv /\ [InspectionNext]_inspectionVars => QuietInv'
  <2> SUFFICES ASSUME InspectionInv, QuietInv, [InspectionNext]_inspectionVars, QuietReports'
               PROVE  QuietStanding'
    OBVIOUS
  <2>1. CASE InspectionNext
    <3>1. PairNext /\ Next
      BY <2>1 DEF InspectionNext, PairNext, Next
    <3>2. found' = found
      BY <3>1 DEF Next, AddCategory, Judge, Override
    <3>3. QuietReports
      BY <3>2 DEF QuietReports
    <3> QED BY <3>1, <3>3, StaysQuiet DEF InspectionInv
  <2>2. CASE UNCHANGED inspectionVars
    BY <2>2 DEF inspectionVars, pairVars, vars, evaluation, QuietReports, QuietStanding, ForBots
  <2> QED BY <2>1, <2>2
<1>3. InspectionInv /\ QuietInv => QuietRequestPasses
  <2> SUFFICES ASSUME InspectionInv, QuietInv,
                      \A text \in ToSet(SearchableText(request)) : Quiet(text),
                      HighConfidence > 45, threshold > Weight["BotChallenge"]
               PROVE  action = "Allow"
    BY DEF QuietRequestPasses
  <2>1. QuietReports
    BY LinkedQuiet DEF InspectionInv
  <2> QED BY <2>1 DEF QuietStanding
<1> QED BY <1>1, <1>2, <1>3, InspectionInvariant, PTL DEF InspectionSpec

(************************** every request is inspected *************************)

\* Every rule is worth a percentage.
LEMMA RuleConfidences == \A rule \in RuleSet : rule.confidence \in 0..100
<1>1. \A i \in DOMAIN SqlInjectionRules : SqlInjectionRules[i].confidence \in 0..100
  BY DEF SqlInjectionRules, Rule
<1>2. \A i \in DOMAIN XssRules : XssRules[i].confidence \in 0..100
  BY DEF XssRules, Rule
<1>3. \A i \in DOMAIN CmdiRules : CmdiRules[i].confidence \in 0..100
  BY DEF CmdiRules, Rule
<1>4. \A i \in DOMAIN LfiRfiRules : LfiRfiRules[i].confidence \in 0..100
  BY DEF LfiRfiRules, Rule
<1>5. \A i \in DOMAIN SstiRules : SstiRules[i].confidence \in 0..100
  BY DEF SstiRules, Rule
<1>6. \A i \in DOMAIN SsrfRules : SsrfRules[i].confidence \in 0..100
  BY DEF SsrfRules, Rule
<1>7. \A i \in DOMAIN DeserializationRules : DeserializationRules[i].confidence \in 0..100
  BY DEF DeserializationRules, Rule
<1>8. \A i \in DOMAIN HeaderInjectionRules : HeaderInjectionRules[i].confidence \in 0..100
  BY DEF HeaderInjectionRules, Rule
<1>9. \A i \in DOMAIN PathTraversalRules : PathTraversalRules[i].confidence \in 0..100
  BY DEF PathTraversalRules, Rule
<1>10. DOMAIN <<>> = {}
  OBVIOUS
<1>11. \A c \in DOMAIN RuleTable : \A i \in DOMAIN RuleTable[c] :
          RuleTable[c][i].confidence \in 0..100
  <2> TAKE c \in DOMAIN RuleTable
  <2>1. \/ RuleTable[c] \in {SqlInjectionRules, XssRules, CmdiRules, LfiRfiRules, SstiRules}
        \/ RuleTable[c] \in {SsrfRules, DeserializationRules, HeaderInjectionRules,
                             PathTraversalRules}
        \/ RuleTable[c] = <<>>
    BY RuleTableFacts
  <2> QED BY <2>1, <1>1, <1>2, <1>3, <1>4, <1>5, <1>6, <1>7, <1>8, <1>9, <1>10
<1> QED BY <1>11 DEF RuleSet, ToSet

LEMMA ConfidencesReport ==
    ASSUME NEW T, \A t \in T : t.confidence \in 0..100, NEW s \in Seq(T)
    PROVE  ConfidenceOf(s) \in Reports
<1>1. /\ Len(s) \in Nat /\ DOMAIN s = 1..Len(s)
      /\ \A i \in 1..Len(s) : s[i] \in T
  BY LenProperties
<1>2. ConfidenceOf(s) = [i \in 1..Len(s) |-> s[i].confidence]
  BY <1>1 DEF ConfidenceOf
<1>3. ConfidenceOf(s) \in [1..Len(s) -> 0..100]
  BY <1>1, <1>2
<1> QED BY <1>1, <1>3, FunctionIsSeq DEF Reports

\* Whatever the request, its detectors report what the scoring engine takes: the
\* initial states leave out none of the requests (engine.rs:51).
THEOREM EveryRequestInspected ==
    ASSUME NEW req \in HttpRequest
    PROVE  Found(req) \in [Categories -> Reports]
<1> DEFINE texts == SearchableText(req)
<1>1. texts \in Seq(Texts)
  BY SearchedParts
<1>2. Found(req) = [c \in Categories |-> Report(c, texts)]
  BY DEF Found
<1> HIDE DEF texts
<1>3. ASSUME NEW c \in Categories PROVE Report(c, texts) \in Reports
  <2>1. CASE c \in DOMAIN RuleTable
    BY <1>1, <2>1, ReportOfRules, RuleConfidences, ConfidencesReport
  <2>2. CASE c = "BotChallenge"
    <3>1. \A t \in Signs : t.confidence \in 0..100
      BY SignFacts
    <3>2. ConfidenceOf(ScanForBots(texts)) \in Reports
      BY <1>1, <3>1, ScanIsLeft, ConfidencesReport
    <3> QED BY <1>1, <2>2, <3>2, ScanIsLeft
  <2> QED BY <2>1, <2>2, CategoriesAssumption
<1> QED BY <1>2, <1>3

\* A step of the inspection is a step of the scoring engine on each of the two
\* requests, whose invariants it therefore keeps (engine.rs:51-94).
THEOREM InspectionIsScoring == InspectionSpec => PairSpec
<1>1. InspectionInit => PairInit
  BY DEF InspectionInit, PairInit
<1>2. [InspectionNext]_inspectionVars => [PairNext]_pairVars
  BY DEF InspectionNext, inspectionVars
<1> QED BY <1>1, <1>2, PTL DEF InspectionSpec, PairSpec
==============================================================================
