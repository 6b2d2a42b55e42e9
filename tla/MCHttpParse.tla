------------------------------ MODULE MCHttpParse ------------------------------
EXTENDS HttpParse

CONSTANTS MaxPath,     \* characters of a path with its query
          MaxHostPath, \* the same behind a scheme and a host
          MaxHeader    \* characters of a header line

MCCode == [c \in Char |-> CASE c = "a" -> 97 [] c = "h" -> 104 [] c = "_" -> 95 [] OTHER -> 49]
MCMimeTable == << <<<<"a">>, "text/plain">>, <<<<"a", "a", "a">>, "image/gif">>,
                  <<<<"a", "a">>, "image/png">> >>
MCHeaderTable == << <<<<"h">>, "host">>, <<<<"a", "_", "a">>, "accept">> >>

\* Other versions and headers are tried behind the shortest line only.
ShortUri == [NewUri EXCEPT !.abs_path = [data |-> 4, len |-> 1]]

Room == Here - uri.abs_path.data < IF uri.host = NULL THEN MaxPath ELSE MaxHostPath

UriChars ==
    CASE uri.state = "SCHEME" -> {":"}
      [] uri.state = "HOST" -> {":", "/", "SP"}
      [] uri.state = "PORT" -> IF line[Len(line)] = ":" THEN {"1", "/"} ELSE {"/", "SP", "#"}
      [] uri.state \notin InPath \cup {"QUERY"} -> {"/", "a"}
      [] OTHER -> {"SP"} \cup IF Room THEN {"/", "a", ".", "?"} ELSE {"#"}

Usual == [SP_BEFORE_VERSION |-> "H", HTTP_H |-> "T", HTTP_HT |-> "T", HTTP_HTT |-> "P",
          HTTP_HTTP |-> "/", VERSION_SLASH |-> "1", VERSION_MAJOR |-> ".", VERSION_DOT |-> "1",
          VERSION_MINOR |-> "CR", SP_AFTER_VERSION |-> "CR", RL_ALMOST_DONE |-> "LF"]

Offered ==
    CASE state = "RL_BEGIN" -> {"H", "h"}
      [] state = "METHOD" -> IF Len(line) = 1 THEN {"H", "-", "SP"} ELSE {"SP"}
      [] state = "SP_BEFORE_URI" -> IF Len(line) = 2 THEN {"SP", "/", "a", "?", "LF"} ELSE {"/"}
      [] state = "URI" -> UriChars
      [] state \in DOMAIN Usual ->
           IF uri # ShortUri THEN {Usual[state]}
           ELSE {"#"} \cup IF Len(line) < 17 THEN DOMAIN VersionMoves[state] ELSE {Usual[state]}
      [] uri = ShortUri /\ version.minor = 1 ->
           {"LF"} \cup IF state = "HL_BEGIN" \/ Len(line) < MaxHeader
                       THEN {"a", "H", "-", "_", ":", "SP", "CR"} ELSE {}
      [] OTHER -> {}

MCNext == NextRequest \/ \E c \in Offered : Receive(c)
MCSpec == Init /\ [][MCNext]_vars
===============================================================================
