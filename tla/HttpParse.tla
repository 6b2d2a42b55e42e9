------------------------------- MODULE HttpParse -------------------------------
(***************************************************************************)
(* The parser of httpparse.c, one character a step: the request line with  *)
(* the URI in it, then header lines.  Each automaton is a table of moves;  *)
(* what a character does besides is written once for each field of the     *)
(* request.  A character stands for its class (the cases of the switch     *)
(* that tell it apart); where the input is cut into pieces makes no        *)
(* difference, because everything a call keeps is in the request.          *)
(*                                                                         *)
(* A string is a position and a length, as in sy_string_t.  Position 0 is  *)
(* NULL, and the line begins at position 2, so that one past NULL is not   *)
(* in it.                                                                  *)
(***************************************************************************)
EXTENDS Integers, Sequences, FiniteSets, FiniteSetsExt

CONSTANTS Code,         \* the code of each character
          MimeTable,    \* mime_tb: pairs of an extension and a type
          MimeSize,     \* MIME_MAP_SIZE
          HeaderTable,  \* header_tb: pairs of a name and a handler
          HeaderSize    \* HEADER_MAP_SIZE

Upper == {"H", "T", "P"}
LowerOf == [H |-> "h", T |-> "t", P |-> "p"]
Lower == {"a", "h", "t", "p"}
Letter == Upper \cup Lower
Digit == {"1", "9"}
ValueOf == [c \in Digit |-> IF c = "1" THEN 1 ELSE 9]
Char == Letter \cup Digit \cup {".", "/", "?", ":", "SP", "-", "_", "#", "CR", "LF"}

ASSUME CharAssumption == \A c \in Char : Code[c] \in Nat

\* A table has at least one bucket; mime_tb has an extension once; no name of header_tb has
\* an end of line in it.
ASSUME TableAssumption ==
    /\ MimeSize \in Nat \ {0} /\ HeaderSize \in Nat \ {0}
    /\ MimeTable \in Seq(Seq(Char) \X STRING)
    /\ \A i, j \in DOMAIN MimeTable : MimeTable[i][1] = MimeTable[j][1] => i = j
    /\ HeaderTable \in Seq(Seq(Char \ {"LF"}) \X STRING)

Mime == INSTANCE StringMap WITH MapSize <- MimeSize
Names == INSTANCE StringMap WITH MapSize <- HeaderSize

VARIABLES state,     \* r->state
          line,      \* the receive buffer, from where the line began
          zero,      \* where in the line a zero ends the path, or 0
          version,   \* r->version
          uri,       \* r->uri
          name,      \* r->header_name
          value,     \* r->header_value
          result,    \* what the parser returned last
          raw,       \* a line of the headers as it was sent, from LF to LF (history)
          behind     \* the line sent before it was a bare name (history)

vars == <<state, line, zero, version, uri, name, value, result, raw, behind>>

NULL == [data |-> 0, len |-> 0]

\* sy_uri_init.
NewUri == [state |-> "BEGIN", host |-> NULL, port |-> NULL, abs_path |-> NULL,
           extension |-> NULL, query |-> NULL, nddots |-> 0, nentries |-> 0]

\* sy_request_init.
Init == /\ state = "RL_BEGIN"
        /\ line = <<>>
        /\ zero = 0
        /\ version = [major |-> 0, minor |-> 0]
        /\ uri = NewUri
        /\ name = NULL
        /\ value = NULL
        /\ result = "AGAIN"
        /\ raw = <<>>
        /\ behind = FALSE

-------------------------------------------------------------------------------
(* sy_parse_uri.                                                           *)

\* The row of a table in which the characters of S lead to s, and two rows together, the
\* first of which decides where both have a character.
Each(S, s) == [c \in S |-> s]
a ++ b == [c \in DOMAIN a \cup DOMAIN b |-> IF c \in DOMAIN a THEN a[c] ELSE b[c]]
Move(row, c, default) == IF c \in DOMAIN row THEN row[c] ELSE default

\* ALLOWED_IN_ABS_PATH, of the characters here.
Allowed == Letter \cup Digit \cup {"-", "_", ":"}

\* A character that is not in the row of a state is an error.
PathMoves == Each({"SP"}, "BEGIN") ++ Each({"/"}, "ABS_PATH_SLASH") ++ Each({"?"}, "QUERY")

UriMoves ==
    [BEGIN |-> Each({"/"}, "ABS_PATH_SLASH") ++ Each(Letter, "SCHEME"),
     SCHEME |-> Each({":"}, "SCHEME_COLON") ++ Each(Letter \cup Digit \cup {".", "-"}, "SCHEME"),
     SCHEME_COLON |-> Each({"/"}, "SCHEME_SLASH"),
     SCHEME_SLASH |-> Each({"/"}, "SCHEME_SLASH_SLASH"),
     SCHEME_SLASH_SLASH |-> Each(Letter \cup Digit, "HOST"),
     HOST |-> Each({":"}, "PORT") ++ Each({"/"}, "ABS_PATH_SLASH")
                ++ Each(Letter \cup Digit \cup {".", "-"}, "HOST"),
     PORT |-> Each({"SP"}, "BEGIN") ++ Each({"/"}, "ABS_PATH_SLASH") ++ Each(Digit, "PORT"),
     ABS_PATH_SLASH |-> PathMoves ++ Each({"."}, "ABS_PATH_DOT") ++ Each(Allowed, "ABS_PATH_ENTRY"),
     ABS_PATH_DOT |-> PathMoves ++ Each({"."}, "ABS_PATH_DDOT") ++ Each(Allowed, "EXTENSION"),
     ABS_PATH_DDOT |-> PathMoves ++ Each(Allowed \cup {"."}, "EXTENSION"),
     ABS_PATH_ENTRY |-> PathMoves ++ Each({"."}, "EXTENSION") ++ Each(Allowed, "ABS_PATH_ENTRY"),
     EXTENSION |-> PathMoves ++ Each(Allowed \cup {"."}, "EXTENSION"),
     QUERY |-> Each({"SP"}, "BEGIN") ++ Each(Allowed \cup {".", "/", "?"}, "QUERY")]

From(p, s) == [s EXCEPT !.data = p]
\* A string that began one before its text ends at p.
EndedAt(s, p) == [data |-> s.data + 1, len |-> p - (s.data + 1)]

InPath == {"ABS_PATH_SLASH", "ABS_PATH_DOT", "ABS_PATH_DDOT", "ABS_PATH_ENTRY", "EXTENSION"}

\* The character c, at p, ends an entry of the path, or the path.
PathEnd == {"SP", "/", "?"}

Host(u, c, p) == IF u.state = "SCHEME_SLASH_SLASH" THEN From(p, u.host) ELSE u.host

\* The start of the port is never recorded.
Port(u, c, p) ==
    IF u.state = "PORT" /\ c \in {"SP", "/"} THEN EndedAt(u.port, p) ELSE u.port

\* Mutation of AbsPath: behind "." and ".." a query does not end the path.
AbsPathNotByQuery(u, c, p) ==
    CASE u.state \in {"BEGIN", "HOST", "PORT"} /\ c = "/" -> From(p, u.abs_path)
      [] u.state = "PORT" /\ c = "SP" -> [data |-> u.host.data - 2, len |-> 1]
      [] u.state \in InPath /\ (c = "SP" \/ (c = "?" /\ u.state = "ABS_PATH_ENTRY")) ->
           [u.abs_path EXCEPT !.len = p - u.abs_path.data]
      [] OTHER -> u.abs_path

\* After "scheme://host:port" the path is the first slash of the line.  A query after
\* an extension does not end the path.
AbsPath(u, c, p) ==
    CASE u.state \in {"BEGIN", "HOST", "PORT"} /\ c = "/" -> From(p, u.abs_path)
      [] u.state = "PORT" /\ c = "SP" -> [data |-> u.host.data - 2, len |-> 1]
      [] u.state \in InPath /\ (c = "SP" \/ (c = "?" /\ u.state # "EXTENSION")) ->
           [u.abs_path EXCEPT !.len = p - u.abs_path.data]
      [] OTHER -> u.abs_path

\* Mutation of Extension: a slash does not reset it.
ExtensionOfDirectory(u, c, p) ==
    CASE u.state = "ABS_PATH_DOT" /\ c \in Allowed -> From(p - 1, u.extension)
      [] u.state = "ABS_PATH_DDOT" /\ c \in Allowed \cup {"."} -> From(p, u.extension)
      [] u.state \in {"ABS_PATH_ENTRY", "EXTENSION"} /\ c = "." -> From(p, u.extension)
      [] u.state \in {"ABS_PATH_ENTRY", "EXTENSION"} /\ c \in {"SP", "?"} ->
           EndedAt(u.extension, p)
      [] OTHER -> u.extension

\* The case of an entry falls through to that of an extension.
Extension(u, c, p) ==
    CASE u.state = "ABS_PATH_DOT" /\ c \in Allowed -> From(p - 1, u.extension)
      [] u.state = "ABS_PATH_DDOT" /\ c \in Allowed \cup {"."} -> From(p, u.extension)
      [] u.state \in {"ABS_PATH_ENTRY", "EXTENSION"} /\ c = "." -> From(p, u.extension)
      [] u.state \in {"ABS_PATH_ENTRY", "EXTENSION"} /\ c = "/" -> From(0, u.extension)
      [] u.state \in {"ABS_PATH_ENTRY", "EXTENSION"} /\ c \in {"SP", "?"} ->
           EndedAt(u.extension, p)
      [] OTHER -> u.extension

\* Mutation of Query: every question mark begins the query anew.
LastQuery(u, c, p) ==
    CASE u.state \in InPath \cup {"QUERY"} /\ c = "?" -> From(p, u.query)
      [] u.state = "QUERY" /\ c = "SP" -> EndedAt(u.query, p)
      [] OTHER -> u.query

Query(u, c, p) ==
    CASE u.state \in InPath /\ c = "?" -> From(p, u.query)
      [] u.state = "QUERY" /\ c = "SP" -> EndedAt(u.query, p)
      [] OTHER -> u.query

Ddots(u, c) == IF u.state = "ABS_PATH_DDOT" /\ c \in PathEnd THEN u.nddots + 1 ELSE u.nddots

\* Mutation of Count: an entry above the root is counted as well.
CountAlways(n, ddots) == n + 1

\* An entry is counted while the path is not above its root; one without a dot is
\* counted by both of its cases.
Count(n, ddots) == IF n >= ddots THEN n + 1 ELSE n

Entries(u, c) ==
    CASE u.state = "ABS_PATH_ENTRY" /\ c \in PathEnd -> Count(Count(u.nentries, u.nddots), u.nddots)
      [] u.state = "EXTENSION" /\ c \in PathEnd -> Count(u.nentries, u.nddots)
      [] OTHER -> u.nentries

ParseUri(u, c, p) ==
    [state |-> Move(UriMoves[u.state], c, "ERROR"),
     host |-> Host(u, c, p), port |-> Port(u, c, p), abs_path |-> AbsPath(u, c, p),
     extension |-> Extension(u, c, p), query |-> Query(u, c, p),
     nddots |-> Ddots(u, c), nentries |-> Entries(u, c)]

\* What sy_parse_request_line does at the space after the URI.
Rooted(u, c) == IF c = "SP" /\ u.nentries < u.nddots THEN [u EXCEPT !.abs_path.len = 1] ELSE u

-------------------------------------------------------------------------------
(* sy_parse_request_line.                                                  *)

VersionMoves ==
    [SP_BEFORE_VERSION |-> Each({"SP"}, "SP_BEFORE_VERSION") ++ Each({"H"}, "HTTP_H"),
     HTTP_H |-> Each({"T"}, "HTTP_HT"),
     HTTP_HT |-> Each({"T"}, "HTTP_HTT"),
     HTTP_HTT |-> Each({"P"}, "HTTP_HTTP"),
     HTTP_HTTP |-> Each({"/"}, "VERSION_SLASH"),
     VERSION_SLASH |-> Each(Digit, "VERSION_MAJOR"),
     VERSION_MAJOR |-> Each({"."}, "VERSION_DOT") ++ Each(Digit, "VERSION_MAJOR"),
     VERSION_DOT |-> Each(Digit, "VERSION_MINOR"),
     VERSION_MINOR |-> Each({"SP"}, "SP_AFTER_VERSION") ++ Each({"CR"}, "RL_ALMOST_DONE")
                         ++ Each({"LF"}, "HL_BEGIN") ++ Each(Digit, "VERSION_MINOR"),
     SP_AFTER_VERSION |-> Each({"SP"}, "SP_AFTER_VERSION") ++ Each({"CR"}, "RL_ALMOST_DONE"),
     RL_ALMOST_DONE |-> Each({"LF"}, "HL_BEGIN")]

\* A digit of the version, in the state the automaton comes from.
Counted(v, c) ==
    CASE state \in {"VERSION_SLASH", "VERSION_MAJOR"} /\ c \in Digit ->
           [v EXCEPT !.major = 10 * @ + ValueOf[c]]
      [] state \in {"VERSION_DOT", "VERSION_MINOR"} /\ c \in Digit ->
           [v EXCEPT !.minor = 10 * @ + ValueOf[c]]
      [] OTHER -> v

TooBig(v) == \/ state = "VERSION_MAJOR" /\ v.major > 999
             \/ state = "VERSION_MINOR" /\ v.minor > 999

\* A character of the line; the first one begins a new line.
Read(c) == line' = IF state \in {"RL_BEGIN", "HL_BEGIN"} THEN <<c>> ELSE Append(line, c)

\* Where c is put.
Here == Len(line) + 2

Fail(err) == result' = err /\ UNCHANGED <<state, zero, version, uri, name, value>>

RequestBegins(c) ==
    /\ state = "RL_BEGIN"
    /\ IF c \in Upper THEN state' = "METHOD" /\ result' = "AGAIN"
                           /\ UNCHANGED <<zero, version, uri, name, value>>
                      ELSE Fail("BAD_REQUEST")

\* In a method every character is passed over but the space that ends it, where only
\* the names of sy_parse_method are known.
Method(c) ==
    /\ state = "METHOD"
    /\ IF c # "SP" THEN UNCHANGED <<state, zero, version, uri, name, value, result>>
       ELSE \E known \in {k \in BOOLEAN : k => \A i \in DOMAIN line : line[i] \in Upper} :
              IF known THEN state' = "SP_BEFORE_URI"
                            /\ UNCHANGED <<zero, version, uri, name, value, result>>
                       ELSE Fail("BAD_METHOD")

Uri(c) ==
    /\ state \in {"SP_BEFORE_URI", "URI"}
    /\ LET next == ParseUri(uri, c, Here)
       IN  CASE c \in {"CR", "LF"} -> Fail("BAD_REQUEST")
             [] c = "SP" /\ state = "SP_BEFORE_URI" ->
                  UNCHANGED <<state, zero, version, uri, name, value, result>>
             [] OTHER ->
                  IF next.state = "ERROR" THEN Fail("BAD_URI")
                  ELSE /\ state' = IF c = "SP" THEN "SP_BEFORE_VERSION" ELSE "URI"
                       /\ uri' = Rooted(next, c)
                       /\ UNCHANGED <<zero, version, name, value, result>>

\* Mutation of EndPath: the zero comes one too late.
EndPathLate(static) == IF static THEN uri.abs_path.data + uri.abs_path.len + 1 ELSE 0

\* sy_request_handle_uri puts a zero behind the path of a file; the path of a location
\* with pass stays as it is.
EndPath(static) == IF static THEN uri.abs_path.data + uri.abs_path.len ELSE 0

\* The rest of the line, and what sy_request_handle_request_line does when it is read.
Version(c) ==
    /\ state \in DOMAIN VersionMoves
    /\ LET next == Move(VersionMoves[state], c, "ERROR")
           v == Counted(version, c)
       IN  CASE next = "ERROR" -> Fail("BAD_REQUEST")
             [] next # "ERROR" /\ TooBig(v) -> Fail("BAD_VERSION")
             [] OTHER ->
                  /\ state' = next
                  /\ version' = v
                  /\ UNCHANGED <<uri, name, value>>
                  /\ CASE next # "HL_BEGIN" -> UNCHANGED <<zero, result>>
                       [] next = "HL_BEGIN" /\ (v.major # 1 \/ v.minor > 2) ->
                            result' = "UNSUPPORTED" /\ UNCHANGED zero
                       [] OTHER -> /\ result' = "OK"
                                   /\ \E static \in BOOLEAN : zero' = EndPath(static)

-------------------------------------------------------------------------------
(* parse_header_line.                                                      *)

InName == Letter \cup Digit \cup {"-"}

HeaderMoves ==
    [HL_BEGIN |-> Each(InName, "NAME") ++ Each({"CR"}, "HL_ALMOST_DONE")
                    ++ Each({"LF"}, "HL_BEGIN"),
     IGNORE |-> Each({"LF"}, "HL_BEGIN"),
     NAME |-> Each(InName, "NAME") ++ Each({":"}, "COLON") ++ Each({"CR"}, "HL_ALMOST_DONE"),
     COLON |-> Each({"SP"}, "COLON") ++ Each({"CR"}, "HL_ALMOST_DONE") ++ Each({"LF"}, "HL_BEGIN"),
     VALUE |-> Each({"SP"}, "SP_AFTER_VALUE") ++ Each({"CR"}, "HL_ALMOST_DONE")
                 ++ Each({"LF"}, "HL_BEGIN"),
     SP_AFTER_VALUE |-> Each({"SP"}, "SP_AFTER_VALUE") ++ Each({"CR"}, "HL_ALMOST_DONE")
                          ++ Each({"LF"}, "HL_BEGIN"),
     HL_ALMOST_DONE |-> Each({"LF"}, "HL_BEGIN")]

\* Where any other character leads.
Otherwise == [s \in DOMAIN HeaderMoves |->
                 IF s \in {"COLON", "VALUE", "SP_AFTER_VALUE"} THEN "VALUE" ELSE "IGNORE"]

\* A name is lower case and has underscores, in the buffer itself.
Lowered(c) == CASE c \in Upper -> LowerOf[c] [] c = "-" -> "_" [] OTHER -> c
Kept(c) == IF state \in {"HL_BEGIN", "NAME"} THEN Lowered(c) ELSE c

Name(c) == CASE state = "HL_BEGIN" -> IF c \in InName THEN From(2, NULL) ELSE NULL
             [] state = "NAME" /\ c = ":" -> [name EXCEPT !.len = Here - name.data]
             [] OTHER -> name

\* Mutation of Value: a space inside the value begins it anew.
ValueFromSpace(c) ==
    CASE state = "HL_BEGIN" -> NULL
      [] state \in {"COLON", "SP_AFTER_VALUE"} /\ c \notin {"SP", "CR", "LF"} -> From(Here, value)
      [] state = "VALUE" /\ c \in {"SP", "CR", "LF"} -> [value EXCEPT !.len = Here - value.data]
      [] OTHER -> value

Value(c) ==
    CASE state = "HL_BEGIN" -> NULL
      [] state = "COLON" /\ c \notin {"SP", "CR", "LF"} -> From(Here, value)
      [] state = "VALUE" /\ c \in {"SP", "CR", "LF"} -> [value EXCEPT !.len = Here - value.data]
      [] OTHER -> value

\* Mutation of LineIsDone: an ignored line is handed on.
LineIsDoneAlways(next) == next = "HL_BEGIN"

\* The end of a line that is ignored is not the end of the call.
LineIsDone(next) == next = "HL_BEGIN" /\ state # "IGNORE"

Header(c) ==
    /\ state \in DOMAIN HeaderMoves
    /\ LET next == Move(HeaderMoves[state], c, Otherwise[state])
       IN  /\ state' = next
           /\ name' = Name(c)
           /\ value' = Value(c)
           /\ result' = CASE ~LineIsDone(next) -> "AGAIN"
                          [] LineIsDone(next) /\ Name(c).data = 0 -> "EMPTY_LINE"
                          [] OTHER -> "OK"
           /\ zero' = 0
           /\ UNCHANGED <<version, uri>>

\* The lines are told apart by their LF, whatever the automaton takes for a line.  A bare
\* name is a line of a name and its LF, unless it is behind a bare name itself.
Ended(text) == text # <<>> /\ text[Len(text)] = "LF"
BareName(text) == Ended(text) /\ Len(text) > 1 /\ \A i \in 1 .. Len(text) - 1 : text[i] \in InName

Watch(c) ==
    IF raw = <<>> \/ Ended(raw)
    THEN raw' = <<c>> /\ behind' = (BareName(raw) /\ ~behind)
    ELSE raw' = Append(raw, c) /\ behind' = behind

-------------------------------------------------------------------------------
Receive(c) ==
    /\ result \in {"AGAIN", "OK"}
    /\ \/ /\ Read(c) /\ (RequestBegins(c) \/ Method(c) \/ Uri(c) \/ Version(c))
          /\ UNCHANGED <<raw, behind>>
       \/ Read(Kept(c)) /\ Header(c) /\ Watch(c)

\* sy_request_init, for the next request or the next connection.
NextRequest ==
    /\ result \notin {"AGAIN", "OK"}
    /\ state' = "RL_BEGIN" /\ line' = <<>> /\ zero' = 0 /\ result' = "AGAIN"
    /\ version' = [major |-> 0, minor |-> 0] /\ uri' = NewUri
    /\ name' = NULL /\ value' = NULL /\ raw' = <<>> /\ behind' = FALSE

Next == NextRequest \/ \E c \in Char : Receive(c)

Spec == Init /\ [][Next]_vars

-------------------------------------------------------------------------------
(* What is read back of a line.                                            *)

Text(s) == SubSeq(line, s.data - 1, s.data + s.len - 2)

\* The text from a position on to the zero, or to the end of what is known.
TextFrom(p) == SubSeq(line, p - 1, IF zero >= p THEN zero - 2 ELSE Len(line))

MimeMap == Mime!MapOf(MimeTable)
NameMap == Names!MapOf(HeaderTable)

\* The type sy_response_build gives a file.
ContentType == Mime!MapGet(MimeMap, TextFrom(uri.extension.data), uri.extension.len, "text/html")

\* Mutation of Handler: names are compared by their length.
HandlerByLength == Names!MapGet(NameMap, Text(name), name.len, "none")

\* The handler sy_request_handle_headers takes.
Handler == Names!MapGet(NameMap, TextFrom(name.data), name.len, "none")

-------------------------------------------------------------------------------
(* The text of the URI, read without the automaton.                        *)

Where(text, c) == {i \in DOMAIN text : text[i] = c}

UriText ==
    LET first == Min({i \in DOMAIN line : line[i] # "SP" /\ i > Min(Where(line, "SP"))})
    IN  SubSeq(line, first, Min({i \in Where(line, "SP") : i > first}) - 1)

\* Where the path begins in the URI, if there is a path.
PathStart(u) == IF u[1] = "/" THEN 1
                ELSE LET slashes == {i \in Where(u, "/") : i > Min(Where(u, "/")) + 1}
                     IN  IF slashes = {} THEN 0 ELSE Min(slashes)

QueryStart(u) == IF Where(u, "?") = {} THEN Len(u) + 1 ELSE Min(Where(u, "?"))

Path(u) == IF PathStart(u) = 0 THEN <<"/">> ELSE SubSeq(u, PathStart(u), QueryStart(u) - 1)

\* The entry behind the slash at i.
Entry(path, i) ==
    SubSeq(path, i + 1, Min({j \in Where(path, "/") : j > i} \cup {Len(path) + 1}) - 1)

LastEntry(path) == Entry(path, Max(Where(path, "/")))
Parent == <<".", ".">>
Ordinary(e) == e \notin {<<>>, <<".">>, Parent}
Dotted(e) == Ordinary(e) /\ Where(e, ".") # {}

\* The path leaves the directory it begins in.
Climbs(path) ==
    \E i \in Where(path, "/") :
      Cardinality({j \in Where(path, "/") : j <= i /\ Ordinary(Entry(path, j))})
        < Cardinality({j \in Where(path, "/") : j <= i /\ Entry(path, j) = Parent})

RequestLineRead == result = "OK" /\ name = NULL
HeaderLineRead == result = "OK" /\ name # NULL

-------------------------------------------------------------------------------
\* The path handed to the file system or to a location is the text of the URI up to the
\* query, for a path that stays inside its root: whatever ".", ".." and empty entries it
\* has, it is neither cut nor lengthened.  A query right behind an extension is apart:
\* the end of the path is not recorded there.
PathRead ==
    RequestLineRead =>
      LET path == Path(UriText)
      IN  (~Climbs(path) /\ (Dotted(LastEntry(path)) => Where(UriText, "?") = {}))
            => Text(uri.abs_path) = path

\* A path that leaves its root, with a dot in every name of it, is cut to its first slash
\* by sy_parse_request_line, even when it comes back inside later on.
ClimbIsCut ==
    RequestLineRead =>
      LET path == Path(UriText)
      IN  (/\ Climbs(path)
           /\ \A i \in Where(path, "/") : Ordinary(Entry(path, i)) => Dotted(Entry(path, i)))
            => Text(uri.abs_path) = <<"/">>

\* The query is the text behind the first question mark, NULL when there is none.
QueryRead ==
    RequestLineRead =>
      LET u == UriText
      IN  IF Where(u, "?") = {} THEN uri.query = NULL
          ELSE Text(uri.query) = SubSeq(u, QueryStart(u) + 1, Len(u))

\* The extension is what follows the last dot of the last entry; of an entry that begins
\* with ".." and has no dot behind it, what follows the character behind it.  A path that
\* ends in a slash, in "." or in ".." has none.  No directory lends its dot to a file
\* behind it: a last entry without a dot has an extension one past NULL.
ExtensionRead ==
    RequestLineRead =>
      LET e == LastEntry(Path(UriText))
          dot == Max(Where(e, "."))
          first == IF dot = 2 /\ e[1] = "." THEN 4 ELSE dot + 1
      IN  /\ ~Ordinary(e) => uri.extension = NULL
          /\ Ordinary(e) /\ ~Dotted(e) => uri.extension.data = 1
          /\ Dotted(e) => Text(uri.extension) = SubSeq(e, first, Len(e))

\* A file with a dot in its name is sent with the type mime_tb has for its extension: the
\* zero behind the path is the end of the key in the buffer, and the chain of its bucket is
\* followed to it.  For a file without a dot nothing is claimed: the key is one past NULL.
MimeFound ==
    (RequestLineRead /\ zero # 0) =>
      LET path == Path(UriText)
          e == LastEntry(path)
          rows == {i \in DOMAIN MimeTable : MimeTable[i][1] = Text(uri.extension)}
      IN  (Where(UriText, "?") = {} /\ Dotted(e) /\ ~Climbs(path))
            => ContentType = IF rows = {} THEN "text/html" ELSE MimeTable[Min(rows)][2]

\* "name: value" with an end of line.
WellFormed(text, name_end, value_end) ==
    /\ name_end > 1 /\ text[name_end] = ":"
    /\ \A i \in 1 .. name_end - 1 : text[i] \in InName
    /\ \A i \in name_end .. value_end : text[i] \notin {"CR", "LF"}
    /\ SubSeq(text, value_end + 1, Len(text)) \in {<<"LF">>, <<"CR", "LF">>}

\* Of the lines a client sends, those and only those that have the form of a header are
\* handed on with a name: the text up to the colon in lower case and with underscores, and
\* the value, what is between the spaces around it.  A line behind a bare name is apart: it
\* is swallowed together with that name.
HeaderRead ==
    LET ends == {e \in (DOMAIN raw) \X (DOMAIN raw) : WellFormed(raw, e[1], e[2])}
        Inner(e) == {i \in e[1] + 1 .. e[2] : raw[i] # "SP"}
    IN  /\ HeaderLineRead => ~behind /\ (name.len > 0 => ends # {})
        /\ ~behind /\ ends # {} => HeaderLineRead
        /\ \A e \in IF HeaderLineRead THEN ends ELSE {} :
             /\ Text(name) = [i \in 1 .. e[1] - 1 |-> Lowered(raw[i])]
             /\ IF Inner(e) = {} THEN value.len = 0
                ELSE Text(value) = SubSeq(raw, Min(Inner(e)), Max(Inner(e)))

\* The headers end at the first empty line that is not behind a bare name, and nowhere else.
EmptyLineIsEmpty ==
    result = "EMPTY_LINE" <=> raw \in {<<"LF">>, <<"CR", "LF">>} /\ ~behind

\* No header reaches its handler: sy_string_eq reads the name in the buffer on past the
\* colon, so a name that is in header_tb is not found in it.
NoHeaderIsFound == HeaderLineRead => Handler = "none"
===============================================================================
