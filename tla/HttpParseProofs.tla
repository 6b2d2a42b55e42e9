---------------------------- MODULE HttpParseProofs ----------------------------
(****************************************************************************)
(* What a parsed request keeps, proved for every alphabet and every table   *)
(* of headers and media types that the assumptions of HttpParse allow.      *)
(*                                                                          *)
(* Three inductive invariants carry the eight properties of the parser:     *)
(*   HeaderInv  what each state of the header automaton knows of the line   *)
(*              read so far: where the name ends, where the value begins    *)
(*              and where its last character that is no space is;           *)
(*   SentInv    the line of the automaton is the line that was sent, with   *)
(*              its name lowered, or no header, or behind a bare name;      *)
(*   UriInv     what each state of the request line knows of its URI: where *)
(*              it begins, where its path and its query begin, where the    *)
(*              last entry's extension is, and that the counts of entries   *)
(*              and of parents are those of the entries closed so far.      *)
(* The maps are proved by induction over the rows of their tables: what is  *)
(* in a map after n rows is what the first n rows put there.                *)
(****************************************************************************)
EXTENDS HttpParse, TLAPS, WellFoundedInduction, NaturalsInduction, SequenceTheorems,
        FiniteSetTheorems

-------------------------------------------------------------------------------
(* The tables of the automata.                                             *)

VersionStates == {"SP_BEFORE_VERSION", "HTTP_H", "HTTP_HT", "HTTP_HTT", "HTTP_HTTP",
                  "VERSION_SLASH", "VERSION_MAJOR", "VERSION_DOT", "VERSION_MINOR",
                  "SP_AFTER_VERSION", "RL_ALMOST_DONE"}
HeaderStates == {"HL_BEGIN", "IGNORE", "NAME", "COLON", "VALUE", "SP_AFTER_VALUE",
                 "HL_ALMOST_DONE"}

\* The automata of the version and of the header lines have these states.
LEMMA Tables == DOMAIN VersionMoves = VersionStates /\ DOMAIN HeaderMoves = HeaderStates
  BY DEF VersionMoves, VersionStates, HeaderMoves, HeaderStates

UriMove(s, c) == Move(UriMoves[s], c, "ERROR")

\* uri_state before the path: where each character leads.
LEMMA UriMoveIs ==
    ASSUME NEW c
    PROVE
     /\ UriMove("BEGIN", c) =
          IF c = "/" THEN "ABS_PATH_SLASH" ELSE IF c \in Letter THEN "SCHEME" ELSE "ERROR"
     /\ UriMove("SCHEME", c) =
          IF c = ":" THEN "SCHEME_COLON"
          ELSE IF c \in Letter \cup Digit \cup {".", "-"} THEN "SCHEME" ELSE "ERROR"
     /\ UriMove("SCHEME_COLON", c) = IF c = "/" THEN "SCHEME_SLASH" ELSE "ERROR"
     /\ UriMove("SCHEME_SLASH", c) = IF c = "/" THEN "SCHEME_SLASH_SLASH" ELSE "ERROR"
     /\ UriMove("SCHEME_SLASH_SLASH", c) = IF c \in Letter \cup Digit THEN "HOST" ELSE "ERROR"
     /\ UriMove("HOST", c) =
          IF c = ":" THEN "PORT" ELSE IF c = "/" THEN "ABS_PATH_SLASH"
          ELSE IF c \in Letter \cup Digit \cup {".", "-"} THEN "HOST" ELSE "ERROR"
     /\ UriMove("PORT", c) =
          IF c = "SP" THEN "BEGIN" ELSE IF c = "/" THEN "ABS_PATH_SLASH"
          ELSE IF c \in Digit THEN "PORT" ELSE "ERROR"
<1> USE DEF UriMove, Move, UriMoves, Each, ++, Letter, Upper, Lower, Digit
<1>1. UriMove("BEGIN", c) =
          IF c = "/" THEN "ABS_PATH_SLASH" ELSE IF c \in Letter THEN "SCHEME" ELSE "ERROR"
  OBVIOUS
<1>2. UriMove("SCHEME", c) =
          IF c = ":" THEN "SCHEME_COLON"
          ELSE IF c \in Letter \cup Digit \cup {".", "-"} THEN "SCHEME" ELSE "ERROR"
  OBVIOUS
<1>3. UriMove("SCHEME_COLON", c) = IF c = "/" THEN "SCHEME_SLASH" ELSE "ERROR"
  OBVIOUS
<1>4. UriMove("SCHEME_SLASH", c) = IF c = "/" THEN "SCHEME_SLASH_SLASH" ELSE "ERROR"
  OBVIOUS
<1>5. UriMove("SCHEME_SLASH_SLASH", c) = IF c \in Letter \cup Digit THEN "HOST" ELSE "ERROR"
  OBVIOUS
<1>6. UriMove("HOST", c) =
          IF c = ":" THEN "PORT" ELSE IF c = "/" THEN "ABS_PATH_SLASH"
          ELSE IF c \in Letter \cup Digit \cup {".", "-"} THEN "HOST" ELSE "ERROR"
  OBVIOUS
<1>7. UriMove("PORT", c) =
          IF c = "SP" THEN "BEGIN" ELSE IF c = "/" THEN "ABS_PATH_SLASH"
          ELSE IF c \in Digit THEN "PORT" ELSE "ERROR"
  OBVIOUS
<1> QED BY <1>1, <1>2, <1>3, <1>4, <1>5, <1>6, <1>7, Zenon

\* uri_state in the path and in the query: where each character leads.
LEMMA PathMoveIs ==
    ASSUME NEW c
    PROVE
     /\ UriMove("ABS_PATH_SLASH", c) =
          IF c = "SP" THEN "BEGIN" ELSE IF c = "/" THEN "ABS_PATH_SLASH"
          ELSE IF c = "?" THEN "QUERY" ELSE IF c = "." THEN "ABS_PATH_DOT"
          ELSE IF c \in Allowed THEN "ABS_PATH_ENTRY" ELSE "ERROR"
     /\ UriMove("ABS_PATH_DOT", c) =
          IF c = "SP" THEN "BEGIN" ELSE IF c = "/" THEN "ABS_PATH_SLASH"
          ELSE IF c = "?" THEN "QUERY" ELSE IF c = "." THEN "ABS_PATH_DDOT"
          ELSE IF c \in Allowed THEN "EXTENSION" ELSE "ERROR"
     /\ UriMove("ABS_PATH_DDOT", c) =
          IF c = "SP" THEN "BEGIN" ELSE IF c = "/" THEN "ABS_PATH_SLASH"
          ELSE IF c = "?" THEN "QUERY"
          ELSE IF c \in Allowed \cup {"."} THEN "EXTENSION" ELSE "ERROR"
     /\ UriMove("ABS_PATH_ENTRY", c) =
          IF c = "SP" THEN "BEGIN" ELSE IF c = "/" THEN "ABS_PATH_SLASH"
          ELSE IF c = "?" THEN "QUERY" ELSE IF c = "." THEN "EXTENSION"
          ELSE IF c \in Allowed THEN "ABS_PATH_ENTRY" ELSE "ERROR"
     /\ UriMove("EXTENSION", c) =
          IF c = "SP" THEN "BEGIN" ELSE IF c = "/" THEN "ABS_PATH_SLASH"
          ELSE IF c = "?" THEN "QUERY"
          ELSE IF c \in Allowed \cup {"."} THEN "EXTENSION" ELSE "ERROR"
     /\ UriMove("QUERY", c) =
          IF c = "SP" THEN "BEGIN"
          ELSE IF c \in Allowed \cup {".", "/", "?"} THEN "QUERY" ELSE "ERROR"
<1> USE DEF UriMove, Move, UriMoves, PathMoves, Each, ++, Allowed, Letter, Upper, Lower, Digit
<1>1. UriMove("ABS_PATH_SLASH", c) =
          IF c = "SP" THEN "BEGIN" ELSE IF c = "/" THEN "ABS_PATH_SLASH"
          ELSE IF c = "?" THEN "QUERY" ELSE IF c = "." THEN "ABS_PATH_DOT"
          ELSE IF c \in Allowed THEN "ABS_PATH_ENTRY" ELSE "ERROR"
  OBVIOUS
<1>2. UriMove("ABS_PATH_DOT", c) =
          IF c = "SP" THEN "BEGIN" ELSE IF c = "/" THEN "ABS_PATH_SLASH"
          ELSE IF c = "?" THEN "QUERY" ELSE IF c = "." THEN "ABS_PATH_DDOT"
          ELSE IF c \in Allowed THEN "EXTENSION" ELSE "ERROR"
  OBVIOUS
<1>3. UriMove("ABS_PATH_DDOT", c) =
          IF c = "SP" THEN "BEGIN" ELSE IF c = "/" THEN "ABS_PATH_SLASH"
          ELSE IF c = "?" THEN "QUERY"
          ELSE IF c \in Allowed \cup {"."} THEN "EXTENSION" ELSE "ERROR"
  OBVIOUS
<1>4. UriMove("ABS_PATH_ENTRY", c) =
          IF c = "SP" THEN "BEGIN" ELSE IF c = "/" THEN "ABS_PATH_SLASH"
          ELSE IF c = "?" THEN "QUERY" ELSE IF c = "." THEN "EXTENSION"
          ELSE IF c \in Allowed THEN "ABS_PATH_ENTRY" ELSE "ERROR"
  OBVIOUS
<1>5. UriMove("EXTENSION", c) =
          IF c = "SP" THEN "BEGIN" ELSE IF c = "/" THEN "ABS_PATH_SLASH"
          ELSE IF c = "?" THEN "QUERY"
          ELSE IF c \in Allowed \cup {"."} THEN "EXTENSION" ELSE "ERROR"
  OBVIOUS
<1>6. UriMove("QUERY", c) =
          IF c = "SP" THEN "BEGIN"
          ELSE IF c \in Allowed \cup {".", "/", "?"} THEN "QUERY" ELSE "ERROR"
  OBVIOUS
<1> QED BY <1>1, <1>2, <1>3, <1>4, <1>5, <1>6, Zenon

HeaderMove(s, c) == Move(HeaderMoves[s], c, Otherwise[s])

\* The switch of parse_header_line: where each character leads.
LEMMA HeaderMoveIs ==
    ASSUME NEW c
    PROVE
     /\ HeaderMove("HL_BEGIN", c) =
          IF c \in InName THEN "NAME" ELSE IF c = "CR" THEN "HL_ALMOST_DONE"
          ELSE IF c = "LF" THEN "HL_BEGIN" ELSE "IGNORE"
     /\ HeaderMove("IGNORE", c) = IF c = "LF" THEN "HL_BEGIN" ELSE "IGNORE"
     /\ HeaderMove("NAME", c) =
          IF c \in InName THEN "NAME" ELSE IF c = ":" THEN "COLON"
          ELSE IF c = "CR" THEN "HL_ALMOST_DONE" ELSE "IGNORE"
     /\ HeaderMove("COLON", c) =
          IF c = "SP" THEN "COLON" ELSE IF c = "CR" THEN "HL_ALMOST_DONE"
          ELSE IF c = "LF" THEN "HL_BEGIN" ELSE "VALUE"
     /\ HeaderMove("VALUE", c) =
          IF c = "SP" THEN "SP_AFTER_VALUE" ELSE IF c = "CR" THEN "HL_ALMOST_DONE"
          ELSE IF c = "LF" THEN "HL_BEGIN" ELSE "VALUE"
     /\ HeaderMove("SP_AFTER_VALUE", c) =
          IF c = "SP" THEN "SP_AFTER_VALUE" ELSE IF c = "CR" THEN "HL_ALMOST_DONE"
          ELSE IF c = "LF" THEN "HL_BEGIN" ELSE "VALUE"
     /\ HeaderMove("HL_ALMOST_DONE", c) = IF c = "LF" THEN "HL_BEGIN" ELSE "IGNORE"
  BY DEF HeaderMove, Move, HeaderMoves, Otherwise, Each, ++, InName, Letter, Upper, Lower, Digit

States == {"RL_BEGIN", "METHOD", "SP_BEFORE_URI", "URI"} \cup VersionStates \cup HeaderStates
Results == {"AGAIN", "OK", "BAD_REQUEST", "BAD_METHOD", "BAD_URI", "BAD_VERSION",
            "UNSUPPORTED", "EMPTY_LINE"}

TypeInv == state \in States /\ line \in Seq(Char) /\ result \in Results

\* The characters of a name as they are in the buffer.
InBuffer == (InName \ Upper) \cup {"_"}
NameOnly(n) ==
    /\ n \in 1 .. Len(line) /\ name = [data |-> 2, len |-> 0] /\ value = NULL
    /\ \A i \in 1 .. n : line[i] \in InBuffer
NameRead(k, n) ==
    /\ k \in 2 .. n /\ n <= Len(line) /\ name = [data |-> 2, len |-> k - 1] /\ line[k] = ":"
    /\ \A i \in 1 .. k - 1 : line[i] \in InBuffer
    /\ \A i \in k .. n : line[i] \notin {"CR", "LF"}
Spaces(i, j) == \A l \in i .. j : line[l] = "SP"
ValueBegins(k, v, n) ==
    /\ v \in k + 1 .. n /\ Spaces(k + 1, v - 1) /\ line[v] # "SP" /\ value.data = v + 1
ValueRead(k, v, w, n) ==
    /\ ValueBegins(k, v, n) /\ w \in v .. n /\ line[w] # "SP" /\ Spaces(w + 1, n)
    /\ value = [data |-> v + 1, len |-> w - v + 1]

\* The first n characters of the line are what name and value say.
LineRead(n) ==
    \/ n = 0 /\ name = NULL /\ value = NULL
    \/ NameOnly(n)
    \/ \E k \in 1 .. Len(line) : /\ NameRead(k, n)
                      /\ \/ value = NULL /\ Spaces(k + 1, n)
                         \/ \E v, w \in 1 .. Len(line) : ValueRead(k, v, w, n)

\* The line is no header: a character that is in no name, or a CR that does not end it.
Broken ==
    \E i \in 1 .. Len(line) :
      \/ /\ \A j \in 1 .. i - 1 : line[j] \in InBuffer
         /\ line[i] \notin InBuffer \ {"_"} /\ line[i] # "CR"
         /\ i = 1 \/ line[i] # ":"
         /\ i = 1 => line[i] # "LF"
      \/ i < Len(line) /\ line[i] = "CR" /\ line[i + 1] # "LF"

\* The line has been handed on.
Handed ==
    \/ /\ result = "OK" /\ name = NULL /\ line # <<>> /\ line[1] \in Upper
    \/ /\ result = "UNSUPPORTED" /\ line # <<>> /\ line[1] \in Upper
    \/ /\ result = "EMPTY_LINE" /\ name = NULL /\ line \in {<<"LF">>, <<"CR", "LF">>}
    \/ /\ result = "OK" /\ name # NULL /\ line[Len(line)] = "LF"
       /\ \/ LineRead(Len(line) - 1) /\ ~NameOnly(Len(line) - 1)
          \/ LineRead(Len(line) - 2) /\ Len(line) > 2 /\ line[Len(line) - 1] = "CR"
    \/ /\ result = "AGAIN" /\ Broken

HeaderInv ==
    /\ state \notin HeaderStates => name = NULL
    /\ state \notin HeaderStates /\ state # "RL_BEGIN" => line # <<>> /\ line[1] \in Upper
    /\ state # "HL_BEGIN" => result \notin {"EMPTY_LINE", "OK"}
    /\ state = "NAME" => NameOnly(Len(line))
    /\ state = "COLON" => \E k \in 1 .. Len(line) : /\ NameRead(k, Len(line))
                                         /\ value = NULL /\ Spaces(k + 1, Len(line))
    /\ state = "VALUE" => /\ line[Len(line)] # "SP"
                          /\ value \in [data : Int, len : Int]
                          /\ \E k, v \in 1 .. Len(line) :
                               NameRead(k, Len(line)) /\ ValueBegins(k, v, Len(line))
    /\ state = "SP_AFTER_VALUE" =>
          \E k, v, w \in 1 .. Len(line) : NameRead(k, Len(line)) /\ ValueRead(k, v, w, Len(line))
    /\ state = "HL_ALMOST_DONE" => /\ line # <<>> /\ line[Len(line)] = "CR"
                                   /\ LineRead(Len(line) - 1)
    /\ state = "IGNORE" => Broken
    /\ state = "HL_BEGIN" => Handed

\* No zero is in a line that is read with a name.
NoZero == name # NULL => zero = 0

-------------------------------------------------------------------------------
(* A header line, character by character.                                  *)

\* A name is put in the buffer in lower case, with "_" for what is no letter or digit.
LEMMA NamesHave ==
    /\ \A c \in InName : Lowered(c) \in InBuffer
    /\ \A c \in {"SP", ":", "CR", "LF"} : c \notin InBuffer /\ c \notin InName /\ Lowered(c) = c
    /\ \A c \in Char \ InName : Lowered(c) = c /\ c \notin InBuffer \ {"_"}
    /\ \A c \in Char : Lowered(c) \in Char
    /\ InBuffer \subseteq Char
<1>1. ASSUME NEW c \in Upper
      PROVE  Lowered(c) \in Lower
  BY DEF Lowered, LowerOf, Upper, Lower
<1>2. ASSUME NEW c, c \notin Upper
      PROVE  Lowered(c) = IF c = "-" THEN "_" ELSE c
  BY <1>2 DEF Lowered
<1>3. "-" \notin Upper /\ "_" \notin Upper
  BY DEF Upper
<1>4. \A c \in InName : Lowered(c) \in InBuffer
  <2>1. Lower \subseteq InBuffer
    BY DEF InBuffer, InName, Letter, Lower, Upper
  <2> QED BY <1>1, <1>2, <2>1 DEF InBuffer
<1>5. \A c \in {"SP", ":", "CR", "LF"} :
         c \notin InBuffer /\ c \notin InName /\ c \notin Upper /\ c # "-"
  BY DEF InBuffer, InName, Letter, Lower, Upper, Digit
<1>6. \A c \in Char \ InName : c \notin Upper /\ c # "-" /\ c \notin InBuffer \ {"_"}
  BY DEF InBuffer, InName, Letter
<1>7. Lower \subseteq Char /\ "_" \in Char /\ InBuffer \subseteq Char
  BY DEF Char, Letter, InBuffer, InName
<1> QED BY <1>1, <1>2, <1>4, <1>5, <1>6, <1>7

\* What is appended to the line.
LEMMA Appended ==
    ASSUME NEW s \in Seq(Char), NEW d \in Char, NEW t, t = Append(s, d)
    PROVE  /\ t \in Seq(Char) /\ Len(s) \in Nat /\ Len(t) = Len(s) + 1 /\ t # <<>>
           /\ t[Len(s) + 1] = d /\ \A i \in 1 .. Len(s) : t[i] = s[i]
  OBVIOUS

\* A line that no header can be stays one.
LEMMA BrokenStays ==
    ASSUME TypeInv, Broken, NEW d \in Char, line' = Append(line, d)
    PROVE  Broken'
<1>1. /\ Len(line) \in Nat /\ Len(line') = Len(line) + 1
      /\ \A i \in 1 .. Len(line) : line'[i] = line[i]
  BY Appended DEF TypeInv
<1>2. PICK i \in 1 .. Len(line) :
      \/ /\ \A j \in 1 .. i - 1 : line[j] \in InBuffer
         /\ line[i] \notin InBuffer \ {"_"} /\ line[i] # "CR"
         /\ i = 1 \/ line[i] # ":"
         /\ i = 1 => line[i] # "LF"
      \/ i < Len(line) /\ line[i] = "CR" /\ line[i + 1] # "LF"
  BY DEF Broken
<1>3. i \in 1 .. Len(line') /\ line'[i] = line[i] /\ \A j \in 1 .. i - 1 : line'[j] = line[j]
  BY <1>1
<1>4. i < Len(line) => i < Len(line') /\ line'[i + 1] = line[i + 1]
  BY <1>1
<1> QED BY <1>2, <1>3, <1>4 DEF Broken

\* The first character of a header line.
LEMMA HeaderBegins ==
    ASSUME TypeInv, state = "HL_BEGIN", NEW c \in Char, Read(Kept(c)), Header(c)
    PROVE  TypeInv' /\ HeaderInv'
<1>1. /\ line' = <<Kept(c)>> /\ Kept(c) = Lowered(c)
      /\ name' = (IF c \in InName THEN From(2, NULL) ELSE NULL) /\ value' = NULL
      /\ state' = IF c \in InName THEN "NAME" ELSE IF c = "CR" THEN "HL_ALMOST_DONE"
                  ELSE IF c = "LF" THEN "HL_BEGIN" ELSE "IGNORE"
  BY HeaderMoveIs DEF Read, Kept, Header, Name, Value, HeaderMove
<1>2. /\ result' = CASE ~LineIsDone(state') -> "AGAIN"
                          [] LineIsDone(state') /\ name'.data = 0 -> "EMPTY_LINE"
                          [] OTHER -> "OK"
  BY DEF Header
<1>3. /\ Lowered(c) \in Char
      /\ c \in InName => Lowered(c) \in InBuffer
      /\ c \notin InName => Lowered(c) = c /\ c \notin InBuffer \ {"_"}
  BY NamesHave
<1>4. Len(line') = 1 /\ line'[1] = Lowered(c) /\ line' \in Seq(Char) /\ line' # <<>>
  <2> DEFINE d == Lowered(c)
  <2>1. d \in Char /\ line' = <<d>>
    BY <1>1, <1>3
  <2> HIDE DEF d
  <2>2. Len(line') = 1 /\ line'[1] = d /\ line' \in Seq(Char) /\ line' # <<>>
    BY <2>1
  <2> QED BY <2>2 DEF d
<1>5. result' = IF state' # "HL_BEGIN" THEN "AGAIN"
                ELSE IF name'.data = 0 THEN "EMPTY_LINE" ELSE "OK"
  BY <1>2 DEF LineIsDone
<1>6. TypeInv'
  BY <1>1, <1>4, <1>5 DEF TypeInv, States, Results, HeaderStates
<1>7. CASE c \in InName
  <2>1. NameOnly(1)'
    <3>1. name' = [data |-> 2, len |-> 0] /\ value' = NULL /\ line'[1] \in InBuffer
      BY <1>1, <1>3, <1>4, <1>7 DEF From, NULL
    <3>2. 1 \in 1 .. Len(line') /\ \A i \in 1 .. 1 : i = 1
      BY <1>4
    <3> QED BY <3>1, <3>2 DEF NameOnly
  <2> QED BY <1>1, <1>4, <1>5, <1>6, <1>7, <2>1 DEF HeaderInv, HeaderStates
<1>8. CASE c = "CR"
  <2>1. state' = "HL_ALMOST_DONE" /\ name' = NULL /\ line'[1] = "CR"
    BY <1>1, <1>3, <1>4, <1>8, NamesHave
  <2>2. LineRead(0)'
    BY <1>1, <2>1 DEF LineRead
  <2> QED BY <1>4, <1>5, <1>6, <2>1, <2>2 DEF HeaderInv, HeaderStates
<1>9. CASE c = "LF"
  <2>1. state' = "HL_BEGIN" /\ name' = NULL /\ line' = <<"LF">>
    BY <1>1, <1>3, <1>4, <1>9, NamesHave
  <2>2. Handed'
    BY <1>5, <2>1 DEF Handed, NULL
  <2> QED BY <1>4, <1>5, <1>6, <2>1, <2>2 DEF HeaderInv, HeaderStates
<1>10. CASE c \notin InName \cup {"CR", "LF"}
  <2>1. Broken'
    <3>1. line'[1] = c /\ c \notin InBuffer \ {"_"} /\ c # "CR" /\ c # "LF"
      BY <1>3, <1>4, <1>10
    <3>2. 1 \in 1 .. Len(line') /\ \A j \in 1 .. 1 - 1 : FALSE
      BY <1>4
    <3> QED BY <3>1, <3>2 DEF Broken
  <2>2. state' = "IGNORE"
    BY <1>1, <1>10
  <2> QED BY <1>4, <1>5, <1>6, <2>1, <2>2 DEF HeaderInv, HeaderStates
<1> QED BY <1>7, <1>8, <1>9, <1>10

\* What a character does in the middle of a line.
LEMMA HeaderGoesOn ==
    ASSUME TypeInv, HeaderInv, state \in HeaderStates \ {"HL_BEGIN"}, NEW c \in Char,
           Read(Kept(c)), Header(c)
    PROVE  /\ line' = Append(line, Kept(c)) /\ Kept(c) \in Char
           /\ state # "NAME" => Kept(c) = c
           /\ state' = HeaderMove(state, c) /\ state' \in HeaderStates
           /\ name' = (IF state = "NAME" /\ c = ":"
                       THEN [name EXCEPT !.len = (Len(line) + 2) - name.data] ELSE name)
           /\ state # "HL_ALMOST_DONE" /\ c # "LF" => state' # "HL_BEGIN"
           /\ result' = IF state' # "HL_BEGIN" \/ state = "IGNORE" THEN "AGAIN"
                        ELSE IF name'.data = 0 THEN "EMPTY_LINE" ELSE "OK"
           /\ TypeInv'
           /\ Len(line) \in Nat /\ Len(line') = Len(line) + 1 /\ line' # <<>>
           /\ line'[Len(line) + 1] = Kept(c)
           /\ \A i \in 1 .. Len(line) : line'[i] = line[i]
<1>1. /\ line' = Append(line, Kept(c)) /\ state' = HeaderMove(state, c)
      /\ name' = (IF state = "NAME" /\ c = ":"
                       THEN [name EXCEPT !.len = (Len(line) + 2) - name.data] ELSE name)
      /\ state # "NAME" => Kept(c) = c
  <2>1. state \notin {"RL_BEGIN", "HL_BEGIN"}
    BY DEF HeaderStates
  <2>2. line' = Append(line, Kept(c))
    BY <2>1, Zenon DEF Read
  <2>3. state # "NAME" => Kept(c) = c
    BY <2>1 DEF Kept
  <2>4. state' = HeaderMove(state, c) /\ name' = Name(c)
    BY DEF Header, HeaderMove
  <2>5. Name(c) = (IF state = "NAME" /\ c = ":"
                   THEN [name EXCEPT !.len = (Len(line) + 2) - name.data] ELSE name)
    <3>1. CASE state = "NAME" /\ c = ":"
      <4>1. Name(c) = [name EXCEPT !.len = Here - name.data]
        BY <2>1, <3>1 DEF Name
      <4>2. Here = Len(line) + 2
        BY DEF Here
      <4>3. Name(c) = [name EXCEPT !.len = (Len(line) + 2) - name.data]
        BY <4>1, <4>2, Zenon
      <4> QED BY <3>1, <4>3
    <3>2. CASE ~(state = "NAME" /\ c = ":")
      BY <2>1, <3>2 DEF Name
    <3> QED BY <3>1, <3>2
  <2> QED BY <2>2, <2>3, <2>4, <2>5
<1>2. result' = CASE ~LineIsDone(state') -> "AGAIN"
                  [] LineIsDone(state') /\ name'.data = 0 -> "EMPTY_LINE"
                  [] OTHER -> "OK"
  BY DEF Header
<1>3. result' = IF state' # "HL_BEGIN" \/ state = "IGNORE" THEN "AGAIN"
                ELSE IF name'.data = 0 THEN "EMPTY_LINE" ELSE "OK"
  BY <1>2 DEF LineIsDone
<1>4. state' \in HeaderStates /\ (state # "HL_ALMOST_DONE" /\ c # "LF" => state' # "HL_BEGIN")
  <2>1. CASE state = "IGNORE"
    BY <1>1, <2>1, HeaderMoveIs DEF HeaderStates
  <2>2. CASE state = "NAME"
    BY <1>1, <2>2, HeaderMoveIs DEF HeaderStates
  <2>3. CASE state = "COLON"
    BY <1>1, <2>3, HeaderMoveIs DEF HeaderStates
  <2>4. CASE state = "VALUE"
    BY <1>1, <2>4, HeaderMoveIs DEF HeaderStates
  <2>5. CASE state = "SP_AFTER_VALUE"
    BY <1>1, <2>5, HeaderMoveIs DEF HeaderStates
  <2>6. CASE state = "HL_ALMOST_DONE"
    BY <1>1, <2>6, HeaderMoveIs DEF HeaderStates
  <2> QED BY <2>1, <2>2, <2>3, <2>4, <2>5, <2>6 DEF HeaderStates
<1>5. Kept(c) \in Char
  BY NamesHave DEF Kept
<1>6. /\ line' \in Seq(Char) /\ Len(line) \in Nat /\ Len(line') = Len(line) + 1 /\ line' # <<>>
      /\ line'[Len(line) + 1] = Kept(c) /\ \A i \in 1 .. Len(line) : line'[i] = line[i]
  BY <1>1, <1>5, Appended DEF TypeInv
<1>7. TypeInv'
  BY <1>3, <1>4, <1>6 DEF TypeInv, States, Results
<1> QED BY <1>1, <1>3, <1>4, <1>5, <1>6, <1>7

\* A character of a line that is ignored.
LEMMA IgnoreStep ==
    ASSUME TypeInv, HeaderInv, state = "IGNORE", NEW c \in Char, Read(Kept(c)), Header(c)
    PROVE  HeaderInv'
<1>1. /\ state' = HeaderMove("IGNORE", c) /\ line' = Append(line, Kept(c)) /\ Kept(c) \in Char
      /\ result' = "AGAIN" /\ line' # <<>> /\ state' \in HeaderStates
  BY HeaderGoesOn DEF HeaderStates
<1>2. Broken'
  BY <1>1, BrokenStays DEF HeaderInv
<1>3. state' = "HL_BEGIN" \/ state' = "IGNORE"
  BY <1>1, HeaderMoveIs
<1>4. Handed'
  BY <1>1, <1>2 DEF Handed
<1> QED BY <1>1, <1>2, <1>3, <1>4 DEF HeaderInv

\* What a prefix of the line is does not change when the line grows.
LEMMA NameOnlyStays ==
    ASSUME TypeInv, NEW n, NameOnly(n), NEW d \in Char, line' = Append(line, d),
           name' = name, value' = value
    PROVE  NameOnly(n)'
<1>1. /\ Len(line) \in Nat /\ Len(line') = Len(line) + 1
      /\ \A i \in 1 .. Len(line) : line'[i] = line[i]
  BY Appended DEF TypeInv
<1> QED BY <1>1 DEF NameOnly

\* A line that goes on keeps the name it began with.
LEMMA NameReadStays ==
    ASSUME TypeInv, NEW k, NEW n, n \in Int, NameRead(k, n), NEW d \in Char,
           line' = Append(line, d), name' = name
    PROVE  NameRead(k, n)' /\ (d \notin {"CR", "LF"} /\ n = Len(line) => NameRead(k, n + 1)')
<1>1. /\ Len(line) \in Nat /\ Len(line') = Len(line) + 1
      /\ \A i \in 1 .. Len(line) : line'[i] = line[i]
      /\ line'[Len(line) + 1] = d
  BY Appended DEF TypeInv
<1>2. /\ k \in 2 .. n /\ n <= Len(line) /\ name = [data |-> 2, len |-> k - 1] /\ line[k] = ":"
      /\ \A i \in 1 .. k - 1 : line[i] \in InBuffer
      /\ \A i \in k .. n : line[i] \notin {"CR", "LF"}
  BY DEF NameRead
<1>3. /\ k \in 2 .. n /\ n <= Len(line') /\ name' = [data |-> 2, len |-> k - 1] /\ line'[k] = ":"
      /\ \A i \in 1 .. k - 1 : line'[i] \in InBuffer
      /\ \A i \in k .. n : line'[i] \notin {"CR", "LF"}
  BY <1>1, <1>2
<1>4. NameRead(k, n)'
  BY <1>3 DEF NameRead
<1>5. ASSUME d \notin {"CR", "LF"}, n = Len(line)
      PROVE  NameRead(k, n + 1)'
  <2>1. k \in 2 .. n + 1 /\ n + 1 <= Len(line')
    BY <1>1, <1>2, <1>5
  <2>2. \A i \in k .. n + 1 : line'[i] \notin {"CR", "LF"}
    BY <1>1, <1>3, <1>5
  <2> QED BY <1>3, <2>1, <2>2 DEF NameRead
<1> QED BY <1>4, <1>5

\* A line that goes on keeps its spaces.
LEMMA SpacesStay ==
    ASSUME TypeInv, NEW i \in Int, i >= 1, NEW j \in Int, Spaces(i, j), j <= Len(line),
           NEW d \in Char, line' = Append(line, d)
    PROVE  Spaces(i, j)' /\ (d = "SP" /\ j = Len(line) => Spaces(i, j + 1)')
<1>1. /\ Len(line) \in Nat /\ Len(line') = Len(line) + 1
      /\ \A l \in 1 .. Len(line) : line'[l] = line[l]
      /\ line'[Len(line) + 1] = d
  BY Appended DEF TypeInv
<1>2. \A l \in i .. j : line'[l] = "SP"
  <2> TAKE l \in i .. j
  <2>1. l \in 1 .. Len(line)
    BY <1>1
  <2>2. line[l] = "SP"
    BY DEF Spaces
  <2> QED BY <1>1, <2>1, <2>2
<1>3. ASSUME d = "SP", j = Len(line), NEW l \in i .. j + 1
      PROVE  line'[l] = "SP"
  <2>1. l = j + 1 \/ l \in i .. j
    OBVIOUS
  <2> QED BY <1>1, <1>2, <1>3, <2>1
<1> QED BY <1>2, <1>3 DEF Spaces

\* A line that goes on keeps where its value begins.
LEMMA ValueBeginsStays ==
    ASSUME TypeInv, NEW k \in Nat, NEW v \in Int, NEW n \in Int, ValueBegins(k, v, n),
           n <= Len(line), NEW d \in Char, line' = Append(line, d), value'.data = value.data
    PROVE  ValueBegins(k, v, n)' /\ ValueBegins(k, v, n + 1)'
<1>1. Len(line) \in Nat /\ \A l \in 1 .. Len(line) : line'[l] = line[l]
  BY Appended DEF TypeInv
<1>2. /\ v \in k + 1 .. n /\ Spaces(k + 1, v - 1) /\ line[v] # "SP" /\ value.data = v + 1
  BY DEF ValueBegins
<1>3. /\ k + 1 \in Int /\ k + 1 >= 1 /\ v - 1 \in Int /\ v - 1 <= Len(line)
      /\ v \in 1 .. Len(line) /\ v \in k + 1 .. n + 1
  <2>1. v \in k + 1 .. n
    BY <1>2
  <2> QED BY <1>1, <2>1
<1>4. Spaces(k + 1, v - 1)'
  BY <1>2, <1>3, SpacesStay
<1>5. line'[v] = line[v]
  BY <1>1, <1>3
<1>6. value'.data = v + 1 /\ line'[v] # "SP"
  BY <1>2, <1>5
<1> QED BY <1>2, <1>3, <1>4, <1>6 DEF ValueBegins

\* A line that goes on keeps the value that spaces ended.
LEMMA ValueReadStays ==
    ASSUME TypeInv, NEW k \in Nat, NEW v \in Int, NEW w \in Int, NEW n \in Int,
           ValueRead(k, v, w, n), n <= Len(line),
           NEW d \in Char, line' = Append(line, d), value' = value
    PROVE  ValueRead(k, v, w, n)' /\ (d = "SP" /\ n = Len(line) => ValueRead(k, v, w, n + 1)')
<1>1. Len(line) \in Nat /\ \A l \in 1 .. Len(line) : line'[l] = line[l]
  BY Appended DEF TypeInv
<1>2. /\ ValueBegins(k, v, n) /\ w \in v .. n /\ line[w] # "SP" /\ Spaces(w + 1, n)
      /\ value = [data |-> v + 1, len |-> w - v + 1]
  BY DEF ValueRead
<1>3. ValueBegins(k, v, n)' /\ ValueBegins(k, v, n + 1)'
  <2>1. value'.data = value.data
    OBVIOUS
  <2> QED BY <1>2, <2>1, ValueBeginsStays
<1>4. v \in k + 1 .. n
  BY <1>2 DEF ValueBegins
<1>5. w + 1 \in Int /\ w + 1 >= 1 /\ w \in 1 .. Len(line) /\ w \in v .. n + 1
  <2>1. w \in v .. n
    BY <1>2
  <2> QED BY <1>1, <1>4, <2>1
<1>6. Spaces(w + 1, n)' /\ (d = "SP" /\ n = Len(line) => Spaces(w + 1, n + 1)')
  BY <1>2, <1>5, SpacesStay
<1>7. line'[w] = line[w]
  BY <1>1, <1>5
<1>8. line'[w] # "SP" /\ value' = [data |-> v + 1, len |-> w - v + 1]
  BY <1>2, <1>7
<1> QED BY <1>2, <1>3, <1>5, <1>6, <1>8 DEF ValueRead

\* A line that ends keeps what was read of it.
LEMMA LineReadStays ==
    ASSUME TypeInv, NEW n \in Int, LineRead(n), n <= Len(line), NEW d \in Char,
           line' = Append(line, d), name' = name, value' = value
    PROVE  LineRead(n)'
<1>1. Len(line) \in Nat /\ Len(line') = Len(line) + 1
  BY Appended DEF TypeInv
<1>2. CASE n = 0 /\ name = NULL /\ value = NULL
  BY <1>2 DEF LineRead
<1>3. CASE NameOnly(n)
  BY <1>3, NameOnlyStays DEF LineRead
<1>4. ASSUME NEW k \in 1 .. Len(line), NameRead(k, n), value = NULL, Spaces(k + 1, n)
      PROVE  LineRead(n)'
  <2>1. k \in 1 .. Len(line)' /\ k + 1 \in Int /\ k + 1 >= 1
    BY <1>1
  <2>2. NameRead(k, n)'
    BY <1>4, NameReadStays
  <2>3. Spaces(k + 1, n)'
    BY <1>4, <2>1, SpacesStay
  <2> QED BY <1>4, <2>1, <2>2, <2>3 DEF LineRead
<1>5. ASSUME NEW k \in 1 .. Len(line), NameRead(k, n),
             NEW v \in 1 .. Len(line), NEW w \in 1 .. Len(line), ValueRead(k, v, w, n)
      PROVE  LineRead(n)'
  <2>1. k \in 1 .. Len(line)' /\ v \in 1 .. Len(line)' /\ w \in 1 .. Len(line)'
    BY <1>1
  <2>2. NameRead(k, n)'
    BY <1>5, NameReadStays
  <2>3. k \in Nat /\ v \in Int /\ w \in Int
    BY <1>1
  <2>4. ValueRead(k, v, w, n)'
    BY <1>5, <2>3, ValueReadStays
  <2> QED BY <2>1, <2>2, <2>4 DEF LineRead
<1> QED BY <1>2, <1>3, <1>4, <1>5 DEF LineRead

\* A character in or behind the name.
LEMMA NameStep ==
    ASSUME TypeInv, HeaderInv, state = "NAME", NEW c \in Char, Read(Kept(c)), Header(c)
    PROVE  HeaderInv'
<1> SUFFICES ASSUME NEW n, n = Len(line)
             PROVE  HeaderInv'
  OBVIOUS
<1>1. /\ line' = Append(line, Kept(c)) /\ Kept(c) \in Char
      /\ state' = HeaderMove("NAME", c) /\ state' \in HeaderStates
      /\ name' = (IF c = ":" THEN [name EXCEPT !.len = (n + 2) - name.data] ELSE name)
      /\ n \in Nat /\ Len(line') = n + 1 /\ line' # <<>> /\ line'[n + 1] = Kept(c)
      /\ \A i \in 1 .. n : line'[i] = line[i]
  BY HeaderGoesOn DEF HeaderStates
<1>2. result' = IF state' # "HL_BEGIN" \/ state = "IGNORE" THEN "AGAIN"
                ELSE IF name'.data = 0 THEN "EMPTY_LINE" ELSE "OK"
  BY HeaderGoesOn DEF HeaderStates
<1>3. value' = value
  BY DEF Header, Value
<1>4. Kept(c) = Lowered(c)
  BY DEF Kept
<1>5. NameOnly(n)
  BY DEF HeaderInv
<1>6. /\ n >= 1 /\ name = [data |-> 2, len |-> 0] /\ value = NULL
      /\ \A i \in 1 .. n : line'[i] \in InBuffer
  BY <1>1, <1>5 DEF NameOnly
<1>7. /\ state' = IF c \in InName THEN "NAME" ELSE IF c = ":" THEN "COLON"
                  ELSE IF c = "CR" THEN "HL_ALMOST_DONE" ELSE "IGNORE"
  BY <1>1, HeaderMoveIs
<1>8. result' = "AGAIN"
  BY <1>2, <1>7
<1>9. Kept(c) = (IF c \in InName THEN Lowered(c) ELSE c) /\ (c \in InName => Kept(c) \in InBuffer)
  BY <1>4, NamesHave
<1>10. ":" \notin InName /\ "CR" \notin InName
  BY NamesHave
<1>11. CASE c \in InName
  <2>1. state' = "NAME" /\ name' = name
    BY <1>1, <1>7, <1>10, <1>11
  <2>2. n + 1 \in 1 .. Len(line') /\ \A i \in 1 .. n + 1 : line'[i] \in InBuffer
    BY <1>1, <1>6, <1>9, <1>11
  <2>3. NameOnly(n + 1)'
    BY <1>3, <1>6, <2>1, <2>2 DEF NameOnly
  <2>4. NameOnly(Len(line))'
    BY <1>1, <2>3
  <2> QED BY <1>8, <2>1, <2>4 DEF HeaderInv, HeaderStates
<1>12. CASE c = ":"
  <2>1. state' = "COLON" /\ line'[n + 1] = ":"
    BY <1>1, <1>7, <1>9, <1>10, <1>12
  <2>2. name' = [data |-> 2, len |-> (n + 1) - 1]
    BY <1>1, <1>6, <1>12
  <2>3. /\ n + 1 \in 2 .. n + 1 /\ n + 1 <= Len(line')
        /\ \A i \in 1 .. (n + 1) - 1 : line'[i] \in InBuffer
    BY <1>1, <1>6
  <2>4. \A i \in n + 1 .. n + 1 : line'[i] \notin {"CR", "LF"}
    BY <1>1, <2>1
  <2>5. NameRead(n + 1, n + 1)'
    BY <2>1, <2>2, <2>3, <2>4 DEF NameRead
  <2>6. Spaces((n + 1) + 1, n + 1)'
    <3>1. \A l \in (n + 1) + 1 .. n + 1 : FALSE
      BY <1>1
    <3> QED BY <3>1, Zenon DEF Spaces
  <2>7. n + 1 \in 1 .. Len(line') /\ value' = NULL
    BY <1>1, <1>3, <1>6
  <2>8. \E k \in 1 .. Len(line)' : NameRead(k, n + 1)' /\ value' = NULL /\ Spaces(k + 1, n + 1)'
    BY <2>5, <2>6, <2>7
  <2>9. \E k \in 1 .. Len(line)' :
           NameRead(k, Len(line))' /\ value' = NULL /\ Spaces(k + 1, Len(line))'
    BY <1>1, <2>8
  <2> QED BY <1>8, <2>1, <2>9 DEF HeaderInv, HeaderStates
<1>13. CASE c = "CR"
  <2>1. state' = "HL_ALMOST_DONE" /\ line'[n + 1] = "CR" /\ name' = name
    BY <1>1, <1>7, <1>9, <1>10, <1>13
  <2>2. NameOnly(n)'
    BY <1>1, <1>3, <1>5, <2>1, NameOnlyStays
  <2>3. LineRead(Len(line) - 1)'
    <3>1. Len(line') - 1 = n
      BY <1>1
    <3> QED BY <2>2, <3>1 DEF LineRead
  <2> QED BY <1>1, <1>8, <2>1, <2>3 DEF HeaderInv, HeaderStates
<1>14. CASE c \notin InName \cup {":", "CR"}
  <2>1. line'[n + 1] = c /\ c \notin InBuffer \ {"_"} /\ c # ":" /\ c # "CR" /\ state' = "IGNORE"
    BY <1>1, <1>7, <1>9, <1>14, NamesHave
  <2>2. n + 1 \in 1 .. Len(line') /\ n + 1 # 1 /\ \A j \in 1 .. (n + 1) - 1 : line'[j] \in InBuffer
    BY <1>1, <1>6
  <2>3. Broken'
    BY <2>1, <2>2 DEF Broken
  <2> QED BY <1>8, <2>1, <2>3 DEF HeaderInv, HeaderStates
<1> QED BY <1>11, <1>12, <1>13, <1>14

\* A line that ends behind its value or its colon is handed on.
LEMMA LineHanded ==
    ASSUME TypeInv, NEW n, n = Len(line), NEW k, NameRead(k, n), LineRead(n)',
           line' = Append(line, "LF"), name' = name,
           result' = IF name'.data = 0 THEN "EMPTY_LINE" ELSE "OK"
    PROVE  Handed'
<1>1. /\ n \in Nat /\ Len(line') = n + 1 /\ line'[n + 1] = "LF"
  <2>1. "LF" \in Char
    BY DEF Char
  <2> QED BY <2>1, Appended DEF TypeInv
<1>2. name = [data |-> 2, len |-> k - 1] /\ k \in 2 .. n
  BY DEF NameRead
<1>3. name'.data = 2 /\ name' # NULL /\ result' = "OK" /\ name'.len # 0
  BY <1>1, <1>2 DEF NULL
<1>4. ~NameOnly(n)'
  BY <1>3 DEF NameOnly
<1>5. Len(line)' - 1 = n /\ line'[Len(line)'] = "LF"
  BY <1>1
<1>6. LineRead(Len(line) - 1)' /\ ~NameOnly(Len(line) - 1)'
  BY <1>4, <1>5
<1> QED BY <1>3, <1>5, <1>6 DEF Handed

\* What is left of a string when one of its fields is set.
LEMMA StringFields ==
    \A d, l, x : LET s == [data |-> d, len |-> l]
                IN  /\ [s EXCEPT !.data = x] = [data |-> x, len |-> l]
                    /\ [s EXCEPT !.len = x] = [data |-> d, len |-> x]
  OBVIOUS

\* A character behind the colon, before the value.
LEMMA ColonStep ==
    ASSUME TypeInv, HeaderInv, state = "COLON", NEW c \in Char, Read(Kept(c)), Header(c)
    PROVE  HeaderInv'
<1> SUFFICES ASSUME NEW n, n = Len(line)
             PROVE  HeaderInv'
  OBVIOUS
<1>1. /\ line' = Append(line, c) /\ state' = HeaderMove("COLON", c) /\ state' \in HeaderStates
      /\ name' = name
      /\ n \in Nat /\ Len(line') = n + 1 /\ line' # <<>> /\ line'[n + 1] = c
      /\ \A i \in 1 .. n : line'[i] = line[i]
  BY HeaderGoesOn DEF HeaderStates
<1>2. result' = IF state' # "HL_BEGIN" THEN "AGAIN"
                ELSE IF name'.data = 0 THEN "EMPTY_LINE" ELSE "OK"
  BY HeaderGoesOn DEF HeaderStates
<1>3. PICK k \in 1 .. n : NameRead(k, n) /\ value = NULL /\ Spaces(k + 1, n)
  BY DEF HeaderInv
<1>4. /\ k \in 2 .. n /\ k \in 1 .. Len(line') /\ k + 1 \in Int /\ k + 1 >= 1
      /\ n \in Int /\ n <= Len(line)
  BY <1>1, <1>3 DEF NameRead
<1>5. NameRead(k, n)' /\ (c \notin {"CR", "LF"} => NameRead(k, n + 1)')
  BY <1>1, <1>3, <1>4, NameReadStays
<1>6. Spaces(k + 1, n)' /\ (c = "SP" => Spaces(k + 1, n + 1)')
  BY <1>1, <1>3, <1>4, SpacesStay
<1>7. state' = IF c = "SP" THEN "COLON" ELSE IF c = "CR" THEN "HL_ALMOST_DONE"
               ELSE IF c = "LF" THEN "HL_BEGIN" ELSE "VALUE"
  BY <1>1, HeaderMoveIs
<1>8. value' = IF c \in {"SP", "CR", "LF"} THEN NULL ELSE [data |-> n + 2, len |-> 0]
  <2>1. value' = IF c \notin {"SP", "CR", "LF"} THEN [value EXCEPT !.data = Here] ELSE value
    BY DEF Header, Value, From
  <2>2. Here = n + 2 /\ value = [data |-> 0, len |-> 0]
    BY <1>3 DEF Here, NULL
  <2>3. [value EXCEPT !.data = Here] = [data |-> n + 2, len |-> 0]
    <3>1. [value EXCEPT !.data = n + 2] = [data |-> n + 2, len |-> 0]
      <4>1. value = [data |-> 0, len |-> 0]
        BY <2>2
      <4>2. [value EXCEPT !.data = n + 2] = [[data |-> 0, len |-> 0] EXCEPT !.data = n + 2]
        BY <4>1, Zenon
      <4> QED BY <4>2
    <3> QED BY <2>2, <3>1, Zenon
  <2> QED BY <1>3, <2>1, <2>3
<1>9. CASE c = "SP"
  <2>1. NameRead(k, n + 1)' /\ Spaces(k + 1, n + 1)' /\ value' = NULL
    BY <1>5, <1>6, <1>8, <1>9
  <2>2. \E l \in 1 .. Len(line)' :
           NameRead(l, Len(line))' /\ value' = NULL /\ Spaces(l + 1, Len(line))'
    BY <1>1, <1>4, <2>1
  <2> QED BY <1>2, <1>7, <1>9, <2>2 DEF HeaderInv, HeaderStates
<1>10. value' = NULL => LineRead(n)'
  BY <1>4, <1>5, <1>6 DEF LineRead
<1>11. CASE c = "CR"
  <2>1. Len(line)' - 1 = n
    BY <1>1
  <2>2. LineRead(Len(line) - 1)'
    BY <1>8, <1>10, <1>11, <2>1
  <2>3. line'[Len(line)'] = "CR"
    BY <1>1, <1>11
  <2> QED BY <1>1, <1>2, <1>7, <1>11, <2>2, <2>3 DEF HeaderInv, HeaderStates
<1>12. CASE c = "LF"
  <2>1. state' = "HL_BEGIN" /\ LineRead(n)' /\ line' = Append(line, "LF")
    BY <1>1, <1>7, <1>8, <1>10, <1>12
  <2>2. Handed'
    BY <1>1, <1>2, <1>3, <2>1, LineHanded
  <2> QED BY <1>1, <2>1, <2>2 DEF HeaderInv, HeaderStates
<1>13. CASE c \notin {"SP", "CR", "LF"}
  <2>1. state' = "VALUE" /\ value' = [data |-> n + 2, len |-> 0] /\ result' = "AGAIN"
    BY <1>2, <1>7, <1>8, <1>13
  <2>2. NameRead(k, n + 1)'
    BY <1>5, <1>13
  <2>3. ValueBegins(k, n + 1, n + 1)'
    <3>1. (n + 1) - 1 = n /\ n + 1 \in k + 1 .. n + 1 /\ n + 2 = (n + 1) + 1
      BY <1>1, <1>4
    <3>2. value'.data = (n + 1) + 1 /\ line'[n + 1] # "SP" /\ Spaces(k + 1, (n + 1) - 1)'
      BY <1>1, <1>6, <1>13, <2>1, <3>1
    <3> QED BY <3>1, <3>2 DEF ValueBegins
  <2>4. n + 1 \in 1 .. Len(line)' /\ value' \in [data : Int, len : Int]
    BY <1>1, <2>1
  <2>5. \E l, v \in 1 .. Len(line)' : NameRead(l, n + 1)' /\ ValueBegins(l, v, n + 1)'
    BY <1>4, <2>2, <2>3, <2>4
  <2>6. /\ line'[Len(line)'] # "SP"
        /\ \E l, v \in 1 .. Len(line)' : NameRead(l, Len(line))' /\ ValueBegins(l, v, Len(line))'
    BY <1>1, <1>13, <2>5
  <2> QED BY <2>1, <2>4, <2>6 DEF HeaderInv, HeaderStates
<1> QED BY <1>9, <1>11, <1>12, <1>13

\* A character in the value.
LEMMA ValueStep ==
    ASSUME TypeInv, HeaderInv, state = "VALUE", NEW c \in Char, Read(Kept(c)), Header(c)
    PROVE  HeaderInv'
<1> SUFFICES ASSUME NEW n, n = Len(line)
             PROVE  HeaderInv'
  OBVIOUS
<1>1. /\ line' = Append(line, c) /\ state' = HeaderMove("VALUE", c) /\ state' \in HeaderStates
      /\ name' = name
      /\ n \in Nat /\ Len(line') = n + 1 /\ line' # <<>> /\ line'[n + 1] = c
      /\ \A i \in 1 .. n : line'[i] = line[i]
  BY HeaderGoesOn DEF HeaderStates
<1>2. result' = IF state' # "HL_BEGIN" THEN "AGAIN"
                ELSE IF name'.data = 0 THEN "EMPTY_LINE" ELSE "OK"
  BY HeaderGoesOn DEF HeaderStates
<1>3. PICK k \in 1 .. n, v \in 1 .. n : NameRead(k, n) /\ ValueBegins(k, v, n)
  BY DEF HeaderInv
<1>4. line[n] # "SP" /\ value \in [data : Int, len : Int]
  BY DEF HeaderInv
<1>5. /\ k \in 2 .. n /\ k \in 1 .. Len(line') /\ v \in 1 .. Len(line')
      /\ k \in Nat /\ v \in Int /\ n \in Int /\ v <= n
      /\ n \in 1 .. n /\ n \in v .. n /\ n \in v .. n + 1 /\ n <= Len(line)
      /\ n \in 1 .. Len(line') /\ n + 1 \in Nat
  BY <1>1, <1>3 DEF NameRead
<1>6. NameRead(k, n)' /\ (c \notin {"CR", "LF"} => NameRead(k, n + 1)')
  BY <1>1, <1>3, <1>5, NameReadStays
<1>7. value.data = v + 1 /\ v \in k + 1 .. n
  BY <1>3 DEF ValueBegins
<1>8. state' = IF c = "SP" THEN "SP_AFTER_VALUE" ELSE IF c = "CR" THEN "HL_ALMOST_DONE"
               ELSE IF c = "LF" THEN "HL_BEGIN" ELSE "VALUE"
  BY <1>1, HeaderMoveIs
<1>9. value' = IF c \in {"SP", "CR", "LF"} THEN [value EXCEPT !.len = (n + 2) - value.data]
               ELSE value
  BY DEF Header, Value, Here
<1>10. c \in {"SP", "CR", "LF"} => value' = [data |-> v + 1, len |-> (n - v) + 1]
  <2>1. (n + 2) - value.data = (n - v) + 1
    BY <1>1, <1>5, <1>7
  <2>2. PICK l \in Int : value = [data |-> v + 1, len |-> l]
    BY <1>4, <1>7
  <2>3. ASSUME c \in {"SP", "CR", "LF"}
        PROVE  value' = [data |-> v + 1, len |-> (n - v) + 1]
    <3>1. value' = [value EXCEPT !.len = (n + 2) - value.data]
      BY <1>9, <2>3
    <3>2. value' = [value EXCEPT !.len = (n - v) + 1]
      BY <2>1, <3>1
    <3> QED BY <2>2, <3>2, StringFields, Zenon
  <2> QED BY <2>3
<1>11. value'.data = value.data
  BY <1>7, <1>9, <1>10
<1>12. ValueBegins(k, v, n)' /\ ValueBegins(k, v, n + 1)'
  BY <1>1, <1>3, <1>5, <1>11, ValueBeginsStays
<1>13. c \in {"SP", "CR", "LF"} => ValueRead(k, v, n, n)'
  <2>1. line'[n] = line[n]
    BY <1>1, <1>5
  <2>2. Spaces(n + 1, n)'
    <3>1. \A l \in n + 1 .. n : FALSE
      BY <1>1
    <3> QED BY <3>1, Zenon DEF Spaces
  <2> QED BY <1>4, <1>5, <1>10, <1>12, <2>1, <2>2 DEF ValueRead
<1>14. c \in {"CR", "LF"} => LineRead(n)'
  <2>1. n \in 1 .. Len(line')
    BY <1>1, <1>5
  <2> QED BY <1>5, <1>6, <1>13, <2>1 DEF LineRead
<1>15. CASE c = "SP"
  <2>1. NameRead(k, n + 1)'
    BY <1>6, <1>15
  <2>2. ValueRead(k, v, n, n + 1)'
    <3>1. line'[n] = line[n]
      BY <1>1, <1>5
    <3>2. Spaces(n + 1, n + 1)'
      <4>1. \A l \in n + 1 .. n + 1 : l = n + 1
        BY <1>1
      <4> QED BY <1>1, <1>15, <4>1 DEF Spaces
    <3> QED BY <1>4, <1>5, <1>10, <1>12, <1>15, <3>1, <3>2 DEF ValueRead
  <2>3. \E l, u, w \in 1 .. Len(line)' : NameRead(l, n + 1)' /\ ValueRead(l, u, w, n + 1)'
    BY <1>5, <2>1, <2>2
  <2>4. \E l, u, w \in 1 .. Len(line)' : NameRead(l, Len(line))' /\ ValueRead(l, u, w, Len(line))'
    BY <1>1, <2>3
  <2> QED BY <1>2, <1>8, <1>15, <2>4 DEF HeaderInv, HeaderStates
<1>16. CASE c = "CR"
  <2>1. Len(line)' - 1 = n
    BY <1>1
  <2>2. LineRead(Len(line) - 1)'
    BY <1>14, <1>16, <2>1
  <2>3. line'[Len(line)'] = "CR"
    BY <1>1, <1>16
  <2> QED BY <1>1, <1>2, <1>8, <1>16, <2>2, <2>3 DEF HeaderInv, HeaderStates
<1>17. CASE c = "LF"
  <2>1. state' = "HL_BEGIN" /\ LineRead(n)' /\ line' = Append(line, "LF")
    BY <1>1, <1>8, <1>14, <1>17
  <2>2. Handed'
    BY <1>1, <1>2, <1>3, <2>1, LineHanded
  <2> QED BY <1>1, <2>1, <2>2 DEF HeaderInv, HeaderStates
<1>18. CASE c \notin {"SP", "CR", "LF"}
  <2>1. state' = "VALUE" /\ value' = value /\ result' = "AGAIN"
    BY <1>2, <1>8, <1>9, <1>18
  <2>2. NameRead(k, n + 1)'
    BY <1>6, <1>18
  <2>3. \E l, u \in 1 .. Len(line)' : NameRead(l, n + 1)' /\ ValueBegins(l, u, n + 1)'
    BY <1>5, <1>12, <2>2
  <2>4. /\ line'[Len(line)'] # "SP"
        /\ \E l, u \in 1 .. Len(line)' : NameRead(l, Len(line))' /\ ValueBegins(l, u, Len(line))'
    BY <1>1, <1>18, <2>3
  <2> QED BY <1>4, <2>1, <2>4 DEF HeaderInv, HeaderStates
<1> QED BY <1>15, <1>16, <1>17, <1>18

\* A character behind a space in or behind the value.
LEMMA SpAfterValueStep ==
    ASSUME TypeInv, HeaderInv, state = "SP_AFTER_VALUE", NEW c \in Char, Read(Kept(c)), Header(c)
    PROVE  HeaderInv'
<1> SUFFICES ASSUME NEW n, n = Len(line)
             PROVE  HeaderInv'
  OBVIOUS
<1>1. /\ line' = Append(line, c) /\ state' = HeaderMove("SP_AFTER_VALUE", c)
      /\ state' \in HeaderStates /\ name' = name
      /\ n \in Nat /\ Len(line') = n + 1 /\ line' # <<>> /\ line'[n + 1] = c
      /\ \A i \in 1 .. n : line'[i] = line[i]
  BY HeaderGoesOn DEF HeaderStates
<1>2. result' = IF state' # "HL_BEGIN" THEN "AGAIN"
                ELSE IF name'.data = 0 THEN "EMPTY_LINE" ELSE "OK"
  BY HeaderGoesOn DEF HeaderStates
<1>3. PICK k \in 1 .. n, v \in 1 .. n, w \in 1 .. n : NameRead(k, n) /\ ValueRead(k, v, w, n)
  BY DEF HeaderInv
<1>4. /\ k \in 1 .. Len(line') /\ v \in 1 .. Len(line') /\ w \in 1 .. Len(line')
      /\ k \in Nat /\ v \in Int /\ w \in Int /\ n \in Int /\ n <= Len(line)
  BY <1>1
<1>5. value' = value
  BY DEF Header, Value
<1>6. NameRead(k, n)' /\ (c \notin {"CR", "LF"} => NameRead(k, n + 1)')
  BY <1>1, <1>3, <1>4, NameReadStays
<1>7. ValueRead(k, v, w, n)' /\ (c = "SP" => ValueRead(k, v, w, n + 1)')
  BY <1>1, <1>3, <1>4, <1>5, ValueReadStays
<1>8. state' = IF c = "SP" THEN "SP_AFTER_VALUE" ELSE IF c = "CR" THEN "HL_ALMOST_DONE"
               ELSE IF c = "LF" THEN "HL_BEGIN" ELSE "VALUE"
  BY <1>1, HeaderMoveIs
<1>9. LineRead(n)'
  BY <1>4, <1>6, <1>7 DEF LineRead
<1>10. CASE c = "SP"
  <2>1. NameRead(k, n + 1)' /\ ValueRead(k, v, w, n + 1)'
    BY <1>6, <1>7, <1>10
  <2>2. \E l, u, z \in 1 .. Len(line)' : NameRead(l, n + 1)' /\ ValueRead(l, u, z, n + 1)'
    BY <1>4, <2>1
  <2>3. \E l, u, z \in 1 .. Len(line)' : NameRead(l, Len(line))' /\ ValueRead(l, u, z, Len(line))'
    BY <1>1, <2>2
  <2> QED BY <1>2, <1>8, <1>10, <2>3 DEF HeaderInv, HeaderStates
<1>11. CASE c = "CR"
  <2>1. Len(line)' - 1 = n
    BY <1>1
  <2>2. LineRead(Len(line) - 1)'
    BY <1>9, <2>1
  <2>3. line'[Len(line)'] = "CR"
    BY <1>1, <1>11
  <2> QED BY <1>1, <1>2, <1>8, <1>11, <2>2, <2>3 DEF HeaderInv, HeaderStates
<1>12. CASE c = "LF"
  <2>1. state' = "HL_BEGIN" /\ line' = Append(line, "LF")
    BY <1>1, <1>8, <1>12
  <2>2. Handed'
    BY <1>1, <1>2, <1>3, <1>9, <2>1, LineHanded
  <2> QED BY <1>1, <2>1, <2>2 DEF HeaderInv, HeaderStates
<1>13. CASE c \notin {"SP", "CR", "LF"}
  <2>1. state' = "VALUE" /\ result' = "AGAIN" /\ NameRead(k, n + 1)'
    BY <1>2, <1>6, <1>8, <1>13
  <2>2. ValueBegins(k, v, n) /\ value = [data |-> v + 1, len |-> w - v + 1]
    BY <1>3 DEF ValueRead
  <2>3. ValueBegins(k, v, n + 1)' /\ value' \in [data : Int, len : Int]
    <3>1. value'.data = value.data
      BY <1>5
    <3>2. ValueBegins(k, v, n + 1)'
      BY <1>1, <1>4, <2>2, <3>1, ValueBeginsStays
    <3>3. v + 1 \in Int /\ w - v + 1 \in Int
      BY <1>4
    <3> QED BY <1>5, <2>2, <3>2, <3>3
  <2>4. \E l, u \in 1 .. Len(line)' : NameRead(l, n + 1)' /\ ValueBegins(l, u, n + 1)'
    BY <1>4, <2>1, <2>3
  <2>5. /\ line'[Len(line)'] # "SP"
        /\ \E l, u \in 1 .. Len(line)' : NameRead(l, Len(line))' /\ ValueBegins(l, u, Len(line))'
    BY <1>1, <1>13, <2>4
  <2> QED BY <2>1, <2>3, <2>5 DEF HeaderInv, HeaderStates
<1> QED BY <1>10, <1>11, <1>12, <1>13

\* The character behind a CR.
LEMMA AlmostDoneStep ==
    ASSUME TypeInv, HeaderInv, state = "HL_ALMOST_DONE", NEW c \in Char, Read(Kept(c)), Header(c)
    PROVE  HeaderInv'
<1> SUFFICES ASSUME NEW n, n = Len(line)
             PROVE  HeaderInv'
  OBVIOUS
<1>1. /\ line' = Append(line, c) /\ state' = HeaderMove("HL_ALMOST_DONE", c)
      /\ state' \in HeaderStates /\ name' = name
      /\ n \in Nat /\ Len(line') = n + 1 /\ line' # <<>> /\ line'[n + 1] = c
      /\ \A i \in 1 .. n : line'[i] = line[i]
  BY HeaderGoesOn DEF HeaderStates
<1>2. result' = IF state' # "HL_BEGIN" THEN "AGAIN"
                ELSE IF name'.data = 0 THEN "EMPTY_LINE" ELSE "OK"
  BY HeaderGoesOn DEF HeaderStates
<1>3. line # <<>> /\ line[n] = "CR" /\ LineRead(n - 1)
  BY DEF HeaderInv
<1>4. n \in 1 .. n /\ n - 1 \in Int /\ n - 1 <= n /\ line'[n] = "CR"
  <2>1. n # 0
    BY <1>3 DEF TypeInv
  <2> QED BY <1>1, <1>3, <2>1
<1>5. value' = value
  BY DEF Header, Value
<1>6. LineRead(n - 1)'
  BY <1>1, <1>3, <1>4, <1>5, LineReadStays
<1>7. CASE c = "LF"
  <2>1. state' = "HL_BEGIN"
    BY <1>1, <1>7, HeaderMoveIs
  <2>2. CASE name = NULL
    <3>1. result' = "EMPTY_LINE"
      BY <1>1, <1>2, <2>1, <2>2 DEF NULL
    <3>2. n = 1
      <4>1. name.data # 2
        BY <2>2 DEF NULL
      <4>2. ~NameOnly(n - 1) /\ \A k : ~NameRead(k, n - 1)
        BY <4>1 DEF NameOnly, NameRead
      <4>3. \A m \in Nat : m - 1 = 0 => m = 1
        OBVIOUS
      <4>4. n \in Nat
        BY <1>1
      <4>5. n - 1 = 0
        BY <1>3, <4>2 DEF LineRead
      <4> QED BY <4>3, <4>4, <4>5, Zenon
    <3>3. line' = <<"CR", "LF">>
      <4>1. Len(line') = 2 /\ line'[1] = "CR" /\ line'[2] = "LF" /\ line' \in Seq(Char)
        BY <1>1, <1>4, <1>7, <3>2, HeaderGoesOn DEF TypeInv, HeaderStates
      <4> QED BY <4>1
    <3>4. Handed'
      BY <1>1, <2>2, <3>1, <3>3 DEF Handed
    <3> QED BY <1>1, <2>1, <3>4 DEF HeaderInv, HeaderStates
  <2>3. CASE name # NULL
    <3>1. name.data # 0 /\ n >= 2
      <4>1. ~(n - 1 = 0 /\ name = NULL /\ value = NULL)
        BY <2>3
      <4>2. CASE NameOnly(n - 1)
        BY <1>4, <4>2 DEF NameOnly
      <4>3. ASSUME NEW k \in 1 .. n, NameRead(k, n - 1)
            PROVE  name.data # 0 /\ n >= 2
        BY <1>4, <4>3 DEF NameRead
      <4> QED BY <1>3, <4>1, <4>2, <4>3 DEF LineRead
    <3>2. result' = "OK" /\ name' # NULL
      BY <1>1, <1>2, <2>1, <2>3, <3>1
    <3>3. Len(line)' - 2 = n - 1 /\ Len(line)' - 1 = n /\ Len(line)' > 2
      BY <1>1, <3>1
    <3>4. /\ line'[Len(line)'] = "LF" /\ line'[Len(line)' - 1] = "CR"
          /\ LineRead(Len(line) - 2)'
      BY <1>1, <1>4, <1>6, <1>7, <3>3
    <3>5. Handed'
      BY <3>2, <3>3, <3>4 DEF Handed
    <3> QED BY <1>1, <2>1, <3>5 DEF HeaderInv, HeaderStates
  <2> QED BY <2>2, <2>3
<1>8. CASE c # "LF"
  <2>1. state' = "IGNORE"
    BY <1>1, <1>8, HeaderMoveIs
  <2>2. n \in 1 .. Len(line') /\ n < Len(line') /\ line'[n + 1] # "LF"
    BY <1>1, <1>4, <1>8
  <2>3. Broken'
    BY <1>4, <2>2 DEF Broken
  <2> QED BY <1>2, <2>1, <2>3 DEF HeaderInv, HeaderStates
<1> QED BY <1>7, <1>8

\* Every character of a header line keeps HeaderInv.
LEMMA HeaderStep ==
    ASSUME TypeInv, HeaderInv, NEW c \in Char, Read(Kept(c)), Header(c)
    PROVE  TypeInv' /\ HeaderInv'
<1>1. state \in HeaderStates
  BY Tables DEF Header
<1>2. state # "HL_BEGIN" => TypeInv'
  BY <1>1, HeaderGoesOn
<1> QED BY <1>1, <1>2, HeaderBegins, IgnoreStep, NameStep, ColonStep, ValueStep, SpAfterValueStep,
           AlmostDoneStep DEF HeaderStates

VersionMove(s, c) == Move(VersionMoves[s], c, "ERROR")

\* The switch of parse_request_line behind the URI: where each character leads.
LEMMA VersionMoveIs ==
    ASSUME NEW c
    PROVE
     /\ VersionMove("SP_BEFORE_VERSION", c) =
          IF c = "SP" THEN "SP_BEFORE_VERSION" ELSE IF c = "H" THEN "HTTP_H" ELSE "ERROR"
     /\ VersionMove("HTTP_H", c) = IF c = "T" THEN "HTTP_HT" ELSE "ERROR"
     /\ VersionMove("HTTP_HT", c) = IF c = "T" THEN "HTTP_HTT" ELSE "ERROR"
     /\ VersionMove("HTTP_HTT", c) = IF c = "P" THEN "HTTP_HTTP" ELSE "ERROR"
     /\ VersionMove("HTTP_HTTP", c) = IF c = "/" THEN "VERSION_SLASH" ELSE "ERROR"
     /\ VersionMove("VERSION_SLASH", c) = IF c \in Digit THEN "VERSION_MAJOR" ELSE "ERROR"
     /\ VersionMove("VERSION_MAJOR", c) =
          IF c = "." THEN "VERSION_DOT" ELSE IF c \in Digit THEN "VERSION_MAJOR" ELSE "ERROR"
     /\ VersionMove("VERSION_DOT", c) = IF c \in Digit THEN "VERSION_MINOR" ELSE "ERROR"
     /\ VersionMove("VERSION_MINOR", c) =
          IF c = "SP" THEN "SP_AFTER_VERSION" ELSE IF c = "CR" THEN "RL_ALMOST_DONE"
          ELSE IF c = "LF" THEN "HL_BEGIN" ELSE IF c \in Digit THEN "VERSION_MINOR" ELSE "ERROR"
     /\ VersionMove("SP_AFTER_VERSION", c) =
          IF c = "SP" THEN "SP_AFTER_VERSION" ELSE IF c = "CR" THEN "RL_ALMOST_DONE" ELSE "ERROR"
     /\ VersionMove("RL_ALMOST_DONE", c) = IF c = "LF" THEN "HL_BEGIN" ELSE "ERROR"
<1> USE DEF VersionMove, Move, VersionMoves, Each, ++, Digit
<1>1. VersionMove("SP_BEFORE_VERSION", c) =
        IF c = "SP" THEN "SP_BEFORE_VERSION" ELSE IF c = "H" THEN "HTTP_H" ELSE "ERROR"
  OBVIOUS
<1>2. VersionMove("HTTP_H", c) = IF c = "T" THEN "HTTP_HT" ELSE "ERROR"
  OBVIOUS
<1>3. VersionMove("HTTP_HT", c) = IF c = "T" THEN "HTTP_HTT" ELSE "ERROR"
  OBVIOUS
<1>4. VersionMove("HTTP_HTT", c) = IF c = "P" THEN "HTTP_HTTP" ELSE "ERROR"
  OBVIOUS
<1>5. VersionMove("HTTP_HTTP", c) = IF c = "/" THEN "VERSION_SLASH" ELSE "ERROR"
  OBVIOUS
<1>6. VersionMove("VERSION_SLASH", c) = IF c \in Digit THEN "VERSION_MAJOR" ELSE "ERROR"
  OBVIOUS
<1>7. VersionMove("VERSION_MAJOR", c) =
        IF c = "." THEN "VERSION_DOT" ELSE IF c \in Digit THEN "VERSION_MAJOR" ELSE "ERROR"
  OBVIOUS
<1>8. VersionMove("VERSION_DOT", c) = IF c \in Digit THEN "VERSION_MINOR" ELSE "ERROR"
  OBVIOUS
<1>9. VersionMove("VERSION_MINOR", c) =
        IF c = "SP" THEN "SP_AFTER_VERSION" ELSE IF c = "CR" THEN "RL_ALMOST_DONE"
        ELSE IF c = "LF" THEN "HL_BEGIN" ELSE IF c \in Digit THEN "VERSION_MINOR" ELSE "ERROR"
  OBVIOUS
<1>10. VersionMove("SP_AFTER_VERSION", c) =
         IF c = "SP" THEN "SP_AFTER_VERSION" ELSE IF c = "CR" THEN "RL_ALMOST_DONE" ELSE "ERROR"
  OBVIOUS
<1>11. VersionMove("RL_ALMOST_DONE", c) = IF c = "LF" THEN "HL_BEGIN" ELSE "ERROR"
  OBVIOUS
<1> QED BY <1>1, <1>2, <1>3, <1>4, <1>5, <1>6, <1>7, <1>8, <1>9, <1>10, <1>11, Zenon

\* The version is left only at the LF that ends the request line.
LEMMA VersionLeads ==
    ASSUME NEW s \in VersionStates, NEW c
    PROVE  /\ VersionMove(s, c) \in VersionStates \cup {"HL_BEGIN", "ERROR"}
           /\ VersionMove(s, c) = "HL_BEGIN" => c = "LF"
<1>1. "LF" \notin Digit /\ "HL_BEGIN" \notin VersionStates
  BY DEF Digit, VersionStates
<1>2. CASE s = "SP_BEFORE_VERSION"
  BY <1>1, <1>2, VersionMoveIs DEF VersionStates
<1>3. CASE s = "HTTP_H"
  BY <1>1, <1>3, VersionMoveIs DEF VersionStates
<1>4. CASE s = "HTTP_HT"
  BY <1>1, <1>4, VersionMoveIs DEF VersionStates
<1>5. CASE s = "HTTP_HTT"
  BY <1>1, <1>5, VersionMoveIs DEF VersionStates
<1>6. CASE s = "HTTP_HTTP"
  BY <1>1, <1>6, VersionMoveIs DEF VersionStates
<1>7. CASE s = "VERSION_SLASH"
  BY <1>1, <1>7, VersionMoveIs DEF VersionStates
<1>8. CASE s = "VERSION_MAJOR"
  BY <1>1, <1>8, VersionMoveIs DEF VersionStates
<1>9. CASE s = "VERSION_DOT"
  BY <1>1, <1>9, VersionMoveIs DEF VersionStates
<1>10. CASE s = "VERSION_MINOR"
  BY <1>1, <1>10, VersionMoveIs DEF VersionStates
<1>11. CASE s = "SP_AFTER_VERSION"
  BY <1>1, <1>11, VersionMoveIs DEF VersionStates
<1>12. CASE s = "RL_ALMOST_DONE"
  BY <1>1, <1>12, VersionMoveIs DEF VersionStates
<1> QED BY <1>2, <1>3, <1>4, <1>5, <1>6, <1>7, <1>8, <1>9, <1>10, <1>11, <1>12 DEF VersionStates

\* The request line begins with an upper-case letter, and no name is known in it.
LEMMA RequestLineStep ==
    ASSUME TypeInv, HeaderInv, NEW c \in Char, result \in {"AGAIN", "OK"}, Read(c),
           RequestBegins(c) \/ Method(c) \/ Uri(c) \/ Version(c)
    PROVE  TypeInv' /\ HeaderInv' /\ name' = NULL
<1>1. CASE RequestBegins(c)
  <2>1. line' \in Seq(Char) /\ line' # <<>> /\ line'[1] = c
    BY <1>1 DEF Read, RequestBegins
  <2>2. name' = name /\ state = "RL_BEGIN"
    BY <1>1 DEF RequestBegins, Fail
  <2>3. \/ state' = "METHOD" /\ result' = "AGAIN" /\ c \in Upper
        \/ state' = "RL_BEGIN" /\ result' = "BAD_REQUEST"
    BY <1>1 DEF RequestBegins, Fail
  <2>4. TypeInv'
    BY <2>1, <2>3 DEF TypeInv, States, Results
  <2>5. name = NULL
    BY <2>2 DEF HeaderInv, HeaderStates
  <2> QED BY <2>1, <2>2, <2>3, <2>4, <2>5 DEF HeaderInv, HeaderStates
<1>2. ASSUME state \notin HeaderStates, state # "RL_BEGIN", name' = name
      PROVE  /\ line' \in Seq(Char) /\ line' # <<>> /\ line'[1] \in Upper
             /\ name' = NULL /\ result \notin {"EMPTY_LINE", "OK"}
  <2>1. line # <<>> /\ line[1] \in Upper /\ name = NULL /\ result \notin {"EMPTY_LINE", "OK"}
    <3>1. state # "HL_BEGIN"
      BY <1>2 DEF HeaderStates
    <3> QED BY <1>2, <3>1 DEF HeaderInv
  <2>2. line' = Append(line, c) /\ line \in Seq(Char)
    BY <1>2 DEF Read, TypeInv, HeaderStates
  <2>3. 1 \in 1 .. Len(line)
    BY <2>1, <2>2
  <2>4. line' \in Seq(Char) /\ line' # <<>> /\ line'[1] = line[1]
    BY <2>2, <2>3, Appended
  <2> QED BY <1>2, <2>1, <2>4
<1>3. ASSUME state \notin HeaderStates, state # "RL_BEGIN", name' = name,
             \/ /\ state' \in States \ (HeaderStates \cup {"RL_BEGIN"})
                /\ result' = result \/ result' \notin {"EMPTY_LINE", "OK"}
             \/ state' = "HL_BEGIN" /\ result' \in {"OK", "UNSUPPORTED"},
             result' \in Results
      PROVE  TypeInv' /\ HeaderInv'
  <2>1. /\ line' \in Seq(Char) /\ line' # <<>> /\ line'[1] \in Upper
        /\ name' = NULL /\ result \notin {"EMPTY_LINE", "OK"}
    BY <1>2, <1>3
  <2>2. TypeInv'
    BY <1>3, <2>1 DEF TypeInv, States, HeaderStates
  <2>3. CASE state' = "HL_BEGIN" /\ result' \in {"OK", "UNSUPPORTED"}
    <3>1. Handed'
      BY <2>1, <2>3 DEF Handed
    <3> QED BY <1>3, <2>1, <2>2, <2>3, <3>1 DEF HeaderInv, HeaderStates
  <2>4. CASE /\ state' \in States \ (HeaderStates \cup {"RL_BEGIN"})
             /\ result' = result \/ result' \notin {"EMPTY_LINE", "OK"}
    BY <1>3, <2>1, <2>2, <2>4 DEF HeaderInv, HeaderStates
  <2> QED BY <1>3, <2>3, <2>4
<1>4. result \in Results
  BY DEF TypeInv
<1>5. CASE Method(c)
  <2>1. state = "METHOD" /\ name' = name
    BY <1>5 DEF Method, Fail
  <2>2. state' \in {"METHOD", "SP_BEFORE_URI"} /\ result' \in {result, "BAD_METHOD"}
    BY <1>5 DEF Method, Fail
  <2>3. result' \in Results /\ (result' = result \/ result' \notin {"EMPTY_LINE", "OK"})
    BY <1>4, <2>2 DEF Results
  <2>4. state' \in States \ (HeaderStates \cup {"RL_BEGIN"})
    BY <2>2 DEF States, HeaderStates
  <2>5. state \notin HeaderStates /\ state # "RL_BEGIN"
    BY <2>1 DEF HeaderStates
  <2> QED BY <1>2, <1>3, <2>1, <2>3, <2>4, <2>5
<1>6. CASE Uri(c)
  <2>1. state \in {"SP_BEFORE_URI", "URI"} /\ name' = name
    BY <1>6 DEF Uri, Fail
  <2>2. /\ state' \in {"SP_BEFORE_URI", "URI", "SP_BEFORE_VERSION"}
        /\ result' \in {result, "BAD_REQUEST", "BAD_URI"}
    BY <1>6, <2>1 DEF Uri, Fail
  <2>3. result' \in Results /\ (result' = result \/ result' \notin {"EMPTY_LINE", "OK"})
    BY <1>4, <2>2 DEF Results
  <2>4. state' \in States \ (HeaderStates \cup {"RL_BEGIN"})
    BY <2>2 DEF States, HeaderStates, VersionStates
  <2>5. state \notin HeaderStates /\ state # "RL_BEGIN"
    BY <2>1 DEF HeaderStates
  <2> QED BY <1>2, <1>3, <2>1, <2>3, <2>4, <2>5
<1>7. CASE Version(c)
  <2>1. state \in VersionStates /\ name' = name
    BY <1>7, Tables DEF Version, Fail
  <2>2. \/ state' = state /\ result' \in {"BAD_REQUEST", "BAD_VERSION"}
        \/ /\ state' = VersionMove(state, c) /\ state' # "ERROR"
           /\ state' # "HL_BEGIN" => result' = result
           /\ state' = "HL_BEGIN" => result' \in {"OK", "UNSUPPORTED"}
    <3>1. CASE VersionMove(state, c) = "ERROR"
      BY <1>7, <3>1 DEF Version, Fail, VersionMove
    <3>2. CASE VersionMove(state, c) # "ERROR" /\ TooBig(Counted(version, c))
      BY <1>7, <3>2 DEF Version, Fail, VersionMove
    <3>3. CASE VersionMove(state, c) # "ERROR" /\ ~TooBig(Counted(version, c))
      BY <1>7, <3>3 DEF Version, Fail, VersionMove
    <3> QED BY <3>1, <3>2, <3>3
  <2>3. \/ state' \in VersionStates /\ result' \in {result, "BAD_REQUEST", "BAD_VERSION"}
        \/ state' = "HL_BEGIN" /\ result' \in {"OK", "UNSUPPORTED"}
    BY <2>1, <2>2, VersionLeads
  <2>4. /\ result' \in Results
        /\ state' # "HL_BEGIN" => (result' = result \/ result' \notin {"EMPTY_LINE", "OK"})
    BY <1>4, <2>3 DEF Results
  <2>5. VersionStates \subseteq States \ (HeaderStates \cup {"RL_BEGIN", "HL_BEGIN"})
    BY DEF States, HeaderStates, VersionStates
  <2>6. state \notin HeaderStates /\ state # "RL_BEGIN"
    BY <2>1 DEF HeaderStates, VersionStates
  <2> QED BY <1>2, <1>3, <2>1, <2>3, <2>4, <2>5, <2>6
<1> QED BY <1>1, <1>5, <1>6, <1>7

\* What the header automaton knows of its line is true of it: the invariant from which the
\* properties of parse_header_line follow.
THEOREM HeaderKept == Spec => [](TypeInv /\ HeaderInv)
<1>1. Init => TypeInv /\ HeaderInv
  BY DEF Init, TypeInv, HeaderInv, States, Results, HeaderStates
<1>2. ASSUME TypeInv, HeaderInv, [Next]_vars
      PROVE  TypeInv' /\ HeaderInv'
  <2>1. CASE UNCHANGED vars
    <3>1. /\ state' = state /\ line' = line /\ name' = name /\ value' = value /\ result' = result
      BY <2>1 DEF vars
    <3>2. \A n : NameOnly(n)' <=> NameOnly(n)
      BY <3>1 DEF NameOnly
    <3>3. \A k, n : NameRead(k, n)' <=> NameRead(k, n)
      BY <3>1 DEF NameRead
    <3>4. \A i, j : Spaces(i, j)' <=> Spaces(i, j)
      BY <3>1 DEF Spaces
    <3>5. \A k, v, n : ValueBegins(k, v, n)' <=> ValueBegins(k, v, n)
      BY <3>1, <3>4 DEF ValueBegins
    <3>6. \A k, v, w, n : ValueRead(k, v, w, n)' <=> ValueRead(k, v, w, n)
      BY <3>1, <3>4, <3>5 DEF ValueRead
    <3>7. \A n : LineRead(n)' <=> LineRead(n)
      BY <3>1, <3>2, <3>3, <3>4, <3>6 DEF LineRead
    <3>8. Broken' <=> Broken
      BY <3>1 DEF Broken
    <3>9. Handed' <=> Handed
      BY <3>1, <3>2, <3>7, <3>8 DEF Handed
    <3>10. TypeInv'
      BY <1>2, <3>1 DEF TypeInv
    <3>11. HeaderInv'
      BY <1>2, <3>1, <3>2, <3>3, <3>4, <3>5, <3>6, <3>7, <3>8, <3>9 DEF HeaderInv
    <3> QED BY <3>10, <3>11
  <2>2. CASE NextRequest
    BY <2>2 DEF NextRequest, TypeInv, HeaderInv, States, Results, HeaderStates
  <2>3. ASSUME NEW c \in Char, Receive(c)
        PROVE  TypeInv' /\ HeaderInv'
    <3>1. result \in {"AGAIN", "OK"}
      BY <2>3 DEF Receive
    <3>2. CASE Read(Kept(c)) /\ Header(c)
      BY <1>2, <3>2, HeaderStep
    <3>3. CASE Read(c) /\ (RequestBegins(c) \/ Method(c) \/ Uri(c) \/ Version(c))
      BY <1>2, <3>1, <3>3, RequestLineStep
    <3> QED BY <2>3, <3>2, <3>3 DEF Receive
  <2> QED BY <1>2, <2>1, <2>2, <2>3 DEF Next
<1> QED BY <1>1, <1>2, PTL DEF Spec

-------------------------------------------------------------------------------
(* The line as it was sent.                                                *)

\* A sent line as it is in the buffer: what the name has of it is lowered.
AsKept(s) ==
    [i \in 1 .. Len(s) |-> IF \A j \in 1 .. i : s[j] \in InName THEN Lowered(s[i]) ELSE s[i]]

\* A character that is in no name has come; none has ended the line.
Past(s) == \E i \in 1 .. Len(s) : s[i] \notin InName
NoEnd(s) == \A i \in 1 .. Len(s) : s[i] # "LF"

\* The sent line is no header: what is behind its name is neither a colon nor an end of
\* line, or a CR does not end it.
SentBroken ==
    \E i \in 1 .. Len(raw) :
      \/ /\ \A j \in 1 .. i - 1 : raw[j] \in InName
         /\ raw[i] \notin InName \cup {"CR", "LF"}
         /\ i = 1 \/ raw[i] # ":"
      \/ i < Len(raw) /\ raw[i] = "CR" /\ raw[i + 1] # "LF"

\* The line of the automaton is the one that was sent, and its name is of a name's characters.
AsSent ==
    /\ ~behind /\ line = AsKept(raw)
    /\ name.len \in 0 .. Len(raw) /\ \A i \in 1 .. name.len : raw[i] \in InName

SentInv ==
    /\ raw \in Seq(Char) /\ behind \in BOOLEAN
    /\ state \notin HeaderStates => raw = <<>> /\ ~behind
    /\ state \in HeaderStates \ {"HL_BEGIN", "IGNORE"} =>
         AsSent /\ raw # <<>> /\ NoEnd(raw) /\ (Past(raw) <=> state # "NAME")
    /\ state = "HL_ALMOST_DONE" => raw[Len(raw)] = "CR"
    /\ state = "IGNORE" => /\ raw # <<>>
                           /\ \/ NoEnd(raw) /\ (behind \/ SentBroken)
                              \/ BareName(raw) /\ ~behind
    /\ state = "HL_BEGIN" =>
         \/ raw = <<>> /\ ~behind /\ name = NULL /\ result \in {"OK", "UNSUPPORTED"}
         \/ /\ Ended(raw) /\ (BareName(raw) => behind)
            /\ \/ result = "AGAIN" /\ (behind \/ SentBroken)
               \/ /\ result \in {"OK", "EMPTY_LINE"} /\ AsSent
                  /\ result = "OK" => name # NULL

\* A sent line is kept character by character.
LEMMA AsKeptIs ==
    ASSUME NEW s \in Seq(Char)
    PROVE  /\ AsKept(s) \in Seq(Char) /\ Len(AsKept(s)) = Len(s)
           /\ \A i \in 1 .. Len(s) :
                AsKept(s)[i] = IF \A j \in 1 .. i : s[j] \in InName THEN Lowered(s[i]) ELSE s[i]
<1>1. Len(s) \in Nat /\ \A i \in 1 .. Len(s) : s[i] \in Char
  OBVIOUS
<1>2. \A i \in 1 .. Len(s) : (IF \A j \in 1 .. i : s[j] \in InName THEN Lowered(s[i]) ELSE s[i]) \in Char
  BY <1>1, NamesHave
<1>3. AsKept(s) \in [1 .. Len(s) -> Char]
  BY <1>2 DEF AsKept
<1>4. AsKept(s) \in Seq(Char) /\ Len(AsKept(s)) = Len(s)
  BY <1>1, <1>3
<1> QED BY <1>4 DEF AsKept

\* The characters a header line is cut by are kept as they are.
LEMMA AsKeptHas ==
    ASSUME NEW s \in Seq(Char), NEW i \in 1 .. Len(s)
    PROVE  /\ \A x \in {"SP", ":", "CR", "LF"} : AsKept(s)[i] = x <=> s[i] = x
           /\ s[i] \notin InName => AsKept(s)[i] = s[i]
           /\ (\A j \in 1 .. i : s[j] \in InName) => AsKept(s)[i] = Lowered(s[i])
           /\ (\E j \in 1 .. i : s[j] \notin InName) => AsKept(s)[i] = s[i]
<1>1. AsKept(s)[i] = IF \A j \in 1 .. i : s[j] \in InName THEN Lowered(s[i]) ELSE s[i]
  BY AsKeptIs
<1>2. i \in 1 .. i
  OBVIOUS
<1>3. s[i] \in InName => Lowered(s[i]) \in InBuffer
  BY NamesHave
<1>4. \A x \in {"SP", ":", "CR", "LF"} : x \notin InBuffer /\ x \notin InName
  BY NamesHave
<1> QED BY <1>1, <1>2, <1>3, <1>4, Zenon

\* What one more character adds to it.
LEMMA AsKeptGrows ==
    ASSUME NEW s \in Seq(Char), NEW c \in Char
    PROVE  AsKept(Append(s, c)) = Append(AsKept(s), IF Past(s) THEN c ELSE Lowered(c))
<1> DEFINE t == Append(s, c)
           d == IF Past(s) THEN c ELSE Lowered(c)
           k == AsKept(s)
<1>1. /\ t \in Seq(Char) /\ Len(s) \in Nat /\ Len(t) = Len(s) + 1 /\ t[Len(s) + 1] = c
      /\ \A i \in 1 .. Len(s) : t[i] = s[i]
  BY Appended
<1>2. d \in Char /\ k \in Seq(Char) /\ Len(k) = Len(s)
  BY NamesHave, AsKeptIs
<1> HIDE DEF k, d, t
<1>3. /\ Append(k, d) \in Seq(Char) /\ Len(Append(k, d)) = Len(s) + 1
      /\ Append(k, d)[Len(s) + 1] = d /\ \A i \in 1 .. Len(s) : Append(k, d)[i] = k[i]
  BY <1>2, Appended
<1>4. ASSUME NEW i \in 1 .. Len(s)
      PROVE  AsKept(t)[i] = k[i]
  <2>1. \A j \in 1 .. i : t[j] = s[j]
    BY <1>1
  <2>2. i \in 1 .. Len(t) /\ t[i] = s[i]
    BY <1>1
  <2> QED BY <1>1, <2>1, <2>2, AsKeptIs DEF k
<1>5. AsKept(t)[Len(s) + 1] = d
  <2>1. Len(s) + 1 \in 1 .. Len(t)
    BY <1>1
  <2>2. AsKept(t)[Len(s) + 1] =
          IF \A j \in 1 .. Len(s) + 1 : t[j] \in InName THEN Lowered(c) ELSE c
    BY <1>1, <2>1, AsKeptIs
  <2>3. (\A j \in 1 .. Len(s) + 1 : t[j] \in InName) <=> ~Past(s) /\ c \in InName
    BY <1>1 DEF Past
  <2>4. c \notin InName => Lowered(c) = c
    BY NamesHave
  <2> QED BY <2>2, <2>3, <2>4 DEF d
<1>6. AsKept(t) \in Seq(Char) /\ Len(AsKept(t)) = Len(s) + 1
  BY <1>1, AsKeptIs
<1>7. \A i \in 1 .. Len(s) + 1 : AsKept(t)[i] = Append(k, d)[i]
  BY <1>1, <1>3, <1>4, <1>5
<1>8. AsKept(t) = Append(k, d)
  BY <1>1, <1>3, <1>6, <1>7, SeqEqual
<1> QED BY <1>8 DEF t, k, d

\* The first character of a header line, as it was sent.
LEMMA SentBegins ==
    ASSUME TypeInv, SentInv, state = "HL_BEGIN", NEW c \in Char,
           Read(Kept(c)), Header(c), Watch(c)
    PROVE  SentInv'
<1>1. raw' = <<c>> /\ behind' = FALSE
  <2>1. CASE raw = <<>>
    <3>1. ~BareName(raw)
      BY <2>1 DEF BareName, Ended
    <3> QED BY <2>1, <3>1 DEF Watch
  <2>2. CASE raw # <<>>
    BY <2>2 DEF SentInv, Watch
  <2> QED BY <2>1, <2>2
<1>2. raw' \in Seq(Char) /\ Len(raw') = 1 /\ raw'[1] = c /\ raw' # <<>>
  BY <1>1
<1>3. /\ line' = <<Kept(c)>> /\ Kept(c) = Lowered(c)
      /\ name' = (IF c \in InName THEN From(2, NULL) ELSE NULL)
      /\ state' = IF c \in InName THEN "NAME" ELSE IF c = "CR" THEN "HL_ALMOST_DONE"
                  ELSE IF c = "LF" THEN "HL_BEGIN" ELSE "IGNORE"
  BY HeaderMoveIs DEF Read, Kept, Header, Name, HeaderMove
<1>4. /\ result' = CASE ~LineIsDone(state') -> "AGAIN"
                          [] LineIsDone(state') /\ name'.data = 0 -> "EMPTY_LINE"
                          [] OTHER -> "OK"
  BY DEF Header
<1>5. name'.len = 0 /\ \A i \in 1 .. 0 : FALSE
  BY <1>3 DEF From, NULL
<1>6. line' = AsKept(raw')
  <2>1. Lowered(c) \in Char
    BY NamesHave
  <2>2. AsKept(raw') \in Seq(Char) /\ Len(AsKept(raw')) = 1
    BY <1>2, AsKeptIs
  <2>3. AsKept(raw')[1] = Lowered(c)
    <3>1. c \notin InName => Lowered(c) = c
      BY NamesHave
    <3>2. 1 \in 1 .. Len(raw') /\ \A j \in 1 .. 1 : j = 1
      BY <1>2
    <3> QED BY <1>2, <3>1, <3>2, AsKeptHas
  <2> DEFINE d == Lowered(c)
             k == AsKept(raw')
  <2> HIDE DEF d, k
  <2>4. k \in Seq(Char) /\ Len(k) = 1 /\ k[1] = d /\ d \in Char
    BY <2>1, <2>2, <2>3 DEF d, k
  <2>5. k = <<d>>
    BY <2>4
  <2> QED BY <1>3, <2>5 DEF d, k
<1>7. AsSent'
  BY <1>1, <1>5, <1>6 DEF AsSent
<1>8. CASE c = "LF"
  <2>1. state' = "HL_BEGIN" /\ name' = NULL
    BY <1>3, <1>8, NamesHave
  <2>2. result' = "EMPTY_LINE"
    BY <1>4, <2>1 DEF LineIsDone, NULL
  <2>3. Ended(raw)' /\ ~BareName(raw)'
    BY <1>2, <1>8 DEF Ended, BareName
  <2> QED BY <1>1, <1>2, <1>7, <2>1, <2>2, <2>3 DEF SentInv, HeaderStates
<1>9. CASE c # "LF"
  <2>1. NoEnd(raw)'
    BY <1>2, <1>9 DEF NoEnd
  <2>2. Past(raw)' <=> c \notin InName
    BY <1>2 DEF Past
  <2>3. CASE c \in InName
    BY <1>1, <1>2, <1>3, <1>7, <2>1, <2>2, <2>3 DEF SentInv, HeaderStates
  <2>4. CASE c = "CR"
    <3>1. c \notin InName
      BY <2>4, NamesHave
    <3> QED BY <1>1, <1>2, <1>3, <1>7, <2>1, <2>2, <2>4, <3>1 DEF SentInv, HeaderStates
  <2>5. CASE c \notin InName /\ c # "CR"
    <3>1. SentBroken'
      <4>1. 1 \in 1 .. Len(raw') /\ \A j \in 1 .. 1 - 1 : FALSE
        BY <1>2
      <4> QED BY <1>2, <1>9, <2>5, <4>1 DEF SentBroken
    <3>2. state' = "IGNORE"
      BY <1>3, <1>9, <2>5
    <3> QED BY <1>1, <1>2, <2>1, <3>1, <3>2 DEF SentInv, HeaderStates
  <2> QED BY <2>3, <2>4, <2>5
<1> QED BY <1>8, <1>9

\* A character in the middle of a line that is not ignored.
LEMMA SentGoesOn ==
    ASSUME TypeInv, HeaderInv, SentInv, state \in HeaderStates \ {"HL_BEGIN", "IGNORE"},
           NEW c \in Char, Read(Kept(c)), Header(c), Watch(c)
    PROVE  SentInv'
<1>1. /\ AsSent /\ raw # <<>> /\ NoEnd(raw) /\ (Past(raw) <=> state # "NAME")
      /\ raw \in Seq(Char) /\ ~behind /\ line = AsKept(raw)
  BY DEF SentInv, AsSent
<1>2. /\ line' = Append(line, Kept(c)) /\ (state # "NAME" => Kept(c) = c)
      /\ state' = HeaderMove(state, c) /\ state' \in HeaderStates
      /\ name' = (IF state = "NAME" /\ c = ":"
                  THEN [name EXCEPT !.len = (Len(line) + 2) - name.data] ELSE name)
      /\ result' = IF state' # "HL_BEGIN" \/ state = "IGNORE" THEN "AGAIN"
                   ELSE IF name'.data = 0 THEN "EMPTY_LINE" ELSE "OK"
  BY HeaderGoesOn
<1>3. raw' = Append(raw, c) /\ behind' = FALSE
  <2>1. Len(raw) \in 1 .. Len(raw)
    BY <1>1
  <2>2. ~Ended(raw)
    BY <1>1, <2>1 DEF NoEnd, Ended
  <2> QED BY <1>1, <2>2 DEF Watch
<1> DEFINE n == Len(raw)
<1>4. /\ raw' \in Seq(Char) /\ n \in Nat /\ Len(raw') = n + 1 /\ raw' # <<>> /\ raw'[n + 1] = c
      /\ \A i \in 1 .. n : raw'[i] = raw[i]
  BY <1>1, <1>3, Appended
<1> HIDE DEF n
<1>5. Past(raw)' <=> Past(raw) \/ c \notin InName
  BY <1>3, <1>4 DEF Past, n
<1>6. AsSent'
  <2>1. line' = AsKept(raw')
    <3>1. state = "NAME" => Kept(c) = Lowered(c)
      BY DEF Kept
    <3>2. Kept(c) = IF Past(raw) THEN c ELSE Lowered(c)
      BY <1>1, <1>2, <3>1
    <3>3. AsKept(Append(raw, c)) = Append(AsKept(raw), IF Past(raw) THEN c ELSE Lowered(c))
      BY <1>1, AsKeptGrows
    <3> QED BY <1>1, <1>2, <1>3, <3>2, <3>3, Zenon
  <2>2. CASE state = "NAME" /\ c = ":"
    <3>1. name = [data |-> 2, len |-> 0]
      BY <2>2 DEF HeaderInv, NameOnly
    <3>2. Len(line) = n
      BY <1>1, AsKeptIs DEF n
    <3>3. name'.len = (n + 2) - 2
      BY <1>2, <2>2, <3>1, <3>2
    <3>4. name'.len = n
      BY <1>4, <3>3
    <3>5. \A j \in 1 .. n : raw[j] \in InName
      BY <1>1, <2>2 DEF Past, n
    <3>6. name'.len \in 0 .. Len(raw') /\ \A i \in 1 .. name'.len : raw'[i] \in InName
      BY <1>4, <3>4, <3>5
    <3> QED BY <1>3, <2>1, <3>6 DEF AsSent
  <2>3. CASE ~(state = "NAME" /\ c = ":")
    <3>1. name' = name
      BY <1>2, <2>3
    <3>2. name.len \in 0 .. n /\ \A i \in 1 .. name.len : raw[i] \in InName
      BY <1>1 DEF AsSent, n
    <3>3. name.len \in 0 .. n + 1 /\ \A i \in 1 .. name.len : i \in 1 .. n
      BY <1>4, <3>2
    <3>4. name'.len \in 0 .. Len(raw') /\ \A i \in 1 .. name'.len : raw'[i] \in InName
      BY <1>4, <3>1, <3>2, <3>3
    <3> QED BY <1>3, <2>1, <3>4 DEF AsSent
  <2> QED BY <2>2, <2>3
<1>7. /\ ":" \notin InName /\ "CR" \notin InName /\ "LF" \notin InName
  BY NamesHave
<1>8. CASE c = "LF"
  <2>1. Ended(raw)'
    BY <1>4, <1>8 DEF Ended
  <2>2. CASE state = "NAME"
    <3>1. state' = "IGNORE"
      BY <1>2, <1>7, <1>8, <2>2, HeaderMoveIs
    <3>2. BareName(raw)'
      <4>1. Len(raw') > 1
        BY <1>1, <1>4 DEF n
      <4>2. \A i \in 1 .. Len(raw') - 1 : i \in 1 .. n /\ raw'[i] = raw[i]
        BY <1>4
      <4>3. \A i \in 1 .. n : raw[i] \in InName
        BY <1>1, <2>2 DEF Past, n
      <4> QED BY <2>1, <4>1, <4>2, <4>3 DEF BareName
    <3> QED BY <1>3, <1>4, <3>1, <3>2 DEF SentInv, HeaderStates
  <2>3. CASE state # "NAME"
    <3>1. state' = "HL_BEGIN"
      BY <1>2, <1>8, <2>3, HeaderMoveIs DEF HeaderStates
    <3>2. ~BareName(raw)'
      <4>1. PICK i \in 1 .. n : raw[i] \notin InName
        BY <1>1, <2>3 DEF Past, n
      <4>2. i \in 1 .. Len(raw') - 1 /\ raw'[i] = raw[i]
        BY <1>4
      <4> QED BY <4>1, <4>2 DEF BareName
    <3>3. result' \in {"OK", "EMPTY_LINE"} /\ (result' = "OK" => name' # NULL)
      BY <1>2, <3>1 DEF NULL
    <3> QED BY <1>3, <1>4, <1>6, <2>1, <3>1, <3>2, <3>3 DEF SentInv, HeaderStates
  <2> QED BY <2>2, <2>3
<1>9. CASE c # "LF"
  <2>1. NoEnd(raw)'
    <3>1. \A i \in 1 .. Len(raw') : i \in 1 .. n \/ i = n + 1
      BY <1>4
    <3>2. \A i \in 1 .. n : raw[i] # "LF"
      BY <1>1 DEF NoEnd, n
    <3> QED BY <1>4, <1>9, <3>1, <3>2 DEF NoEnd
  <2>2. CASE state = "HL_ALMOST_DONE"
    <3>1. state' = "IGNORE"
      BY <1>2, <1>9, <2>2, HeaderMoveIs
    <3>2. raw[n] = "CR"
      BY <2>2 DEF SentInv, n
    <3>3. SentBroken'
      <4>1. n \in 1 .. Len(raw') /\ n < Len(raw') /\ raw'[n] = raw[n] /\ raw'[n + 1] = c
        BY <1>1, <1>4 DEF n
      <4> QED BY <1>9, <3>2, <4>1 DEF SentBroken
    <3> QED BY <1>3, <1>4, <2>1, <3>1, <3>3 DEF SentInv, HeaderStates
  <2>3. CASE state = "NAME"
    <3>1. \A i \in 1 .. n : raw[i] \in InName
      BY <1>1, <2>3 DEF Past, n
    <3>2. state' = IF c \in InName THEN "NAME" ELSE IF c = ":" THEN "COLON"
                   ELSE IF c = "CR" THEN "HL_ALMOST_DONE" ELSE "IGNORE"
      BY <1>2, <2>3, HeaderMoveIs
    <3>3. Past(raw)' <=> state' # "NAME"
      BY <1>1, <1>5, <2>3, <3>2
    <3>4. CASE state' = "IGNORE"
      <4>1. c \notin InName \cup {"CR", "LF"} /\ c # ":"
        BY <1>9, <3>2, <3>4
      <4>2. n + 1 \in 1 .. Len(raw') /\ \A j \in 1 .. (n + 1) - 1 : raw'[j] \in InName
        BY <1>4, <3>1
      <4>3. SentBroken'
        BY <1>4, <4>1, <4>2 DEF SentBroken
      <4> QED BY <1>3, <1>4, <2>1, <3>4, <4>3 DEF SentInv, HeaderStates
    <3>5. CASE state' # "IGNORE"
      <4>1. state' \in {"NAME", "COLON", "HL_ALMOST_DONE"}
        BY <3>2, <3>5
      <4>2. state' = "HL_ALMOST_DONE" => raw'[Len(raw')] = "CR"
        BY <1>4, <3>2
      <4> QED BY <1>3, <1>4, <1>6, <2>1, <3>3, <4>1, <4>2 DEF SentInv, HeaderStates
    <3> QED BY <3>4, <3>5
  <2>4. CASE state \in {"COLON", "VALUE", "SP_AFTER_VALUE"}
    <3>1. /\ state' \in {"COLON", "VALUE", "SP_AFTER_VALUE", "HL_ALMOST_DONE"}
          /\ state' = "HL_ALMOST_DONE" => c = "CR"
      BY <1>2, <1>9, <2>4, HeaderMoveIs
    <3>2. Past(raw)'
      BY <1>1, <1>5, <2>4
    <3>3. state' = "HL_ALMOST_DONE" => raw'[Len(raw')] = "CR"
      BY <1>4, <3>1
    <3> QED BY <1>3, <1>4, <1>6, <2>1, <3>1, <3>2, <3>3 DEF SentInv, HeaderStates
  <2> QED BY <2>2, <2>3, <2>4 DEF HeaderStates
<1> QED BY <1>8, <1>9

\* A character of a line that is ignored, or of the line behind a bare name.
LEMMA SentIgnored ==
    ASSUME TypeInv, HeaderInv, SentInv, state = "IGNORE", NEW c \in Char,
           Read(Kept(c)), Header(c), Watch(c)
    PROVE  SentInv'
<1>1. /\ raw \in Seq(Char) /\ raw # <<>> /\ behind \in BOOLEAN
      /\ \/ NoEnd(raw) /\ (behind \/ SentBroken)
         \/ BareName(raw) /\ ~behind
  BY DEF SentInv, HeaderStates
<1>2. /\ state' = (IF c = "LF" THEN "HL_BEGIN" ELSE "IGNORE") /\ result' = "AGAIN"
  <2>1. state' = HeaderMove(state, c) /\ (state = "IGNORE" => result' = "AGAIN")
    BY HeaderGoesOn DEF HeaderStates
  <2> QED BY <2>1, HeaderMoveIs
<1>3. CASE BareName(raw) /\ ~behind
  <2>1. raw' = <<c>> /\ behind' = TRUE
    BY <1>3 DEF Watch, BareName
  <2>2. raw' \in Seq(Char) /\ Len(raw') = 1 /\ raw'[1] = c /\ raw' # <<>>
    BY <2>1
  <2>3. IF c = "LF" THEN Ended(raw)' ELSE NoEnd(raw)'
    BY <2>2 DEF Ended, NoEnd
  <2> QED BY <1>2, <2>1, <2>2, <2>3 DEF SentInv, HeaderStates
<1>4. CASE NoEnd(raw) /\ (behind \/ SentBroken)
  <2>1. raw' = Append(raw, c) /\ behind' = behind
    <3>1. Len(raw) \in 1 .. Len(raw)
      BY <1>1
    <3>2. ~Ended(raw)
      BY <1>4, <3>1 DEF NoEnd, Ended
    <3> QED BY <1>1, <3>2 DEF Watch
  <2> DEFINE n == Len(raw)
  <2>2. /\ raw' \in Seq(Char) /\ n \in Nat /\ Len(raw') = n + 1 /\ raw' # <<>> /\ raw'[n + 1] = c
        /\ \A i \in 1 .. n : raw'[i] = raw[i]
    BY <1>1, <2>1, Appended
  <2> HIDE DEF n
  <2>3. c = "LF" => Ended(raw)'
    BY <2>2 DEF Ended
  <2>4. c # "LF" => NoEnd(raw)'
    <3>1. \A i \in 1 .. Len(raw') : i \in 1 .. n \/ i = n + 1
      BY <2>2
    <3>2. \A i \in 1 .. n : raw[i] # "LF"
      BY <1>4 DEF NoEnd, n
    <3> QED BY <2>2, <3>1, <3>2 DEF NoEnd
  <2>5. SentBroken => SentBroken' /\ ~BareName(raw)'
    <3> SUFFICES ASSUME SentBroken
                 PROVE  SentBroken' /\ ~BareName(raw)'
      OBVIOUS
    <3>1. PICK i \in 1 .. n :
            \/ /\ \A j \in 1 .. i - 1 : raw[j] \in InName
               /\ raw[i] \notin InName \cup {"CR", "LF"}
               /\ i = 1 \/ raw[i] # ":"
            \/ i < n /\ raw[i] = "CR" /\ raw[i + 1] # "LF"
      BY DEF SentBroken, n
    <3>2. /\ i \in 1 .. Len(raw') /\ raw'[i] = raw[i] /\ \A j \in 1 .. i - 1 : raw'[j] = raw[j]
          /\ i < n => i < Len(raw') /\ raw'[i + 1] = raw[i + 1]
          /\ i \in 1 .. Len(raw') - 1
      BY <2>2
    <3>3. raw[i] \notin InName
      BY <3>1, NamesHave
    <3>4. SentBroken'
      BY <3>1, <3>2 DEF SentBroken
    <3>5. ~BareName(raw)'
      BY <3>2, <3>3 DEF BareName
    <3> QED BY <3>4, <3>5
  <2>6. CASE behind
    BY <1>2, <2>1, <2>2, <2>3, <2>4, <2>6 DEF SentInv, HeaderStates
  <2>7. CASE ~behind
    <3>1. SentBroken' /\ ~BareName(raw)'
      BY <1>4, <2>5, <2>7
    <3> QED BY <1>1, <1>2, <2>1, <2>2, <2>3, <2>4, <3>1 DEF SentInv, HeaderStates
  <2> QED BY <2>6, <2>7
<1> QED BY <1>1, <1>3, <1>4

\* The line of the automaton is the line that was sent, or it is ignored, or it is behind a
\* bare name.
THEOREM SentKept == Spec => [](TypeInv /\ HeaderInv /\ SentInv)
<1>1. Init => SentInv
  <2>1. <<>> \in Seq(Char)
    OBVIOUS
  <2> QED BY <2>1 DEF Init, SentInv, HeaderStates
<1>2. ASSUME TypeInv, HeaderInv, SentInv, [Next]_vars
      PROVE  SentInv'
  <2>1. CASE UNCHANGED vars
    <3>1. /\ state' = state /\ line' = line /\ name' = name /\ result' = result
          /\ raw' = raw /\ behind' = behind
      BY <2>1 DEF vars
    <3>2. AsSent' <=> AsSent
      BY <3>1 DEF AsSent
    <3>3. (NoEnd(raw)' <=> NoEnd(raw)) /\ (Past(raw)' <=> Past(raw))
      BY <3>1
    <3>4. (BareName(raw)' <=> BareName(raw)) /\ (Ended(raw)' <=> Ended(raw))
      BY <3>1
    <3>5. SentBroken' <=> SentBroken
      BY <3>1 DEF SentBroken
    <3> QED BY <1>2, <3>1, <3>2, <3>3, <3>4, <3>5 DEF SentInv
  <2>2. CASE NextRequest
    <3>1. <<>> \in Seq(Char)
      OBVIOUS
    <3> QED BY <2>2, <3>1 DEF NextRequest, SentInv, HeaderStates
  <2>3. ASSUME NEW c \in Char, Receive(c)
        PROVE  SentInv'
    <3>1. result \in {"AGAIN", "OK"}
      BY <2>3 DEF Receive
    <3>2. CASE Read(Kept(c)) /\ Header(c) /\ Watch(c)
      <4>1. state \in HeaderStates
        BY <3>2, Tables DEF Header
      <4> QED BY <1>2, <3>2, <4>1, SentBegins, SentGoesOn, SentIgnored
    <3>3. CASE /\ Read(c) /\ (RequestBegins(c) \/ Method(c) \/ Uri(c) \/ Version(c))
               /\ UNCHANGED <<raw, behind>>
      <4>1. state \notin HeaderStates
        BY <3>3, Tables DEF RequestBegins, Method, Uri, Version, HeaderStates, VersionStates
      <4>2. raw = <<>> /\ ~behind
        BY <1>2, <4>1 DEF SentInv
      <4>3. name' = NULL /\ TypeInv'
        BY <1>2, <3>1, <3>3, RequestLineStep
      <4>4. state' \in HeaderStates => state' = "HL_BEGIN" /\ result' \in {"OK", "UNSUPPORTED"}
        <5>1. CASE Version(c)
          <6>1. state \in VersionStates
            BY <5>1, Tables DEF Version
          <6>2. \/ state' = state
                \/ /\ state' = VersionMove(state, c) /\ state' # "ERROR"
                   /\ state' = "HL_BEGIN" => result' \in {"OK", "UNSUPPORTED"}
            <7>1. CASE VersionMove(state, c) = "ERROR"
              BY <5>1, <7>1 DEF Version, Fail, VersionMove
            <7>2. CASE VersionMove(state, c) # "ERROR" /\ TooBig(Counted(version, c))
              BY <5>1, <7>2 DEF Version, Fail, VersionMove
            <7>3. CASE VersionMove(state, c) # "ERROR" /\ ~TooBig(Counted(version, c))
              BY <5>1, <7>3 DEF Version, Fail, VersionMove
            <7> QED BY <7>1, <7>2, <7>3
          <6>3. state' = state => state' \notin HeaderStates
            BY <4>1
          <6>4. state' # state => /\ state' \in VersionStates \cup {"HL_BEGIN"}
                                  /\ state' = "HL_BEGIN" => result' \in {"OK", "UNSUPPORTED"}
            BY <6>1, <6>2, VersionLeads
          <6> QED BY <6>3, <6>4 DEF VersionStates, HeaderStates
        <5>2. CASE RequestBegins(c) \/ Method(c) \/ Uri(c)
          BY <4>1, <5>2 DEF RequestBegins, Method, Uri, Fail, HeaderStates
        <5> QED BY <3>3, <5>1, <5>2
      <4> QED BY <1>2, <3>3, <4>2, <4>3, <4>4 DEF SentInv, HeaderStates
    <3> QED BY <2>3, <3>2, <3>3 DEF Receive
  <2> QED BY <1>2, <2>1, <2>2, <2>3 DEF Next
<1> QED BY <1>1, <1>2, HeaderKept, PTL DEF Spec

\* The headers end at the first empty line that is not behind a bare name, and nowhere else,
\* of the lines as they were sent.
THEOREM EmptyLineIsEmptyHolds == Spec => []EmptyLineIsEmpty
<1>1. ASSUME TypeInv, HeaderInv, SentInv
      PROVE  EmptyLineIsEmpty
  <2>1. raw \in Seq(Char) /\ line \in Seq(Char)
    BY <1>1 DEF SentInv, TypeInv
  <2>2. ASSUME result = "EMPTY_LINE"
        PROVE  raw \in {<<"LF">>, <<"CR", "LF">>} /\ ~behind
    <3>1. state = "HL_BEGIN" /\ line \in {<<"LF">>, <<"CR", "LF">>}
      BY <1>1, <2>2 DEF HeaderInv, Handed
    <3>2. CASE raw = <<>>
      <4>1. FALSE
        BY <1>1, <2>2, <3>1, <3>2 DEF SentInv, Ended
      <4> QED BY <4>1
    <3>3. CASE AsSent
      <4>1. line = AsKept(raw) /\ ~behind
        BY <3>3 DEF AsSent
      <4>2. /\ Len(line) = Len(raw)
            /\ \A i \in 1 .. Len(raw) : \A x \in {"CR", "LF"} : line[i] = x => raw[i] = x
        BY <2>1, <4>1, AsKeptIs, AsKeptHas
      <4>3. CASE line = <<"LF">>
        <5>1. Len(line) = 1 /\ line[1] = "LF"
          BY <4>3
        <5>2. Len(raw) = 1 /\ raw[1] = "LF"
          BY <4>2, <5>1
        <5>3. raw = <<"LF">>
          BY <2>1, <5>2
        <5> QED BY <4>1, <5>3
      <4>4. CASE line = <<"CR", "LF">>
        <5>1. Len(line) = 2 /\ line[1] = "CR" /\ line[2] = "LF"
          BY <4>4
        <5>2. Len(raw) = 2 /\ raw[1] = "CR" /\ raw[2] = "LF"
          BY <4>2, <5>1
        <5>3. raw = <<"CR", "LF">>
          BY <2>1, <5>2
        <5> QED BY <4>1, <5>3
      <4> QED BY <3>1, <4>3, <4>4
    <3> QED BY <1>1, <2>2, <3>1, <3>2, <3>3 DEF SentInv
  <2>3. ASSUME raw \in {<<"LF">>, <<"CR", "LF">>}, ~behind
        PROVE  result = "EMPTY_LINE"
    <3>1. /\ Len(raw) \in {1, 2} /\ raw[1] \in {"CR", "LF"} /\ raw[Len(raw)] = "LF"
          /\ Len(raw) = 2 => raw[1] = "CR" /\ raw[2] = "LF"
          /\ Len(raw) = 1 => raw[1] = "LF"
      BY <2>3
    <3>2. /\ 1 \in 1 .. Len(raw) /\ Len(raw) \in 1 .. Len(raw)
          /\ Len(raw) > 1 => 1 \in 1 .. Len(raw) - 1
      BY <3>1
    <3>3. "LF" \notin InName /\ "CR" \notin InName
      BY NamesHave
    <3>4. ~BareName(raw) /\ ~NoEnd(raw)
      BY <3>1, <3>2, <3>3 DEF BareName, NoEnd
    <3>5. ~SentBroken
      <4>1. ASSUME NEW i \in 1 .. Len(raw), \A j \in 1 .. i - 1 : raw[j] \in InName,
                   raw[i] \notin InName \cup {"CR", "LF"}
            PROVE  FALSE
        BY <3>1, <4>1
      <4>2. ASSUME NEW i \in 1 .. Len(raw), i < Len(raw), raw[i + 1] # "LF"
            PROVE  FALSE
        BY <3>1, <4>2
      <4> QED BY <4>1, <4>2 DEF SentBroken
    <3>6. raw # <<>>
      BY <2>3
    <3>7. state = "HL_BEGIN"
      BY <1>1, <3>4, <3>6 DEF SentInv
    <3>8. result \in {"OK", "EMPTY_LINE"} /\ AsSent /\ (result = "OK" => name # NULL)
      BY <1>1, <2>3, <3>5, <3>6, <3>7 DEF SentInv
    <3>9. /\ Len(line) \in {1, 2}
          /\ Len(line) = 2 => line[1] = "CR" /\ line[2] = "LF"
          /\ Len(line) = 1 => line[1] = "LF"
      <4>1. line = AsKept(raw) /\ Len(line) = Len(raw)
        BY <2>1, <3>8, AsKeptIs DEF AsSent
      <4>2. \A i \in 1 .. Len(raw) : \A x \in {"CR", "LF"} : raw[i] = x => line[i] = x
        BY <2>1, <4>1, AsKeptHas
      <4> QED BY <3>1, <4>1, <4>2
    <3>10. ASSUME result = "OK"
           PROVE  FALSE
      <4>1. Handed /\ name # NULL
        BY <1>1, <3>7, <3>8, <3>10 DEF HeaderInv
      <4>2. Len(line) - 1 \in Int /\ Len(line) - 1 <= 1 /\ ~(Len(line) > 2)
        <5>1. \A m \in {1, 2} : m - 1 \in Int /\ m - 1 <= 1 /\ ~(m > 2)
          OBVIOUS
        <5> QED BY <3>9, <5>1, Zenon
      <4>3. LineRead(Len(line) - 1) /\ ~NameOnly(Len(line) - 1)
        BY <3>10, <4>1, <4>2 DEF Handed
      <4>4. ASSUME NEW k, NameRead(k, Len(line) - 1)
            PROVE  FALSE
        BY <4>2, <4>4 DEF NameRead
      <4> QED BY <4>1, <4>3, <4>4 DEF LineRead
    <3> QED BY <3>8, <3>10
  <2> QED BY <2>2, <2>3 DEF EmptyLineIsEmpty
<1> QED BY <1>1, SentKept, PTL

-------------------------------------------------------------------------------
(* The maps of the header names and of the mime types.                     *)

\* What holds of 0 and passes from each number below n to the next holds up to n.
LEMMA UpTo ==
    ASSUME NEW n \in Nat, NEW G, 0 \in G, \A i \in 0 .. n - 1 : i \in G => i + 1 \in G
    PROVE  \A i \in 0 .. n : i \in G
<1> SUFFICES ASSUME NEW t \in 0 .. n, t \notin G
             PROVE  FALSE
  OBVIOUS
<1> DEFINE T == {i \in 0 .. n : i \notin G}
<1>1. T \subseteq Nat /\ t \in T
  OBVIOUS
<1> HIDE DEF T
<1>2. PICK x \in T : \A y \in T : <<y, x>> \notin OpToRel(<, Nat)
  BY <1>1, WFMin, NatLessThanWellFounded, Zenon
<1>3. \A y \in T : ~(y < x)
  BY <1>1, <1>2, Zenon DEF OpToRel
<1>4. x \in 0 .. n /\ x \notin G /\ x # 0
  BY DEF T
<1>5. x - 1 \in 0 .. n - 1 /\ x - 1 \notin T
  BY <1>3, <1>4 DEF T
<1>6. x - 1 \in G
  BY <1>5 DEF T
<1> QED
  BY <1>4, <1>5, <1>6

HashStep(text, f, i) == IF i = 0 THEN 0 ELSE (f[i - 1] * 31 + Code[text[i]]) % 1048576
Hashes(text, len) == CHOOSE f : f = [i \in 0 .. len |-> HashStep(text, f, i)]
HashOf(text, len) == Hashes(text, len)[len]

\* Both maps hash with the same function.
LEMMA HashIs ==
    ASSUME NEW text, NEW len
    PROVE  Names!Hash(text, len) = HashOf(text, len) /\ Mime!Hash(text, len) = HashOf(text, len)
  BY DEF Names!Hash, Mime!Hash, Names!HashRange, Mime!HashRange, HashOf, Hashes, HashStep

\* The hash of each prefix is the step on the hash of the one before.
LEMMA HashesExist ==
    ASSUME NEW text, NEW len \in Nat
    PROVE  Hashes(text, len) = [i \in 0 .. len |-> HashStep(text, Hashes(text, len), i)]
<1> DEFINE G == {m \in 0 .. len : \E f : f = [i \in 0 .. m |-> HashStep(text, f, i)]}
<1>1. 0 \in G
  <2> DEFINE f == [i \in 0 .. 0 |-> 0]
  <2>1. f = [i \in 0 .. 0 |-> HashStep(text, f, i)]
    BY DEF HashStep
  <2> QED BY <2>1
<1>2. ASSUME NEW m \in 0 .. len - 1, m \in G
      PROVE  m + 1 \in G
  <2>1. PICK f : f = [i \in 0 .. m |-> HashStep(text, f, i)]
    BY <1>2
  <2> DEFINE g == [i \in 0 .. m + 1 |-> IF i = m + 1 THEN HashStep(text, f, i) ELSE f[i]]
  <2>2. ASSUME NEW i \in 0 .. m + 1
        PROVE  g[i] = HashStep(text, g, i)
    <3>1. i # 0 => g[i - 1] = f[i - 1]
      OBVIOUS
    <3>2. HashStep(text, g, i) = HashStep(text, f, i)
      BY <3>1 DEF HashStep
    <3>3. \A j \in 0 .. m : f[j] = HashStep(text, f, j)
      BY <2>1, Zenon
    <3>4. g[i] = HashStep(text, f, i)
      BY <3>3
    <3> QED BY <3>2, <3>4
  <2>3. g = [i \in 0 .. m + 1 |-> HashStep(text, g, i)]
    <3> DEFINE h == [i \in 0 .. m + 1 |-> HashStep(text, g, i)]
    <3>1. DOMAIN g = 0 .. m + 1 /\ DOMAIN h = 0 .. m + 1 /\ \A i \in 0 .. m + 1 : g[i] = h[i]
      BY <2>2
    <3>2. g = [i \in 0 .. m + 1 |-> g[i]] /\ h = [i \in 0 .. m + 1 |-> h[i]]
      OBVIOUS
    <3> HIDE DEF g, h
    <3> QED BY <3>1, <3>2 DEF h
  <2> HIDE DEF g
  <2> QED BY <2>3
<1> HIDE DEF G
<1>3. \A m \in 0 .. len : m \in G
  BY <1>1, <1>2, UpTo
<1>4. \E f : f = [i \in 0 .. len |-> HashStep(text, f, i)]
  BY <1>3 DEF G
<1> QED BY <1>4, Zenon DEF Hashes

\* A hash is a number.
LEMMA HashType ==
    ASSUME NEW text, NEW len \in Nat, \A i \in 1 .. len : text[i] \in Char
    PROVE  HashOf(text, len) \in Nat
<1> DEFINE H == Hashes(text, len)
           G == {m \in 0 .. len : H[m] \in Nat}
<1>1. \A m \in 0 .. len : H[m] = HashStep(text, H, m)
  BY HashesExist, Zenon
<1>2. 0 \in G
  BY <1>1 DEF HashStep
<1>3. ASSUME NEW m \in 0 .. len - 1, m \in G
      PROVE  m + 1 \in G
  <2>1. m + 1 \in 0 .. len /\ m + 1 # 0 /\ (m + 1) - 1 = m /\ m + 1 \in 1 .. len
    OBVIOUS
  <2>2. H[m + 1] = (H[m] * 31 + Code[text[m + 1]]) % 1048576
    BY <1>1, <2>1 DEF HashStep
  <2>3. Code[text[m + 1]] \in Nat
    BY <2>1, CharAssumption
  <2>4. H[m] \in Nat
    BY <1>3
  <2> HIDE DEF H
  <2>5. H[m] * 31 + Code[text[m + 1]] \in Nat
    BY <2>3, <2>4
  <2>6. H[m + 1] \in Nat
    BY <2>2, <2>5
  <2> QED BY <2>1, <2>6
<1> HIDE DEF G
<1>4. \A m \in 0 .. len : m \in G
  BY <1>2, <1>3, UpTo
<1> QED BY <1>4 DEF G, HashOf

\* sy_map_put in a table of size buckets.
Bucket(size, key) == HashOf(key, Len(key)) % size
Slot(row) == [key |-> row[1], val |-> row[2]]
Put(size, map, row) ==
    [map EXCEPT ![Bucket(size, row[1])] =
       IF map[Bucket(size, row[1])] = <<>> THEN <<Slot(row)>>
       ELSE <<Head(map[Bucket(size, row[1])]), Slot(row)>> \o Tail(map[Bucket(size, row[1])])]

\* Both maps are put to in the same way.
LEMMA PutIs ==
    ASSUME NEW map, NEW row
    PROVE  /\ Names!MapPut(map, row[1], row[2]) = Put(HeaderSize, map, row)
           /\ Mime!MapPut(map, row[1], row[2]) = Put(MimeSize, map, row)
  BY HashIs DEF Names!MapPut, Mime!MapPut, Put, Bucket, Slot

NamePut(f, i) == IF i = 0 THEN Names!EmptyMap
                 ELSE Names!MapPut(f[i - 1], HeaderTable[i][1], HeaderTable[i][2])
NameMaps == CHOOSE f : f = [i \in 0 .. Len(HeaderTable) |-> NamePut(f, i)]

\* The map of the headers is what the last row left.
LEMMA NameMapIs == NameMap = NameMaps[Len(HeaderTable)]
  BY DEF NameMap, Names!MapOf, NameMaps, NamePut

\* Each row of header_tb is put in the map that the rows before it left.
LEMMA NameMapsExist == NameMaps = [i \in 0 .. Len(HeaderTable) |-> NamePut(NameMaps, i)]
<1>0. Len(HeaderTable) \in Nat
  BY TableAssumption
<1> DEFINE n == Len(HeaderTable)
           G == {m \in 0 .. n : \E f : f = [i \in 0 .. m |-> NamePut(f, i)]}
<1>1. 0 \in G
  <2> DEFINE f == [i \in 0 .. 0 |-> Names!EmptyMap]
  <2>1. f = [i \in 0 .. 0 |-> NamePut(f, i)]
    BY DEF NamePut
  <2> QED BY <1>0, <2>1
<1>2. ASSUME NEW m \in 0 .. n - 1, m \in G
      PROVE  m + 1 \in G
  <2>1. PICK f : f = [i \in 0 .. m |-> NamePut(f, i)]
    BY <1>2
  <2> DEFINE g == [i \in 0 .. m + 1 |-> IF i = m + 1 THEN NamePut(f, i) ELSE f[i]]
  <2>2. ASSUME NEW i \in 0 .. m + 1
        PROVE  g[i] = NamePut(g, i)
    <3>1. i # 0 => g[i - 1] = f[i - 1]
      OBVIOUS
    <3>2. NamePut(g, i) = NamePut(f, i)
      BY <3>1 DEF NamePut
    <3>3. \A j \in 0 .. m : f[j] = NamePut(f, j)
      BY <2>1, Zenon
    <3>4. g[i] = NamePut(f, i)
      BY <3>3
    <3> QED BY <3>2, <3>4
  <2>3. g = [i \in 0 .. m + 1 |-> NamePut(g, i)]
    <3> DEFINE h == [i \in 0 .. m + 1 |-> NamePut(g, i)]
    <3>1. DOMAIN g = 0 .. m + 1 /\ DOMAIN h = 0 .. m + 1 /\ \A i \in 0 .. m + 1 : g[i] = h[i]
      BY <2>2
    <3>2. g = [i \in 0 .. m + 1 |-> g[i]] /\ h = [i \in 0 .. m + 1 |-> h[i]]
      OBVIOUS
    <3> HIDE DEF g, h
    <3> QED BY <3>1, <3>2 DEF h
  <2> HIDE DEF g
  <2> QED BY <1>0, <2>3
<1> HIDE DEF G
<1>3. \A m \in 0 .. n : m \in G
  BY <1>0, <1>1, <1>2, UpTo
<1>4. \E f : f = [i \in 0 .. n |-> NamePut(f, i)]
  BY <1>0, <1>3 DEF G
<1> QED BY <1>4, Zenon DEF NameMaps

MimePut(f, i) == IF i = 0 THEN Mime!EmptyMap
                 ELSE Mime!MapPut(f[i - 1], MimeTable[i][1], MimeTable[i][2])
MimeMaps == CHOOSE f : f = [i \in 0 .. Len(MimeTable) |-> MimePut(f, i)]

\* The map of the media types is what the last row left.
LEMMA MimeMapIs == MimeMap = MimeMaps[Len(MimeTable)]
  BY DEF MimeMap, Mime!MapOf, MimeMaps, MimePut

\* Each row of mime_tb is put in the map that the rows before it left.
LEMMA MimeMapsExist == MimeMaps = [i \in 0 .. Len(MimeTable) |-> MimePut(MimeMaps, i)]
<1>0. Len(MimeTable) \in Nat
  BY TableAssumption
<1> DEFINE n == Len(MimeTable)
           G == {m \in 0 .. n : \E f : f = [i \in 0 .. m |-> MimePut(f, i)]}
<1>1. 0 \in G
  <2> DEFINE f == [i \in 0 .. 0 |-> Mime!EmptyMap]
  <2>1. f = [i \in 0 .. 0 |-> MimePut(f, i)]
    BY DEF MimePut
  <2> QED BY <1>0, <2>1
<1>2. ASSUME NEW m \in 0 .. n - 1, m \in G
      PROVE  m + 1 \in G
  <2>1. PICK f : f = [i \in 0 .. m |-> MimePut(f, i)]
    BY <1>2
  <2> DEFINE g == [i \in 0 .. m + 1 |-> IF i = m + 1 THEN MimePut(f, i) ELSE f[i]]
  <2>2. ASSUME NEW i \in 0 .. m + 1
        PROVE  g[i] = MimePut(g, i)
    <3>1. i # 0 => g[i - 1] = f[i - 1]
      OBVIOUS
    <3>2. MimePut(g, i) = MimePut(f, i)
      BY <3>1 DEF MimePut
    <3>3. \A j \in 0 .. m : f[j] = MimePut(f, j)
      BY <2>1, Zenon
    <3>4. g[i] = MimePut(f, i)
      BY <3>3
    <3> QED BY <3>2, <3>4
  <2>3. g = [i \in 0 .. m + 1 |-> MimePut(g, i)]
    <3> DEFINE h == [i \in 0 .. m + 1 |-> MimePut(g, i)]
    <3>1. DOMAIN g = 0 .. m + 1 /\ DOMAIN h = 0 .. m + 1 /\ \A i \in 0 .. m + 1 : g[i] = h[i]
      BY <2>2
    <3>2. g = [i \in 0 .. m + 1 |-> g[i]] /\ h = [i \in 0 .. m + 1 |-> h[i]]
      OBVIOUS
    <3> HIDE DEF g, h
    <3> QED BY <3>1, <3>2 DEF h
  <2> HIDE DEF g
  <2> QED BY <1>0, <2>3
<1> HIDE DEF G
<1>3. \A m \in 0 .. n : m \in G
  BY <1>0, <1>1, <1>2, UpTo
<1>4. \E f : f = [i \in 0 .. n |-> MimePut(f, i)]
  BY <1>0, <1>3 DEF G
<1> QED BY <1>4, Zenon DEF MimeMaps

\* The chain a slot is put into.
Chain(q, s) == IF q = <<>> THEN <<s>> ELSE <<Head(q), s>> \o Tail(q)
Has(q, s) == \E j \in DOMAIN q : q[j] = s

\* A slot that is put into a chain is in it, and none is lost.
LEMMA ChainHas ==
    ASSUME NEW S, NEW q \in Seq(S), NEW s \in S
    PROVE  /\ Chain(q, s) \in Seq(S) /\ Has(Chain(q, s), s)
           /\ \A t : Has(q, t) => Has(Chain(q, s), t)
<1>1. CASE q = <<>>
  <2>1. Chain(q, s) = <<s>>
    BY <1>1 DEF Chain
  <2>2. <<s>> \in Seq(S) /\ Len(<<s>>) = 1 /\ <<s>>[1] = s
    OBVIOUS
  <2>3. DOMAIN <<s>> = 1 .. 1 /\ DOMAIN q = {}
    BY <1>1
  <2>4. Has(<<s>>, s) /\ \A t : ~Has(q, t)
    BY <2>2, <2>3 DEF Has
  <2> QED BY <2>1, <2>2, <2>4
<1>2. CASE q # <<>>
  <2> DEFINE a == <<Head(q), s>>
             b == Tail(q)
             x == a \o b
  <2>1. Head(q) = q[1] /\ Head(q) \in S /\ b \in Seq(S) /\ Len(b) = Len(q) - 1 /\ Len(q) \in Nat
        /\ 1 \in 1 .. Len(q) /\ \A i \in 1 .. Len(b) : b[i] = q[i + 1]
    BY <1>2
  <2>2. a \in Seq(S) /\ Len(a) = 2 /\ a[1] = q[1] /\ a[2] = s
    BY <2>1
  <2> HIDE DEF a, b
  <2>3. /\ x \in Seq(S) /\ Len(x) = Len(q) + 1 /\ x[1] = q[1] /\ x[2] = s
        /\ \A i \in 3 .. Len(q) + 1 : x[i] = b[i - 2]
    <3>1. /\ x \in Seq(S) /\ Len(x) = Len(a) + Len(b)
          /\ \A i \in 1 .. Len(a) + Len(b) : x[i] = IF i <= Len(a) THEN a[i] ELSE b[i - Len(a)]
      BY <2>1, <2>2, ConcatProperties
    <3> HIDE DEF x
    <3>2. Len(x) = Len(q) + 1 /\ Len(q) >= 1
      BY <2>1, <2>2, <3>1
    <3>3. 1 \in 1 .. 2 + Len(b) /\ 2 \in 1 .. 2 + Len(b) /\ 2 + Len(b) = Len(q) + 1
      BY <2>1
    <3>4. x[1] = q[1] /\ x[2] = s
      BY <2>2, <3>1, <3>3
    <3>5. \A i \in 3 .. Len(q) + 1 : x[i] = b[i - 2]
      BY <2>1, <2>2, <3>1, <3>3
    <3> QED BY <3>1, <3>2, <3>4, <3>5
  <2>4. Chain(q, s) = x
    BY <1>2 DEF Chain, a, b
  <2> HIDE DEF x
  <2>5. DOMAIN x = 1 .. Len(q) + 1 /\ DOMAIN q = 1 .. Len(q)
    BY <2>1, <2>3
  <2>6. Has(x, s)
    <3>1. 2 \in 1 .. Len(q) + 1
      BY <2>1
    <3> QED BY <2>3, <2>5, <3>1 DEF Has
  <2>7. ASSUME NEW j \in 1 .. Len(q)
        PROVE  \E i \in DOMAIN x : x[i] = q[j]
    <3>1. CASE j = 1
      <4>1. 1 \in DOMAIN x
        BY <2>1, <2>5
      <4> QED BY <2>3, <3>1, <4>1
    <3>2. CASE j # 1
      <4>1. j + 1 \in 3 .. Len(q) + 1 /\ (j + 1) - 2 = j - 1 /\ j - 1 \in 1 .. Len(b)
            /\ (j - 1) + 1 = j /\ j + 1 \in DOMAIN x
        BY <2>1, <2>5, <3>2
      <4>2. x[j + 1] = b[j - 1] /\ b[j - 1] = q[(j - 1) + 1]
        BY <2>1, <2>3, <4>1
      <4> QED BY <4>1, <4>2
    <3> QED BY <3>1, <3>2
  <2>8. \A t : Has(q, t) => Has(x, t)
    BY <2>5, <2>7 DEF Has
  <2> QED BY <2>3, <2>4, <2>6, <2>8
<1> QED BY <1>1, <1>2

\* The table of size buckets holds the first n rows and nothing else.
Slots(table, n) == {Slot(table[r]) : r \in 1 .. n}
Holds(size, table, n, map) ==
    /\ map \in [0 .. size - 1 -> Seq(Slots(table, n))]
    /\ \A r \in 1 .. n : Has(map[Bucket(size, table[r][1])], Slot(table[r]))

\* A key hashes to a bucket of the map.
LEMMA BucketIs ==
    ASSUME NEW size \in Nat \ {0}, NEW key \in Seq(Char)
    PROVE  Bucket(size, key) \in 0 .. size - 1
<1>1. Len(key) \in Nat /\ \A i \in 1 .. Len(key) : key[i] \in Char
  OBVIOUS
<1>2. HashOf(key, Len(key)) \in Nat
  BY <1>1, HashType
<1> QED BY <1>2 DEF Bucket

\* A map that holds n rows holds one more when the next is put.
LEMMA PutHolds ==
    ASSUME NEW size \in Nat \ {0}, NEW table, NEW n \in Nat, NEW map, Holds(size, table, n, map),
           \A r \in 1 .. n + 1 : table[r][1] \in Seq(Char)
    PROVE  Holds(size, table, n + 1, Put(size, map, table[n + 1]))
<1> DEFINE S == Slots(table, n + 1)
           s == Slot(table[n + 1])
           k == Bucket(size, table[n + 1][1])
           m2 == Put(size, map, table[n + 1])
<1>1. k \in 0 .. size - 1
  BY BucketIs
<1>2. Slots(table, n) \subseteq S /\ s \in S
  BY DEF Slots
<1>3. map \in [0 .. size - 1 -> Seq(S)]
  <2>1. map \in [0 .. size - 1 -> Seq(Slots(table, n))]
    BY DEF Holds
  <2>2. Seq(Slots(table, n)) \subseteq Seq(S)
    <3> DEFINE P == Slots(table, n)
               Q == S
    <3>1. P \subseteq Q
      BY <1>2
    <3> HIDE DEF P, Q
    <3>2. Seq(P) \subseteq Seq(Q)
      BY <3>1
    <3> QED BY <3>2 DEF P, Q
  <2> QED BY <2>1, <2>2, Zenon
<1>4. m2 = [map EXCEPT ![k] = Chain(map[k], s)]
  BY DEF Put, Chain
<1> HIDE DEF S, s, k, m2
<1>5. map[k] \in Seq(S)
  BY <1>1, <1>3
<1>6. /\ Chain(map[k], s) \in Seq(S) /\ Has(Chain(map[k], s), s)
      /\ \A t : Has(map[k], t) => Has(Chain(map[k], s), t)
  BY <1>2, <1>5, ChainHas
<1>7. /\ m2 \in [0 .. size - 1 -> Seq(S)] /\ m2[k] = Chain(map[k], s)
      /\ \A b \in 0 .. size - 1 : b # k => m2[b] = map[b]
  BY <1>1, <1>3, <1>4, <1>6
<1>8. \A b \in 0 .. size - 1 : \A t : Has(map[b], t) => Has(m2[b], t)
  BY <1>6, <1>7
<1>9. ASSUME NEW r \in 1 .. n + 1
      PROVE  Has(m2[Bucket(size, table[r][1])], Slot(table[r]))
  <2>1. CASE r = n + 1
    BY <1>6, <1>7, <2>1 DEF k, s
  <2>2. CASE r # n + 1
    <3>1. r \in 1 .. n
      BY <2>2
    <3>2. Bucket(size, table[r][1]) \in 0 .. size - 1
      BY BucketIs
    <3> QED BY <1>8, <3>1, <3>2 DEF Holds
  <2> QED BY <2>1, <2>2
<1> QED BY <1>7, <1>9 DEF Holds, m2, S

\* The map of the headers holds the rows of header_tb.
LEMMA NameMapHolds == Holds(HeaderSize, HeaderTable, Len(HeaderTable), NameMap)
<1>0. /\ HeaderSize \in Nat \ {0} /\ Len(HeaderTable) \in Nat
      /\ \A r \in 1 .. Len(HeaderTable) : HeaderTable[r][1] \in Seq(Char)
  <2>1. HeaderSize \in Nat \ {0} /\ HeaderTable \in Seq(Seq(Char \ {"LF"}) \X STRING)
    BY TableAssumption
  <2>2. \A r \in 1 .. Len(HeaderTable) : HeaderTable[r][1] \in Seq(Char \ {"LF"})
    BY <2>1
  <2>3. Seq(Char \ {"LF"}) \subseteq Seq(Char)
    <3> DEFINE P == Char \ {"LF"}
               Q == Char
    <3>1. P \subseteq Q
      OBVIOUS
    <3> HIDE DEF P, Q
    <3>2. Seq(P) \subseteq Seq(Q)
      BY <3>1
    <3> QED BY <3>2 DEF P, Q
  <2> QED BY <2>1, <2>2, <2>3
<1> DEFINE n == Len(HeaderTable)
           G == {m \in 0 .. n : Holds(HeaderSize, HeaderTable, m, NameMaps[m])}
<1>1. \A m \in 0 .. n : NameMaps[m] = NamePut(NameMaps, m)
  BY NameMapsExist, Zenon
<1>2. 0 \in G
  <2>1. 0 \in 0 .. n /\ NameMaps[0] = [b \in 0 .. HeaderSize - 1 |-> <<>>]
    BY <1>0, <1>1 DEF NamePut, Names!EmptyMap
  <2>2. [b \in 0 .. HeaderSize - 1 |-> <<>>] \in [0 .. HeaderSize - 1 -> Seq(Slots(HeaderTable, 0))]
    OBVIOUS
  <2>3. Holds(HeaderSize, HeaderTable, 0, NameMaps[0])
    BY <2>1, <2>2 DEF Holds
  <2> QED BY <2>1, <2>3
<1>3. ASSUME NEW m \in 0 .. n - 1, m \in G
      PROVE  m + 1 \in G
  <2>1. m + 1 \in 0 .. n /\ m + 1 # 0 /\ (m + 1) - 1 = m /\ m \in Nat /\ m + 1 <= n
    BY <1>0
  <2>2. NameMaps[m + 1] = Names!MapPut(NameMaps[m], HeaderTable[m + 1][1], HeaderTable[m + 1][2])
    BY <1>1, <2>1 DEF NamePut
  <2>3. NameMaps[m + 1] = Put(HeaderSize, NameMaps[m], HeaderTable[m + 1])
    BY <2>2, PutIs
  <2>4. \A r \in 1 .. m + 1 : HeaderTable[r][1] \in Seq(Char)
    BY <1>0, <2>1
  <2>5. Holds(HeaderSize, HeaderTable, m + 1, NameMaps[m + 1])
    BY <1>0, <1>3, <2>1, <2>3, <2>4, PutHolds
  <2> QED BY <2>1, <2>5
<1> HIDE DEF G
<1>4. \A m \in 0 .. n : m \in G
  BY <1>0, <1>2, <1>3, UpTo
<1> QED BY <1>0, <1>4, NameMapIs DEF G

\* The map of the media types holds the rows of mime_tb.
LEMMA MimeMapHolds == Holds(MimeSize, MimeTable, Len(MimeTable), MimeMap)
<1>0. /\ MimeSize \in Nat \ {0} /\ Len(MimeTable) \in Nat
      /\ \A r \in 1 .. Len(MimeTable) : MimeTable[r][1] \in Seq(Char)
  <2>1. MimeSize \in Nat \ {0} /\ MimeTable \in Seq(Seq(Char) \X STRING)
    BY TableAssumption
  <2> QED BY <2>1
<1> DEFINE n == Len(MimeTable)
           G == {m \in 0 .. n : Holds(MimeSize, MimeTable, m, MimeMaps[m])}
<1>1. \A m \in 0 .. n : MimeMaps[m] = MimePut(MimeMaps, m)
  BY MimeMapsExist, Zenon
<1>2. 0 \in G
  <2>1. 0 \in 0 .. n /\ MimeMaps[0] = [b \in 0 .. MimeSize - 1 |-> <<>>]
    BY <1>0, <1>1 DEF MimePut, Mime!EmptyMap
  <2>2. [b \in 0 .. MimeSize - 1 |-> <<>>] \in [0 .. MimeSize - 1 -> Seq(Slots(MimeTable, 0))]
    OBVIOUS
  <2>3. Holds(MimeSize, MimeTable, 0, MimeMaps[0])
    BY <2>1, <2>2 DEF Holds
  <2> QED BY <2>1, <2>3
<1>3. ASSUME NEW m \in 0 .. n - 1, m \in G
      PROVE  m + 1 \in G
  <2>1. m + 1 \in 0 .. n /\ m + 1 # 0 /\ (m + 1) - 1 = m /\ m \in Nat /\ m + 1 <= n
    BY <1>0
  <2>2. MimeMaps[m + 1] = Mime!MapPut(MimeMaps[m], MimeTable[m + 1][1], MimeTable[m + 1][2])
    BY <1>1, <2>1 DEF MimePut
  <2>3. MimeMaps[m + 1] = Put(MimeSize, MimeMaps[m], MimeTable[m + 1])
    BY <2>2, PutIs
  <2>4. \A r \in 1 .. m + 1 : MimeTable[r][1] \in Seq(Char)
    BY <1>0, <2>1
  <2>5. Holds(MimeSize, MimeTable, m + 1, MimeMaps[m + 1])
    BY <1>0, <1>3, <2>1, <2>3, <2>4, PutHolds
  <2> QED BY <2>1, <2>5
<1> HIDE DEF G
<1>4. \A m \in 0 .. n : m \in G
  BY <1>0, <1>2, <1>3, UpTo
<1> QED BY <1>0, <1>4, MimeMapIs DEF G

-------------------------------------------------------------------------------
(* Least and greatest elements, and parts of a text.                       *)

\* The slashes of the path up to i whose entries are ordinary, or lead to the parent.
Ords(P, i) == {j \in Where(P, "/") : j <= i /\ Ordinary(Entry(P, j))}
Pars(P, i) == {j \in Where(P, "/") : j <= i /\ Entry(P, j) = Parent}
ClimbsBy(P, l) ==
    \E i \in Where(P, "/") : i <= l /\ Cardinality(Ords(P, i)) < Cardinality(Pars(P, i))
AllDotted(P, l) ==
    \A i \in Where(P, "/") : i <= l /\ Ordinary(Entry(P, i)) => Dotted(Entry(P, i))

\* n and d are the counts of the entries up to l.
Tally(P, l, n, d) ==
    /\ n \in Nat /\ d = Cardinality(Pars(P, l))
    /\ ~ClimbsBy(P, l) => n >= Cardinality(Ords(P, l)) /\ Cardinality(Ords(P, l)) >= d
    /\ AllDotted(P, l) => IF ClimbsBy(P, l) THEN n < d ELSE n = Cardinality(Ords(P, l))

\* Where the extension begins: at the last dot, or behind two leading dots.
DotAt(e, d) ==
    /\ d \in 1 .. Len(e)
    /\ \/ e[d] = "." /\ (\A i \in d + 1 .. Len(e) : e[i] # ".") /\ (d = 2 => e[1] # ".")
       \/ d = 3 /\ e[1] = "." /\ e[2] = "." /\ \A i \in 3 .. Len(e) : e[i] # "."

\* What is known of the entry e, whose i-th character is at b + i, while it is read.
EntryRead(e, b, s, x) ==
    \/ s = "ABS_PATH_SLASH" /\ e = <<>> /\ x = NULL
    \/ s = "ABS_PATH_DOT" /\ e = <<".">> /\ x = NULL
    \/ s = "ABS_PATH_DDOT" /\ e = Parent /\ x = NULL
    \/ s = "ABS_PATH_ENTRY" /\ e # <<>> /\ Where(e, ".") = {} /\ x = NULL
    \/ /\ s = "EXTENSION" /\ Dotted(e)
       /\ \E d \in 1 .. Len(e) : DotAt(e, d) /\ x = [data |-> b + d, len |-> 0]

\* The extension of a path that ends with the entry e.
ExtensionDone(e, b, x) ==
    /\ ~Ordinary(e) => x = NULL
    /\ Ordinary(e) /\ ~Dotted(e) => x.data = 1
    /\ Dotted(e) => \E d \in 1 .. Len(e) :
                       DotAt(e, d) /\ x = [data |-> b + d + 1, len |-> Len(e) - d]

\* The last slash of P is at s.
LastAt(P, s) == /\ s \in 1 .. Len(P) /\ P[s] = "/"
                /\ \A i \in s + 1 .. Len(P) : P[i] # "/"
Rest(P, s) == SubSeq(P, s + 1, Len(P))

\* The path so far, whose i-th character is at o + i.
PathGoesOn(P, o, u) ==
    /\ P # <<>> /\ P[1] = "/"
    /\ u.abs_path = [data |-> o + 1, len |-> 0]
    /\ \E s \in 1 .. Len(P) : /\ LastAt(P, s)
                              /\ EntryRead(Rest(P, s), o + s, u.state, u.extension)
                              /\ Tally(P, s - 1, u.nentries, u.nddots)

\* The whole path.
PathDone(P, o, u) ==
    /\ P # <<>> /\ P[1] = "/"
    /\ u.abs_path \in [data : {o + 1}, len : Int]
    /\ Tally(P, Len(P), u.nentries, u.nddots)
    /\ \E s \in 1 .. Len(P) : LastAt(P, s) /\ ExtensionDone(Rest(P, s), o + s, u.extension)

NoPath(u) == /\ u.abs_path = NULL /\ u.extension = NULL /\ u.query = NULL
             /\ u.nddots = 0 /\ u.nentries = 0

NoQuery(t) == \A i \in 1 .. Len(t) : t[i] # "?"

\* "//" is at k, and no other slash is among the first n characters.
Authority(t, k, n) == /\ t[k] = "/" /\ t[k + 1] = "/"
                      /\ \A i \in 1 .. n : t[i] = "/" => i \in {k, k + 1}

\* The path begins at p, with the text or behind "scheme://host".
PathAt(t, p) == /\ p \in 1 .. Len(t) /\ t[p] = "/"
                /\ p = 1 \/ \E k \in 2 .. p - 2 : Authority(t, k, p - 1)

\* The path ends before q, at a query or with the text.
QueryAt(t, q) == /\ q \in 1 .. Len(t) + 1
                 /\ q <= Len(t) => t[q] = "?"
                 /\ \A i \in 1 .. q - 1 : t[i] # "?"

BeforePath(t, f, u) ==
    /\ t # <<>> /\ NoQuery(t) /\ NoPath(u)
    /\ \/ /\ u.state \in {"SCHEME", "SCHEME_COLON"} /\ u.host = NULL
          /\ \A i \in 1 .. Len(t) : t[i] # "/"
       \/ /\ u.state = "SCHEME_SLASH" /\ u.host = NULL /\ Len(t) > 1 /\ t[Len(t)] = "/"
          /\ \A i \in 1 .. Len(t) - 1 : t[i] # "/"
       \/ /\ u.state = "SCHEME_SLASH_SLASH" /\ u.host = NULL
          /\ Len(t) > 2 /\ Authority(t, Len(t) - 1, Len(t))
       \/ /\ u.state \in {"HOST", "PORT"}
          /\ \E k \in 2 .. Len(t) - 2 : Authority(t, k, Len(t)) /\ u.host.data = f + k + 2

InsidePath(t, f, u) ==
    /\ u.state \in InPath /\ NoQuery(t) /\ u.query = NULL
    /\ \E p \in 1 .. Len(t) : PathAt(t, p) /\ PathGoesOn(SubSeq(t, p, Len(t)), f + p - 1, u)

\* The path of t, from p to before q, is read.
PathRange(t, f, p, q, u) ==
    /\ PathAt(t, p) /\ p < q /\ QueryAt(t, q)
    /\ PathDone(SubSeq(t, p, q - 1), f + p - 1, u)

BehindPath(t, f, u) ==
    /\ u.state = "QUERY"
    /\ \E p, q \in 1 .. Len(t) :
         /\ PathRange(t, f, p, q, u)
         /\ u.query = [data |-> f + q, len |-> 0]
         /\ ~Dotted(LastEntry(SubSeq(t, p, q - 1))) => u.abs_path.len = q - p

\* What is known of a URI of which the text t is read; its i-th character is at f + i.
Reads(t, f, u) ==
    \/ t = <<>> /\ u = NewUri
    \/ BeforePath(t, f, u)
    \/ InsidePath(t, f, u)
    \/ BehindPath(t, f, u)

HostOnly(t, f, u) ==
    \E k \in 2 .. Len(t) - 2 :
      /\ Authority(t, k, Len(t)) /\ NoQuery(t)
      /\ u.abs_path = [data |-> f + k, len |-> 1] /\ u.extension = NULL /\ u.query = NULL
      /\ u.nddots = 0 /\ u.nentries = 0

\* What is known of a URI whose text is t.
UriRead(t, f, u) ==
    \/ HostOnly(t, f, u)
    \/ \E p, q \in 1 .. Len(t) + 1 :
         /\ PathRange(t, f, p, q, u)
         /\ IF q > Len(t) THEN u.query = NULL
            ELSE u.query = [data |-> (f + q) + 1, len |-> Len(t) - q]
         /\ IF u.nentries < u.nddots THEN u.abs_path.len = 1
            ELSE ((Dotted(LastEntry(SubSeq(t, p, q - 1))) => q > Len(t))
                     => u.abs_path.len = q - p)

\* An element that no other is below is the least.
LEMMA MinIs ==
    ASSUME NEW S \in SUBSET Int, NEW m \in S, \A x \in S : m <= x
    PROVE  Min(S) = m
<1>1. \E x \in S : \A y \in S : x <= y
  OBVIOUS
<1> DEFINE x == Min(S)
<1>2. x \in S /\ \A y \in S : x <= y
  BY <1>1 DEF Min
<1> HIDE DEF x
<1>3. x \in Int /\ m \in Int /\ x <= m /\ m <= x
  BY <1>2
<1>4. x = m
  BY <1>3
<1> QED BY <1>4 DEF x

\* An element that no other is above is the greatest.
LEMMA MaxIs ==
    ASSUME NEW S \in SUBSET Int, NEW m \in S, \A x \in S : x <= m
    PROVE  Max(S) = m
<1>1. \E x \in S : \A y \in S : x >= y
  OBVIOUS
<1> DEFINE x == Max(S)
<1>2. x \in S /\ \A y \in S : x >= y
  BY <1>1 DEF Max
<1> HIDE DEF x
<1>3. x \in Int /\ m \in Int /\ x <= m /\ m <= x
  BY <1>2
<1>4. x = m
  BY <1>3
<1> QED BY <1>4 DEF x

\* A set of naturals that is not empty has a least element.
LEMMA MinExists ==
    ASSUME NEW S \in SUBSET Nat, S # {}
    PROVE  Min(S) \in S /\ \A x \in S : Min(S) <= x
<1>1. PICK m \in S : \A y \in S : <<y, m>> \notin OpToRel(<, Nat)
  BY WFMin, NatLessThanWellFounded, Zenon
<1>2. \A y \in S : ~(y < m)
  BY <1>1, Zenon DEF OpToRel
<1>3. \A y \in S : m <= y
  BY <1>2
<1>4. Min(S) = m
  BY <1>3, MinIs
<1> QED BY <1>3, <1>4

\* Where a character is in a text.
LEMMA WhereIs ==
    ASSUME NEW t \in Seq(Char), NEW c
    PROVE  /\ Where(t, c) \subseteq 1 .. Len(t)
           /\ \A i : i \in Where(t, c) <=> i \in 1 .. Len(t) /\ t[i] = c
  BY DEF Where

\* A part of a text that goes to its end grows with it; another one stays.
LEMMA PartGrows ==
    ASSUME NEW t \in Seq(Char), NEW c \in Char, NEW p \in 1 .. Len(t) + 1
    PROVE  SubSeq(Append(t, c), p, Len(t) + 1) = Append(SubSeq(t, p, Len(t)), c)
  OBVIOUS

\* A part that ends in the text stays as it is when the text grows.
LEMMA PartStays ==
    ASSUME NEW t \in Seq(Char), NEW c \in Char, NEW p \in Nat \ {0}, NEW q \in Int, q <= Len(t)
    PROVE  SubSeq(Append(t, c), p, q) = SubSeq(t, p, q)
  OBVIOUS

\* The length and the characters of a part of a text.
LEMMA PartIs ==
    ASSUME NEW t \in Seq(Char), NEW p \in Nat \ {0}, NEW q \in Int, q <= Len(t)
    PROVE  /\ SubSeq(t, p, q) \in Seq(Char)
           /\ Len(SubSeq(t, p, q)) = IF p <= q THEN q - p + 1 ELSE 0
           /\ \A i \in 1 .. q - p + 1 : SubSeq(t, p, q)[i] = t[p + i - 1]
  OBVIOUS

\* The texts that the counts tell apart.
LEMMA TextOf ==
    ASSUME NEW e \in Seq(Char)
    PROVE  /\ e = <<>> <=> Len(e) = 0
           /\ e = <<".">> <=> Len(e) = 1 /\ e[1] = "."
           /\ e = Parent <=> Len(e) = 2 /\ e[1] = "." /\ e[2] = "."
  BY DEF Parent

-------------------------------------------------------------------------------
(* What is read back of a header line.                                     *)

\* No header reaches its handler: sy_string_eq reads the name in the buffer on past the
\* colon, so a name that is in header_tb is not found in it.
THEOREM NoHeaderIsFoundHolds == Spec => []NoHeaderIsFound
<1>1. Init => NoZero
  BY DEF Init, NoZero
<1>2. ASSUME TypeInv, HeaderInv, NoZero, [Next]_vars
      PROVE  NoZero'
  <2>1. CASE UNCHANGED vars
    BY <1>2, <2>1 DEF vars, NoZero
  <2>2. CASE NextRequest
    BY <2>2 DEF NextRequest, NoZero
  <2>3. ASSUME NEW c \in Char, Receive(c)
        PROVE  NoZero'
    <3>1. CASE Header(c)
      BY <3>1 DEF Header, NoZero
    <3>2. CASE Read(c) /\ (RequestBegins(c) \/ Method(c) \/ Uri(c) \/ Version(c))
      <4>1. name' = NULL
        BY <1>2, <2>3, <3>2, RequestLineStep DEF Receive
      <4> QED BY <4>1 DEF NoZero
    <3> QED BY <2>3, <3>1, <3>2 DEF Receive
  <2> QED BY <1>2, <2>1, <2>2, <2>3 DEF Next
<1>3. ASSUME TypeInv, HeaderInv, NoZero
      PROVE  NoHeaderIsFound
  <2> SUFFICES ASSUME HeaderLineRead
               PROVE  Handler = "none"
    BY DEF NoHeaderIsFound
  <2>1. state = "HL_BEGIN" /\ result = "OK" /\ name # NULL /\ zero = 0
    BY <1>3 DEF HeaderLineRead, HeaderInv, NoZero
  <2>2. Handed
    BY <1>3, <2>1 DEF HeaderInv
  <2>3. line[Len(line)] = "LF" /\ (LineRead(Len(line) - 1) \/ LineRead(Len(line) - 2))
    BY <2>1, <2>2 DEF Handed
  <2>4. line \in Seq(Char) /\ Len(line) \in Nat
    BY <1>3 DEF TypeInv
  <2>5. /\ name.data = 2 /\ name.len \in Nat /\ name.len <= Len(line) /\ line # <<>>
    <3>1. PICK n \in Int : LineRead(n) /\ n < Len(line)
      BY <2>3, <2>4
    <3>2. CASE NameOnly(n)
      BY <2>4, <3>1, <3>2 DEF NameOnly
    <3>3. ASSUME NEW k \in 1 .. Len(line), NameRead(k, n)
          PROVE  name.data = 2 /\ name.len \in Nat /\ name.len <= Len(line) /\ line # <<>>
      BY <2>4, <3>1, <3>3 DEF NameRead
    <3> QED BY <2>1, <3>1, <3>2, <3>3 DEF LineRead
  <2>6. TextFrom(name.data) = line
    <3>1. TextFrom(name.data) = SubSeq(line, 1, Len(line))
      BY <2>1, <2>5 DEF TextFrom
    <3>2. SubSeq(line, 1, Len(line)) = line
      BY <2>4
    <3> QED BY <3>1, <3>2
  <2> DEFINE h == HashOf(line, name.len)
             chain == NameMap[h % HeaderSize]
  <2>7. h \in Nat
    <3>1. \A i \in 1 .. name.len : line[i] \in Char
      BY <2>4, <2>5
    <3> QED BY <2>5, <3>1, HashType
  <2> HIDE DEF h
  <2>8. chain \in Seq(Slots(HeaderTable, Len(HeaderTable)))
    <3>1. HeaderSize \in Nat \ {0}
      BY TableAssumption
    <3>2. h % HeaderSize \in 0 .. HeaderSize - 1
      BY <2>7, <3>1
    <3> QED BY <3>2, NameMapHolds DEF Holds
  <2>9. ASSUME NEW i \in DOMAIN chain
        PROVE  chain[i].key # line
    <3>1. chain[i] \in Slots(HeaderTable, Len(HeaderTable))
      BY <2>8
    <3>2. PICK r \in 1 .. Len(HeaderTable) : chain[i] = Slot(HeaderTable[r])
      BY <3>1 DEF Slots
    <3>3. chain[i].key = HeaderTable[r][1]
      BY <3>2 DEF Slot
    <3>4. HeaderTable[r][1] \in Seq(Char \ {"LF"})
      BY TableAssumption
    <3>5. line \notin Seq(Char \ {"LF"})
      <4>1. Len(line) \in 1 .. Len(line)
        BY <2>4, <2>5
      <4>2. \A s \in Seq(Char \ {"LF"}) : \A j \in 1 .. Len(s) : s[j] # "LF"
        OBVIOUS
      <4> QED BY <2>3, <4>1, <4>2
    <3> QED BY <3>3, <3>4, <3>5
  <2> HIDE DEF chain
  <2>10. {i \in DOMAIN chain : chain[i].key = line} = {}
    BY <2>9
  <2>11. Handler = Names!MapGet(NameMap, line, name.len, "none")
    BY <2>6, Zenon DEF Handler
  <2>12. Names!Hash(line, name.len) = h
    BY HashIs DEF h
  <2> QED BY <2>10, <2>11, <2>12 DEF Names!MapGet, chain
<1>4. Spec => []NoZero
  BY <1>1, <1>2, HeaderKept, PTL DEF Spec
<1> QED BY <1>3, <1>4, HeaderKept, PTL

\* A place before one in a range is in it.
LEMMA Nested ==
    ASSUME NEW m \in Nat, NEW n \in 1 .. m, NEW k \in 2 .. n
    PROVE  k \in 1 .. m
  OBVIOUS

\* A place in a range but not in a part of it is behind the part or before it.
LEMMA Outside ==
    ASSUME NEW x \in Int, NEW a \in Int, NEW b \in Int
    PROVE  /\ x >= a /\ x \notin a .. b - 1 => b <= x
           /\ x <= b /\ x \notin a + 1 .. b => x <= a
  OBVIOUS

\* How a line ends.
LEMMA LineEnds ==
    ASSUME NEW s \in Seq(Char), NEW n \in 1 .. Len(s)
    PROVE  SubSeq(s, n + 1, Len(s)) \in {<<"LF">>, <<"CR", "LF">>}
             <=> \/ Len(s) = n + 1 /\ s[n + 1] = "LF"
                 \/ Len(s) = n + 2 /\ s[n + 1] = "CR" /\ s[n + 2] = "LF"
<1> DEFINE t == SubSeq(s, n + 1, Len(s))
<1>1. /\ Len(s) \in Nat /\ t \in Seq(Char) /\ Len(t) = Len(s) - n
      /\ \A i \in 1 .. Len(s) - n : t[i] = s[n + i]
  <2>1. n + 1 \in 1 .. Len(s) + 1 /\ Len(s) \in Nat /\ n \in Nat
    OBVIOUS
  <2>2. Len(t) = Len(s) - n /\ t \in Seq(Char)
    BY <2>1, SubSeqProperties
  <2>3. \A i \in 1 .. Len(s) - n : t[i] = s[n + i]
    BY <2>1, <2>2
  <2> QED BY <2>1, <2>2, <2>3
<1> HIDE DEF t
<1>2. ASSUME t = <<"LF">>
      PROVE  Len(s) = n + 1 /\ s[n + 1] = "LF"
  <2>1. Len(t) = 1 /\ t[1] = "LF"
    BY <1>2
  <2>2. Len(s) - n = 1
    BY <1>1, <2>1
  <2> QED BY <1>1, <2>1, <2>2
<1>3. ASSUME t = <<"CR", "LF">>
      PROVE  Len(s) = n + 2 /\ s[n + 1] = "CR" /\ s[n + 2] = "LF"
  <2>1. Len(t) = 2 /\ t[1] = "CR" /\ t[2] = "LF"
    BY <1>3
  <2>2. Len(s) - n = 2
    BY <1>1, <2>1
  <2> QED BY <1>1, <2>1, <2>2
<1>4. ASSUME Len(s) = n + 1, s[n + 1] = "LF"
      PROVE  t = <<"LF">>
  <2>1. Len(t) = 1 /\ t[1] = "LF"
    BY <1>1, <1>4
  <2> QED BY <1>1, <2>1
<1>5. ASSUME Len(s) = n + 2, s[n + 1] = "CR", s[n + 2] = "LF"
      PROVE  t = <<"CR", "LF">>
  <2>1. Len(t) = 2 /\ t[1] = "CR" /\ t[2] = "LF"
    BY <1>1, <1>5
  <2> QED BY <1>1, <2>1
<1> QED BY <1>2, <1>3, <1>4, <1>5 DEF t

\* Where the name ends in a line, and where the line ends, is clear.
LEMMA FormIsClear ==
    ASSUME raw \in Seq(Char), NEW k \in Int, NEW n \in 1 .. Len(raw), k \in 2 .. n, raw[k] = ":",
           \A i \in 1 .. k - 1 : raw[i] \in InName,
           \A i \in k .. n : raw[i] \notin {"CR", "LF"},
           \/ Len(raw) = n + 1 /\ raw[n + 1] = "LF"
           \/ Len(raw) = n + 2 /\ raw[n + 1] = "CR" /\ raw[n + 2] = "LF"
    PROVE  /\ k \in DOMAIN raw /\ n \in DOMAIN raw /\ WellFormed(raw, k, n)
           /\ \A a, b \in DOMAIN raw : WellFormed(raw, a, b) => a = k /\ b = n
<1>1. Len(raw) \in Nat /\ DOMAIN raw = 1 .. Len(raw)
  OBVIOUS
<1>2. WellFormed(raw, k, n)
  <2>1. SubSeq(raw, n + 1, Len(raw)) \in {<<"LF">>, <<"CR", "LF">>}
    BY LineEnds
  <2>2. k > 1
    OBVIOUS
  <2> QED BY <2>1, <2>2 DEF WellFormed
<1>3. ASSUME NEW a \in 1 .. Len(raw), NEW b \in 1 .. Len(raw), WellFormed(raw, a, b)
      PROVE  a = k /\ b = n
  <2>1. /\ a > 1 /\ raw[a] = ":" /\ \A i \in 1 .. a - 1 : raw[i] \in InName
        /\ \A i \in a .. b : raw[i] \notin {"CR", "LF"}
    BY <1>3 DEF WellFormed
  <2>2. \/ Len(raw) = b + 1 /\ raw[b + 1] = "LF"
        \/ Len(raw) = b + 2 /\ raw[b + 1] = "CR" /\ raw[b + 2] = "LF"
    <3>1. SubSeq(raw, b + 1, Len(raw)) \in {<<"LF">>, <<"CR", "LF">>}
      BY <1>3 DEF WellFormed
    <3> QED BY <3>1, LineEnds
  <2>3. ":" \notin InName
    BY NamesHave
  <2>4. a = k
    <3>1. CASE a < k
      <4>1. a \in 1 .. k - 1
        BY <3>1
      <4> QED BY <2>1, <2>3, <4>1
    <3>2. CASE k < a
      <4>1. k \in 1 .. a - 1
        BY <3>2
      <4> QED BY <2>1, <2>3, <4>1
    <3> QED BY <3>1, <3>2
  <2>5. CASE Len(raw) = n + 1 /\ Len(raw) = b + 2 /\ raw[b + 1] = "CR"
    <3>1. b + 1 = n /\ n \in k .. n
      BY <2>5
    <3> QED BY <2>5, <3>1
  <2>6. CASE Len(raw) = n + 2 /\ Len(raw) = b + 1 /\ raw[n + 1] = "CR"
    <3>1. b = n + 1 /\ b \in a .. b
      BY <2>4, <2>6
    <3> QED BY <2>1, <2>6, <3>1
  <2>7. CASE Len(raw) = n + 1 /\ Len(raw) = b + 1
    BY <2>4, <2>7
  <2>8. CASE Len(raw) = n + 2 /\ Len(raw) = b + 2
    BY <2>4, <2>8
  <2> QED BY <2>2, <2>5, <2>6, <2>7, <2>8
<1>4. \A a, b \in 1 .. Len(raw) : WellFormed(raw, a, b) => a = k /\ b = n
  BY <1>3, Zenon
<1>5. k \in 1 .. Len(raw)
  <2>1. Len(raw) \in Nat
    BY <1>1
  <2> QED BY <2>1, Nested, Zenon
<1> QED BY <1>1, <1>2, <1>4, <1>5, Zenon

\* A sent line that is broken has no form.
LEMMA BrokenHasNoForm ==
    ASSUME raw \in Seq(Char), SentBroken, NEW k \in 1 .. Len(raw), NEW n \in 1 .. Len(raw),
           WellFormed(raw, k, n)
    PROVE  FALSE
<1>1. /\ k > 1 /\ raw[k] = ":" /\ \A i \in 1 .. k - 1 : raw[i] \in InName
      /\ \A i \in k .. n : raw[i] \notin {"CR", "LF"}
  BY DEF WellFormed
<1>2. \/ Len(raw) = n + 1 /\ raw[n + 1] = "LF"
      \/ Len(raw) = n + 2 /\ raw[n + 1] = "CR" /\ raw[n + 2] = "LF"
  <2>1. SubSeq(raw, n + 1, Len(raw)) \in {<<"LF">>, <<"CR", "LF">>}
    BY DEF WellFormed
  <2> QED BY <2>1, LineEnds
<1>3. ":" \notin InName /\ "CR" \notin InName
  BY NamesHave
<1>4. ASSUME NEW i \in 1 .. Len(raw), \A j \in 1 .. i - 1 : raw[j] \in InName,
             raw[i] \notin InName \cup {"CR", "LF"}, i = 1 \/ raw[i] # ":"
      PROVE  FALSE
  <2>1. CASE i < k
    <3>1. i \in 1 .. k - 1
      BY <2>1
    <3> QED BY <1>1, <1>4, <3>1
  <2>2. CASE i = k
    <3>1. raw[i] = ":" /\ i # 1
      BY <1>1, <2>2
    <3> QED BY <1>4, <3>1
  <2>3. CASE k < i
    <3>1. k \in 1 .. i - 1
      BY <2>3
    <3> QED BY <1>1, <1>3, <1>4, <3>1
  <2>4. i < k \/ i = k \/ k < i
    OBVIOUS
  <2> QED BY <2>1, <2>2, <2>3, <2>4
<1>5. ASSUME NEW i \in 1 .. Len(raw), i < Len(raw), raw[i] = "CR", raw[i + 1] # "LF"
      PROVE  FALSE
  <2>1. CASE i < k
    <3>1. i \in 1 .. k - 1
      BY <2>1
    <3> QED BY <1>1, <1>3, <1>5, <3>1
  <2>2. CASE i >= k /\ i <= n
    <3>1. i \in k .. n
      BY <2>2
    <3> QED BY <1>1, <1>5, <3>1
  <2>3. CASE i > n
    BY <1>2, <1>5, <2>3
  <2> QED BY <2>1, <2>2, <2>3
<1> QED BY <1>4, <1>5 DEF SentBroken

\* What value says, of the places I that are no spaces.
ValueIsAt(I, v, w) ==
    I # {} /\ Min(I) = v /\ Max(I) = w /\ Text(value) = SubSeq(line, v, w)

\* The value is what is between the spaces around it.
LEMMA ValueIs ==
    ASSUME line \in Seq(Char), NEW n \in 1 .. Len(line), NEW k \in 1 .. Len(line),
           NEW I, I = {i \in k + 1 .. n : line[i] # "SP"},
           \/ value = NULL /\ Spaces(k + 1, n)
           \/ \E v, w \in 1 .. Len(line) : ValueRead(k, v, w, n)
    PROVE  IF I = {} THEN value.len = 0
           ELSE \E v, w \in 1 .. Len(line) : ValueIsAt(I, v, w) /\ k < v /\ w <= n
<1>1. CASE value = NULL /\ Spaces(k + 1, n)
  <2>1. I = {}
    BY <1>1 DEF Spaces
  <2> QED BY <1>1, <2>1 DEF NULL
<1>2. ASSUME NEW v \in 1 .. Len(line), NEW w \in 1 .. Len(line), ValueRead(k, v, w, n)
      PROVE  ValueIsAt(I, v, w)
  <2>1. /\ v \in k + 1 .. n /\ Spaces(k + 1, v - 1) /\ line[v] # "SP"
        /\ w \in v .. n /\ line[w] # "SP" /\ Spaces(w + 1, n)
        /\ value = [data |-> v + 1, len |-> (w - v) + 1]
    BY <1>2 DEF ValueRead, ValueBegins
  <2>2. v \in Int /\ w \in Int /\ k \in Int /\ n \in Int
    OBVIOUS
  <2>3. v \in I /\ w \in I /\ I \subseteq Int
    <3>1. v \in k + 1 .. n /\ w \in v .. n
      BY <2>1
    <3>2. w \in k + 1 .. n
      BY <2>2, <3>1
    <3>3. I \subseteq Int
      <4>1. k + 1 .. n \subseteq Int
        OBVIOUS
      <4> QED BY <4>1
    <3> QED BY <2>1, <3>1, <3>2, <3>3
  <2>0. \A x \in I : x \in k + 1 .. n /\ line[x] # "SP"
    OBVIOUS
  <2>4. ASSUME NEW x \in I
        PROVE  v <= x /\ x <= w
    <3>1. x \in k + 1 .. n /\ line[x] # "SP"
      BY <2>0, Zenon
    <3>2. x \notin k + 1 .. v - 1
      BY <2>1, <3>1 DEF Spaces
    <3>3. x \notin w + 1 .. n
      BY <2>1, <3>1 DEF Spaces
    <3>4. x \in Int /\ x >= k + 1 /\ x <= n /\ k + 1 \in Int
      <4>1. x \in k + 1 .. n
        BY <3>1
      <4>2. \A y \in k + 1 .. n : y \in Int /\ y >= k + 1 /\ y <= n
        BY <2>2
      <4>3. k + 1 \in Int
        BY <2>2
      <4> QED BY <4>1, <4>2, <4>3, Zenon
    <3>5. v <= x
      BY <2>2, <3>2, <3>4, Outside, Zenon
    <3>6. x <= w
      BY <2>2, <3>3, <3>4, Outside, Zenon
    <3> QED BY <3>5, <3>6
  <2>5. Min(I) = v
    BY <2>3, <2>4, MinIs
  <2>6. Max(I) = w
    BY <2>3, <2>4, MaxIs
  <2>7. value.data - 1 = v /\ value.data + (value.len - 2) = w
    <3>1. value.data = v + 1 /\ value.len = (w - v) + 1
      BY <2>1
    <3> QED BY <2>2, <3>1
  <2>8. Text(value) = SubSeq(line, v, w)
    BY <2>7, Zenon DEF Text
  <2> QED BY <2>3, <2>5, <2>6, <2>8 DEF ValueIsAt
<1>3. ASSUME NEW v \in 1 .. Len(line), NEW w \in 1 .. Len(line), ValueRead(k, v, w, n)
      PROVE  k < v /\ w <= n
  <2>1. v \in k + 1 .. n /\ w \in v .. n
    BY <1>3 DEF ValueRead, ValueBegins
  <2> QED BY <2>1
<1> QED BY <1>1, <1>2, <1>3 DEF ValueIsAt

\* Two texts that agree in a range have the same part there.
LEMMA SamePart ==
    ASSUME NEW s \in Seq(Char), NEW t \in Seq(Char), NEW p \in Nat \ {0}, NEW q \in Int,
           q <= Len(s), q <= Len(t), \A i \in p .. q : s[i] = t[i]
    PROVE  SubSeq(s, p, q) = SubSeq(t, p, q)
<1> DEFINE a == SubSeq(s, p, q)
           b == SubSeq(t, p, q)
<1>1. /\ a \in Seq(Char) /\ b \in Seq(Char) /\ Len(a) = Len(b)
      /\ Len(a) = IF p <= q THEN q - p + 1 ELSE 0
      /\ \A i \in 1 .. q - p + 1 : a[i] = s[p + i - 1] /\ b[i] = t[p + i - 1]
  BY PartIs
<1> HIDE DEF a, b
<1>2. ASSUME NEW i \in 1 .. Len(a)
      PROVE  a[i] = b[i]
  <2>1. i \in 1 .. q - p + 1 /\ p + i - 1 \in p .. q
    BY <1>1
  <2> QED BY <1>1, <2>1
<1>3. a = b
  BY <1>1, <1>2, SeqEqual
<1> QED BY <1>3 DEF a, b

\* Of the lines a client sends, those and only those that have the form of a header are
\* handed on with a name, but for a line behind a bare name; the name is the text up to the
\* colon in lower case and with underscores, the value what is between the spaces around it.
THEOREM HeaderReadHolds == Spec => []HeaderRead
<1>1. ASSUME TypeInv, HeaderInv, SentInv
      PROVE  HeaderRead
  <2> DEFINE ends == {e \in (DOMAIN raw) \X (DOMAIN raw) : WellFormed(raw, e[1], e[2])}
             Inner(e) == {i \in e[1] + 1 .. e[2] : raw[i] # "SP"}
             A == HeaderLineRead => ~behind /\ (name.len > 0 => ends # {})
             B == ~behind /\ ends # {} => HeaderLineRead
             C == \A e \in IF HeaderLineRead THEN ends ELSE {} :
                    /\ Text(name) = [i \in 1 .. e[1] - 1 |-> Lowered(raw[i])]
                    /\ IF Inner(e) = {} THEN value.len = 0
                       ELSE Text(value) = SubSeq(raw, Min(Inner(e)), Max(Inner(e)))
  <2>1. /\ raw \in Seq(Char) /\ Len(raw) \in Nat /\ DOMAIN raw = 1 .. Len(raw)
        /\ line \in Seq(Char) /\ Len(line) \in Nat
    BY <1>1 DEF SentInv, TypeInv
  <2>2. ASSUME HeaderLineRead
        PROVE  state = "HL_BEGIN" /\ AsSent
    BY <1>1, <2>2 DEF HeaderLineRead, HeaderInv, SentInv
  <2>3. ASSUME ~behind, NEW a \in 1 .. Len(raw), NEW b \in 1 .. Len(raw), WellFormed(raw, a, b)
        PROVE  HeaderLineRead
    <3>1. /\ raw[a] = ":" /\ a < Len(raw) /\ raw[Len(raw)] = "LF" /\ raw # <<>>
          /\ Len(raw) \in 1 .. Len(raw) /\ a \in 1 .. Len(raw) - 1
      <4>1. \/ Len(raw) = b + 1 /\ raw[b + 1] = "LF"
            \/ Len(raw) = b + 2 /\ raw[b + 1] = "CR" /\ raw[b + 2] = "LF"
        <5>1. SubSeq(raw, b + 1, Len(raw)) \in {<<"LF">>, <<"CR", "LF">>}
          BY <2>3 DEF WellFormed
        <5> QED BY <2>1, <5>1, LineEnds
      <4>2. raw[a] = ":" /\ raw[Len(raw)] = "LF"
        BY <2>1, <2>3, <4>1 DEF WellFormed
      <4>3. a # Len(raw)
        BY <4>2
      <4>4. a < Len(raw) /\ Len(raw) \in 1 .. Len(raw) /\ a \in 1 .. Len(raw) - 1 /\ Len(raw) # 0
        <5>1. \A m \in Nat : \A x \in 1 .. m :
                x # m => x < m /\ m \in 1 .. m /\ x \in 1 .. m - 1 /\ m # 0
          OBVIOUS
        <5> QED BY <2>1, <4>3, <5>1, Zenon
      <4>5. raw # <<>>
        BY <4>4
      <4> QED BY <4>2, <4>4, <4>5
    <3>2. ~NoEnd(raw)
      BY <3>1 DEF NoEnd
    <3>3. ~BareName(raw)
      BY <3>1, NamesHave DEF BareName
    <3>4. ~SentBroken
      BY <2>1, <2>3, BrokenHasNoForm
    <3>5. state = "HL_BEGIN"
      BY <1>1, <2>3, <3>1, <3>2, <3>3 DEF SentInv
    <3>6. result \in {"OK", "EMPTY_LINE"} /\ AsSent /\ (result = "OK" => name # NULL)
      BY <1>1, <2>3, <3>1, <3>4, <3>5 DEF SentInv
    <3>7. result # "EMPTY_LINE"
      <4>1. line[a] = ":" /\ a \in 1 .. Len(line)
        BY <2>1, <3>1, <3>6, AsKeptIs, AsKeptHas DEF AsSent
      <4>2. ASSUME line \in {<<"LF">>, <<"CR", "LF">>}
            PROVE  FALSE
        <5>1. \A i \in 1 .. Len(line) : line[i] \in {"CR", "LF"}
          BY <4>2
        <5> QED BY <4>1, <5>1
      <4> QED BY <1>1, <3>5, <4>2 DEF HeaderInv, Handed
    <3> QED BY <3>6, <3>7 DEF HeaderLineRead
  <2>4. ASSUME HeaderLineRead
        PROVE  /\ name.len > 0 => ends # {}
               /\ \A e \in ends :
                    /\ Text(name) = [i \in 1 .. e[1] - 1 |-> Lowered(raw[i])]
                    /\ IF Inner(e) = {} THEN value.len = 0
                       ELSE Text(value) = SubSeq(raw, Min(Inner(e)), Max(Inner(e)))
    <3>0. /\ result = "OK" /\ line[Len(line)] = "LF" /\ name # NULL
          /\ \/ LineRead(Len(line) - 1) /\ ~NameOnly(Len(line) - 1)
             \/ LineRead(Len(line) - 2) /\ Len(line) > 2 /\ line[Len(line) - 1] = "CR"
      BY <1>1, <2>2, <2>4 DEF HeaderInv, Handed, HeaderLineRead
    <3>1. PICK n \in Int : /\ LineRead(n)
                           /\ \/ Len(line) = n + 1 /\ line[n + 1] = "LF" /\ ~NameOnly(n)
                              \/ /\ Len(line) = n + 2 /\ line[n + 1] = "CR" /\ line[n + 2] = "LF"
                                 /\ Len(line) > 2
      <4>1. CASE LineRead(Len(line) - 1) /\ ~NameOnly(Len(line) - 1)
        <5> SUFFICES /\ Len(line) - 1 \in Int /\ Len(line) = (Len(line) - 1) + 1
                     /\ LineRead(Len(line) - 1) /\ ~NameOnly(Len(line) - 1)
                     /\ line[(Len(line) - 1) + 1] = "LF"
          OBVIOUS
        <5> QED BY <2>1, <3>0, <4>1
      <4>2. CASE LineRead(Len(line) - 2) /\ Len(line) > 2 /\ line[Len(line) - 1] = "CR"
        <5> SUFFICES /\ Len(line) - 2 \in Int /\ Len(line) = (Len(line) - 2) + 2
                     /\ LineRead(Len(line) - 2) /\ Len(line) > 2
                     /\ line[(Len(line) - 2) + 1] = "CR" /\ line[(Len(line) - 2) + 2] = "LF"
          OBVIOUS
        <5>1. (Len(line) - 2) + 1 = Len(line) - 1 /\ (Len(line) - 2) + 2 = Len(line)
          BY <2>1
        <5> QED BY <2>1, <3>0, <4>2, <5>1
      <4> QED BY <3>0, <4>1, <4>2
    <3>2. /\ Len(line) = Len(raw)
          /\ \A i \in 1 .. Len(raw) :
               /\ \A x \in {"SP", ":", "CR", "LF"} : line[i] = x <=> raw[i] = x
               /\ (\A j \in 1 .. i : raw[j] \in InName) => line[i] = Lowered(raw[i])
               /\ (\E j \in 1 .. i : raw[j] \notin InName) => line[i] = raw[i]
      <4>1. line = AsKept(raw)
        BY <2>2, <2>4 DEF AsSent
      <4>2. Len(line) = Len(raw)
        BY <2>1, <4>1, AsKeptIs
      <4>3. ASSUME NEW i \in 1 .. Len(raw)
            PROVE  /\ \A x \in {"SP", ":", "CR", "LF"} : line[i] = x <=> raw[i] = x
                   /\ (\A j \in 1 .. i : raw[j] \in InName) => line[i] = Lowered(raw[i])
                   /\ (\E j \in 1 .. i : raw[j] \notin InName) => line[i] = raw[i]
        BY <2>1, <4>1, AsKeptHas, Zenon
      <4> QED BY <4>2, <4>3, Zenon
    <3>3. CASE NameOnly(n)
      <4>1. name.len = 0 /\ n \in 1 .. Len(line) /\ \A i \in 1 .. n : line[i] \in InBuffer
        BY <3>3 DEF NameOnly
      <4>2. Len(line) = n + 2 /\ line[n + 1] = "CR" /\ line[n + 2] = "LF"
        BY <3>1, <3>3
      <4>3. ASSUME NEW e \in ends
            PROVE  FALSE
        <5>1. e[1] \in 1 .. Len(raw) /\ raw[e[1]] = ":"
          BY <2>1 DEF WellFormed
        <5>2. e[1] \in 1 .. n + 2 /\ line[e[1]] = ":"
          BY <3>2, <4>2, <5>1
        <5>3. ":" \notin InBuffer
          BY NamesHave
        <5>4. e[1] \in 1 .. n \/ e[1] = n + 1 \/ e[1] = n + 2
          BY <4>1, <5>2
        <5> QED BY <4>1, <4>2, <5>2, <5>3, <5>4
      <4> HIDE DEF ends
      <4> QED BY <4>1, <4>3
    <3>4. ASSUME NEW k \in 1 .. Len(line), NameRead(k, n),
                 \/ value = NULL /\ Spaces(k + 1, n)
                 \/ \E v, w \in 1 .. Len(line) : ValueRead(k, v, w, n)
          PROVE  /\ name.len > 0 => ends # {}
                 /\ \A e \in ends :
                      /\ Text(name) = [i \in 1 .. e[1] - 1 |-> Lowered(raw[i])]
                      /\ IF Inner(e) = {} THEN value.len = 0
                         ELSE Text(value) = SubSeq(raw, Min(Inner(e)), Max(Inner(e)))
      <4>1. /\ k \in 2 .. n /\ n <= Len(line) /\ name = [data |-> 2, len |-> k - 1] /\ line[k] = ":"
            /\ \A i \in k .. n : line[i] \notin {"CR", "LF"}
        BY <3>4 DEF NameRead
      <4>2. \A i \in 1 .. k - 1 : raw[i] \in InName
        BY <2>2, <2>4, <4>1 DEF AsSent
      <4>3. n \in 1 .. Len(raw) /\ k \in 1 .. Len(raw)
        <5>1. Len(raw) = Len(line)
          BY <3>2, Zenon
        <5>2. k \in 2 .. n /\ n <= Len(line) /\ n \in Int
          BY <4>1
        <5>3. n \in 1 .. Len(line)
          BY <2>1, <5>2
        <5> QED BY <5>1, <5>3
      <4>4. /\ \A i \in k .. n : raw[i] \notin {"CR", "LF"}
            /\ \/ Len(raw) = n + 1 /\ raw[n + 1] = "LF"
               \/ Len(raw) = n + 2 /\ raw[n + 1] = "CR" /\ raw[n + 2] = "LF"
            /\ raw[k] = ":"
        <5>1. \A i \in k .. n : i \in 1 .. Len(raw)
          BY <4>3
        <5>2. CASE Len(line) = n + 1 /\ line[n + 1] = "LF"
          BY <3>2, <4>1, <4>3, <5>1, <5>2
        <5>3. CASE Len(line) = n + 2 /\ line[n + 1] = "CR" /\ line[n + 2] = "LF"
          BY <3>2, <4>1, <4>3, <5>1, <5>3
        <5> QED BY <3>1, <5>2, <5>3
      <4>5. /\ WellFormed(raw, k, n)
            /\ \A a, b \in DOMAIN raw : WellFormed(raw, a, b) => a = k /\ b = n
        <5>1. k \in Int
          OBVIOUS
        <5> QED BY <2>1, <4>1, <4>2, <4>3, <4>4, <5>1, FormIsClear
      <4>6. ends = {<<k, n>>}
        BY <2>1, <4>3, <4>5
      <4>7. Text(name) = [i \in 1 .. k - 1 |-> Lowered(raw[i])]
        <5> DEFINE t == SubSeq(line, 1, k - 1)
        <5>1. Text(name) = t
          <6>1. name.data - 1 = 1 /\ name.data + (name.len - 2) = k - 1
            BY <4>1
          <6> QED BY <6>1, Zenon DEF Text
        <5>2. t \in Seq(Char) /\ Len(t) = k - 1 /\ \A i \in 1 .. k - 1 : t[i] = line[i]
          <6>1. 1 \in Nat \ {0} /\ k - 1 \in Int /\ k - 1 <= Len(line) /\ 1 <= k - 1
                /\ (k - 1) - 1 + 1 = k - 1 /\ \A i \in 1 .. k - 1 : 1 + i - 1 = i
            BY <4>1
          <6> QED BY <2>1, <6>1, PartIs
        <5> HIDE DEF t
        <5>3. ASSUME NEW i \in 1 .. k - 1
              PROVE  t[i] = Lowered(raw[i])
          <6>1. i \in 1 .. Len(raw) /\ \A j \in 1 .. i : j \in 1 .. k - 1
            BY <4>3
          <6> QED BY <3>2, <4>2, <5>2, <6>1
        <5>4. t = [i \in 1 .. k - 1 |-> t[i]]
          BY <5>2
        <5> QED BY <5>1, <5>3, <5>4
      <4> DEFINE I == {i \in k + 1 .. n : raw[i] # "SP"}
      <4>8. IF I = {} THEN value.len = 0 ELSE Text(value) = SubSeq(raw, Min(I), Max(I))
        <5>1. \A i \in k + 1 .. n : i \in 1 .. Len(raw) /\ k \in 1 .. i
          BY <4>3
        <5>2. \A i \in k + 1 .. n : line[i] = raw[i]
          BY <3>2, <4>4, <5>1, NamesHave
        <5>3. I = {i \in k + 1 .. n : line[i] # "SP"}
          BY <5>2
        <5> HIDE DEF I
        <5>4. IF I = {} THEN value.len = 0
              ELSE \E v, w \in 1 .. Len(line) : ValueIsAt(I, v, w) /\ k < v /\ w <= n
          BY <2>1, <3>2, <3>4, <4>3, <5>3, ValueIs
        <5>5. ASSUME I # {}
              PROVE  Text(value) = SubSeq(raw, Min(I), Max(I))
          <6>1. PICK v \in 1 .. Len(line), w \in 1 .. Len(line) :
                  ValueIsAt(I, v, w) /\ k < v /\ w <= n
            BY <5>4, <5>5
          <6>2. SubSeq(line, v, w) = SubSeq(raw, v, w)
            <7>1. v \in Nat \ {0} /\ w \in Int /\ w <= Len(line) /\ w <= Len(raw)
                  /\ \A i \in v .. w : i \in k + 1 .. n
              BY <2>1, <3>2, <6>1
            <7>2. \A i \in v .. w : line[i] = raw[i]
              BY <5>2, <7>1
            <7> QED BY <2>1, <7>1, <7>2, SamePart
          <6> QED BY <6>1, <6>2, Zenon DEF ValueIsAt
        <5> QED BY <5>4, <5>5
      <4>9. ASSUME NEW e \in ends
            PROVE  /\ Text(name) = [i \in 1 .. e[1] - 1 |-> Lowered(raw[i])]
                   /\ IF Inner(e) = {} THEN value.len = 0
                      ELSE Text(value) = SubSeq(raw, Min(Inner(e)), Max(Inner(e)))
        <5>1. e[1] = k /\ e[2] = n
          BY <4>6
        <5>2. Inner(e) = I
          BY <5>1
        <5> QED BY <4>7, <4>8, <5>1, <5>2
      <4>10. ends # {}
        BY <4>6
      <4> QED BY <4>9, <4>10
    <3>5. n # 0 \/ name # NULL
      BY <3>0
    <3> QED BY <3>0, <3>1, <3>3, <3>4 DEF LineRead
  <2>5. A
    BY <2>2, <2>4 DEF AsSent
  <2>6. B
    BY <2>1, <2>3
  <2>7. C
    BY <2>4
  <2> QED BY <2>5, <2>6, <2>7, Zenon DEF HeaderRead
<1> QED BY <1>1, SentKept, PTL

-------------------------------------------------------------------------------
(* The entries of a path.                                                  *)

\* Where the entry behind the slash at i ends.
EntryEnd(P, i) == Min({j \in Where(P, "/") : j > i} \cup {Len(P) + 1})

\* An entry is from behind its slash to its end.
LEMMA EntryIs ==
    ASSUME NEW P, NEW i
    PROVE  Entry(P, i) = SubSeq(P, i + 1, EntryEnd(P, i) - 1)
  BY DEF Entry, EntryEnd

\* An entry ends at the next slash, or with its path.
LEMMA EntryEnds ==
    ASSUME NEW P \in Seq(Char), NEW i \in Nat, NEW m \in 1 .. Len(P) + 1, i < m,
           m <= Len(P) => P[m] = "/", \A j \in 1 .. m - 1 : j > i => P[j] # "/"
    PROVE  EntryEnd(P, i) = m
<1> DEFINE S == {j \in Where(P, "/") : j > i} \cup {Len(P) + 1}
<1>1. S \in SUBSET Int
  BY WhereIs
<1>2. m \in S
  BY WhereIs
<1>3. \A x \in S : m <= x
  <2> SUFFICES ASSUME NEW x \in S, x < m
               PROVE  FALSE
    BY <1>1
  <2>1. x \in 1 .. m - 1 /\ x > i /\ P[x] = "/"
    BY WhereIs
  <2> QED BY <2>1
<1> HIDE DEF S
<1>4. Min(S) = m
  BY <1>1, <1>2, <1>3, MinIs
<1> QED BY <1>4 DEF EntryEnd, S

\* The entry behind a slash that is not the last ends at the next one.
LEMMA EntryEndExists ==
    ASSUME NEW P \in Seq(Char), NEW i \in Nat, NEW k \in 1 .. Len(P), i < k, P[k] = "/"
    PROVE  LET m == EntryEnd(P, i)
           IN  /\ m \in 1 .. k /\ i < m /\ P[m] = "/"
               /\ \A j \in 1 .. m - 1 : j > i => P[j] # "/"
<1> DEFINE S == {j \in Where(P, "/") : j > i} \cup {Len(P) + 1}
           m == Min(S)
<1>1. S \in SUBSET Nat /\ k \in S
  BY WhereIs
<1>2. \A x \in S : x = Len(P) + 1 \/ (x \in 1 .. Len(P) /\ x > i /\ P[x] = "/")
  BY WhereIs
<1>3. \A j \in 1 .. Len(P) : j > i /\ P[j] = "/" => j \in S
  BY WhereIs
<1> HIDE DEF S
<1>4. m \in S /\ \A x \in S : m <= x
  BY <1>1, MinExists
<1> HIDE DEF m
<1>5. m \in Nat /\ m <= k
  BY <1>1, <1>4
<1>6. m \in 1 .. k /\ i < m /\ P[m] = "/"
  BY <1>2, <1>4, <1>5
<1>7. \A j \in 1 .. m - 1 : j > i => P[j] # "/"
  <2> SUFFICES ASSUME NEW j \in 1 .. m - 1, j > i, P[j] = "/"
               PROVE  FALSE
    OBVIOUS
  <2>1. j \in S
    BY <1>3, <1>6
  <2> QED BY <1>4, <1>6, <2>1
<1>8. m = EntryEnd(P, i)
  BY DEF m, S, EntryEnd
<1> QED BY <1>6, <1>7, <1>8, Zenon

\* An entry that has ended stays as it is.
LEMMA EntryStays ==
    ASSUME NEW P \in Seq(Char), NEW c \in Char,
           NEW i \in Nat, NEW k \in 1 .. Len(P), i < k, P[k] = "/"
    PROVE  Entry(Append(P, c), i) = Entry(P, i)
<1> DEFINE m == EntryEnd(P, i)
<1>1. /\ m \in 1 .. k /\ i < m /\ P[m] = "/"
      /\ \A j \in 1 .. m - 1 : j > i => P[j] # "/"
  BY EntryEndExists
<1> HIDE DEF m
<1> DEFINE Q == Append(P, c)
<1>2. Q \in Seq(Char) /\ Len(Q) = Len(P) + 1 /\ \A j \in 1 .. Len(P) : Q[j] = P[j]
  OBVIOUS
<1>3. EntryEnd(Q, i) = m
  <2> HIDE DEF Q
  <2>1. m \in 1 .. Len(Q) + 1 /\ Q[m] = "/" /\ \A j \in 1 .. m - 1 : j > i => Q[j] # "/"
    BY <1>1, <1>2
  <2> QED BY <1>1, <1>2, <2>1, EntryEnds
<1>4. SubSeq(Q, i + 1, m - 1) = SubSeq(P, i + 1, m - 1)
  BY <1>1, PartStays
<1> QED BY <1>3, <1>4, EntryIs DEF m

\* The entry of the last slash is the rest of the path.
LEMMA EntryOfLast ==
    ASSUME NEW P \in Seq(Char), NEW s, LastAt(P, s)
    PROVE  Entry(P, s) = Rest(P, s)
<1>1. /\ s \in Nat /\ Len(P) + 1 \in 1 .. Len(P) + 1 /\ s < Len(P) + 1
      /\ \A j \in 1 .. (Len(P) + 1) - 1 : j > s => P[j] # "/"
  BY DEF LastAt
<1>2. EntryEnd(P, s) = Len(P) + 1
  BY <1>1, EntryEnds
<1> QED BY <1>2, EntryIs DEF Rest

\* The last entry is the rest behind the last slash.
LEMMA LastEntryIs ==
    ASSUME NEW P \in Seq(Char), NEW s, LastAt(P, s)
    PROVE  LastEntry(P) = Rest(P, s)
<1> DEFINE S == Where(P, "/")
<1>1. S \in SUBSET Int /\ s \in S /\ \A x \in S : x <= s
  BY WhereIs DEF LastAt
<1> HIDE DEF S
<1>2. Max(S) = s
  BY <1>1, MaxIs
<1> QED BY <1>2, EntryOfLast DEF LastEntry, S

\* The last entry ends with a slash.
LEMMA EntryCloses ==
    ASSUME NEW P \in Seq(Char), NEW s, LastAt(P, s)
    PROVE  Entry(Append(P, "/"), s) = Entry(P, s)
<1> DEFINE Q == Append(P, "/")
<1>1. "/" \in Char
  BY DEF Char
<1>2. /\ Q \in Seq(Char) /\ Len(Q) = Len(P) + 1 /\ \A j \in 1 .. Len(P) : Q[j] = P[j]
      /\ Q[Len(P) + 1] = "/"
  BY <1>1
<1>3. s \in 1 .. Len(P) /\ \A j \in 1 .. Len(P) : j > s => P[j] # "/"
  BY DEF LastAt
<1>4. EntryEnd(Q, s) = Len(P) + 1
  <2> HIDE DEF Q
  <2>1. /\ Len(P) + 1 \in 1 .. Len(Q) + 1 /\ s < Len(P) + 1
        /\ \A j \in 1 .. (Len(P) + 1) - 1 : j > s => Q[j] # "/"
    BY <1>2, <1>3
  <2>2. s \in Nat /\ Q \in Seq(Char) /\ Q[Len(P) + 1] = "/"
    BY <1>2, <1>3
  <2>3. \A m \in 1 .. Len(Q) + 1 :
          (/\ s < m /\ (m <= Len(Q) => Q[m] = "/")
           /\ \A j \in 1 .. m - 1 : j > s => Q[j] # "/") => EntryEnd(Q, s) = m
    BY <2>2, EntryEnds
  <2> QED BY <2>1, <2>2, <2>3
<1>5. SubSeq(Q, s + 1, Len(P)) = SubSeq(P, s + 1, Len(P))
  BY <1>1, <1>3, PartStays
<1>6. Entry(Q, s) = SubSeq(Q, s + 1, Len(P))
  <2>1. EntryEnd(Q, s) - 1 = Len(P)
    BY <1>4
  <2> QED BY <2>1, EntryIs, Zenon
<1> QED BY <1>5, <1>6, EntryOfLast DEF Rest

-------------------------------------------------------------------------------
(* Counting them.                                                          *)

\* The counts of the entries up to l depend on these entries only.
LEMMA TallyStays ==
    ASSUME NEW P \in Seq(Char), NEW c \in Char, NEW l \in 0 .. Len(P),
           \A j \in Where(P, "/") : j <= l => Entry(Append(P, c), j) = Entry(P, j),
           NEW n, NEW d, Tally(P, l, n, d)
    PROVE  Tally(Append(P, c), l, n, d)
<1> DEFINE Q == Append(P, c)
<1>1. /\ Q \in Seq(Char) /\ Len(Q) = Len(P) + 1 /\ \A j \in 1 .. Len(P) : Q[j] = P[j]
  OBVIOUS
<1>2. \A j \in Where(P, "/") : j <= l => Entry(Q, j) = Entry(P, j)
  OBVIOUS
<1> HIDE DEF Q
<1>3. \A j : j \in Where(Q, "/") /\ j <= l <=> j \in Where(P, "/") /\ j <= l
  <2>1. Where(P, "/") \subseteq 1 .. Len(P) /\ Where(Q, "/") \subseteq 1 .. Len(Q)
    BY <1>1, WhereIs
  <2>2. \A j \in 1 .. l : j \in Where(P, "/") <=> P[j] = "/"
    BY WhereIs
  <2>3. \A j \in 1 .. l : j \in Where(Q, "/") <=> Q[j] = "/"
    BY <1>1, WhereIs
  <2> QED BY <1>1, <2>1, <2>2, <2>3
<1>4. ASSUME NEW i \in 0 .. l
      PROVE  Ords(Q, i) = Ords(P, i) /\ Pars(Q, i) = Pars(P, i)
  <2>1. Where(P, "/") \subseteq Int /\ Where(Q, "/") \subseteq Int
    BY <1>1, WhereIs
  <2>2. \A j : j \in Where(Q, "/") /\ j <= i <=> j \in Where(P, "/") /\ j <= i
    BY <1>3, <2>1
  <2>3. \A j \in Where(P, "/") : j <= i => Entry(Q, j) = Entry(P, j)
    BY <1>2, <2>1
  <2> QED BY <2>2, <2>3, Zenon DEF Ords, Pars
<1>5. ClimbsBy(Q, l) <=> ClimbsBy(P, l)
  <2>1. \A i \in Where(P, "/") : i <= l => i \in 0 .. l
    BY WhereIs
  <2>2. \A i \in Where(Q, "/") : i <= l => i \in 0 .. l
    BY <1>1, WhereIs
  <2> QED BY <1>3, <1>4, <2>1, <2>2, Zenon DEF ClimbsBy
<1>6. AllDotted(Q, l) <=> AllDotted(P, l)
  BY <1>2, <1>3, Zenon DEF AllDotted
<1>7. l \in 0 .. l
  OBVIOUS
<1>8. Ords(Q, l) = Ords(P, l) /\ Pars(Q, l) = Pars(P, l)
  BY <1>4, <1>7, Zenon
<1>9. Tally(Q, l, n, d)
  BY <1>5, <1>6, <1>8 DEF Tally
<1> QED BY <1>9 DEF Q

\* The entries of a path are counted.
LEMMA Finite ==
    ASSUME NEW P \in Seq(Char), NEW i
    PROVE  /\ IsFiniteSet(Ords(P, i)) /\ Cardinality(Ords(P, i)) \in Nat
           /\ IsFiniteSet(Pars(P, i)) /\ Cardinality(Pars(P, i)) \in Nat
<1>1. IsFiniteSet(1 .. Len(P))
  BY FS_Interval
<1>2. Ords(P, i) \in SUBSET (1 .. Len(P)) /\ Pars(P, i) \in SUBSET (1 .. Len(P))
  BY WhereIs DEF Ords, Pars
<1>3. IsFiniteSet(Ords(P, i)) /\ IsFiniteSet(Pars(P, i))
  BY <1>1, <1>2, FS_Subset
<1> QED BY <1>3, FS_CardinalityType

\* Behind the last slash no other one is counted.
LEMMA CountedByLast ==
    ASSUME NEW P \in Seq(Char), NEW s, LastAt(P, s), NEW l \in s .. Len(P)
    PROVE  /\ Ords(P, l) = Ords(P, s - 1) \cup {j \in {s} : Ordinary(Rest(P, s))}
           /\ Pars(P, l) = Pars(P, s - 1) \cup {j \in {s} : Rest(P, s) = Parent}
           /\ s \notin Ords(P, s - 1) /\ s \notin Pars(P, s - 1)
<1>1. \A j : j \in Where(P, "/") /\ j <= l <=> (j \in Where(P, "/") /\ j <= s - 1) \/ j = s
  <2>1. \A j \in 1 .. Len(P) : P[j] = "/" => j <= s
    BY DEF LastAt
  <2>2. s \in Where(P, "/") /\ s \in 1 .. Len(P) /\ s <= l
    BY WhereIs DEF LastAt
  <2>3. \A j \in Where(P, "/") : (j <= s - 1 \/ j = s) /\ (j <= s - 1 => j <= l)
    BY <2>1, <2>2, WhereIs
  <2> QED BY <2>2, <2>3, Zenon
<1>2. Entry(P, s) = Rest(P, s)
  BY EntryOfLast
<1>3. ~(s <= s - 1)
  BY DEF LastAt
<1>4. Ords(P, l) = Ords(P, s - 1) \cup {j \in {s} : Ordinary(Rest(P, s))}
  BY <1>1, <1>2, Zenon DEF Ords
<1>5. Pars(P, l) = Pars(P, s - 1) \cup {j \in {s} : Rest(P, s) = Parent}
  BY <1>1, <1>2, Zenon DEF Pars
<1> QED BY <1>3, <1>4, <1>5, Zenon DEF Ords, Pars

\* The counts of entries and parents when the last entry is closed.
LEMMA NumberByLast ==
    ASSUME NEW P \in Seq(Char), NEW s, LastAt(P, s), NEW l \in s .. Len(P)
    PROVE  /\ Cardinality(Ords(P, l)) = IF Ordinary(Rest(P, s)) THEN Cardinality(Ords(P, s - 1)) + 1
                                        ELSE Cardinality(Ords(P, s - 1))
           /\ Cardinality(Pars(P, l)) = IF Rest(P, s) = Parent THEN Cardinality(Pars(P, s - 1)) + 1
                                        ELSE Cardinality(Pars(P, s - 1))
<1> DEFINE A == Ords(P, s - 1)
           B == Pars(P, s - 1)
<1>1. IsFiniteSet(A) /\ IsFiniteSet(B) /\ s \notin A /\ s \notin B
  BY Finite, CountedByLast, Zenon
<1>2. Ords(P, l) = IF Ordinary(Rest(P, s)) THEN A \cup {s} ELSE A
  <2>1. Ords(P, l) = A \cup {j \in {s} : Ordinary(Rest(P, s))}
    BY CountedByLast, Zenon
  <2> HIDE DEF A
  <2> QED BY <2>1
<1>3. Pars(P, l) = IF Rest(P, s) = Parent THEN B \cup {s} ELSE B
  <2>1. Pars(P, l) = B \cup {j \in {s} : Rest(P, s) = Parent}
    BY CountedByLast, Zenon
  <2> HIDE DEF B
  <2> QED BY <2>1
<1> HIDE DEF A, B
<1>4. Cardinality(A \cup {s}) = Cardinality(A) + 1 /\ Cardinality(B \cup {s}) = Cardinality(B) + 1
  BY <1>1, FS_AddElement
<1> QED BY <1>2, <1>3, <1>4 DEF A, B

\* A path climbs out of the root in its last entry or before it.
LEMMA ClimbsByLast ==
    ASSUME NEW P \in Seq(Char), NEW s, LastAt(P, s)
    PROVE  /\ ClimbsBy(P, Len(P)) <=>
                ClimbsBy(P, s - 1)
                  \/ Cardinality(Ords(P, Len(P))) < Cardinality(Pars(P, Len(P)))
           /\ AllDotted(P, Len(P)) <=>
                AllDotted(P, s - 1) /\ (Ordinary(Rest(P, s)) => Dotted(Rest(P, s)))
<1>1. s \in Where(P, "/") /\ s \in 1 .. Len(P)
  BY WhereIs DEF LastAt
<1>2. \A j \in Where(P, "/") : j \in 1 .. Len(P) /\ j <= Len(P) /\ (j <= s - 1 \/ j = s)
  <2>1. \A j \in 1 .. Len(P) : P[j] = "/" => j <= s
    BY DEF LastAt
  <2> QED BY <1>1, <2>1, WhereIs
<1>3. Entry(P, s) = Rest(P, s)
  BY EntryOfLast
<1>4. /\ Cardinality(Ords(P, s)) = Cardinality(Ords(P, Len(P)))
      /\ Cardinality(Pars(P, s)) = Cardinality(Pars(P, Len(P)))
  <2>1. s \in s .. Len(P) /\ Len(P) \in s .. Len(P)
    BY <1>1
  <2>2. \A l \in s .. Len(P) :
          /\ Ords(P, l) = Ords(P, s - 1) \cup {j \in {s} : Ordinary(Rest(P, s))}
          /\ Pars(P, l) = Pars(P, s - 1) \cup {j \in {s} : Rest(P, s) = Parent}
    BY CountedByLast, Zenon
  <2>3. Ords(P, s) = Ords(P, Len(P)) /\ Pars(P, s) = Pars(P, Len(P))
    BY <2>1, <2>2, Zenon
  <2> QED BY <2>3, Zenon
<1>5. ClimbsBy(P, Len(P)) <=>
                ClimbsBy(P, s - 1)
                  \/ Cardinality(Ords(P, Len(P))) < Cardinality(Pars(P, Len(P)))
  BY <1>1, <1>2, <1>4, Zenon DEF ClimbsBy
<1>6. AllDotted(P, Len(P)) <=>
                AllDotted(P, s - 1) /\ (Ordinary(Rest(P, s)) => Dotted(Rest(P, s)))
  BY <1>1, <1>2, <1>3, Zenon DEF AllDotted
<1> QED BY <1>5, <1>6

\* What the automaton adds to its counts at the end of the entry e.
CountsEnd(e, n, d, n2, d2) ==
    \/ e = Parent /\ n2 = n /\ d2 = d + 1
    \/ Dotted(e) /\ n2 = Count(n, d) /\ d2 = d
    \/ Ordinary(e) /\ ~Dotted(e) /\ n2 = Count(Count(n, d), d) /\ d2 = d
    \/ ~Ordinary(e) /\ e # Parent /\ n2 = n /\ d2 = d

\* Closing an entry keeps the counts those of the path.
LEMMA TallyStep ==
    ASSUME NEW P \in Seq(Char), NEW s, LastAt(P, s), NEW n, NEW d, Tally(P, s - 1, n, d),
           NEW n2, NEW d2, CountsEnd(Rest(P, s), n, d, n2, d2)
    PROVE  Tally(P, Len(P), n2, d2)
<1> DEFINE e == Rest(P, s)
           o1 == Cardinality(Ords(P, s - 1))
           o2 == Cardinality(Ords(P, Len(P)))
           p2 == Cardinality(Pars(P, Len(P)))
           climbs1 == ClimbsBy(P, s - 1)
           climbs2 == ClimbsBy(P, Len(P))
           dotted1 == AllDotted(P, s - 1)
           dotted2 == AllDotted(P, Len(P))
<1>1. /\ n \in Nat /\ d \in Nat /\ o1 \in Nat
      /\ ~climbs1 => n >= o1 /\ o1 >= d
      /\ dotted1 => IF climbs1 THEN n < d ELSE n = o1
  BY Finite DEF Tally
<1>2. /\ o2 = IF Ordinary(e) THEN o1 + 1 ELSE o1
      /\ p2 = IF e = Parent THEN d + 1 ELSE d
  <2>1. Len(P) \in s .. Len(P)
    BY DEF LastAt
  <2> QED BY <2>1, NumberByLast DEF Tally
<1>3. /\ climbs2 <=> (climbs1 \/ o2 < p2)
      /\ dotted2 <=> (dotted1 /\ (Ordinary(e) => Dotted(e)))
  BY ClimbsByLast, Zenon
<1>4. (e = Parent => ~Ordinary(e)) /\ (Dotted(e) => Ordinary(e))
  BY DEF Ordinary, Dotted
<1>5. CountsEnd(e, n, d, n2, d2)
  OBVIOUS
<1>6. Tally(P, Len(P), n2, d2) <=>
        /\ n2 \in Nat /\ d2 = p2
        /\ ~climbs2 => n2 >= o2 /\ o2 >= d2
        /\ dotted2 => IF climbs2 THEN n2 < d2 ELSE n2 = o2
  BY DEF Tally
<1> HIDE DEF e, o1, o2, p2, climbs1, climbs2, dotted1, dotted2
<1> SUFFICES /\ n2 \in Nat /\ d2 = p2
             /\ ~climbs2 => n2 >= o2 /\ o2 >= d2
             /\ dotted2 => IF climbs2 THEN n2 < d2 ELSE n2 = o2
  BY <1>6
<1>7. CASE e = Parent /\ n2 = n /\ d2 = d + 1
  BY <1>1, <1>2, <1>3, <1>4, <1>7
<1>8. CASE Dotted(e) /\ n2 = Count(n, d) /\ d2 = d
  BY <1>1, <1>2, <1>3, <1>4, <1>8 DEF Count
<1>9. CASE Ordinary(e) /\ ~Dotted(e) /\ n2 = Count(Count(n, d), d) /\ d2 = d
  BY <1>1, <1>2, <1>3, <1>4, <1>9 DEF Count
<1>10. CASE ~Ordinary(e) /\ e # Parent /\ n2 = n /\ d2 = d
  BY <1>1, <1>2, <1>3, <1>4, <1>10
<1> QED BY <1>5, <1>7, <1>8, <1>9, <1>10, Zenon DEF CountsEnd

\* No entry is counted before the first slash.
LEMMA TallyBegins ==
    ASSUME NEW P \in Seq(Char)
    PROVE  Tally(P, 0, 0, 0)
<1>1. Where(P, "/") \subseteq 1 .. Len(P)
  BY WhereIs
<1>2. Ords(P, 0) = {} /\ Pars(P, 0) = {}
  BY <1>1 DEF Ords, Pars
<1>3. ~ClimbsBy(P, 0)
  BY <1>1 DEF ClimbsBy
<1>4. Cardinality(Ords(P, 0)) = 0 /\ Cardinality(Pars(P, 0)) = 0
  BY <1>2, FS_EmptySet, Zenon
<1> QED BY <1>3, <1>4 DEF Tally

-------------------------------------------------------------------------------
(* The entry that is being read.                                           *)

\* An entry is ordinary by its length and its first two characters.
LEMMA Kinds ==
    ASSUME NEW e \in Seq(Char)
    PROVE  /\ Ordinary(e) <=> /\ Len(e) > 0 /\ ~(Len(e) = 1 /\ e[1] = ".")
                              /\ ~(Len(e) = 2 /\ e[1] = "." /\ e[2] = ".")
           /\ Dotted(e) <=> Ordinary(e) /\ \E i \in 1 .. Len(e) : e[i] = "."
           /\ Where(e, ".") = {} <=> \A i \in 1 .. Len(e) : e[i] # "."
<1>1. Ordinary(e) <=> /\ Len(e) > 0 /\ ~(Len(e) = 1 /\ e[1] = ".")
                      /\ ~(Len(e) = 2 /\ e[1] = "." /\ e[2] = ".")
  <2>1. Len(e) \in Nat
    OBVIOUS
  <2>2. Ordinary(e) <=> e # <<>> /\ e # <<".">> /\ e # Parent
    BY DEF Ordinary
  <2>3. Len(e) > 0 <=> Len(e) # 0
    BY <2>1
  <2> QED BY <2>2, <2>3, TextOf, Zenon
<1>2. Where(e, ".") = {} <=> \A i \in 1 .. Len(e) : e[i] # "."
  BY WhereIs
<1>3. Dotted(e) <=> Ordinary(e) /\ \E i \in 1 .. Len(e) : e[i] = "."
  BY <1>2, Zenon DEF Dotted
<1> QED BY <1>1, <1>2, <1>3, Zenon

\* A text with one more character.
LEMMA EntryGrows ==
    ASSUME NEW e \in Seq(Char), NEW c \in Char
    PROVE  /\ Append(e, c) \in Seq(Char) /\ Len(e) \in Nat /\ Len(Append(e, c)) = Len(e) + 1
           /\ Append(e, c)[Len(e) + 1] = c /\ \A i \in 1 .. Len(e) : Append(e, c)[i] = e[i]
  OBVIOUS

\* Where a dot leads.
LEMMA DotMoves ==
    /\ UriMove("ABS_PATH_SLASH", ".") = "ABS_PATH_DOT"
    /\ UriMove("ABS_PATH_DOT", ".") = "ABS_PATH_DDOT"
    /\ UriMove("ABS_PATH_ENTRY", ".") = "EXTENSION"
  BY PathMoveIs

\* A character that does not end the entry.
LEMMA EntryStep ==
    ASSUME NEW e \in Seq(Char), NEW b \in Int, NEW u, EntryRead(e, b, u.state, u.extension),
           NEW c \in Char, c \notin PathEnd, UriMove(u.state, c) # "ERROR"
    PROVE  EntryRead(Append(e, c), b, UriMove(u.state, c),
                     Extension(u, c, b + (Len(e) + 1)))
<1> DEFINE g == Append(e, c)
           s == UriMove(u.state, c)
           x == Extension(u, c, b + (Len(e) + 1))
<1>1. /\ g \in Seq(Char) /\ Len(e) \in Nat /\ Len(g) = Len(e) + 1
      /\ g[Len(e) + 1] = c /\ \A i \in 1 .. Len(e) : g[i] = e[i]
  BY EntryGrows
<1>2. c # "SP" /\ c # "/" /\ c # "?" /\ s # "ERROR"
  BY DEF PathEnd
<1>3. "." \notin Allowed
  BY DEF Allowed, Letter, Upper, Lower, Digit
<1> HIDE DEF g
<1>4. CASE u.state = "ABS_PATH_SLASH"
  <2>1. e = <<>> /\ u.extension = NULL
    BY <1>4 DEF EntryRead
  <2>2. x = NULL
    BY <1>4, <2>1 DEF Extension
  <2>3. Len(e) = 0
    BY <2>1
  <2>4. CASE c = "."
    <3>1. s = "ABS_PATH_DOT"
      BY <1>4, <2>4, DotMoves
    <3>2. g = <<".">>
      BY <1>1, <2>3, <2>4, TextOf
    <3> QED BY <2>2, <3>1, <3>2 DEF EntryRead, g
  <2>5. CASE c # "."
    <3>1. s = "ABS_PATH_ENTRY"
      BY <1>2, <1>4, <2>5, PathMoveIs
    <3>2. g # <<>> /\ Where(g, ".") = {}
      BY <1>1, <2>3, <2>5, TextOf, Kinds
    <3> QED BY <2>2, <3>1, <3>2 DEF EntryRead, g
  <2> QED BY <2>4, <2>5
<1>5. CASE u.state = "ABS_PATH_DOT"
  <2>1. e = <<".">> /\ u.extension = NULL
    BY <1>5 DEF EntryRead
  <2>2. Len(e) = 1 /\ e[1] = "."
    BY <2>1
  <2>3. g[1] = "." /\ g[2] = c /\ Len(g) = 2
    BY <1>1, <2>2
  <2>4. CASE c = "."
    <3>1. s = "ABS_PATH_DDOT"
      BY <1>5, <2>4, DotMoves
    <3>2. g = Parent
      BY <1>1, <2>3, <2>4, TextOf
    <3>3. x = NULL
      BY <1>3, <1>5, <2>1, <2>4 DEF Extension
    <3> QED BY <3>1, <3>2, <3>3 DEF EntryRead, g
  <2>5. CASE c # "."
    <3>1. s = "EXTENSION" /\ c \in Allowed
      BY <1>2, <1>5, <2>5, PathMoveIs
    <3>2. Dotted(g)
      BY <1>1, <2>3, <2>5, Kinds
    <3>3. DotAt(g, 1)
      BY <2>3, <2>5 DEF DotAt
    <3>4. x = [data |-> b + 1, len |-> 0]
      BY <1>5, <2>1, <2>2, <3>1 DEF Extension, From, NULL
    <3>5. 1 \in 1 .. Len(g)
      BY <2>3
    <3> QED BY <3>1, <3>2, <3>3, <3>4, <3>5 DEF EntryRead, g
  <2> QED BY <2>4, <2>5
<1>6. CASE u.state = "ABS_PATH_DDOT"
  <2>1. e = Parent /\ u.extension = NULL
    BY <1>6 DEF EntryRead
  <2>2. Len(e) = 2 /\ e[1] = "." /\ e[2] = "."
    BY <2>1, TextOf
  <2>3. g[1] = "." /\ g[2] = "." /\ g[3] = c /\ Len(g) = 3
    BY <1>1, <2>2
  <2>4. s = "EXTENSION" /\ c \in Allowed \cup {"."}
    BY <1>2, <1>6, PathMoveIs
  <2>5. Dotted(g)
    <3>1. Len(g) > 0 /\ Len(g) # 1 /\ Len(g) # 2 /\ 1 \in 1 .. Len(g)
      BY <2>3
    <3> QED BY <1>1, <2>3, <3>1, Kinds, Zenon
  <2>6. DotAt(g, 3)
    BY <2>3 DEF DotAt
  <2>7. x = [data |-> b + 3, len |-> 0]
    BY <1>6, <2>1, <2>2, <2>4 DEF Extension, From, NULL
  <2>8. 3 \in 1 .. Len(g)
    BY <2>3
  <2> QED BY <2>4, <2>5, <2>6, <2>7, <2>8 DEF EntryRead, g
<1>7. CASE u.state = "ABS_PATH_ENTRY"
  <2>1. e # <<>> /\ Where(e, ".") = {} /\ u.extension = NULL
    BY <1>7 DEF EntryRead
  <2>2. Len(e) > 0 /\ \A i \in 1 .. Len(e) : e[i] # "."
    BY <1>1, <2>1, TextOf, Kinds
  <2>3. CASE c = "."
    <3>1. s = "EXTENSION"
      BY <1>7, <2>3, DotMoves
    <3>2. Len(g) > 1 /\ g[1] # "." /\ Len(g) \in 1 .. Len(g) /\ g[Len(g)] = "."
      BY <1>1, <2>2, <2>3
    <3>3. Dotted(g)
      BY <1>1, <3>2, Kinds
    <3>4. DotAt(g, Len(g))
      BY <3>2 DEF DotAt
    <3>5. x = [data |-> b + Len(g), len |-> 0]
      BY <1>1, <1>7, <2>1, <2>3 DEF Extension, From, NULL
    <3> QED BY <3>1, <3>2, <3>3, <3>4, <3>5 DEF EntryRead, g
  <2>4. CASE c # "."
    <3>1. s = "ABS_PATH_ENTRY"
      BY <1>2, <1>7, <2>4, PathMoveIs
    <3>2. g # <<>> /\ Where(g, ".") = {}
      BY <1>1, <2>2, <2>4, TextOf, Kinds
    <3>3. x = NULL
      BY <1>2, <1>7, <2>1, <2>4 DEF Extension
    <3> QED BY <3>1, <3>2, <3>3 DEF EntryRead, g
  <2> QED BY <2>3, <2>4
<1>8. CASE u.state = "EXTENSION"
  <2>1. Dotted(e)
    BY <1>8 DEF EntryRead
  <2>2. PICK d \in 1 .. Len(e) : DotAt(e, d) /\ u.extension = [data |-> b + d, len |-> 0]
    BY <1>8 DEF EntryRead
  <2>3. s = "EXTENSION"
    BY <1>2, <1>8, PathMoveIs
  <2>4. Dotted(g)
    <3>1. PICK i \in 1 .. Len(e) : e[i] = "."
      BY <2>1, Kinds
    <3>2. i \in 1 .. Len(g) /\ g[i] = "."
      BY <1>1, <3>1
    <3>3. Len(e) > 0 /\ ~(Len(e) = 1 /\ e[1] = ".")
      BY <2>1, Kinds
    <3>4. Len(g) > 0 /\ ~(Len(g) = 1 /\ g[1] = ".") /\ ~(Len(g) = 2 /\ g[1] = "." /\ g[2] = ".")
      <4>1. 1 \in 1 .. Len(e) /\ Len(g) > 1 /\ (Len(g) = 2 => Len(e) = 1)
        <5>1. Len(e) > 0 /\ Len(g) = Len(e) + 1 /\ Len(e) \in Nat
          BY <1>1, <3>3
        <5>2. \A m \in Nat : m > 0 => 1 \in 1 .. m /\ m + 1 > 1 /\ (m + 1 = 2 => m = 1)
          OBVIOUS
        <5> QED BY <5>1, <5>2, Zenon
      <4>2. g[1] = e[1]
        BY <1>1, <4>1, Zenon
      <4>3. Len(g) # 1 /\ Len(g) > 0
        BY <1>1, <4>1
      <4> QED BY <3>3, <4>1, <4>2, <4>3, Zenon
    <3> QED BY <1>1, <3>2, <3>4, Kinds
  <2>5. CASE c = "."
    <3>1. Len(g) \in 1 .. Len(g) /\ DotAt(g, Len(g))
      <4>1. Len(g) = 2 => g[1] # "."
        <5>1. 1 \in 1 .. Len(e) /\ (Len(g) = 2 => Len(e) = 1)
          <6>1. d \in 1 .. Len(e) /\ Len(g) = Len(e) + 1 /\ Len(e) \in Nat
            BY <1>1
          <6>2. \A m \in Nat : \A i \in 1 .. m : 1 \in 1 .. m /\ (m + 1 = 2 => m = 1)
            OBVIOUS
          <6> QED BY <6>1, <6>2, Zenon
        <5>2. g[1] = e[1]
          BY <1>1, <5>1, Zenon
        <5>3. ~(Len(e) = 1 /\ e[1] = ".")
          BY <2>1, Kinds, Zenon
        <5> QED BY <5>1, <5>2, <5>3, Zenon
      <4> QED BY <1>1, <2>5, <4>1 DEF DotAt
    <3>2. x = [data |-> b + Len(g), len |-> 0]
      BY <1>1, <1>8, <2>2, <2>5 DEF Extension, From
    <3> QED BY <2>3, <2>4, <3>1, <3>2 DEF EntryRead, g
  <2>6. CASE c # "."
    <3>1. d \in 1 .. Len(g) /\ DotAt(g, d)
      <4>1. d \in 1 .. Len(g) /\ g[d] = e[d]
        BY <1>1
      <4>2. \A i \in d + 1 .. Len(g) : i \in d + 1 .. Len(e) \/ g[i] = c
        BY <1>1
      <4>3. \A i \in d + 1 .. Len(e) : g[i] = e[i]
        BY <1>1
      <4>4. CASE /\ e[d] = "." /\ (\A i \in d + 1 .. Len(e) : e[i] # ".")
                 /\ d = 2 => e[1] # "."
        <5>1. d = 2 => g[1] # "."
          BY <1>1, <4>4
        <5> QED BY <2>6, <4>1, <4>2, <4>3, <4>4, <5>1 DEF DotAt
      <4>5. CASE d = 3 /\ e[1] = "." /\ e[2] = "." /\ \A i \in 3 .. Len(e) : e[i] # "."
        <5>1. g[1] = e[1] /\ g[2] = e[2]
          BY <1>1, <4>5
        <5>2. \A i \in 3 .. Len(g) : g[i] # "."
          BY <1>1, <2>6, <4>5
        <5> QED BY <4>1, <4>5, <5>1, <5>2 DEF DotAt
      <4> QED BY <2>2, <4>4, <4>5 DEF DotAt
    <3>2. x = u.extension
      BY <1>2, <1>8, <2>6 DEF Extension
    <3> QED BY <2>2, <2>3, <2>4, <3>1, <3>2 DEF EntryRead, g
  <2> QED BY <2>5, <2>6
<1> QED BY <1>4, <1>5, <1>6, <1>7, <1>8 DEF EntryRead

\* A character that ends the entry.
LEMMA EntryEnded ==
    ASSUME NEW e \in Seq(Char), NEW b \in Int, NEW u, EntryRead(e, b, u.state, u.extension),
           NEW c \in PathEnd
    PROVE  /\ CountsEnd(e, u.nentries, u.nddots, Entries(u, c), Ddots(u, c))
           /\ c = "/" => Extension(u, c, b + (Len(e) + 1)) = NULL
           /\ c # "/" => ExtensionDone(e, b, Extension(u, c, b + (Len(e) + 1)))
<1> DEFINE x == Extension(u, c, b + (Len(e) + 1))
<1>1. c \in {"SP", "/", "?"} /\ c \notin Allowed /\ c # "."
  BY DEF PathEnd, Allowed, Letter, Upper, Lower, Digit
<1>2. CASE u.state \in {"ABS_PATH_SLASH", "ABS_PATH_DOT", "ABS_PATH_DDOT"}
  <2>1. u.extension = NULL /\ ~Ordinary(e) /\ (u.state = "ABS_PATH_DDOT" <=> e = Parent)
    BY <1>2 DEF EntryRead, Ordinary, Parent
  <2>2. x = NULL
    BY <1>1, <1>2, <2>1 DEF Extension
  <2>3. ~Dotted(e)
    BY <2>1 DEF Dotted
  <2>4. Entries(u, c) = u.nentries
    BY <1>2 DEF Entries
  <2>5. Ddots(u, c) = IF e = Parent THEN u.nddots + 1 ELSE u.nddots
    BY <1>2, <2>1 DEF Ddots
  <2> QED BY <2>1, <2>2, <2>3, <2>4, <2>5 DEF CountsEnd, ExtensionDone
<1>3. CASE u.state = "ABS_PATH_ENTRY"
  <2>1. e # <<>> /\ Where(e, ".") = {} /\ u.extension = NULL
    BY <1>3 DEF EntryRead
  <2>2. Ordinary(e) /\ ~Dotted(e)
    <3>1. Len(e) > 0 /\ e[1] # "."
      <4>1. Len(e) \in Nat /\ Len(e) # 0
        BY <2>1, TextOf
      <4> QED BY <2>1, <4>1, Kinds
    <3> QED BY <2>1, <3>1, Kinds DEF Dotted
  <2>3. c = "/" => x = NULL
    BY <1>3, <2>1 DEF Extension, From, NULL
  <2>4. c # "/" => x.data = 1
    BY <1>1, <1>3, <2>1 DEF Extension, EndedAt, NULL
  <2>5. /\ Entries(u, c) = Count(Count(u.nentries, u.nddots), u.nddots)
        /\ Ddots(u, c) = u.nddots
    BY <1>3 DEF Entries, Ddots, PathEnd
  <2> QED BY <2>2, <2>3, <2>4, <2>5 DEF CountsEnd, ExtensionDone
<1>4. CASE u.state = "EXTENSION"
  <2>1. Dotted(e)
    BY <1>4 DEF EntryRead
  <2>2. PICK d \in 1 .. Len(e) : DotAt(e, d) /\ u.extension = [data |-> b + d, len |-> 0]
    BY <1>4 DEF EntryRead
  <2>3. Ordinary(e)
    BY <2>1 DEF Dotted
  <2>4. c = "/" => x = NULL
    BY <1>4, <2>2 DEF Extension, From, NULL
  <2>5. c # "/" => x = [data |-> b + d + 1, len |-> Len(e) - d]
    <3>1. c # "/" => x = EndedAt(u.extension, b + (Len(e) + 1))
      BY <1>1, <1>4 DEF Extension
    <3>2. Len(e) \in Nat /\ d \in Int
      OBVIOUS
    <3>3. (b + (Len(e) + 1)) - ((b + d) + 1) = Len(e) - d
      BY <3>2
    <3> QED BY <2>2, <3>1, <3>3 DEF EndedAt
  <2>6. Entries(u, c) = Count(u.nentries, u.nddots) /\ Ddots(u, c) = u.nddots
    BY <1>4 DEF Entries, Ddots, PathEnd
  <2> QED BY <2>1, <2>2, <2>3, <2>4, <2>5, <2>6 DEF CountsEnd, ExtensionDone
<1> QED BY <1>2, <1>3, <1>4 DEF EntryRead

-------------------------------------------------------------------------------
(* A path, character by character.                                         *)

\* What ParseUri makes of a URI.
LEMMA Parsed ==
    ASSUME NEW u, NEW c, NEW p, NEW v, v = ParseUri(u, c, p)
    PROVE  /\ v.state = UriMove(u.state, c)
           /\ v.host = Host(u, c, p) /\ v.abs_path = AbsPath(u, c, p)
           /\ v.extension = Extension(u, c, p) /\ v.query = Query(u, c, p)
           /\ v.nddots = Ddots(u, c) /\ v.nentries = Entries(u, c)
  BY DEF ParseUri, UriMove

\* The rest of a path behind a place.
LEMMA RestIs ==
    ASSUME NEW P \in Seq(Char), NEW s \in 1 .. Len(P)
    PROVE  Rest(P, s) \in Seq(Char) /\ Len(Rest(P, s)) = Len(P) - s
<1>1. s + 1 \in Nat \ {0} /\ Len(P) \in Int /\ Len(P) <= Len(P)
  OBVIOUS
<1>2. /\ SubSeq(P, s + 1, Len(P)) \in Seq(Char)
      /\ Len(SubSeq(P, s + 1, Len(P))) = IF s + 1 <= Len(P) THEN Len(P) - (s + 1) + 1 ELSE 0
  BY <1>1, PartIs
<1> QED BY <1>2 DEF Rest

\* The entries that have ended when a path grows.
LEMMA EndedStay ==
    ASSUME NEW P \in Seq(Char), NEW c \in Char, NEW s, LastAt(P, s)
    PROVE  \A j \in Where(P, "/") : j <= s - 1 => Entry(Append(P, c), j) = Entry(P, j)
<1>1. s \in 1 .. Len(P) /\ P[s] = "/"
  BY DEF LastAt
<1> TAKE j \in Where(P, "/")
<1> HAVE j <= s - 1
<1>2. j \in Nat /\ j < s
  BY <1>1, WhereIs
<1> QED BY <1>1, <1>2, EntryStays

\* The state, and how the path goes on, behind a character of the path.
LEMMA PathKeeps ==
    ASSUME NEW u, u.state \in InPath, NEW c, NEW p
    PROVE  /\ c \notin PathEnd => /\ AbsPath(u, c, p) = u.abs_path
                                  /\ Entries(u, c) = u.nentries /\ Ddots(u, c) = u.nddots
                                  /\ UriMove(u.state, c) \in InPath \cup {"ERROR"}
           /\ c = "/" => AbsPath(u, c, p) = u.abs_path /\ UriMove(u.state, c) = "ABS_PATH_SLASH"
           /\ c # "?" => Query(u, c, p) = u.query
           /\ c = "?" => UriMove(u.state, c) = "QUERY" /\ Query(u, c, p) = From(p, u.query)
           /\ c = "SP" => UriMove(u.state, c) = "BEGIN"
<1>1. c \notin PathEnd => /\ AbsPath(u, c, p) = u.abs_path
                          /\ Entries(u, c) = u.nentries /\ Ddots(u, c) = u.nddots
  <2> SUFFICES ASSUME c \notin PathEnd
               PROVE  /\ AbsPath(u, c, p) = u.abs_path
                      /\ Entries(u, c) = u.nentries /\ Ddots(u, c) = u.nddots
    OBVIOUS
  <2>1. AbsPath(u, c, p) = u.abs_path
    BY DEF AbsPath, PathEnd, InPath
  <2>2. Entries(u, c) = u.nentries /\ Ddots(u, c) = u.nddots
    BY DEF Entries, Ddots
  <2> QED BY <2>1, <2>2
<1>2. c \notin PathEnd => UriMove(u.state, c) \in InPath \cup {"ERROR"}
  <2> SUFFICES ASSUME c \notin {"SP", "/", "?"}
               PROVE  UriMove(u.state, c) \in InPath \cup {"ERROR"}
    BY DEF PathEnd
  <2>1. CASE u.state = "ABS_PATH_SLASH"
    BY <2>1, PathMoveIs DEF InPath
  <2>2. CASE u.state = "ABS_PATH_DOT"
    BY <2>2, PathMoveIs DEF InPath
  <2>3. CASE u.state = "ABS_PATH_DDOT"
    BY <2>3, PathMoveIs DEF InPath
  <2>4. CASE u.state = "ABS_PATH_ENTRY"
    BY <2>4, PathMoveIs DEF InPath
  <2>5. CASE u.state = "EXTENSION"
    BY <2>5, PathMoveIs DEF InPath
  <2> QED BY <2>1, <2>2, <2>3, <2>4, <2>5 DEF InPath
<1>3. c = "/" => AbsPath(u, c, p) = u.abs_path
  BY DEF AbsPath, InPath
<1>4. c = "/" => UriMove(u.state, c) = "ABS_PATH_SLASH"
  BY PathMoveIs DEF InPath
<1>5. c # "?" => Query(u, c, p) = u.query
  BY DEF Query, InPath
<1>6. c = "?" => Query(u, c, p) = From(p, u.query)
  BY DEF Query
<1>7. c = "?" => UriMove(u.state, c) = "QUERY"
  BY PathMoveIs DEF InPath
<1>8. c = "SP" => UriMove(u.state, c) = "BEGIN"
  BY PathMoveIs DEF InPath
<1> QED BY <1>1, <1>2, <1>3, <1>4, <1>5, <1>6, <1>7, <1>8, Zenon

\* A character that does not close its entry.
LEMMA PathStep ==
    ASSUME NEW P \in Seq(Char), NEW o \in Int, NEW u, u.state \in InPath, PathGoesOn(P, o, u),
           NEW c \in Char, c \notin PathEnd, UriMove(u.state, c) # "ERROR",
           NEW v, v = ParseUri(u, c, o + (Len(P) + 1))
    PROVE  PathGoesOn(Append(P, c), o, v)
<1> DEFINE Q == Append(P, c)
<1>1. PICK s \in 1 .. Len(P) : /\ LastAt(P, s)
                              /\ EntryRead(Rest(P, s), o + s, u.state, u.extension)
                              /\ Tally(P, s - 1, u.nentries, u.nddots)
  BY DEF PathGoesOn
<1>2. /\ Q \in Seq(Char) /\ Len(Q) = Len(P) + 1 /\ Q[Len(P) + 1] = c
      /\ \A j \in 1 .. Len(P) : Q[j] = P[j]
  BY EntryGrows
<1>3. c # "/"
  BY DEF PathEnd
<1>4. LastAt(Q, s)
  <2> HIDE DEF Q
  <2>1. s \in 1 .. Len(Q) /\ Q[s] = "/"
    BY <1>1, <1>2 DEF LastAt
  <2>2. \A i \in s + 1 .. Len(Q) : i \in s + 1 .. Len(P) \/ i = Len(P) + 1
    BY <1>2
  <2>3. \A i \in s + 1 .. Len(P) : Q[i] = P[i]
    BY <1>2
  <2> QED BY <1>1, <1>2, <1>3, <2>1, <2>2, <2>3, Zenon DEF LastAt
<1>5. Rest(Q, s) = Append(Rest(P, s), c)
  <2>1. s + 1 \in 1 .. Len(P) + 1
    OBVIOUS
  <2>2. SubSeq(Append(P, c), s + 1, Len(P) + 1) = Append(SubSeq(P, s + 1, Len(P)), c)
    BY <2>1, PartGrows
  <2> QED BY <1>2, <2>2 DEF Rest
<1>6. EntryRead(Rest(Q, s), o + s, v.state, v.extension)
  <2> DEFINE e == Rest(P, s)
  <2>1. e \in Seq(Char) /\ (o + s) + (Len(e) + 1) = o + (Len(P) + 1) /\ o + s \in Int
    <3>1. e \in Seq(Char) /\ Len(e) = Len(P) - s
      BY RestIs
    <3> HIDE DEF e
    <3>2. Len(P) \in Int
      OBVIOUS
    <3> QED BY <3>1, <3>2
  <2> HIDE DEF e
  <2>2. EntryRead(Append(e, c), o + s, UriMove(u.state, c),
                  Extension(u, c, (o + s) + (Len(e) + 1)))
    <3>1. EntryRead(e, o + s, u.state, u.extension)
      BY <1>1 DEF e
    <3> QED BY <2>1, <3>1, EntryStep, Zenon
  <2>3. /\ v.state = UriMove(u.state, c)
        /\ v.extension = Extension(u, c, (o + s) + (Len(e) + 1))
    BY <2>1, Parsed
  <2> QED BY <1>5, <2>2, <2>3, Zenon DEF e
<1>7. Tally(Q, s - 1, u.nentries, u.nddots)
  <2>1. s - 1 \in 0 .. Len(P)
    OBVIOUS
  <2> QED BY <1>1, <2>1, EndedStay, TallyStays
<1>8. /\ v.abs_path = u.abs_path /\ v.nentries = u.nentries /\ v.nddots = u.nddots
  <2>1. /\ v.abs_path = AbsPath(u, c, o + (Len(P) + 1))
        /\ v.nentries = Entries(u, c) /\ v.nddots = Ddots(u, c)
    BY Parsed
  <2> QED BY <2>1, PathKeeps
<1>9. Q # <<>> /\ Q[1] = "/" /\ s \in 1 .. Len(Q)
  <2>1. P[1] = "/" /\ 1 \in 1 .. Len(P) /\ s \in 1 .. Len(Q)
    BY <1>2 DEF PathGoesOn
  <2> QED BY <1>2, <2>1
<1>10. u.abs_path = [data |-> o + 1, len |-> 0]
  BY DEF PathGoesOn
<1> HIDE DEF Q
<1>11. PathGoesOn(Q, o, v)
  BY <1>4, <1>6, <1>7, <1>8, <1>9, <1>10, Zenon DEF PathGoesOn
<1> QED BY <1>11 DEF Q

\* The counts and the extension behind the last character of an entry.
LEMMA PathCounts ==
    ASSUME NEW P \in Seq(Char), NEW o \in Int, NEW u, PathGoesOn(P, o, u),
           NEW c \in PathEnd, NEW v, v = ParseUri(u, c, o + (Len(P) + 1))
    PROVE  \E s \in 1 .. Len(P) :
             /\ LastAt(P, s) /\ Tally(P, Len(P), v.nentries, v.nddots)
             /\ c = "/" => v.extension = NULL
             /\ c # "/" => ExtensionDone(Rest(P, s), o + s, v.extension)
             /\ u.state = "EXTENSION" => Dotted(LastEntry(P))
<1>1. PICK s \in 1 .. Len(P) : /\ LastAt(P, s)
                              /\ EntryRead(Rest(P, s), o + s, u.state, u.extension)
                              /\ Tally(P, s - 1, u.nentries, u.nddots)
  BY DEF PathGoesOn
<1> DEFINE e == Rest(P, s)
<1>2. e \in Seq(Char) /\ (o + s) + (Len(e) + 1) = o + (Len(P) + 1) /\ o + s \in Int
  <2>1. e \in Seq(Char) /\ Len(e) = Len(P) - s
    BY RestIs
  <2> HIDE DEF e
  <2>2. Len(P) \in Int
    OBVIOUS
  <2> QED BY <2>1, <2>2
<1>3. v.nddots = Ddots(u, c) /\ v.nentries = Entries(u, c)
  BY Parsed, Zenon
<1>4. v.extension = Extension(u, c, (o + s) + (Len(e) + 1))
  BY <1>2, Parsed, Zenon
<1> HIDE DEF e
<1>5. EntryRead(e, o + s, u.state, u.extension)
  BY <1>1 DEF e
<1>6. /\ CountsEnd(e, u.nentries, u.nddots, v.nentries, v.nddots)
      /\ c = "/" => v.extension = NULL
      /\ c # "/" => ExtensionDone(e, o + s, v.extension)
  BY <1>2, <1>3, <1>4, <1>5, EntryEnded, Zenon
<1>7. Tally(P, Len(P), v.nentries, v.nddots)
  BY <1>1, <1>6, TallyStep DEF e
<1>8. u.state = "EXTENSION" => Dotted(LastEntry(P))
  <2>1. u.state = "EXTENSION" => Dotted(e)
    BY <1>5 DEF EntryRead
  <2> QED BY <1>1, <2>1, LastEntryIs DEF e
<1> QED BY <1>1, <1>6, <1>7, <1>8, Zenon DEF e

\* A slash closes an entry and begins the next.
LEMMA SlashStep ==
    ASSUME NEW P \in Seq(Char), NEW o \in Int, NEW u, u.state \in InPath, PathGoesOn(P, o, u),
           NEW v, v = ParseUri(u, "/", o + (Len(P) + 1))
    PROVE  PathGoesOn(Append(P, "/"), o, v)
<1> DEFINE Q == Append(P, "/")
<1>1. "/" \in Char /\ "/" \in PathEnd
  BY DEF Char, PathEnd
<1>2. /\ Q \in Seq(Char) /\ Len(Q) = Len(P) + 1 /\ Q[Len(P) + 1] = "/" /\ Len(P) \in Nat
      /\ \A j \in 1 .. Len(P) : Q[j] = P[j]
  BY <1>1, EntryGrows
<1>3. PICK s \in 1 .. Len(P) : /\ LastAt(P, s) /\ Tally(P, Len(P), v.nentries, v.nddots)
                              /\ v.extension = NULL
  BY <1>1, PathCounts, Zenon
<1>4. \A j \in Where(P, "/") : j <= Len(P) => Entry(Q, j) = Entry(P, j)
  <2> TAKE j \in Where(P, "/")
  <2>1. j \in 1 .. Len(P) /\ (j <= s - 1 \/ j = s)
    BY <1>3, WhereIs DEF LastAt
  <2> QED BY <1>1, <1>3, <2>1, EndedStay, EntryCloses, Zenon
<1>5. Tally(Q, Len(P), v.nentries, v.nddots)
  <2>1. Len(P) \in 0 .. Len(P)
    BY <1>2
  <2> QED BY <1>1, <1>3, <1>4, <2>1, TallyStays
<1>6. v.state = "ABS_PATH_SLASH" /\ v.abs_path = u.abs_path
  <2>1. v.state = UriMove(u.state, "/") /\ v.abs_path = AbsPath(u, "/", o + (Len(P) + 1))
    BY Parsed
  <2> QED BY <2>1, PathKeeps
<1>7. Q[1] = "/"
  <2>1. P[1] = "/" /\ 1 \in 1 .. Len(P)
    BY DEF PathGoesOn
  <2> QED BY <1>2, <2>1
<1>8. u.abs_path = [data |-> o + 1, len |-> 0]
  BY DEF PathGoesOn
<1> DEFINE n == Len(P) + 1
<1> HIDE DEF Q
<1>9. n \in 1 .. Len(Q) /\ Q # <<>> /\ LastAt(Q, n) /\ n - 1 = Len(P)
  BY <1>2 DEF LastAt
<1>10. Rest(Q, n) = <<>>
  <2>1. n + 1 > Len(Q) /\ n + 1 \in Int /\ Len(Q) \in Int
    BY <1>2
  <2> QED BY <1>2, <2>1, SubSeqEmpty DEF Rest
<1>11. EntryRead(Rest(Q, n), o + n, v.state, v.extension)
  BY <1>3, <1>6, <1>10 DEF EntryRead
<1>12. Tally(Q, n - 1, v.nentries, v.nddots)
  BY <1>5, <1>9
<1> HIDE DEF n
<1>13. PathGoesOn(Q, o, v)
  BY <1>6, <1>7, <1>8, <1>9, <1>11, <1>12, Zenon DEF PathGoesOn
<1> QED BY <1>13 DEF Q

\* The characters that end a path.
PathStops == {"SP", "?"}

\* A space or a question mark closes the last entry.
LEMMA PathEnds ==
    ASSUME NEW P \in Seq(Char), NEW o \in Int, NEW u, u.state \in InPath, PathGoesOn(P, o, u),
           NEW c \in PathStops, NEW v, v = ParseUri(u, c, o + (Len(P) + 1))
    PROVE  /\ PathDone(P, o, v)
           /\ c = "SP" \/ ~Dotted(LastEntry(P)) => v.abs_path.len = Len(P)
<1>1. c \in {"SP", "?"} /\ c \in PathEnd /\ c # "/"
  BY DEF PathEnd, PathStops
<1>2. PICK s \in 1 .. Len(P) : /\ LastAt(P, s) /\ Tally(P, Len(P), v.nentries, v.nddots)
                               /\ ExtensionDone(Rest(P, s), o + s, v.extension)
                               /\ u.state = "EXTENSION" => Dotted(LastEntry(P))
  BY <1>1, PathCounts, Zenon
<1>3. u.abs_path = [data |-> o + 1, len |-> 0] /\ P # <<>> /\ P[1] = "/"
  BY DEF PathGoesOn
<1>4. Len(P) \in Nat /\ (o + (Len(P) + 1)) - (o + 1) = Len(P)
  OBVIOUS
<1>5. v.abs_path = AbsPath(u, c, o + (Len(P) + 1))
  BY Parsed, Zenon
<1>6. IF c = "SP" \/ u.state # "EXTENSION"
      THEN v.abs_path = [data |-> o + 1, len |-> Len(P)]
      ELSE v.abs_path = [data |-> o + 1, len |-> 0]
  <2>1. CASE c = "SP" \/ u.state # "EXTENSION"
    <3>1. v.abs_path = [u.abs_path EXCEPT !.len = (o + (Len(P) + 1)) - u.abs_path.data]
      BY <1>1, <1>5, <2>1 DEF AbsPath, InPath
    <3>2. u.abs_path.data = o + 1
      BY <1>3
    <3>3. v.abs_path = [u.abs_path EXCEPT !.len = Len(P)]
      BY <1>4, <3>1, <3>2, Zenon
    <3> QED BY <1>3, <2>1, <3>3
  <2>2. CASE ~(c = "SP" \/ u.state # "EXTENSION")
    BY <1>1, <1>3, <1>5, <2>2 DEF AbsPath
  <2> QED BY <2>1, <2>2
<1>7. v.abs_path \in [data : {o + 1}, len : Int]
  BY <1>4, <1>6
<1>8. c = "SP" \/ ~Dotted(LastEntry(P)) => v.abs_path.len = Len(P)
  BY <1>2, <1>6
<1>9. PathDone(P, o, v)
  BY <1>2, <1>3, <1>7, Zenon DEF PathDone
<1> QED BY <1>8, <1>9

\* The path begins.
LEMMA PathBegins ==
    ASSUME NEW t \in Seq(Char), NEW f \in Int,
           NEW u, NoPath(u), u.state \in {"BEGIN", "HOST", "PORT"},
           NEW v, v = ParseUri(u, "/", f + (Len(t) + 1)), NEW g, g = Append(t, "/")
    PROVE  /\ v.state = "ABS_PATH_SLASH" /\ v.query = NULL
           /\ PathGoesOn(SubSeq(g, Len(g), Len(g)), f + Len(g) - 1, v)
<1>1. "/" \in Char
  BY DEF Char
<1>2. g \in Seq(Char) /\ Len(g) = Len(t) + 1 /\ g[Len(g)] = "/" /\ Len(t) \in Nat
  BY <1>1, EntryGrows
<1> DEFINE P == SubSeq(g, Len(g), Len(g))
           n == Len(g)
<1>3. P \in Seq(Char) /\ Len(P) = 1 /\ P[1] = "/"
  BY <1>2
<1>4. v.state = "ABS_PATH_SLASH"
  BY Parsed, UriMoveIs
<1>5. v.query = NULL
  <2>1. v.query = Query(u, "/", f + (Len(t) + 1))
    BY Parsed
  <2> QED BY <2>1 DEF Query, InPath, NoPath
<1>6. v.extension = NULL
  <2>1. v.extension = Extension(u, "/", f + (Len(t) + 1))
    BY Parsed
  <2> QED BY <2>1 DEF Extension, NoPath
<1>7. v.nddots = 0 /\ v.nentries = 0
  <2>1. v.nddots = Ddots(u, "/") /\ v.nentries = Entries(u, "/")
    BY Parsed
  <2> QED BY <2>1 DEF Ddots, Entries, NoPath
<1>8. v.abs_path = [data |-> f + n, len |-> 0]
  <2>1. v.abs_path = AbsPath(u, "/", f + (Len(t) + 1))
    BY Parsed
  <2>2. v.abs_path = From(f + (Len(t) + 1), NULL)
    BY <2>1 DEF AbsPath, NoPath
  <2>3. v.abs_path = [data |-> f + (Len(t) + 1), len |-> 0]
    BY <2>2 DEF From, NULL
  <2> QED BY <1>2, <2>3
<1>9. (f + n - 1) + 1 = f + n
  BY <1>2
<1> HIDE DEF P, n
<1>10. P # <<>> /\ LastAt(P, 1) /\ Rest(P, 1) = <<>> /\ 1 \in 1 .. Len(P)
  <2>1. 1 \in 1 .. Len(P) /\ \A i \in 1 + 1 .. Len(P) : P[i] # "/"
    BY <1>3
  <2>4. P # <<>>
    <3>1. P \in Seq(Char) /\ Len(P) # 0
      BY <1>3
    <3> QED BY <3>1, EmptySeq, Zenon
  <2>5. LastAt(P, 1)
    BY <1>3, <2>1, Zenon DEF LastAt
  <2>2. SubSeq(P, 2, 1) = <<>>
    BY <1>3, SubSeqEmpty
  <2>3. SubSeq(P, 1 + 1, Len(P)) = <<>>
    BY <1>3, <2>2
  <2> QED BY <2>1, <2>3, <2>4, <2>5, Zenon DEF Rest
<1>11. Tally(P, 1 - 1, v.nentries, v.nddots)
  BY <1>3, <1>7, TallyBegins
<1>12. EntryRead(Rest(P, 1), (f + n - 1) + 1, v.state, v.extension)
  BY <1>4, <1>6, <1>10 DEF EntryRead
<1>13. v.abs_path = [data |-> (f + n - 1) + 1, len |-> 0]
  BY <1>8, <1>9
<1>14. PathGoesOn(P, f + n - 1, v)
  BY <1>3, <1>10, <1>11, <1>12, <1>13, Zenon DEF PathGoesOn
<1> QED BY <1>4, <1>5, <1>14, Zenon DEF P, n

\* A URI that goes on keeps its authority.
LEMMA AuthorityStays ==
    ASSUME NEW t \in Seq(Char), NEW c \in Char, NEW n \in 0 .. Len(t),
           NEW k \in 1 .. Len(t) - 1, Authority(t, k, n)
    PROVE  Authority(Append(t, c), k, n)
<1> DEFINE g == Append(t, c)
<1>1. \A i \in 1 .. Len(t) : g[i] = t[i]
  BY EntryGrows
<1>2. k \in 1 .. Len(t) /\ k + 1 \in 1 .. Len(t) /\ \A i \in 1 .. n : i \in 1 .. Len(t)
  OBVIOUS
<1> HIDE DEF g
<1>3. Authority(g, k, n)
  BY <1>1, <1>2, Zenon DEF Authority
<1> QED BY <1>3 DEF g

\* A character that is no slash goes on with the authority.
LEMMA AuthorityGrows ==
    ASSUME NEW t \in Seq(Char), NEW c \in Char, c # "/",
           NEW k \in 1 .. Len(t) - 1, Authority(t, k, Len(t))
    PROVE  Authority(Append(t, c), k, Len(t) + 1)
<1> DEFINE g == Append(t, c)
<1>1. \A i \in 1 .. Len(t) : g[i] = t[i]
  BY EntryGrows
<1>2. g[Len(t) + 1] = c
  BY EntryGrows
<1>3. k \in 1 .. Len(t) /\ k + 1 \in 1 .. Len(t)
      /\ \A i \in 1 .. Len(t) + 1 : i \in 1 .. Len(t) \/ i = Len(t) + 1
  OBVIOUS
<1> HIDE DEF g
<1>4. Authority(g, k, Len(t) + 1)
  BY <1>1, <1>2, <1>3, Zenon DEF Authority
<1> QED BY <1>4 DEF g

\* A URI that goes on keeps where its path begins.
LEMMA PathAtStays ==
    ASSUME NEW t \in Seq(Char), NEW c \in Char, NEW p, PathAt(t, p)
    PROVE  PathAt(Append(t, c), p)
<1> DEFINE g == Append(t, c)
<1>1. Len(g) = Len(t) + 1 /\ \A i \in 1 .. Len(t) : g[i] = t[i]
  BY EntryGrows
<1>2. p \in 1 .. Len(t) /\ t[p] = "/"
  BY DEF PathAt
<1>3. ASSUME NEW k \in 2 .. p - 2, Authority(t, k, p - 1)
      PROVE  Authority(g, k, p - 1)
  <2>1. k \in 1 .. Len(t) - 1 /\ p - 1 \in 0 .. Len(t)
    BY <1>2
  <2> QED BY <1>3, <2>1, AuthorityStays
<1> HIDE DEF g
<1>4. p \in 1 .. Len(g) /\ g[p] = "/"
  BY <1>1, <1>2
<1>5. PathAt(g, p)
  BY <1>3, <1>4, Zenon DEF PathAt
<1> QED BY <1>5 DEF g

\* A character that is no question mark begins no query.
LEMMA NoQueryGrows ==
    ASSUME NEW t \in Seq(Char), NEW c \in Char, c # "?", NoQuery(t)
    PROVE  NoQuery(Append(t, c))
<1> DEFINE g == Append(t, c)
<1>1. /\ Len(g) = Len(t) + 1 /\ g[Len(t) + 1] = c
      /\ \A i \in 1 .. Len(t) : g[i] = t[i]
  BY EntryGrows
<1>2. \A i \in 1 .. Len(g) : i \in 1 .. Len(t) \/ i = Len(t) + 1
  BY <1>1
<1> HIDE DEF g
<1>3. NoQuery(g)
  BY <1>1, <1>2, Zenon DEF NoQuery
<1> QED BY <1>3 DEF g

\* Until the path begins nothing of it is recorded.
LEMMA NoPathStays ==
    ASSUME NEW u, NoPath(u), NEW c, NEW p, NEW v, v = ParseUri(u, c, p),
           u.state \notin InPath \cup {"QUERY"}, c # "SP",
           c = "/" => u.state \notin {"BEGIN", "HOST", "PORT"}
    PROVE  NoPath(v)
<1>1. v.abs_path = NULL
  <2>1. v.abs_path = AbsPath(u, c, p)
    BY Parsed
  <2> QED BY <2>1 DEF AbsPath, NoPath
<1>2. v.extension = NULL
  <2>1. v.extension = Extension(u, c, p)
    BY Parsed
  <2> QED BY <2>1 DEF Extension, NoPath, InPath
<1>3. v.query = NULL
  <2>1. v.query = Query(u, c, p)
    BY Parsed
  <2> QED BY <2>1 DEF Query, NoPath
<1>4. v.nddots = 0 /\ v.nentries = 0
  <2>1. v.nddots = Ddots(u, c) /\ v.nentries = Entries(u, c)
    BY Parsed
  <2> QED BY <2>1 DEF Ddots, Entries, NoPath, InPath
<1> QED BY <1>1, <1>2, <1>3, <1>4 DEF NoPath

\* Of a URI that has not begun nothing is known.
LEMMA NewUriIs == NoPath(NewUri) /\ NewUri.state = "BEGIN" /\ NewUri.host = NULL
  BY DEF NewUri, NoPath

-------------------------------------------------------------------------------
(* A URI, character by character.                                          *)

\* A scheme, and the slashes behind it.
LEMMA SchemeStep ==
    ASSUME NEW t \in Seq(Char), NEW f \in Int, NEW u, BeforePath(t, f, u),
           u.state \in {"SCHEME", "SCHEME_COLON", "SCHEME_SLASH", "SCHEME_SLASH_SLASH"},
           NEW c \in Char, c # "SP", UriMove(u.state, c) # "ERROR",
           NEW v, v = ParseUri(u, c, f + (Len(t) + 1)), NEW g, g = Append(t, c)
    PROVE  BeforePath(g, f, v)
<1>1. /\ g \in Seq(Char) /\ Len(g) = Len(t) + 1 /\ Len(t) \in Nat /\ g[Len(t) + 1] = c
      /\ \A i \in 1 .. Len(t) : g[i] = t[i]
  BY EntryGrows
<1>2. \A i \in 1 .. Len(g) : i \in 1 .. Len(t) \/ i = Len(g)
  BY <1>1
<1>3. Len(t) > 0 /\ NoQuery(t) /\ NoPath(u)
  BY <1>1 DEF BeforePath
<1>4. NoPath(v)
  <2>1. u.state \notin InPath \cup {"QUERY"} /\ u.state \notin {"BEGIN", "HOST", "PORT"}
    BY DEF InPath
  <2> QED BY <1>3, <2>1, NoPathStays
<1>5. v.state = UriMove(u.state, c) /\ v.host = Host(u, c, f + (Len(t) + 1))
  BY Parsed
<1>6. c # "?"
  BY UriMoveIs DEF Letter, Upper, Lower, Digit
<1>7. NoQuery(g)
  BY <1>3, <1>6, NoQueryGrows
<1>8. g # <<>>
  BY <1>1
<1>9. CASE u.state = "SCHEME"
  <2>1. v.state \in {"SCHEME", "SCHEME_COLON"} /\ c # "/"
    BY <1>5, <1>9, UriMoveIs DEF Letter, Upper, Lower, Digit
  <2>2. v.host = NULL
    BY <1>5, <1>9 DEF Host, BeforePath
  <2>3. \A i \in 1 .. Len(t) : t[i] # "/"
    BY <1>9 DEF BeforePath
  <2>4. \A i \in 1 .. Len(g) : g[i] # "/"
    BY <1>1, <1>2, <2>1, <2>3
  <2> QED BY <1>4, <1>7, <1>8, <2>1, <2>2, <2>4 DEF BeforePath
<1>10. CASE u.state = "SCHEME_COLON"
  <2>1. v.state = "SCHEME_SLASH" /\ c = "/"
    BY <1>5, <1>10, UriMoveIs
  <2>2. v.host = NULL
    BY <1>5, <1>10 DEF Host, BeforePath
  <2>3. \A i \in 1 .. Len(t) : t[i] # "/"
    BY <1>10 DEF BeforePath
  <2>4. Len(g) > 1 /\ g[Len(g)] = "/" /\ \A i \in 1 .. Len(g) - 1 : g[i] # "/"
    BY <1>1, <1>3, <2>1, <2>3
  <2> QED BY <1>4, <1>7, <1>8, <2>1, <2>2, <2>4 DEF BeforePath
<1>11. CASE u.state = "SCHEME_SLASH"
  <2>1. v.state = "SCHEME_SLASH_SLASH" /\ c = "/"
    BY <1>5, <1>11, UriMoveIs
  <2>2. v.host = NULL
    BY <1>5, <1>11 DEF Host, BeforePath
  <2>3. Len(t) > 1 /\ t[Len(t)] = "/" /\ \A i \in 1 .. Len(t) - 1 : t[i] # "/"
    BY <1>11 DEF BeforePath
  <2>4. Authority(g, Len(g) - 1, Len(g))
    <3>1. g[Len(g) - 1] = "/" /\ g[(Len(g) - 1) + 1] = "/"
      BY <1>1, <2>1, <2>3
    <3>2. \A i \in 1 .. Len(g) : i \in 1 .. Len(t) - 1 \/ i \in {Len(g) - 1, (Len(g) - 1) + 1}
      BY <1>1
    <3>3. \A i \in 1 .. Len(t) - 1 : g[i] # "/"
      BY <1>1, <2>3
    <3> QED BY <3>1, <3>2, <3>3, Zenon DEF Authority
  <2>5. Len(g) > 2
    BY <1>1, <2>3
  <2> QED BY <1>4, <1>7, <1>8, <2>1, <2>2, <2>4, <2>5 DEF BeforePath
<1>12. CASE u.state = "SCHEME_SLASH_SLASH"
  <2>1. v.state = "HOST" /\ c # "/"
    BY <1>5, <1>12, UriMoveIs DEF Letter, Upper, Lower, Digit
  <2>2. v.host = From(f + (Len(t) + 1), NULL)
    BY <1>5, <1>12 DEF Host, BeforePath
  <2>3. v.host.data = f + (Len(t) + 1)
    BY <2>2 DEF From, NULL
  <2>4. Len(t) > 2 /\ Authority(t, Len(t) - 1, Len(t))
    BY <1>12 DEF BeforePath
  <2>5. Len(t) - 1 \in 1 .. Len(t) - 1 /\ Len(t) - 1 \in 2 .. Len(g) - 2
        /\ f + (Len(t) - 1) + 2 = f + (Len(t) + 1)
    BY <1>1, <2>4
  <2>6. Authority(g, Len(t) - 1, Len(g))
    BY <1>1, <2>1, <2>4, <2>5, AuthorityGrows
  <2>7. v.host.data = f + (Len(t) - 1) + 2
    BY <2>3, <2>5
  <2> QED BY <1>4, <1>7, <1>8, <2>1, <2>5, <2>6, <2>7, Zenon DEF BeforePath
<1> QED BY <1>9, <1>10, <1>11, <1>12

\* A host or a port goes on.
LEMMA HostStep ==
    ASSUME NEW t \in Seq(Char), NEW f \in Int, NEW u, BeforePath(t, f, u),
           u.state \in {"HOST", "PORT"},
           NEW c \in Char, c # "SP", c # "/", UriMove(u.state, c) # "ERROR",
           NEW v, v = ParseUri(u, c, f + (Len(t) + 1)), NEW g, g = Append(t, c)
    PROVE  BeforePath(g, f, v)
<1>1. /\ g \in Seq(Char) /\ Len(g) = Len(t) + 1 /\ Len(t) \in Nat
  BY EntryGrows
<1>2. NoQuery(t) /\ NoPath(u) /\ g # <<>>
  BY <1>1 DEF BeforePath
<1>3. PICK k \in 2 .. Len(t) - 2 : Authority(t, k, Len(t)) /\ u.host.data = f + k + 2
  BY DEF BeforePath
<1>4. NoPath(v)
  <2>1. u.state \notin InPath \cup {"QUERY"}
    BY DEF InPath
  <2> QED BY <1>2, <2>1, NoPathStays
<1>5. v.state = UriMove(u.state, c) /\ v.host = Host(u, c, f + (Len(t) + 1))
  BY Parsed
<1>6. c # "?" /\ v.state \in {"HOST", "PORT"}
  BY <1>5, UriMoveIs DEF Letter, Upper, Lower, Digit
<1>7. NoQuery(g)
  BY <1>2, <1>6, NoQueryGrows
<1>8. v.host = u.host
  BY <1>5 DEF Host
<1>9. k \in 2 .. Len(g) - 2 /\ k \in 1 .. Len(t) - 1
  BY <1>1
<1>10. Authority(g, k, Len(g))
  BY <1>1, <1>3, <1>9, AuthorityGrows
<1> QED BY <1>2, <1>3, <1>4, <1>6, <1>7, <1>8, <1>9, <1>10, Zenon DEF BeforePath

\* The path begins behind a host or a port.
LEMMA HostEnds ==
    ASSUME NEW t \in Seq(Char), NEW f \in Int, NEW u, BeforePath(t, f, u),
           u.state \in {"HOST", "PORT"},
           NEW v, v = ParseUri(u, "/", f + (Len(t) + 1)), NEW g, g = Append(t, "/")
    PROVE  InsidePath(g, f, v)
<1>0. "/" \in Char
  BY DEF Char
<1>1. /\ g \in Seq(Char) /\ Len(g) = Len(t) + 1 /\ Len(t) \in Nat /\ g[Len(g)] = "/"
  BY <1>0, EntryGrows
<1>2. NoQuery(t) /\ NoPath(u)
  BY <1>1 DEF BeforePath
<1>3. PICK k \in 2 .. Len(t) - 2 : Authority(t, k, Len(t))
  BY DEF BeforePath
<1>4. /\ v.state = "ABS_PATH_SLASH" /\ v.query = NULL
      /\ PathGoesOn(SubSeq(g, Len(g), Len(g)), f + Len(g) - 1, v)
  <2>1. u.state \in {"BEGIN", "HOST", "PORT"}
    OBVIOUS
  <2>2. v = ParseUri(u, "/", f + (Len(t) + 1)) /\ g = Append(t, "/")
    OBVIOUS
  <2> QED BY <1>2, <2>1, <2>2, PathBegins, Zenon
<1>5. NoQuery(g)
  BY <1>0, <1>2, NoQueryGrows
<1>6. k \in 2 .. Len(g) - 2 /\ k \in 1 .. Len(t) - 1 /\ Len(t) = Len(g) - 1
      /\ Len(t) \in 0 .. Len(t) /\ Len(g) \in 1 .. Len(g)
  BY <1>1
<1>7. Authority(g, k, Len(g) - 1)
  BY <1>0, <1>3, <1>6, AuthorityStays
<1>8. PathAt(g, Len(g))
  BY <1>1, <1>6, <1>7, Zenon DEF PathAt
<1> QED BY <1>4, <1>5, <1>6, <1>8 DEF InsidePath, InPath

\* A URI that has begun goes on with c.
LEMMA FirstStep ==
    ASSUME NEW f \in Int, NEW c \in Char, c # "SP", UriMove("BEGIN", c) # "ERROR",
           NEW v, v = ParseUri(NewUri, c, f + 1), NEW g, g = Append(<<>>, c)
    PROVE  Reads(g, f, v)
<1>0. <<>> \in Seq(Char) /\ Len(<<>>) = 0
  OBVIOUS
<1>1. /\ g \in Seq(Char) /\ Len(g) = 1 /\ g[1] = c
  BY <1>0, EntryGrows
<1>2. NoPath(NewUri) /\ NewUri.state = "BEGIN" /\ NewUri.host = NULL
  BY NewUriIs
<1>3. f + 1 = f + (Len(<<>>) + 1)
  BY <1>0
<1>4. CASE c = "/"
  <2>1. NewUri.state \in {"BEGIN", "HOST", "PORT"}
    BY <1>2
  <2>2. /\ v.state = "ABS_PATH_SLASH" /\ v.query = NULL
        /\ PathGoesOn(SubSeq(g, Len(g), Len(g)), f + Len(g) - 1, v)
    BY <1>0, <1>2, <1>3, <1>4, <2>1, PathBegins, Zenon
  <2>3. PathAt(g, 1) /\ 1 \in 1 .. Len(g) /\ NoQuery(g)
    BY <1>1, <1>4 DEF PathAt, NoQuery
  <2>4. PathGoesOn(SubSeq(g, 1, Len(g)), f + 1 - 1, v)
    BY <1>1, <2>2, Zenon
  <2>5. InsidePath(g, f, v)
    BY <2>2, <2>3, <2>4 DEF InsidePath, InPath
  <2> QED BY <2>5 DEF Reads
<1>5. CASE c # "/"
  <2>1. UriMove("BEGIN", c) = "SCHEME" /\ c \in Letter
    BY <1>5, UriMoveIs
  <2>2. c # "?"
    BY <2>1 DEF Letter, Upper, Lower
  <2>3. NoPath(v)
    <3>1. NewUri.state \notin InPath \cup {"QUERY"}
      BY <1>2 DEF InPath
    <3> QED BY <1>2, <1>5, <3>1, NoPathStays
  <2>4. v.state = "SCHEME"
    <3>1. v.state = UriMove(NewUri.state, c)
      BY Parsed
    <3> QED BY <1>2, <2>1, <3>1
  <2>5. v.host = NULL
    <3>1. v.host = Host(NewUri, c, f + 1)
      BY Parsed
    <3> QED BY <1>2, <3>1 DEF Host
  <2>6. g # <<>> /\ NoQuery(g) /\ \A i \in 1 .. Len(g) : g[i] # "/"
    BY <1>1, <1>5, <2>2 DEF NoQuery
  <2>7. BeforePath(g, f, v)
    BY <2>3, <2>4, <2>5, <2>6 DEF BeforePath
  <2> QED BY <2>7 DEF Reads
<1> QED BY <1>4, <1>5

\* A character in the path.
LEMMA InsideStep ==
    ASSUME NEW t \in Seq(Char), NEW f \in Int, NEW u, InsidePath(t, f, u),
           NEW c \in Char, c \notin {"SP", "?"}, UriMove(u.state, c) # "ERROR",
           NEW v, v = ParseUri(u, c, f + (Len(t) + 1)), NEW g, g = Append(t, c)
    PROVE  InsidePath(g, f, v)
<1>1. u.state \in InPath /\ NoQuery(t) /\ u.query = NULL
  BY DEF InsidePath
<1>2. PICK p \in 1 .. Len(t) : PathAt(t, p) /\ PathGoesOn(SubSeq(t, p, Len(t)), f + p - 1, u)
  BY DEF InsidePath
<1> DEFINE P == SubSeq(t, p, Len(t))
           o == f + p - 1
<1>3. Len(g) = Len(t) + 1 /\ p \in 1 .. Len(g) /\ p \in 1 .. Len(t) + 1
  BY EntryGrows
<1>4. /\ P \in Seq(Char) /\ o + (Len(P) + 1) = f + (Len(t) + 1) /\ o \in Int
  OBVIOUS
<1>5. PathGoesOn(P, o, u)
  BY <1>2
<1>6. SubSeq(g, p, Len(g)) = Append(P, c)
  BY <1>3, PartGrows
<1> HIDE DEF P, o
<1>7. v = ParseUri(u, c, o + (Len(P) + 1))
  BY <1>4
<1>8. PathGoesOn(Append(P, c), o, v)
  <2>1. CASE c = "/"
    BY <1>1, <1>4, <1>5, <1>7, <2>1, SlashStep, Zenon
  <2>2. CASE c # "/"
    <3>1. c \notin PathEnd
      BY <2>2 DEF PathEnd
    <3> QED BY <1>1, <1>4, <1>5, <1>7, <3>1, PathStep, Zenon
  <2> QED BY <2>1, <2>2
<1>9. v.query = NULL
  <2>1. v.query = Query(u, c, f + (Len(t) + 1))
    BY Parsed
  <2> QED BY <1>1, <2>1, PathKeeps
<1>10. v.state \in InPath
  <2>1. v.state = UriMove(u.state, c)
    BY Parsed
  <2>2. CASE c = "/"
    BY <1>1, <2>1, <2>2, PathKeeps DEF InPath
  <2>3. CASE c # "/"
    <3>1. c \notin PathEnd
      BY <2>3 DEF PathEnd
    <3> QED BY <1>1, <2>1, <3>1, PathKeeps
  <2> QED BY <2>2, <2>3
<1>11. NoQuery(g) /\ PathAt(g, p)
  BY <1>1, <1>2, NoQueryGrows, PathAtStays
<1>12. PathGoesOn(SubSeq(g, p, Len(g)), f + p - 1, v)
  BY <1>6, <1>8, Zenon DEF o
<1> QED BY <1>3, <1>9, <1>10, <1>11, <1>12, Zenon DEF InsidePath

\* The path ends at q, with a query or with the text.
LEMMA InsideEnds ==
    ASSUME NEW t \in Seq(Char), NEW f \in Int, NEW u, InsidePath(t, f, u),
           NEW c \in PathStops, NEW v, v = ParseUri(u, c, f + (Len(t) + 1))
    PROVE  \E p \in 1 .. Len(t) :
             /\ PathAt(t, p) /\ PathDone(SubSeq(t, p, Len(t)), f + p - 1, v)
             /\ c = "SP" \/ ~Dotted(LastEntry(SubSeq(t, p, Len(t))))
                  => v.abs_path.len = (Len(t) + 1) - p
<1>1. u.state \in InPath
  BY DEF InsidePath
<1>2. PICK p \in 1 .. Len(t) : PathAt(t, p) /\ PathGoesOn(SubSeq(t, p, Len(t)), f + p - 1, u)
  BY DEF InsidePath
<1> DEFINE P == SubSeq(t, p, Len(t))
           o == f + p - 1
<1>3. /\ P \in Seq(Char) /\ o + (Len(P) + 1) = f + (Len(t) + 1) /\ o \in Int
      /\ Len(P) = (Len(t) + 1) - p
  OBVIOUS
<1>4. PathGoesOn(P, o, u)
  BY <1>2
<1> HIDE DEF P, o
<1>5. v = ParseUri(u, c, o + (Len(P) + 1))
  BY <1>3
<1>6. /\ PathDone(P, o, v)
      /\ c = "SP" \/ ~Dotted(LastEntry(P)) => v.abs_path.len = Len(P)
  BY <1>1, <1>3, <1>4, <1>5, PathEnds, Zenon
<1> QED BY <1>2, <1>3, <1>6, Zenon DEF P, o

\* The question mark ends the path.
LEMMA QueryBegins ==
    ASSUME NEW t \in Seq(Char), NEW f \in Int, NEW u, InsidePath(t, f, u),
           NEW v, v = ParseUri(u, "?", f + (Len(t) + 1)), NEW g, g = Append(t, "?")
    PROVE  BehindPath(g, f, v)
<1>1. "?" \in Char /\ "?" \in PathStops
  BY DEF Char, PathStops
<1>2. PICK p \in 1 .. Len(t) :
             /\ PathAt(t, p) /\ PathDone(SubSeq(t, p, Len(t)), f + p - 1, v)
             /\ ~Dotted(LastEntry(SubSeq(t, p, Len(t)))) => v.abs_path.len = (Len(t) + 1) - p
  <2>1. "?" # "SP"
    OBVIOUS
  <2> QED BY <1>1, <2>1, InsideEnds, Zenon
<1>3. /\ Len(g) = Len(t) + 1 /\ Len(t) \in Nat /\ g[Len(t) + 1] = "?"
      /\ \A i \in 1 .. Len(t) : g[i] = t[i]
  BY <1>1, EntryGrows
<1> DEFINE q == Len(t) + 1
<1>4. p \in 1 .. Len(g) /\ q \in 1 .. Len(g) /\ p < q /\ q - 1 = Len(t) /\ q = Len(g)
  BY <1>3
<1>5. SubSeq(g, p, q - 1) = SubSeq(t, p, Len(t))
  BY <1>1, <1>4, PartStays
<1>6. QueryAt(g, q)
  <2>1. \A i \in 1 .. Len(t) : g[i] # "?"
    BY <1>3 DEF InsidePath, NoQuery
  <2>2. q \in 1 .. Len(g) + 1 /\ g[q] = "?"
    BY <1>3, <1>4
  <2> QED BY <1>4, <2>1, <2>2, Zenon DEF QueryAt
<1>7. v.query = [data |-> f + q, len |-> 0]
  <2>1. u.query = NULL /\ u.state \in InPath
    BY DEF InsidePath
  <2>2. v.query = From(f + (Len(t) + 1), u.query)
    BY <2>1, Parsed, PathKeeps
  <2> QED BY <2>1, <2>2 DEF From, NULL
<1>8. v.state = "QUERY"
  <2>1. u.state \in InPath
    BY DEF InsidePath
  <2> QED BY <2>1, Parsed, PathKeeps
<1>9. PathAt(g, p)
  BY <1>1, <1>2, PathAtStays
<1> HIDE DEF q
<1>10. PathRange(g, f, p, q, v)
  BY <1>2, <1>4, <1>5, <1>6, <1>9, Zenon DEF PathRange
<1>11. ~Dotted(LastEntry(SubSeq(g, p, q - 1))) => v.abs_path.len = q - p
  BY <1>2, <1>5, Zenon DEF q
<1> QED BY <1>4, <1>7, <1>8, <1>10, <1>11, Zenon DEF BehindPath

\* A query changes nothing of the path.
LEMMA QueryKeeps ==
    ASSUME NEW u, u.state = "QUERY", NEW c, NEW p, NEW v, v = ParseUri(u, c, p)
    PROVE  /\ v.abs_path = u.abs_path /\ v.extension = u.extension
           /\ v.nddots = u.nddots /\ v.nentries = u.nentries
           /\ v.query = IF c = "SP" THEN EndedAt(u.query, p) ELSE u.query
<1>1. /\ v.abs_path = AbsPath(u, c, p) /\ v.extension = Extension(u, c, p)
      /\ v.query = Query(u, c, p) /\ v.nddots = Ddots(u, c) /\ v.nentries = Entries(u, c)
  BY Parsed
<1>2. AbsPath(u, c, p) = u.abs_path
  BY DEF AbsPath, InPath
<1>3. Extension(u, c, p) = u.extension
  BY DEF Extension
<1>4. Query(u, c, p) = IF c = "SP" THEN EndedAt(u.query, p) ELSE u.query
  BY DEF Query, InPath
<1>5. Ddots(u, c) = u.nddots /\ Entries(u, c) = u.nentries
  BY DEF Ddots, Entries
<1> QED BY <1>1, <1>2, <1>3, <1>4, <1>5, Zenon

\* What is known of a path that has ended depends on these fields only.
LEMMA DoneStays ==
    ASSUME NEW P, NEW o, NEW u, PathDone(P, o, u), NEW v, v.extension = u.extension,
           v.nddots = u.nddots, v.nentries = u.nentries,
           v.abs_path \in [data : {o + 1}, len : Int]
    PROVE  PathDone(P, o, v)
  BY Zenon DEF PathDone

\* A character of the query.
LEMMA QueryStep ==
    ASSUME NEW t \in Seq(Char), NEW f \in Int, NEW u, BehindPath(t, f, u),
           NEW c \in Char, c # "SP", UriMove(u.state, c) # "ERROR",
           NEW v, v = ParseUri(u, c, f + (Len(t) + 1)), NEW g, g = Append(t, c)
    PROVE  BehindPath(g, f, v)
<1>1. u.state = "QUERY"
  BY DEF BehindPath
<1>2. PICK p, q \in 1 .. Len(t) :
         /\ PathRange(t, f, p, q, u)
         /\ u.query = [data |-> f + q, len |-> 0]
         /\ ~Dotted(LastEntry(SubSeq(t, p, q - 1))) => u.abs_path.len = q - p
  BY DEF BehindPath
<1>3. /\ Len(g) = Len(t) + 1 /\ Len(t) \in Nat /\ \A i \in 1 .. Len(t) : g[i] = t[i]
  BY EntryGrows
<1>4. /\ v.abs_path = u.abs_path /\ v.extension = u.extension
      /\ v.nddots = u.nddots /\ v.nentries = u.nentries /\ v.query = u.query
  BY <1>1, QueryKeeps
<1>5. SubSeq(g, p, q - 1) = SubSeq(t, p, q - 1)
  <2>1. q - 1 \in Int /\ q - 1 <= Len(t) /\ p \in Nat \ {0}
    OBVIOUS
  <2> QED BY <2>1, PartStays
<1>6. /\ PathAt(t, p) /\ p < q /\ QueryAt(t, q)
      /\ PathDone(SubSeq(t, p, q - 1), f + p - 1, u)
  BY <1>2 DEF PathRange
<1>7. PathAt(g, p)
  BY <1>6, PathAtStays
<1>8. QueryAt(g, q)
  <2>1. t[q] = "?" /\ \A i \in 1 .. q - 1 : t[i] # "?"
    BY <1>6 DEF QueryAt
  <2>2. q \in 1 .. Len(g) + 1 /\ \A i \in 1 .. q - 1 : i \in 1 .. Len(t)
    BY <1>3
  <2>3. g[q] = "?" /\ \A i \in 1 .. q - 1 : g[i] # "?"
    BY <1>3, <2>1, <2>2
  <2> QED BY <2>2, <2>3, Zenon DEF QueryAt
<1>9. PathDone(SubSeq(g, p, q - 1), f + p - 1, v)
  <2>1. u.abs_path \in [data : {(f + p - 1) + 1}, len : Int]
    BY <1>6, Zenon DEF PathDone
  <2> QED BY <1>4, <1>5, <1>6, <2>1, DoneStays, Zenon
<1>10. v.state = "QUERY"
  <2>1. v.state = UriMove("QUERY", c)
    BY <1>1, Parsed
  <2> QED BY <1>1, <2>1, PathMoveIs
<1>11. p \in 1 .. Len(g) /\ q \in 1 .. Len(g)
  BY <1>3
<1>12. PathRange(g, f, p, q, v)
  BY <1>6, <1>7, <1>8, <1>9, Zenon DEF PathRange
<1> QED BY <1>2, <1>4, <1>5, <1>10, <1>11, <1>12, Zenon DEF BehindPath

\* What is known of a URI stays known with every character of it.
LEMMA ReadsStep ==
    ASSUME NEW t \in Seq(Char), NEW f \in Int, NEW u, Reads(t, f, u),
           NEW c \in Char, c # "SP", NEW v, v = ParseUri(u, c, f + (Len(t) + 1)),
           v.state # "ERROR"
    PROVE  Reads(Append(t, c), f, v)
<1> SUFFICES ASSUME NEW g, g = Append(t, c)
             PROVE  Reads(g, f, v)
  OBVIOUS
<1>1. v.state = UriMove(u.state, c) /\ UriMove(u.state, c) # "ERROR"
  BY Parsed
<1>2. CASE t = <<>> /\ u = NewUri
  <2>1. f + (Len(t) + 1) = f + 1
    BY <1>2
  <2>2. UriMove("BEGIN", c) # "ERROR"
    BY <1>1, <1>2, NewUriIs
  <2> QED BY <1>2, <2>1, <2>2, FirstStep
<1>3. CASE BeforePath(t, f, u)
  <2>1. CASE u.state \in {"SCHEME", "SCHEME_COLON", "SCHEME_SLASH", "SCHEME_SLASH_SLASH"}
    <3>1. BeforePath(g, f, v)
      BY <1>1, <1>3, <2>1, SchemeStep
    <3> QED BY <3>1 DEF Reads
  <2>2. CASE u.state \in {"HOST", "PORT"} /\ c # "/"
    <3>1. BeforePath(g, f, v)
      BY <1>1, <1>3, <2>2, HostStep
    <3> QED BY <3>1 DEF Reads
  <2>3. CASE u.state \in {"HOST", "PORT"} /\ c = "/"
    <3>1. InsidePath(g, f, v)
      BY <1>1, <1>3, <2>3, HostEnds
    <3> QED BY <3>1 DEF Reads
  <2> QED BY <1>3, <2>1, <2>2, <2>3 DEF BeforePath
<1>4. CASE InsidePath(t, f, u)
  <2>1. CASE c = "?"
    <3>1. BehindPath(g, f, v)
      BY <1>4, <2>1, QueryBegins
    <3> QED BY <3>1 DEF Reads
  <2>2. CASE c # "?"
    <3>1. InsidePath(g, f, v)
      BY <1>1, <1>4, <2>2, InsideStep
    <3> QED BY <3>1 DEF Reads
  <2> QED BY <2>1, <2>2
<1>5. CASE BehindPath(t, f, u)
  <2>1. BehindPath(g, f, v)
    BY <1>1, <1>5, QueryStep
  <2> QED BY <2>1 DEF Reads
<1> QED BY <1>2, <1>3, <1>4, <1>5 DEF Reads

\* What sy_parse_request_line makes of a URI at the space behind it.
LEMMA RootedIs ==
    ASSUME NEW u, NEW p, NEW v, v = ParseUri(u, "SP", p), NEW w, w = Rooted(v, "SP"),
           NEW d, NEW l, v.abs_path = [data |-> d, len |-> l]
    PROVE  /\ w.abs_path = [data |-> d, len |-> IF v.nentries < v.nddots THEN 1 ELSE l]
           /\ w.extension = v.extension /\ w.query = v.query
           /\ w.nddots = v.nddots /\ w.nentries = v.nentries
<1>1. CASE v.nentries < v.nddots
  <2>1. w = [v EXCEPT !.abs_path.len = 1]
    BY <1>1 DEF Rooted
  <2>2. w.abs_path = [v.abs_path EXCEPT !.len = 1]
    BY <2>1 DEF ParseUri
  <2>3. /\ w.extension = v.extension /\ w.query = v.query
        /\ w.nddots = v.nddots /\ w.nentries = v.nentries
    BY <2>1 DEF ParseUri
  <2> QED BY <1>1, <2>2, <2>3
<1>2. CASE ~(v.nentries < v.nddots)
  BY <1>2 DEF Rooted
<1> QED BY <1>1, <1>2

\* The path that is done is the one of the URI.
LEMMA RootedDone ==
    ASSUME NEW P, NEW o \in Int, NEW u, NEW p, NEW v, v = ParseUri(u, "SP", p), PathDone(P, o, v),
           NEW w, w = Rooted(v, "SP")
    PROVE  /\ PathDone(P, o, w) /\ w.query = v.query
           /\ IF w.nentries < w.nddots THEN w.abs_path.len = 1 ELSE w.abs_path.len = v.abs_path.len
<1>1. PICK l \in Int : v.abs_path = [data |-> o + 1, len |-> l]
  <2>1. v.abs_path \in [data : {o + 1}, len : Int]
    BY DEF PathDone
  <2> QED BY <2>1
<1>2. /\ w.abs_path = [data |-> o + 1, len |-> IF v.nentries < v.nddots THEN 1 ELSE l]
      /\ w.extension = v.extension /\ w.query = v.query
      /\ w.nddots = v.nddots /\ w.nentries = v.nentries
  BY <1>1, RootedIs
<1>3. w.abs_path \in [data : {o + 1}, len : Int]
  BY <1>2
<1>4. PathDone(P, o, w)
  BY <1>2, <1>3, DoneStays
<1> QED BY <1>1, <1>2, <1>4

\* The space behind a URI with no path: its path is the slash of the root.
LEMMA HostOnlyEnds ==
    ASSUME NEW t \in Seq(Char), NEW f \in Int, NEW u, BeforePath(t, f, u), u.state = "PORT",
           NEW v, v = ParseUri(u, "SP", f + (Len(t) + 1)), NEW w, w = Rooted(v, "SP")
    PROVE  HostOnly(t, f, w)
<1>1. PICK k \in 2 .. Len(t) - 2 : Authority(t, k, Len(t)) /\ u.host.data = f + k + 2
  BY DEF BeforePath
<1>2. NoPath(u) /\ NoQuery(t)
  BY DEF BeforePath
<1>3. v.abs_path = [data |-> f + k, len |-> 1]
  <2>1. v.abs_path = AbsPath(u, "SP", f + (Len(t) + 1))
    BY Parsed
  <2>2. v.abs_path = [data |-> u.host.data - 2, len |-> 1]
    BY <2>1 DEF AbsPath, InPath
  <2>3. (f + k + 2) - 2 = f + k
    OBVIOUS
  <2> QED BY <1>1, <2>2, <2>3, Zenon
<1>4. v.extension = NULL /\ v.query = NULL /\ v.nddots = 0 /\ v.nentries = 0
  <2>1. /\ v.extension = Extension(u, "SP", f + (Len(t) + 1))
        /\ v.query = Query(u, "SP", f + (Len(t) + 1))
        /\ v.nddots = Ddots(u, "SP") /\ v.nentries = Entries(u, "SP")
    BY Parsed
  <2>2. Extension(u, "SP", f + (Len(t) + 1)) = NULL
    BY <1>2 DEF Extension, NoPath
  <2>3. Query(u, "SP", f + (Len(t) + 1)) = NULL
    BY <1>2 DEF Query, InPath, NoPath
  <2>4. Ddots(u, "SP") = 0 /\ Entries(u, "SP") = 0
    BY <1>2 DEF Ddots, Entries, NoPath
  <2> QED BY <2>1, <2>2, <2>3, <2>4, Zenon
<1>5. /\ w.abs_path = [data |-> f + k, len |-> IF v.nentries < v.nddots THEN 1 ELSE 1]
      /\ w.extension = v.extension /\ w.query = v.query
      /\ w.nddots = v.nddots /\ w.nentries = v.nentries
  BY <1>3, RootedIs
<1>6. w.abs_path = [data |-> f + k, len |-> 1]
  BY <1>5
<1> QED BY <1>1, <1>2, <1>4, <1>5, <1>6, Zenon DEF HostOnly

\* The space behind a path.
LEMMA PathIsRead ==
    ASSUME NEW t \in Seq(Char), NEW f \in Int, NEW u, InsidePath(t, f, u),
           NEW v, v = ParseUri(u, "SP", f + (Len(t) + 1)), NEW w, w = Rooted(v, "SP")
    PROVE  UriRead(t, f, w)
<1>1. "SP" \in PathStops
  BY DEF PathStops
<1>2. PICK p \in 1 .. Len(t) :
             /\ PathAt(t, p) /\ PathDone(SubSeq(t, p, Len(t)), f + p - 1, v)
             /\ v.abs_path.len = (Len(t) + 1) - p
  BY <1>1, InsideEnds, Zenon
<1>3. f + p - 1 \in Int
  OBVIOUS
<1>4. /\ PathDone(SubSeq(t, p, Len(t)), f + p - 1, w) /\ w.query = v.query
      /\ IF w.nentries < w.nddots THEN w.abs_path.len = 1 ELSE w.abs_path.len = v.abs_path.len
  BY <1>2, <1>3, RootedDone
<1>5. w.query = NULL
  <2>1. u.state \in InPath /\ u.query = NULL
    BY DEF InsidePath
  <2>2. v.query = u.query
    BY <2>1, Parsed, PathKeeps
  <2> QED BY <1>4, <2>1, <2>2
<1> DEFINE q == Len(t) + 1
<1>6. /\ p \in 1 .. Len(t) + 1 /\ q \in 1 .. Len(t) + 1 /\ p < q /\ q > Len(t)
      /\ ~(q <= Len(t)) /\ q - 1 = Len(t) /\ q - p = (Len(t) + 1) - p
  OBVIOUS
<1> HIDE DEF q
<1>7. QueryAt(t, q)
  <2>1. NoQuery(t)
    BY DEF InsidePath
  <2> QED BY <1>6, <2>1, Zenon DEF QueryAt, NoQuery
<1>8. PathRange(t, f, p, q, w)
  BY <1>2, <1>4, <1>6, <1>7, Zenon DEF PathRange
<1>9. IF w.nentries < w.nddots THEN w.abs_path.len = 1 ELSE w.abs_path.len = q - p
  BY <1>2, <1>4, <1>6, Zenon
<1> QED BY <1>5, <1>6, <1>8, <1>9, Zenon DEF UriRead

\* The space behind a query.
LEMMA QueryIsRead ==
    ASSUME NEW t \in Seq(Char), NEW f \in Int, NEW u, BehindPath(t, f, u),
           NEW v, v = ParseUri(u, "SP", f + (Len(t) + 1)), NEW w, w = Rooted(v, "SP")
    PROVE  UriRead(t, f, w)
<1>1. u.state = "QUERY"
  BY DEF BehindPath
<1>2. PICK p, q \in 1 .. Len(t) :
         /\ PathRange(t, f, p, q, u)
         /\ u.query = [data |-> f + q, len |-> 0]
         /\ ~Dotted(LastEntry(SubSeq(t, p, q - 1))) => u.abs_path.len = q - p
  BY DEF BehindPath
<1>3. /\ v.abs_path = u.abs_path /\ v.extension = u.extension
      /\ v.nddots = u.nddots /\ v.nentries = u.nentries
      /\ v.query = EndedAt(u.query, f + (Len(t) + 1))
  BY <1>1, QueryKeeps
<1>4. /\ PathAt(t, p) /\ p < q /\ QueryAt(t, q)
      /\ PathDone(SubSeq(t, p, q - 1), f + p - 1, u)
  BY <1>2 DEF PathRange
<1>5. PathDone(SubSeq(t, p, q - 1), f + p - 1, v)
  <2>1. u.abs_path \in [data : {(f + p - 1) + 1}, len : Int]
    BY <1>4, Zenon DEF PathDone
  <2> QED BY <1>3, <1>4, <2>1, DoneStays, Zenon
<1>6. f + p - 1 \in Int
  OBVIOUS
<1>7. /\ PathDone(SubSeq(t, p, q - 1), f + p - 1, w) /\ w.query = v.query
      /\ IF w.nentries < w.nddots THEN w.abs_path.len = 1 ELSE w.abs_path.len = v.abs_path.len
  BY <1>5, <1>6, RootedDone
<1>8. w.query = [data |-> (f + q) + 1, len |-> Len(t) - q]
  <2>1. (f + (Len(t) + 1)) - ((f + q) + 1) = Len(t) - q
    OBVIOUS
  <2>2. v.query = [data |-> (f + q) + 1, len |-> (f + (Len(t) + 1)) - ((f + q) + 1)]
    BY <1>2, <1>3 DEF EndedAt
  <2> QED BY <1>7, <2>1, <2>2, Zenon
<1>9. p \in 1 .. Len(t) + 1 /\ q \in 1 .. Len(t) + 1 /\ ~(q > Len(t))
  OBVIOUS
<1>10. PathRange(t, f, p, q, w)
  BY <1>4, <1>7, Zenon DEF PathRange
<1>11. ~Dotted(LastEntry(SubSeq(t, p, q - 1))) => v.abs_path.len = q - p
  BY <1>2, <1>3, Zenon
<1> QED BY <1>7, <1>8, <1>9, <1>10, <1>11, Zenon DEF UriRead

\* The space behind a URI.
LEMMA ReadsEnd ==
    ASSUME NEW t \in Seq(Char), NEW f \in Int, NEW u, Reads(t, f, u),
           NEW v, v = ParseUri(u, "SP", f + (Len(t) + 1)), v.state # "ERROR",
           NEW w, w = Rooted(v, "SP")
    PROVE  UriRead(t, f, w)
<1>1. UriMove(u.state, "SP") # "ERROR"
  BY Parsed
<1>2. CASE t = <<>> /\ u = NewUri
  <2>1. UriMove("BEGIN", "SP") = "ERROR"
    BY UriMoveIs DEF Letter, Upper, Lower
  <2> QED BY <1>1, <1>2, <2>1, NewUriIs
<1>3. CASE BeforePath(t, f, u)
  <2>1. u.state = "PORT"
    BY <1>1, <1>3, UriMoveIs DEF BeforePath, Letter, Upper, Lower, Digit
  <2>2. HostOnly(t, f, w)
    BY <1>3, <2>1, HostOnlyEnds
  <2> QED BY <2>2 DEF UriRead
<1>4. CASE InsidePath(t, f, u)
  BY <1>4, PathIsRead
<1>5. CASE BehindPath(t, f, u)
  BY <1>5, QueryIsRead
<1> QED BY <1>2, <1>3, <1>4, <1>5 DEF Reads

-------------------------------------------------------------------------------
(* The URI in its line.                                                    *)

\* The spaces behind the method, from m to before f.
UriBegins(m, f) ==
    /\ m < f /\ \A i \in m .. f - 1 : line[i] = "SP"
    /\ \A i \in 1 .. m - 1 : line[i] # "SP"

\* A URI has begun at f.
UriGoesOn ==
    \E m, f \in 1 .. Len(line) :
      /\ UriBegins(m, f) /\ \A i \in f .. Len(line) : line[i] # "SP"
      /\ Reads(SubSeq(line, f, Len(line)), f, uri)

\* The URI of the line is from f to before e.
UriAt(m, f, e) == /\ UriBegins(m, f) /\ f < e /\ line[e] = "SP"
                  /\ \A i \in f .. e - 1 : line[i] # "SP"
UriIsRead == \E m, f, e \in 1 .. Len(line) :
                UriAt(m, f, e) /\ UriRead(SubSeq(line, f, e - 1), f, uri)

UriInv ==
    /\ state = "RL_BEGIN" => uri = NewUri
    /\ (state = "METHOD" /\ result = "AGAIN") =>
         (uri = NewUri /\ \A i \in 1 .. Len(line) : line[i] # "SP")
    /\ (state = "SP_BEFORE_URI" /\ result = "AGAIN") =>
         (uri = NewUri /\ \E m \in 1 .. Len(line) : UriBegins(m, Len(line) + 1))
    /\ (state = "URI" /\ result = "AGAIN") => UriGoesOn
    /\ ((state \in VersionStates /\ result = "AGAIN") \/ RequestLineRead) => UriIsRead
    /\ RequestLineRead => zero \in {0, uri.abs_path.data + uri.abs_path.len}

\* A line that goes on keeps where its URI is.
LEMMA UriBeginsStays ==
    ASSUME NEW n \in Nat, Len(line) = n, Len(line') = n + 1, \A i \in 1 .. n : line'[i] = line[i],
           NEW m \in 1 .. n, NEW f \in 1 .. n + 1, UriBegins(m, f)
    PROVE  UriBegins(m, f)'
<1>1. \A i \in m .. f - 1 : i \in 1 .. n
  OBVIOUS
<1>2. \A i \in 1 .. m - 1 : i \in 1 .. n
  OBVIOUS
<1> QED BY <1>1, <1>2 DEF UriBegins

\* A character in or behind the method.
LEMMA MethodStep ==
    ASSUME TypeInv, UriInv, result = "AGAIN", NEW c \in Char, Read(c), Method(c)
    PROVE  UriInv'
<1>1. state = "METHOD" /\ line \in Seq(Char)
  BY DEF Method, TypeInv
<1>2. line' = Append(line, c) /\ Len(line) \in Nat
  BY <1>1 DEF Read
<1>3. /\ Len(line') = Len(line) + 1 /\ line'[Len(line) + 1] = c
      /\ \A i \in 1 .. Len(line) : line'[i] = line[i]
  BY <1>1, <1>2, Appended
<1>4. uri = NewUri /\ \A i \in 1 .. Len(line) : line[i] # "SP"
  BY <1>1 DEF UriInv
<1>5. uri' = uri
  BY DEF Method, Fail
<1>6. CASE state' = "METHOD" /\ result' = "AGAIN"
  <2>1. c # "SP"
    BY <1>6 DEF Method, Fail
  <2>2. \A i \in 1 .. Len(line') : line'[i] # "SP"
    BY <1>2, <1>3, <1>4, <2>1
  <2> QED BY <1>4, <1>5, <1>6, <2>2 DEF UriInv, VersionStates, RequestLineRead
<1>7. CASE state' = "SP_BEFORE_URI"
  <2>1. c = "SP"
    BY <1>1, <1>7 DEF Method
  <2> SUFFICES ASSUME NEW n \in Nat, n = Len(line)
               PROVE  UriInv'
    BY <1>2
  <2>2. n + 1 \in 1 .. n + 1 /\ n + 1 < n + 2 /\ (n + 2) - 1 = n + 1 /\ (n + 1) - 1 = n
    OBVIOUS
  <2>3. Len(line') = n + 1 /\ Len(line') + 1 = n + 2 /\ line'[n + 1] = "SP"
    BY <1>3, <2>1
  <2>4. /\ \A i \in n + 1 .. (n + 2) - 1 : line'[i] = "SP"
        /\ \A i \in 1 .. (n + 1) - 1 : line'[i] # "SP"
    <3>1. \A i \in n + 1 .. (n + 2) - 1 : i = n + 1
      OBVIOUS
    <3>2. \A i \in 1 .. (n + 1) - 1 : i \in 1 .. Len(line)
      BY <2>2
    <3> QED BY <1>3, <1>4, <2>3, <3>1, <3>2
  <2>5. (\E m \in 1 .. Len(line) : UriBegins(m, Len(line) + 1))'
    BY <2>2, <2>3, <2>4 DEF UriBegins
  <2>6. result' = "AGAIN"
    BY <1>7, <1>1 DEF Method, Fail
  <2>7. uri' = NewUri
    BY <1>4, <1>5
  <2> QED BY <1>7, <2>5, <2>6, <2>7 DEF UriInv, VersionStates, RequestLineRead
<1>8. CASE result' = "BAD_METHOD" /\ state' = state
  BY <1>1, <1>4, <1>5, <1>8 DEF UriInv, VersionStates, RequestLineRead
<1>9. \/ state' = "METHOD" /\ result' = "AGAIN"
      \/ state' = "SP_BEFORE_URI"
      \/ result' = "BAD_METHOD" /\ state' = state
  BY <1>1 DEF Method, Fail
<1> QED BY <1>6, <1>7, <1>8, <1>9

\* What is known of the URI after another character of it.
LEMMA UriReads ==
    ASSUME NEW n \in Nat, line \in Seq(Char), Len(line) = n, NEW c \in Char, c # "SP",
           line' = Append(line, c), NEW m \in 1 .. n, NEW f \in 1 .. n + 1, UriBegins(m, f),
           \A i \in f .. n : line[i] # "SP", Reads(SubSeq(line, f, n), f, uri),
           uri' = ParseUri(uri, c, n + 2), uri'.state # "ERROR"
    PROVE  UriGoesOn'
<1>1. /\ Len(line') = n + 1 /\ line'[n + 1] = c /\ \A i \in 1 .. n : line'[i] = line[i]
  BY Appended
<1>2. UriBegins(m, f)'
  BY <1>1, UriBeginsStays
<1>3. \A i \in f .. n + 1 : line'[i] # "SP"
  <2>1. \A i \in f .. n + 1 : i = n + 1 \/ (i \in f .. n /\ i \in 1 .. n)
    OBVIOUS
  <2> QED BY <1>1, <2>1
<1> DEFINE t == SubSeq(line, f, n)
<1>4. /\ t \in Seq(Char) /\ f + (Len(t) + 1) = n + 2 /\ f \in Int
  OBVIOUS
<1>5. SubSeq(line', f, n + 1) = Append(t, c)
  BY PartGrows
<1> HIDE DEF t
<1>6. Reads(Append(t, c), f, uri')
  <2>1. Reads(t, f, uri)
    BY DEF t
  <2> QED BY <1>4, <2>1, ReadsStep, Zenon
<1>7. Reads(SubSeq(line', f, Len(line')), f, uri')
  BY <1>1, <1>5, <1>6, Zenon
<1>8. m \in 1 .. Len(line') /\ f \in 1 .. Len(line')
  BY <1>1
<1>9. \A i \in f .. Len(line') : line'[i] # "SP"
  BY <1>1, <1>3
<1> QED BY <1>2, <1>7, <1>8, <1>9, Zenon DEF UriGoesOn

\* The space behind the URI.
LEMMA UriCloses ==
    ASSUME NEW n \in Nat, line \in Seq(Char), Len(line) = n,
           line' = Append(line, "SP"), NEW m \in 1 .. n, NEW f \in 1 .. n, UriBegins(m, f),
           \A i \in f .. n : line[i] # "SP", Reads(SubSeq(line, f, n), f, uri),
           NEW v, v = ParseUri(uri, "SP", n + 2), v.state # "ERROR", uri' = Rooted(v, "SP")
    PROVE  UriIsRead'
<1>0. "SP" \in Char
  BY DEF Char
<1>1. /\ Len(line') = n + 1 /\ line'[n + 1] = "SP" /\ \A i \in 1 .. n : line'[i] = line[i]
  BY <1>0, Appended
<1>2. UriBegins(m, f)'
  BY <1>1, UriBeginsStays
<1>3. \A i \in f .. (n + 1) - 1 : line'[i] # "SP"
  <2>1. \A i \in f .. (n + 1) - 1 : i \in f .. n /\ i \in 1 .. n
    OBVIOUS
  <2> QED BY <1>1, <2>1
<1> DEFINE t == SubSeq(line, f, n)
<1>4. /\ t \in Seq(Char) /\ f + (Len(t) + 1) = n + 2 /\ f \in Int
  OBVIOUS
<1>5. SubSeq(line', f, (n + 1) - 1) = t
  <2>1. (n + 1) - 1 = n /\ n <= Len(line) /\ n \in Int /\ f \in Nat \ {0}
    OBVIOUS
  <2>2. SubSeq(line', f, n) = SubSeq(line, f, n)
    BY <1>0, <2>1, PartStays
  <2> QED BY <2>1, <2>2
<1> HIDE DEF t
<1>6. UriRead(t, f, uri')
  <2>1. Reads(t, f, uri)
    BY DEF t
  <2> QED BY <1>4, <2>1, ReadsEnd, Zenon
<1>7. UriAt(m, f, n + 1)'
  <2>1. f < n + 1
    OBVIOUS
  <2> QED BY <1>1, <1>2, <1>3, <2>1, Zenon DEF UriAt
<1>8. m \in 1 .. Len(line') /\ f \in 1 .. Len(line') /\ n + 1 \in 1 .. Len(line')
  BY <1>1
<1> QED BY <1>5, <1>6, <1>7, <1>8, Zenon DEF UriIsRead

\* A character of the URI.
LEMMA UriStep ==
    ASSUME TypeInv, UriInv, result = "AGAIN", NEW c \in Char, Read(c), Uri(c)
    PROVE  UriInv'
<1>1. state \in {"SP_BEFORE_URI", "URI"} /\ line \in Seq(Char)
  BY DEF Uri, TypeInv
<1> SUFFICES ASSUME NEW n \in Nat, n = Len(line)
             PROVE  UriInv'
  BY <1>1
<1>2. line' = Append(line, c) /\ Here = n + 2
  BY <1>1 DEF Read, Here
<1>3. /\ Len(line') = n + 1 /\ line'[n + 1] = c /\ \A i \in 1 .. n : line'[i] = line[i]
  BY <1>1, <1>2, Appended
<1> DEFINE v == ParseUri(uri, c, Here)
<1>4. \/ result' # "AGAIN" /\ result' # "OK" /\ state' = state
      \/ /\ state = "SP_BEFORE_URI" /\ c = "SP" /\ state' = state /\ uri' = uri
         /\ result' = result
      \/ /\ v.state # "ERROR" /\ uri' = Rooted(v, c) /\ result' = result
         /\ state' = IF c = "SP" THEN "SP_BEFORE_VERSION" ELSE "URI"
         /\ ~(state = "SP_BEFORE_URI" /\ c = "SP")
  BY DEF Uri, Fail
<1> HIDE DEF v
<1>5. CASE result' # "AGAIN" /\ result' # "OK" /\ state' = state
  BY <1>1, <1>5 DEF UriInv, RequestLineRead
<1>6. CASE state = "SP_BEFORE_URI" /\ c = "SP" /\ state' = state /\ uri' = uri /\ result' = result
  <2>1. uri = NewUri
    BY <1>6 DEF UriInv
  <2>2. PICK m \in 1 .. n : UriBegins(m, n + 1)
    BY <1>6 DEF UriInv
  <2>3. UriBegins(m, n + 1)'
    BY <1>3, <2>2, UriBeginsStays
  <2>4. UriBegins(m, n + 2)'
    <3>1. \A i \in m .. (n + 2) - 1 : i = n + 1 \/ i \in m .. (n + 1) - 1
      OBVIOUS
    <3>2. m < n + 2
      OBVIOUS
    <3> QED BY <1>3, <1>6, <2>3, <3>1, <3>2 DEF UriBegins
  <2>5. (\E k \in 1 .. Len(line) : UriBegins(k, Len(line) + 1))'
    <3>1. m \in 1 .. Len(line') /\ Len(line') + 1 = n + 2
      BY <1>3
    <3> QED BY <2>4, <3>1
  <2> QED BY <1>6, <2>1, <2>5 DEF UriInv, VersionStates, RequestLineRead
<1>7. CASE /\ v.state # "ERROR" /\ uri' = Rooted(v, c) /\ result' = result
           /\ state' = IF c = "SP" THEN "SP_BEFORE_VERSION" ELSE "URI"
           /\ ~(state = "SP_BEFORE_URI" /\ c = "SP")
  <2>0. v = ParseUri(uri, c, n + 2)
    BY <1>2 DEF v
  <2>1. CASE c = "SP"
    <3>1. state = "URI"
      BY <1>1, <1>7, <2>1
    <3>2. UriGoesOn
      BY <3>1 DEF UriInv
    <3>3. UriIsRead'
      BY <1>1, <1>2, <1>7, <2>0, <2>1, <3>2, UriCloses DEF UriGoesOn
    <3>4. state' = "SP_BEFORE_VERSION" /\ result' = "AGAIN"
      BY <1>7, <2>1
    <3> QED BY <3>3, <3>4 DEF UriInv, RequestLineRead
  <2>2. CASE c # "SP"
    <3>1. uri' = v /\ state' = "URI" /\ result' = "AGAIN"
      BY <1>7, <2>2 DEF Rooted
    <3>2. \E m \in 1 .. n, f \in 1 .. n + 1 :
            /\ UriBegins(m, f) /\ \A i \in f .. n : line[i] # "SP"
            /\ Reads(SubSeq(line, f, n), f, uri)
      <4>1. CASE state = "SP_BEFORE_URI"
        <5>1. uri = NewUri
          BY <4>1 DEF UriInv
        <5>2. PICK m \in 1 .. n : UriBegins(m, n + 1)
          BY <4>1 DEF UriInv
        <5>3. n + 1 \in 1 .. n + 1 /\ \A i \in n + 1 .. n : line[i] # "SP"
          OBVIOUS
        <5>4. SubSeq(line, n + 1, n) = <<>>
          BY <1>1
        <5>5. Reads(SubSeq(line, n + 1, n), n + 1, uri)
          BY <5>1, <5>4 DEF Reads
        <5> QED BY <5>2, <5>3, <5>5
      <4>2. CASE state = "URI"
        <5>1. UriGoesOn
          BY <4>2 DEF UriInv
        <5>2. \A f \in 1 .. n : f \in 1 .. n + 1
          OBVIOUS
        <5> QED BY <5>1, <5>2 DEF UriGoesOn
      <4> QED BY <1>1, <4>1, <4>2
    <3>3. UriGoesOn'
      BY <1>1, <1>2, <1>7, <2>0, <2>2, <3>1, <3>2, UriReads
    <3> QED BY <3>1, <3>3 DEF UriInv, VersionStates, RequestLineRead
  <2> QED BY <2>1, <2>2
<1> QED BY <1>4, <1>5, <1>6, <1>7

\* The rest of the request line leaves the URI alone.
LEMMA UriStaysRead ==
    ASSUME NEW n \in Nat, line \in Seq(Char), Len(line) = n, NEW c \in Char,
           line' = Append(line, c), uri' = uri, UriIsRead
    PROVE  UriIsRead'
<1>1. /\ Len(line') = n + 1 /\ \A i \in 1 .. n : line'[i] = line[i]
  BY Appended
<1>2. PICK m \in 1 .. n, f \in 1 .. n, e \in 1 .. n :
        UriAt(m, f, e) /\ UriRead(SubSeq(line, f, e - 1), f, uri)
  BY DEF UriIsRead
<1>3. UriBegins(m, f)'
  BY <1>1, <1>2, UriBeginsStays DEF UriAt
<1>4. /\ f < e /\ line'[e] = "SP" /\ \A i \in f .. e - 1 : line'[i] # "SP"
  <2>1. \A i \in f .. e - 1 : i \in 1 .. n
    OBVIOUS
  <2> QED BY <1>1, <1>2, <2>1 DEF UriAt
<1>5. SubSeq(line', f, e - 1) = SubSeq(line, f, e - 1)
  <2>1. e - 1 \in Int /\ e - 1 <= Len(line) /\ f \in Nat \ {0}
    OBVIOUS
  <2> QED BY <2>1, PartStays
<1>6. UriAt(m, f, e)'
  BY <1>3, <1>4, Zenon DEF UriAt
<1>7. UriRead(SubSeq(line', f, e - 1), f, uri')
  BY <1>2, <1>5, Zenon
<1>8. m \in 1 .. Len(line') /\ f \in 1 .. Len(line') /\ e \in 1 .. Len(line')
  BY <1>1
<1> QED BY <1>6, <1>7, <1>8, Zenon DEF UriIsRead

\* A character of the version.
LEMMA VersionStep ==
    ASSUME TypeInv, HeaderInv, UriInv, result = "AGAIN", NEW c \in Char, Read(c), Version(c)
    PROVE  UriInv'
<1>1. state \in VersionStates /\ line \in Seq(Char)
  BY Tables DEF Version, TypeInv
<1>2. line' = Append(line, c)
  BY <1>1 DEF Read, VersionStates
<1>3. UriIsRead
  BY <1>1 DEF UriInv
<1>4. \/ /\ result' \in {"BAD_REQUEST", "BAD_VERSION", "UNSUPPORTED"}
         /\ (state' = state \/ state' = "HL_BEGIN")
      \/ /\ state' = VersionMove(state, c) /\ state' # "ERROR" /\ state' # "HL_BEGIN"
         /\ result' = result /\ uri' = uri
      \/ /\ state' = "HL_BEGIN" /\ result' = "OK" /\ uri' = uri
         /\ zero' \in {0, uri.abs_path.data + uri.abs_path.len}
  <2>1. CASE VersionMove(state, c) = "ERROR"
    BY <2>1 DEF Version, Fail, VersionMove
  <2>2. CASE VersionMove(state, c) # "ERROR" /\ TooBig(Counted(version, c))
    BY <2>2 DEF Version, Fail, VersionMove
  <2>3. CASE VersionMove(state, c) # "ERROR" /\ ~TooBig(Counted(version, c))
    BY <2>3 DEF Version, Fail, VersionMove, EndPath
  <2> QED BY <2>1, <2>2, <2>3
<1>5. CASE /\ result' \in {"BAD_REQUEST", "BAD_VERSION", "UNSUPPORTED"}
           /\ (state' = state \/ state' = "HL_BEGIN")
  BY <1>1, <1>5 DEF UriInv, VersionStates, RequestLineRead
<1>6. CASE uri' = uri
  <2>1. UriIsRead'
    <3>1. Len(line) \in Nat
      BY <1>1
    <3> QED BY <1>1, <1>2, <1>3, <1>6, <3>1, UriStaysRead
  <2>2. state' \in VersionStates \cup {"HL_BEGIN"}
    BY <1>1, <1>4, VersionLeads DEF VersionStates
  <2>3. result' = "OK" => zero' \in {0, uri'.abs_path.data + uri'.abs_path.len}
    BY <1>4, <1>6
  <2> QED BY <2>1, <2>2, <2>3 DEF UriInv, VersionStates, RequestLineRead
<1> QED BY <1>4, <1>5, <1>6

\* In a header line nothing is asked of the URI.
LEMMA HeaderIsNoUri ==
    ASSUME NEW c, Header(c)
    PROVE  UriInv'
<1>1. state \in HeaderStates /\ state' = HeaderMove(state, c)
  BY Tables DEF Header, HeaderMove
<1>2. state' \in HeaderStates
  BY <1>1, HeaderMoveIs DEF HeaderStates
<1>3. result' = "OK" => name' # NULL
  BY DEF Header, NULL
<1> QED BY <1>2, <1>3 DEF UriInv, HeaderStates, VersionStates, RequestLineRead

\* What parse_uri knows of the URI is true of it: the invariant from which the properties of the
\* path, the query and the extension follow.
THEOREM UriKept == Spec => [](TypeInv /\ HeaderInv /\ UriInv)
<1>1. Init => UriInv
  BY DEF Init, UriInv, VersionStates, RequestLineRead
<1>2. ASSUME TypeInv, HeaderInv, UriInv, [Next]_vars
      PROVE  UriInv'
  <2>1. CASE UNCHANGED vars
    <3>1. /\ state' = state /\ line' = line /\ zero' = zero /\ uri' = uri /\ name' = name
          /\ result' = result
      BY <2>1 DEF vars
    <3>2. \A m, f : UriBegins(m, f)' <=> UriBegins(m, f)
      BY <3>1 DEF UriBegins
    <3>3. \A m, f, e : UriAt(m, f, e)' <=> UriAt(m, f, e)
      BY <3>1, <3>2 DEF UriAt
    <3>4. UriGoesOn' <=> UriGoesOn
      BY <3>1, <3>2 DEF UriGoesOn
    <3>5. UriIsRead' <=> UriIsRead
      BY <3>1, <3>3 DEF UriIsRead
    <3> QED BY <1>2, <3>1, <3>2, <3>4, <3>5 DEF UriInv, RequestLineRead
  <2>2. CASE NextRequest
    BY <2>2 DEF NextRequest, UriInv, VersionStates, RequestLineRead
  <2>3. ASSUME NEW c \in Char, Receive(c)
        PROVE  UriInv'
    <3>1. CASE Header(c)
      BY <3>1, HeaderIsNoUri
    <3>2. CASE Read(c) /\ (RequestBegins(c) \/ Method(c) \/ Uri(c) \/ Version(c))
      <4>1. CASE RequestBegins(c)
        <5>1. state = "RL_BEGIN" /\ uri' = uri /\ line' = <<c>>
          BY <3>2, <4>1 DEF RequestBegins, Fail, Read
        <5>2. uri = NewUri
          BY <1>2, <5>1 DEF UriInv
        <5>3. \/ state' = "METHOD" /\ c \in Upper /\ result' = "AGAIN"
              \/ state' = "RL_BEGIN" /\ result' = "BAD_REQUEST"
          BY <4>1 DEF RequestBegins, Fail
        <5>4. c \in Upper => \A i \in 1 .. Len(line') : line'[i] # "SP"
          BY <5>1 DEF Upper
        <5> QED BY <5>1, <5>2, <5>3, <5>4 DEF UriInv, VersionStates, RequestLineRead
      <4>2. CASE ~RequestBegins(c)
        <5>1. state # "HL_BEGIN"
          BY <3>2, <4>2, Tables DEF Method, Uri, Version, VersionStates
        <5>2. result = "AGAIN"
          BY <1>2, <2>3, <5>1 DEF Receive, HeaderInv
        <5> QED BY <1>2, <3>2, <4>2, <5>2, MethodStep, UriStep, VersionStep
      <4> QED BY <4>1, <4>2
    <3> QED BY <2>3, <3>1, <3>2 DEF Receive
  <2> QED BY <1>2, <2>1, <2>2, <2>3 DEF Next
<1> QED BY <1>1, <1>2, HeaderKept, PTL DEF Spec

-------------------------------------------------------------------------------
(* The text of the URI, read without the automaton.                        *)

\* The text of the URI is where the automaton finds it.
LEMMA UriTextIs ==
    ASSUME line \in Seq(Char), NEW m \in 1 .. Len(line), NEW f \in 1 .. Len(line),
           NEW e \in 1 .. Len(line), UriAt(m, f, e)
    PROVE  UriText = SubSeq(line, f, e - 1)
<1> SUFFICES ASSUME NEW n \in Nat, n = Len(line)
             PROVE  UriText = SubSeq(line, f, e - 1)
  OBVIOUS
<1>1. /\ m < f /\ f < e /\ line[e] = "SP"
      /\ \A i \in 1 .. n : i < m => line[i] # "SP"
      /\ \A i \in 1 .. n : (m <= i /\ i < f) => line[i] = "SP"
      /\ \A i \in 1 .. n : (f <= i /\ i < e) => line[i] # "SP"
  BY DEF UriAt, UriBegins
<1>2. m \in Int /\ f \in Int /\ e \in Int /\ m \in 1 .. n /\ f \in 1 .. n /\ e \in 1 .. n
  OBVIOUS
<1>3. DOMAIN line = 1 .. n /\ \A i \in 1 .. n : i \in Int
  OBVIOUS
<1>4. Min(Where(line, "SP")) = m
  <2> DEFINE S == Where(line, "SP")
  <2>1. S \in SUBSET Int /\ m \in S /\ \A x \in S : m <= x
    BY <1>1, <1>2, <1>3 DEF Where
  <2> QED BY <2>1, MinIs
<1>5. Min({i \in DOMAIN line : line[i] # "SP" /\ i > m}) = f
  <2> DEFINE S == {i \in DOMAIN line : line[i] # "SP" /\ i > m}
  <2>1. S \in SUBSET Int /\ f \in S /\ \A x \in S : f <= x
    BY <1>1, <1>2, <1>3
  <2> HIDE DEF S
  <2>2. Min(S) = f
    BY <2>1, MinIs
  <2> QED BY <2>2 DEF S
<1>6. Min({i \in Where(line, "SP") : i > f}) = e
  <2> DEFINE S == {i \in Where(line, "SP") : i > f}
  <2>1. S \in SUBSET Int /\ e \in S /\ \A x \in S : e <= x
    BY <1>1, <1>2, <1>3 DEF Where
  <2> HIDE DEF S
  <2>2. Min(S) = e
    BY <2>1, MinIs
  <2> QED BY <2>2 DEF S
<1> QED BY <1>4, <1>5, <1>6, Zenon DEF UriText

\* Where the path of a URI begins, and where it ends.
LEMMA PathStartIs ==
    ASSUME NEW t \in Seq(Char), NEW p, PathAt(t, p)
    PROVE  PathStart(t) = p
<1>1. p \in 1 .. Len(t) /\ t[p] = "/" /\ Len(t) \in Nat
  BY DEF PathAt
<1>2. CASE p = 1
  BY <1>1, <1>2 DEF PathStart
<1>3. CASE p # 1
  <2>1. PICK k \in 2 .. p - 2 : Authority(t, k, p - 1)
    BY <1>3 DEF PathAt
  <2>2. /\ t[k] = "/" /\ \A i \in 1 .. p - 1 : t[i] = "/" => i \in {k, k + 1}
    BY <2>1 DEF Authority
  <2>3. /\ k \in Int /\ p \in Int /\ k + 1 < p /\ 1 < k /\ k \in 1 .. Len(t) /\ 1 \in 1 .. p - 1
    BY <1>1
  <2>4. \A i \in Where(t, "/") : i \in Int /\ i >= 1 /\ (i < p => (i = k \/ i = k + 1))
    BY <1>1, <2>2, WhereIs
  <2>5. k \in Where(t, "/") /\ p \in Where(t, "/")
    BY <1>1, <2>2, <2>3, WhereIs
  <2>6. t[1] # "/"
    BY <2>2, <2>3
  <2> DEFINE S == Where(t, "/")
             R == {i \in S : i > k + 1}
  <2>7. S \in SUBSET Int /\ k \in S /\ \A x \in S : k <= x
    <3>1. S \in SUBSET Int
      BY <2>4
    <3>2. ASSUME NEW x \in S
          PROVE  k <= x
      <4>1. x \in Int /\ (x < p => (x = k \/ x = k + 1))
        BY <2>4
      <4> HIDE DEF S
      <4> QED BY <2>3, <4>1
    <3> QED BY <2>5, <3>1, <3>2
  <2>8. R \in SUBSET Int /\ p \in R
    BY <2>3, <2>4, <2>5
  <2>9. \A x \in R : p <= x
    <3>1. \A x \in R : x \in Int /\ x # k /\ x # k + 1
      BY <2>3, <2>4
    <3>2. \A x \in R : x < p => (x = k \/ x = k + 1)
      BY <2>4
    <3> QED BY <2>3, <3>1, <3>2
  <2> HIDE DEF S, R
  <2>10. Min(S) = k /\ Min(R) = p /\ R # {}
    BY <2>7, <2>8, <2>9, MinIs
  <2> QED BY <2>6, <2>10, Zenon DEF PathStart, S, R
<1> QED BY <1>2, <1>3

\* The query begins at the first question mark.
LEMMA QueryStartIs ==
    ASSUME NEW t \in Seq(Char), NEW q, QueryAt(t, q)
    PROVE  /\ QueryStart(t) = q /\ q \in 1 .. Len(t) + 1
           /\ (Where(t, "?") = {}) <=> (q = Len(t) + 1)
<1>1. /\ q \in 1 .. Len(t) + 1
      /\ q <= Len(t) => t[q] = "?"
      /\ \A i \in 1 .. q - 1 : t[i] # "?"
  BY DEF QueryAt
<1>2. /\ Where(t, "?") \in SUBSET Int
      /\ \A i : i \in Where(t, "?") <=> (i \in 1 .. Len(t) /\ t[i] = "?")
      /\ Len(t) \in Nat
  BY WhereIs
<1>3. CASE q = Len(t) + 1
  <2>1. Where(t, "?") = {}
    BY <1>1, <1>2, <1>3
  <2> QED BY <1>1, <1>3, <2>1 DEF QueryStart
<1>4. CASE q # Len(t) + 1
  <2>1. q \in Where(t, "?") /\ \A x \in Where(t, "?") : q <= x
    BY <1>1, <1>2, <1>4
  <2>2. Min(Where(t, "?")) = q
    BY <1>2, <2>1, MinIs
  <2> QED BY <1>1, <1>4, <2>1, <2>2 DEF QueryStart
<1> QED BY <1>3, <1>4

\* The path of a URI is from its first slash to before its query.
LEMMA PathIs ==
    ASSUME NEW t \in Seq(Char), NEW p, NEW q, PathAt(t, p), QueryAt(t, q)
    PROVE  Path(t) = SubSeq(t, p, q - 1)
<1>1. PathStart(t) = p /\ QueryStart(t) = q /\ p # 0
  BY PathStartIs, QueryStartIs DEF PathAt
<1> QED BY <1>1, Zenon DEF Path

\* A URI with no query has no question mark.
LEMMA NoQueryIs ==
    ASSUME NEW t \in Seq(Char), NoQuery(t)
    PROVE  Where(t, "?") = {}
  BY WhereIs DEF NoQuery

\* The path of a URI that is a host only is the root.
LEMMA PathOfHost ==
    ASSUME NEW t \in Seq(Char), NEW k \in 2 .. Len(t) - 2, Authority(t, k, Len(t))
    PROVE  Path(t) = <<"/">>
<1>1. /\ t[k] = "/" /\ \A i \in 1 .. Len(t) : t[i] = "/" => i \in {k, k + 1}
  BY DEF Authority
<1>2. k \in Int /\ 1 < k /\ k \in 1 .. Len(t) /\ 1 \in 1 .. Len(t)
  OBVIOUS
<1>3. t[1] # "/"
  BY <1>1, <1>2
<1> DEFINE S == Where(t, "/")
           R == {i \in S : i > k + 1}
<1>4. S \in SUBSET Int /\ k \in S /\ (\A x \in S : k <= x) /\ R = {}
  BY <1>1, <1>2, WhereIs
<1> HIDE DEF S, R
<1>5. Min(S) = k
  BY <1>4, MinIs
<1>6. PathStart(t) = 0
  BY <1>3, <1>4, <1>5, Zenon DEF PathStart, S, R
<1> QED BY <1>6 DEF Path

\* A part of a part.
LEMMA PartOfPart ==
    ASSUME NEW s \in Seq(Char), NEW f \in Nat \ {0}, NEW g \in Int, g <= Len(s),
           NEW z, z = SubSeq(s, f, g), NEW a \in Nat \ {0}, NEW b \in Int, b <= Len(z),
           NEW x \in Int, x = f + a - 1, NEW y \in Int, y = f + b - 1
    PROVE  SubSeq(z, a, b) = SubSeq(s, x, y)
<1>1. CASE b < a
  <2>1. y < x
    BY <1>1
  <2> QED BY <1>1, <2>1, SubSeqEmpty
<1>2. CASE a <= b
  OBVIOUS
<1> QED BY <1>1, <1>2

\* The URI t of a request line that is read is at f, and the last entry of its path is at s.
UriOf(t, f) ==
    /\ f \in Nat \ {0} /\ f + Len(t) <= Len(line) /\ t = SubSeq(line, f, f + Len(t) - 1)
    /\ UriText = t /\ UriRead(t, f, uri)

\* A request line that has been read has one URI, and it is what was read of it.
LEMMA UriIs ==
    ASSUME TypeInv, UriInv, RequestLineRead
    PROVE  \E t \in Seq(Char), f \in Int : UriOf(t, f)
<1>1. PICK m \in 1 .. Len(line), f \in 1 .. Len(line), e \in 1 .. Len(line) :
        UriAt(m, f, e) /\ UriRead(SubSeq(line, f, e - 1), f, uri)
  BY DEF UriInv, UriIsRead
<1>2. line \in Seq(Char)
  BY DEF TypeInv
<1>3. UriText = SubSeq(line, f, e - 1)
  BY <1>1, <1>2, UriTextIs
<1> DEFINE t == SubSeq(line, f, e - 1)
<1>4. f < e /\ f \in Nat \ {0} /\ e \in Nat /\ e <= Len(line)
  BY <1>1 DEF UriAt
<1>5. t \in Seq(Char) /\ Len(t) = e - f
  BY <1>2, <1>4
<1> HIDE DEF t
<1>6. f + Len(t) <= Len(line) /\ f + Len(t) - 1 = e - 1
  BY <1>4, <1>5
<1>7. UriOf(t, f)
  BY <1>1, <1>3, <1>4, <1>6, Zenon DEF UriOf, t
<1> QED BY <1>4, <1>5, <1>7

\* The string x is the a-th to the b-th character of the URI t at f.
StringAt(x, t, f, a, b) ==
    /\ a \in Nat \ {0} /\ b \in Int /\ b <= Len(t)
    /\ x.data = f + a /\ x.len = (b + 1) - a

\* Its text.
ReadBack(x, t, a, b) == Text(x) = SubSeq(t, a, b)

\* A string that the parser keeps is read back as the part of the URI it stands for.
LEMMA TextIs ==
    ASSUME line \in Seq(Char), NEW t \in Seq(Char), NEW f \in Int, UriOf(t, f),
           NEW a, NEW b, NEW x, StringAt(x, t, f, a, b)
    PROVE  ReadBack(x, t, a, b)
<1>0. /\ a \in Nat \ {0} /\ b \in Int /\ b <= Len(t)
      /\ x.data = f + a /\ x.len = (b + 1) - a
  BY DEF StringAt
<1>1. /\ f \in Nat \ {0} /\ f + Len(t) - 1 <= Len(line) /\ f + Len(t) - 1 \in Int
      /\ t = SubSeq(line, f, f + Len(t) - 1)
  BY DEF UriOf
<1>2. /\ x.data - 1 = f + a - 1 /\ x.data + x.len - 2 = f + b - 1
      /\ x.data - 1 \in Int /\ x.data + x.len - 2 \in Int
  BY <1>0, <1>1
<1>3. SubSeq(SubSeq(line, f, f + Len(t) - 1), a, b) = SubSeq(line, x.data - 1, x.data + x.len - 2)
  <2> HIDE DEF UriOf
  <2> DEFINE g == f + Len(t) - 1
  <2>1. b <= Len(SubSeq(line, f, g))
    BY <1>0, <1>1
  <2> HIDE DEF g
  <2>2. g \in Int /\ g <= Len(line)
    BY <1>1 DEF g
  <2>3. SubSeq(SubSeq(line, f, g), a, b) = SubSeq(line, x.data - 1, x.data + x.len - 2)
    BY <1>0, <1>1, <1>2, <2>1, <2>2, PartOfPart
  <2> QED BY <2>3 DEF g
<1> QED BY <1>1, <1>3, Zenon DEF Text, ReadBack

\* A string that is a slash of the URI.
LEMMA SlashIs ==
    ASSUME line \in Seq(Char), NEW t \in Seq(Char), NEW f \in Int, UriOf(t, f), NEW x,
           NEW a \in 1 .. Len(t), t[a] = "/", x.data = f + a, x.len = 1
    PROVE  Text(x) = <<"/">>
<1>1. /\ f \in Nat \ {0} /\ f + Len(t) - 1 <= Len(line) /\ f + Len(t) - 1 \in Int
      /\ t = SubSeq(line, f, f + Len(t) - 1)
  BY DEF UriOf
<1> DEFINE g == f + Len(t) - 1
           i == f + a - 1
<1>2. i \in Nat \ {0} /\ i \in Int /\ i <= Len(line) /\ i - i + 1 = 1 /\ 1 \in 1 .. 1
      /\ i + 1 - 1 = i /\ x.data - 1 = i /\ x.data + x.len - 2 = i
  BY <1>1
<1>3. line[i] = "/"
  <2>1. /\ \A j \in 1 .. g - f + 1 : SubSeq(line, f, g)[j] = line[f + j - 1]
    BY <1>1, PartIs
  <2>2. a \in 1 .. g - f + 1
    BY <1>1
  <2> HIDE DEF g, i
  <2>3. SubSeq(line, f, g)[a] = line[f + a - 1]
    BY <2>1, <2>2
  <2> QED BY <1>1, <2>3 DEF g, i
<1> HIDE DEF g, i
<1> DEFINE z == SubSeq(line, i, i)
<1>4. z \in Seq(Char) /\ Len(z) = 1 /\ z[1] = "/"
  BY <1>2, <1>3, PartIs
<1>5. Text(x) = z
  BY <1>2, Zenon DEF Text
<1> HIDE DEF z
<1>6. z = <<"/">>
  BY <1>4
<1> QED BY <1>5, <1>6

\* What the counts of the entries say of a path that is read.
LEMMA CountsSay ==
    ASSUME NEW P \in Seq(Char), NEW n, NEW d, Tally(P, Len(P), n, d)
    PROVE  /\ n \in Nat /\ d \in Nat
           /\ ~Climbs(P) => n >= d
           /\ (/\ Climbs(P)
               /\ \A i \in Where(P, "/") : Ordinary(Entry(P, i)) => Dotted(Entry(P, i)))
                => n < d
<1>1. \A i \in Where(P, "/") : i <= Len(P)
  BY WhereIs
<1>2. Climbs(P) <=> ClimbsBy(P, Len(P))
  BY <1>1, Zenon DEF Climbs, ClimbsBy, Ords, Pars
<1>3. /\ Cardinality(Ords(P, Len(P))) \in Nat /\ Cardinality(Pars(P, Len(P))) \in Nat
  BY Finite
<1>4. (\A i \in Where(P, "/") : Ordinary(Entry(P, i)) => Dotted(Entry(P, i)))
        => AllDotted(P, Len(P))
  BY Zenon DEF AllDotted
<1>5. n \in Nat /\ d = Cardinality(Pars(P, Len(P)))
  BY DEF Tally
<1>6. ~ClimbsBy(P, Len(P)) =>
        n >= Cardinality(Ords(P, Len(P))) /\ Cardinality(Ords(P, Len(P))) >= d
  BY DEF Tally
<1>7. AllDotted(P, Len(P)) /\ ClimbsBy(P, Len(P)) => n < d
  BY DEF Tally
<1>8. ~ClimbsBy(P, Len(P)) => n >= d
  BY <1>3, <1>5, <1>6
<1> QED BY <1>2, <1>3, <1>4, <1>5, <1>7, <1>8

\* The path of a URI that has one, with its query.
UriWithPath(t, f, p, q) ==
    /\ PathRange(t, f, p, q, uri)
    /\ IF q > Len(t) THEN uri.query = NULL
       ELSE uri.query = [data |-> (f + q) + 1, len |-> Len(t) - q]
    /\ IF uri.nentries < uri.nddots THEN uri.abs_path.len = 1
       ELSE ((Dotted(LastEntry(SubSeq(t, p, q - 1))) => q > Len(t)) => uri.abs_path.len = q - p)

\* A URI that has been read is a host only, or has a path.
LEMMA UriReadIs ==
    ASSUME NEW t, NEW f, UriOf(t, f)
    PROVE  HostOnly(t, f, uri) \/ \E p, q \in 1 .. Len(t) + 1 : UriWithPath(t, f, p, q)
<1>1. UriRead(t, f, uri)
  BY DEF UriOf
<1> QED BY <1>1, Zenon DEF UriRead, UriWithPath

\* What is known of its path P.
PathFacts(t, f, p, q, P) ==
    /\ P \in Seq(Char) /\ Path(t) = P /\ p < q /\ t[p] = "/" /\ Len(P) = q - p
    /\ (Where(t, "?") = {}) <=> (q = Len(t) + 1)
    /\ Tally(P, Len(P), uri.nentries, uri.nddots)
    /\ uri.abs_path.data = f + p
    /\ \E s \in 1 .. Len(P) : /\ LastEntry(P) = Rest(P, s)
                              /\ ExtensionDone(Rest(P, s), f + p - 1 + s, uri.extension)

\* What is known of the path, said of the path that the properties speak of.
LEMMA UriPathIs ==
    ASSUME NEW t \in Seq(Char), NEW f \in Int, NEW p \in 1 .. Len(t) + 1,
           NEW q \in 1 .. Len(t) + 1, UriWithPath(t, f, p, q), NEW P, P = SubSeq(t, p, q - 1)
    PROVE  PathFacts(t, f, p, q, P)
<1>1. /\ PathAt(t, p) /\ p < q /\ QueryAt(t, q) /\ PathDone(P, f + p - 1, uri)
  BY DEF UriWithPath, PathRange
<1>2. P \in Seq(Char) /\ Len(P) = q - p
  <2>1. p \in Nat \ {0} /\ q - 1 \in Int /\ q - 1 <= Len(t) /\ (q - 1) - p + 1 = q - p
        /\ p <= q - 1
    BY <1>1
  <2> QED BY <2>1, PartIs
<1>3. /\ Path(t) = P /\ t[p] = "/"
  BY <1>1, PathIs DEF PathAt
<1>4. (Where(t, "?") = {}) <=> (q = Len(t) + 1)
  BY <1>1, QueryStartIs
<1>5. uri.abs_path.data = f + p
  <2>1. uri.abs_path \in [data : {(f + p - 1) + 1}, len : Int]
    BY <1>1 DEF PathDone
  <2>2. (f + p - 1) + 1 = f + p
    OBVIOUS
  <2> QED BY <2>1, <2>2
<1>6. Tally(P, Len(P), uri.nentries, uri.nddots)
  BY <1>1 DEF PathDone
<1>7. PICK s \in 1 .. Len(P) :
        LastAt(P, s) /\ ExtensionDone(Rest(P, s), f + p - 1 + s, uri.extension)
  BY <1>1 DEF PathDone
<1>8. LastEntry(P) = Rest(P, s)
  BY <1>2, <1>7, LastEntryIs
<1> QED BY <1>1, <1>2, <1>3, <1>4, <1>5, <1>6, <1>7, <1>8, Zenon DEF PathFacts

-------------------------------------------------------------------------------
(* What is read back of the URI.                                           *)

\* The path of "scheme://host:port" is the first slash of it.
LEMMA HostPathIs ==
    ASSUME line \in Seq(Char), NEW t \in Seq(Char), NEW f \in Int, UriOf(t, f),
           HostOnly(t, f, uri)
    PROVE  /\ Path(t) = <<"/">> /\ Text(uri.abs_path) = <<"/">>
           /\ uri.extension = NULL /\ uri.query = NULL /\ Where(t, "?") = {}
<1>1. PICK k \in 2 .. Len(t) - 2 :
        /\ Authority(t, k, Len(t)) /\ NoQuery(t)
        /\ uri.abs_path = [data |-> f + k, len |-> 1]
        /\ uri.extension = NULL /\ uri.query = NULL
  BY DEF HostOnly
<1>2. k \in 1 .. Len(t) /\ t[k] = "/" /\ uri.abs_path.data = f + k /\ uri.abs_path.len = 1
  BY <1>1 DEF Authority
<1>3. Path(t) = <<"/">>
  BY <1>1, PathOfHost
<1>4. Text(uri.abs_path) = <<"/">>
  BY <1>2, SlashIs, Zenon
<1>5. Where(t, "?") = {}
  BY <1>1, NoQueryIs
<1> QED BY <1>1, <1>3, <1>4, <1>5, Zenon

\* The length of a path that is not cut.
LEMMA PathLenIs ==
    ASSUME NEW t \in Seq(Char), NEW f \in Int, NEW p \in 1 .. Len(t) + 1,
           NEW q \in 1 .. Len(t) + 1, UriWithPath(t, f, p, q), NEW P, P = SubSeq(t, p, q - 1),
           ~Climbs(P), Dotted(LastEntry(P)) => Where(t, "?") = {}
    PROVE  uri.abs_path.len = q - p
<1>1. PathFacts(t, f, p, q, P)
  BY UriPathIs
<1>2. uri.nentries \in Nat /\ uri.nddots \in Nat /\ uri.nentries >= uri.nddots
  BY <1>1, CountsSay DEF PathFacts
<1>3. Dotted(LastEntry(P)) => q > Len(t)
  BY <1>1 DEF PathFacts
<1>4. ~(uri.nentries < uri.nddots)
  BY <1>2
<1> QED BY <1>3, <1>4, Zenon DEF UriWithPath

\* The path handed to the file system or to a location is the text of the URI up to the
\* query, for a path that stays inside its root: whatever ".", ".." and empty entries it
\* has, it is neither cut nor lengthened.
THEOREM PathReadHolds == Spec => []PathRead
<1>1. ASSUME TypeInv, UriInv
      PROVE  PathRead
  <2> SUFFICES ASSUME RequestLineRead, NEW t \in Seq(Char), NEW f \in Int, UriOf(t, f),
                      ~Climbs(Path(t)), Dotted(LastEntry(Path(t))) => Where(t, "?") = {}
               PROVE  Text(uri.abs_path) = Path(t)
    BY <1>1, UriIs, Zenon DEF PathRead, UriOf
  <2>1. line \in Seq(Char)
    BY <1>1 DEF TypeInv
  <2>2. CASE HostOnly(t, f, uri)
    BY <2>1, <2>2, HostPathIs
  <2>3. ASSUME NEW p \in 1 .. Len(t) + 1, NEW q \in 1 .. Len(t) + 1, UriWithPath(t, f, p, q)
        PROVE  Text(uri.abs_path) = Path(t)
    <3> SUFFICES ASSUME NEW P, P = SubSeq(t, p, q - 1)
                 PROVE  Text(uri.abs_path) = Path(t)
      OBVIOUS
    <3>1. PathFacts(t, f, p, q, P)
      BY <2>3, UriPathIs
    <3>2. Path(t) = P
      BY <3>1 DEF PathFacts
    <3>4. uri.abs_path.len = q - p
      BY <2>3, <3>2, PathLenIs
    <3>5. StringAt(uri.abs_path, t, f, p, q - 1)
      BY <3>1, <3>4 DEF PathFacts, StringAt
    <3>6. ReadBack(uri.abs_path, t, p, q - 1)
      BY <2>1, <3>5, TextIs, Zenon
    <3> QED BY <3>1, <3>2, <3>6, Zenon DEF ReadBack
  <2> QED BY <2>2, <2>3, UriReadIs
<1> QED BY <1>1, UriKept, PTL

\* A path that leaves its root, with a dot in every name of it, is cut to its first slash
\* by sy_parse_request_line, even when it comes back inside later on.
THEOREM ClimbIsCutHolds == Spec => []ClimbIsCut
<1>1. ASSUME TypeInv, UriInv
      PROVE  ClimbIsCut
  <2> SUFFICES ASSUME RequestLineRead, NEW t \in Seq(Char), NEW f \in Int, UriOf(t, f),
                      Climbs(Path(t)),
                      \A i \in Where(Path(t), "/") :
                         Ordinary(Entry(Path(t), i)) => Dotted(Entry(Path(t), i))
               PROVE  Text(uri.abs_path) = <<"/">>
    BY <1>1, UriIs, Zenon DEF ClimbIsCut, UriOf
  <2>1. line \in Seq(Char)
    BY <1>1 DEF TypeInv
  <2>2. CASE HostOnly(t, f, uri)
    BY <2>1, <2>2, HostPathIs
  <2>3. ASSUME NEW p \in 1 .. Len(t) + 1, NEW q \in 1 .. Len(t) + 1, UriWithPath(t, f, p, q)
        PROVE  Text(uri.abs_path) = <<"/">>
    <3> SUFFICES ASSUME NEW P, P = SubSeq(t, p, q - 1)
                 PROVE  Text(uri.abs_path) = <<"/">>
      OBVIOUS
    <3>1. PathFacts(t, f, p, q, P)
      BY <2>3, UriPathIs
    <3>2. uri.nentries < uri.nddots
      BY <3>1, CountsSay DEF PathFacts
    <3>3. uri.abs_path.len = 1
      BY <2>3, <3>2, Zenon DEF UriWithPath
    <3>4. p \in 1 .. Len(t) /\ t[p] = "/" /\ uri.abs_path.data = f + p
      BY <3>1 DEF PathFacts
    <3> QED BY <2>1, <3>3, <3>4, SlashIs, Zenon
  <2> QED BY <2>2, <2>3, UriReadIs
<1> QED BY <1>1, UriKept, PTL

\* The query is the text behind the first question mark, NULL when there is none.
THEOREM QueryReadHolds == Spec => []QueryRead
<1>1. ASSUME TypeInv, UriInv
      PROVE  QueryRead
  <2> SUFFICES ASSUME RequestLineRead, NEW t \in Seq(Char), NEW f \in Int, UriOf(t, f)
               PROVE  IF Where(t, "?") = {} THEN uri.query = NULL
                      ELSE Text(uri.query) = SubSeq(t, QueryStart(t) + 1, Len(t))
    BY <1>1, UriIs, Zenon DEF QueryRead, UriOf
  <2>1. line \in Seq(Char)
    BY <1>1 DEF TypeInv
  <2>2. CASE HostOnly(t, f, uri)
    BY <2>1, <2>2, HostPathIs
  <2>3. ASSUME NEW p \in 1 .. Len(t) + 1, NEW q \in 1 .. Len(t) + 1, UriWithPath(t, f, p, q)
        PROVE  IF Where(t, "?") = {} THEN uri.query = NULL
               ELSE Text(uri.query) = SubSeq(t, QueryStart(t) + 1, Len(t))
    <3>1. /\ QueryStart(t) = q
          /\ (Where(t, "?") = {}) <=> (q = Len(t) + 1)
      BY <2>3, QueryStartIs DEF UriWithPath, PathRange
    <3>2. CASE q = Len(t) + 1
      <4>1. q > Len(t)
        BY <3>2
      <4> QED BY <2>3, <3>1, <3>2, <4>1, Zenon DEF UriWithPath
    <3>3. CASE q # Len(t) + 1
      <4>1. ~(q > Len(t))
        BY <3>3
      <4>2. uri.query = [data |-> (f + q) + 1, len |-> Len(t) - q]
        BY <2>3, <4>1, Zenon DEF UriWithPath
      <4>3. StringAt(uri.query, t, f, q + 1, Len(t))
        BY <4>2 DEF StringAt
      <4>4. ReadBack(uri.query, t, q + 1, Len(t))
        BY <2>1, <4>1, <4>3, TextIs, Zenon
      <4> QED BY <3>1, <3>3, <4>4, Zenon DEF ReadBack
    <3> QED BY <3>2, <3>3
  <2> QED BY <2>2, <2>3, UriReadIs
<1> QED BY <1>1, UriKept, PTL

\* Where the extension begins, said as in ExtensionRead.
FirstIs(e, d) ==
    (IF Max(Where(e, ".")) = 2 /\ e[1] = "." THEN 4 ELSE Max(Where(e, ".")) + 1) = d + 1

\* The extension begins behind the last dot, or behind the character after two leading dots.
LEMMA LastDotIs ==
    ASSUME NEW e \in Seq(Char), NEW d, DotAt(e, d)
    PROVE  FirstIs(e, d)
<1>1. d \in 1 .. Len(e) /\ Len(e) \in Nat
  BY DEF DotAt
<1>2. Where(e, ".") \in SUBSET Int
  BY WhereIs
<1>3. CASE /\ e[d] = "." /\ (\A i \in d + 1 .. Len(e) : e[i] # ".")
           /\ d = 2 => e[1] # "."
  <2>1. d \in Where(e, ".") /\ \A x \in Where(e, ".") : x <= d
    BY <1>1, <1>3, WhereIs
  <2>2. Max(Where(e, ".")) = d
    BY <1>2, <2>1, MaxIs
  <2> QED BY <1>3, <2>2, Zenon DEF FirstIs
<1>4. CASE d = 3 /\ e[1] = "." /\ e[2] = "." /\ \A i \in 3 .. Len(e) : e[i] # "."
  <2>1. 2 \in Where(e, ".") /\ \A x \in Where(e, ".") : x <= 2
    BY <1>1, <1>4, WhereIs
  <2>2. Max(Where(e, ".")) = 2
    BY <1>2, <2>1, MaxIs
  <2>3. d + 1 = 4
    BY <1>4
  <2> QED BY <1>4, <2>2, <2>3, Zenon DEF FirstIs
<1> QED BY <1>3, <1>4 DEF DotAt

\* The path "/" ends with no name.
LEMMA RootEntry == ~Ordinary(LastEntry(<<"/">>))
<1> DEFINE P == <<"/">>
<1>1. "/" \in Char
  BY DEF Char
<1>2. P \in Seq(Char) /\ Len(P) = 1 /\ P[1] = "/"
  BY <1>1
<1> HIDE DEF P
<1>3. LastAt(P, 1) /\ 1 \in 1 .. Len(P)
  BY <1>2 DEF LastAt
<1>4. LastEntry(P) = Rest(P, 1) /\ Rest(P, 1) \in Seq(Char) /\ Len(Rest(P, 1)) = 1 - 1
  BY <1>2, <1>3, LastEntryIs, RestIs
<1>5. Rest(P, 1) = <<>>
  BY <1>4
<1> QED BY <1>4, <1>5 DEF P, Ordinary

\* The end of the last entry is the end of the path.
LEMMA RestOfRest ==
    ASSUME NEW P \in Seq(Char), NEW n \in Nat, n = Len(P), NEW s \in 1 .. n, NEW d \in 0 .. n - s
    PROVE  SubSeq(SubSeq(P, s + 1, n), d + 1, n - s) = SubSeq(P, s + d + 1, n)
  OBVIOUS

\* The extension of the entry e, the last one of a path that ends at q.
ExtensionAt(t, f, q, e) ==
    \E d \in 1 .. Len(e) :
      /\ DotAt(e, d) /\ Text(uri.extension) = SubSeq(e, d + 1, Len(e))
      /\ uri.extension.data \in Int /\ uri.extension.data > 1 /\ uri.extension.len = Len(e) - d
      /\ uri.extension.data + uri.extension.len = f + q

\* The last entry of a path is in the URI, before the query.
LEMMA ExtensionIs ==
    ASSUME line \in Seq(Char), NEW t \in Seq(Char), NEW f \in Int, UriOf(t, f),
           NEW p \in 1 .. Len(t) + 1, NEW q \in 1 .. Len(t) + 1, UriWithPath(t, f, p, q),
           NEW e, e = LastEntry(Path(t)), Dotted(e)
    PROVE  e \in Seq(Char) /\ ExtensionAt(t, f, q, e)
<1> DEFINE P == SubSeq(t, p, q - 1)
<1>1. PathFacts(t, f, p, q, P)
  BY UriPathIs
<1>2. p \in Nat \ {0} /\ q - 1 \in Int /\ q - 1 <= Len(t) /\ P = SubSeq(t, p, q - 1)
      /\ f \in Nat \ {0}
  BY DEF UriOf
<1> HIDE DEF P
<1>3. P \in Seq(Char) /\ Path(t) = P /\ Len(P) = q - p /\ p < q
  BY <1>1 DEF PathFacts
<1>4. PICK s \in 1 .. Len(P) : /\ LastEntry(P) = Rest(P, s)
                               /\ ExtensionDone(Rest(P, s), f + p - 1 + s, uri.extension)
  BY <1>1 DEF PathFacts
<1>5. e = Rest(P, s) /\ e \in Seq(Char) /\ Len(e) = (q - p) - s
  BY <1>3, <1>4, RestIs
<1>6. PICK d \in 1 .. Len(e) :
        /\ DotAt(e, d)
        /\ uri.extension = [data |-> (f + p - 1 + s) + d + 1, len |-> Len(e) - d]
  BY <1>4, <1>5 DEF ExtensionDone
<1> DEFINE a == p + s + d
<1>7. /\ a \in Nat \ {0} /\ uri.extension.data = f + a
      /\ uri.extension.len = ((q - 1) + 1) - a /\ uri.extension.len = Len(e) - d
      /\ uri.extension.data \in Int /\ uri.extension.data > 1
      /\ uri.extension.data + uri.extension.len = f + q
  BY <1>2, <1>3, <1>5, <1>6
<1>8. ReadBack(uri.extension, t, a, q - 1)
  <2>1. StringAt(uri.extension, t, f, a, q - 1)
    BY <1>2, <1>7 DEF StringAt
  <2> HIDE DEF a
  <2> QED BY <2>1, TextIs, Zenon
<1>9. SubSeq(e, d + 1, Len(e)) = SubSeq(P, s + d + 1, Len(P))
  <2>1. e = SubSeq(P, s + 1, Len(P))
    BY <1>5 DEF Rest
  <2>2. Len(P) \in Nat /\ Len(e) = Len(P) - s /\ d \in 0 .. Len(P) - s
    BY <1>3, <1>5
  <2>3. SubSeq(SubSeq(P, s + 1, Len(P)), d + 1, Len(P) - s) = SubSeq(P, s + d + 1, Len(P))
    BY <1>3, <2>2, RestOfRest
  <2> QED BY <2>1, <2>2, <2>3, Zenon
<1>10. SubSeq(P, s + d + 1, Len(P)) = SubSeq(t, a, q - 1)
  <2>1. /\ s + d + 1 \in Nat \ {0} /\ Len(P) \in Int /\ Len(P) <= Len(P) /\ a \in Int
        /\ a = p + (s + d + 1) - 1 /\ q - 1 = p + Len(P) - 1
    BY <1>3
  <2> HIDE DEF a
  <2> QED BY <1>2, <2>1, PartOfPart
<1> HIDE DEF a
<1>11. Text(uri.extension) = SubSeq(e, d + 1, Len(e))
  BY <1>8, <1>9, <1>10, Zenon DEF ReadBack
<1> QED BY <1>5, <1>6, <1>7, <1>11, Zenon DEF ExtensionAt

\* The extension is what follows the last dot of the last entry; of an entry that begins
\* with ".." and has no dot behind it, what follows the character behind it.  A path that
\* ends in a slash, in "." or in ".." has none.  No directory lends its dot to a file
\* behind it: a last entry without a dot has an extension one past NULL.
THEOREM ExtensionReadHolds == Spec => []ExtensionRead
<1>1. ASSUME TypeInv, UriInv
      PROVE  ExtensionRead
  <2> DEFINE first(e) == IF Max(Where(e, ".")) = 2 /\ e[1] = "." THEN 4 ELSE Max(Where(e, ".")) + 1
  <2> SUFFICES ASSUME RequestLineRead, NEW t \in Seq(Char), NEW f \in Int, UriOf(t, f),
                      NEW e, e = LastEntry(Path(t))
               PROVE  /\ ~Ordinary(e) => uri.extension = NULL
                      /\ Ordinary(e) /\ ~Dotted(e) => uri.extension.data = 1
                      /\ Dotted(e) => Text(uri.extension) = SubSeq(e, first(e), Len(e))
    BY <1>1, UriIs, Zenon DEF ExtensionRead, UriOf
  <2>1. line \in Seq(Char)
    BY <1>1 DEF TypeInv
  <2>2. CASE HostOnly(t, f, uri)
    <3>1. Path(t) = <<"/">> /\ uri.extension = NULL
      BY <2>1, <2>2, HostPathIs
    <3>2. ~Ordinary(e) /\ ~Dotted(e)
      BY <3>1, RootEntry DEF Dotted
    <3> QED BY <3>1, <3>2
  <2>3. ASSUME NEW p \in 1 .. Len(t) + 1, NEW q \in 1 .. Len(t) + 1, UriWithPath(t, f, p, q)
        PROVE  /\ ~Ordinary(e) => uri.extension = NULL
               /\ Ordinary(e) /\ ~Dotted(e) => uri.extension.data = 1
               /\ Dotted(e) => Text(uri.extension) = SubSeq(e, first(e), Len(e))
    <3>1. /\ ~Ordinary(e) => uri.extension = NULL
          /\ Ordinary(e) /\ ~Dotted(e) => uri.extension.data = 1
      <4>1. PathFacts(t, f, p, q, SubSeq(t, p, q - 1))
        BY <2>3, UriPathIs
      <4> QED BY <4>1, Zenon DEF PathFacts, ExtensionDone
    <3>2. ASSUME Dotted(e)
          PROVE  Text(uri.extension) = SubSeq(e, first(e), Len(e))
      <4>1. e \in Seq(Char) /\ ExtensionAt(t, f, q, e)
        BY <2>1, <2>3, <3>2, ExtensionIs
      <4>2. PICK d : DotAt(e, d) /\ Text(uri.extension) = SubSeq(e, d + 1, Len(e))
        BY <4>1 DEF ExtensionAt
      <4>3. first(e) = d + 1
        BY <4>1, <4>2, LastDotIs, Zenon DEF FirstIs
      <4> QED BY <4>2, <4>3, Zenon
    <3> QED BY <3>1, <3>2
  <2> QED BY <2>2, <2>3, UriReadIs
<1> QED BY <1>1, UriKept, PTL

\* The rows of mime_tb with the extension x.
Rows(x) == {i \in DOMAIN MimeTable : MimeTable[i][1] = x}

\* The map of the mime types finds the row of an extension.
LEMMA MimeTypeIs ==
    ASSUME NEW x \in Seq(Char)
    PROVE  Mime!MapGet(MimeMap, x, Len(x), "text/html") =
             IF Rows(x) = {} THEN "text/html" ELSE MimeTable[Min(Rows(x))][2]
<1> DEFINE chain == MimeMap[Mime!Hash(x, Len(x)) % MimeSize]
           Found == {i \in DOMAIN chain : chain[i].key = x}
           n == Len(MimeTable)
<1>1. MimeSize \in Nat \ {0} /\ n \in Nat /\ DOMAIN MimeTable = 1 .. n
  BY TableAssumption
<1>2. chain \in Seq(Slots(MimeTable, n)) /\ chain = MimeMap[Bucket(MimeSize, x)]
  <2>1. Mime!Hash(x, Len(x)) % MimeSize = Bucket(MimeSize, x)
    BY HashIs, Zenon DEF Bucket
  <2>2. Bucket(MimeSize, x) \in 0 .. MimeSize - 1
    BY <1>1, BucketIs
  <2> QED BY <2>1, <2>2, MimeMapHolds DEF Holds
<1>3. Mime!MapGet(MimeMap, x, Len(x), "text/html") =
        IF Found = {} THEN "text/html"
        ELSE chain[CHOOSE i \in Found : \A j \in Found : i <= j].val
  BY Zenon DEF Mime!MapGet
<1> HIDE DEF chain
<1>4. ASSUME NEW i \in DOMAIN chain
      PROVE  \E r \in 1 .. n : chain[i].key = MimeTable[r][1] /\ chain[i].val = MimeTable[r][2]
  <2>1. chain[i] \in Slots(MimeTable, n)
    BY <1>2, <1>4
  <2>2. PICK r \in 1 .. n : chain[i] = Slot(MimeTable[r])
    BY <2>1 DEF Slots
  <2> QED BY <2>2 DEF Slot
<1>5. ASSUME NEW r \in Rows(x)
      PROVE  \E i \in Found : TRUE
  <2>1. r \in 1 .. n /\ MimeTable[r][1] = x
    BY <1>1, <1>5 DEF Rows
  <2>2. Has(chain, Slot(MimeTable[r]))
    BY <1>2, <2>1, MimeMapHolds DEF Holds
  <2>3. PICK i \in DOMAIN chain : chain[i] = Slot(MimeTable[r])
    BY <2>2 DEF Has
  <2>4. chain[i].key = x
    BY <2>1, <2>3 DEF Slot
  <2> QED BY <2>3, <2>4
<1>6. Found \subseteq Nat
  <2>1. DOMAIN chain \subseteq Nat
    BY <1>2
  <2> QED BY <2>1
<1>7. CASE Rows(x) = {}
  <2>1. Found = {}
    BY <1>1, <1>4, <1>7 DEF Rows
  <2> QED BY <1>3, <1>7, <2>1
<1>8. CASE Rows(x) # {}
  <2>1. PICK r \in Rows(x) : TRUE
    BY <1>8
  <2>2. r \in 1 .. n /\ MimeTable[r][1] = x /\ \A i \in Rows(x) : i = r
    BY <1>1, TableAssumption DEF Rows
  <2>3. Min(Rows(x)) = r
    <3>1. Rows(x) \in SUBSET Int /\ \A i \in Rows(x) : r <= i
      BY <1>1, <2>2 DEF Rows
    <3> QED BY <2>1, <3>1, MinIs
  <2>4. Found # {}
    BY <1>5, <2>1
  <2> DEFINE i == CHOOSE k \in Found : \A j \in Found : k <= j
  <2>5. i \in Found
    <3>1. \E k \in Found : \A j \in Found : k <= j
      <4> HIDE DEF Found
      <4> QED BY <1>6, <2>4, MinExists
    <3> HIDE DEF Found
    <3> QED BY <3>1, Zenon
  <2> HIDE DEF i
  <2>6. chain[i].val = MimeTable[r][2]
    <3>1. i \in DOMAIN chain /\ chain[i].key = x
      BY <2>5
    <3>2. PICK k \in 1 .. n : chain[i].key = MimeTable[k][1] /\ chain[i].val = MimeTable[k][2]
      BY <1>4, <3>1
    <3>3. k = r
      BY <1>1, <2>2, <3>1, <3>2 DEF Rows
    <3> QED BY <3>2, <3>3
  <2> HIDE DEF Found
  <2> QED BY <1>3, <1>8, <2>3, <2>4, <2>6, Zenon DEF i
<1> QED BY <1>7, <1>8

\* A file with a dot in its name is sent with the type mime_tb has for its extension: the
\* zero behind the path is the end of the key in the buffer, and the chain of its bucket is
\* followed to it.  For a file without a dot nothing is claimed: the key is one past NULL.
THEOREM MimeFoundHolds == Spec => []MimeFound
<1>1. ASSUME TypeInv, UriInv
      PROVE  MimeFound
  <2> SUFFICES ASSUME RequestLineRead, zero # 0, NEW t \in Seq(Char), NEW f \in Int, UriOf(t, f),
                      Where(t, "?") = {}, NEW e, e = LastEntry(Path(t)), Dotted(e),
                      ~Climbs(Path(t)), NEW x, x = Text(uri.extension)
               PROVE  ContentType = IF Rows(x) = {} THEN "text/html" ELSE MimeTable[Min(Rows(x))][2]
    BY <1>1, UriIs, Zenon DEF MimeFound, UriOf, Rows
  <2>1. line \in Seq(Char)
    BY <1>1 DEF TypeInv
  <2>2. ~HostOnly(t, f, uri)
    BY <2>1, HostPathIs, RootEntry DEF Dotted
  <2>3. PICK p \in 1 .. Len(t) + 1, q \in 1 .. Len(t) + 1 : UriWithPath(t, f, p, q)
    BY <2>2, UriReadIs
  <2> DEFINE P == SubSeq(t, p, q - 1)
  <2>4. PathFacts(t, f, p, q, P)
    BY <2>3, UriPathIs
  <2> HIDE DEF P
  <2>5. Path(t) = P /\ uri.abs_path.data = f + p
    BY <2>4 DEF PathFacts
  <2>6. uri.abs_path.len = q - p
    BY <2>3, <2>5, PathLenIs DEF P
  <2>7. zero = f + q
    <3>1. zero = uri.abs_path.data + uri.abs_path.len
      BY <1>1 DEF UriInv
    <3> QED BY <2>5, <2>6, <3>1
  <2>8. e \in Seq(Char) /\ ExtensionAt(t, f, q, e)
    BY <2>1, <2>3, ExtensionIs
  <2>9. PICK d \in 1 .. Len(e) :
          /\ x = SubSeq(e, d + 1, Len(e))
          /\ uri.extension.data \in Int /\ uri.extension.data > 1
          /\ uri.extension.len = Len(e) - d
          /\ uri.extension.data + uri.extension.len = f + q
    BY <2>8 DEF ExtensionAt
  <2>10. x \in Seq(Char) /\ Len(x) = uri.extension.len
    BY <2>8, <2>9
  <2>11. TextFrom(uri.extension.data) = x
    <3>1. zero >= uri.extension.data /\ zero - 2 = uri.extension.data + uri.extension.len - 2
      BY <2>7, <2>8, <2>9
    <3> QED BY <3>1, Zenon DEF TextFrom, Text
  <2>12. ContentType = Mime!MapGet(MimeMap, x, Len(x), "text/html")
    BY <2>10, <2>11, Zenon DEF ContentType
  <2> QED BY <2>10, <2>12, MimeTypeIs, Zenon
<1> QED BY <1>1, UriKept, PTL
================================================================================
