----------------------------- MODULE UrlParser -----------------------------
(***************************************************************************)
(* http_in_c/common/url_parser.c and url.c: c_http_parser_parse_url reads  *)
(* a URL character by character and records where its fields are, a second *)
(* pass takes the server part apart, and Url_new copies the fields out.    *)
(*                                                                         *)
(* One character stands for each class the code tells apart: "a" a hex     *)
(* letter, "g" another one, "1" a digit, " " a character that no URL has;   *)
(* Positions count from 0, as in the code.                                 *)
(***************************************************************************)
EXTENDS Integers, Sequences, FiniteSetsExt

CONSTANTS Beginnings,   \* beginnings of URLs, from which all continuations are tried
          MaxMore,      \* bound: characters after the beginning
          OffsetRange   \* values of a uint16_t (2^16)

PortMax == OffsetRange - 1      \* 0xffff

Chars == {"a", "g", "1", ":", "/", "?", "#", "@", "[", "]", "%", " "}
Fields == {"schema", "host", "port", "path", "query", "fragment", "userinfo"}

IS_ALPHA == {"a", "g"}
IS_NUM == {"1"}
IS_HEX == {"a", "1"}
IS_USERINFO_CHAR == IS_ALPHA \cup IS_NUM \cup {"%", ":"}
IS_HOST_CHAR == IS_ALPHA \cup IS_NUM
IS_URL_CHAR == Chars \ {"?", "#", " "}      \* normal_url_char

VARIABLES url,      \* the characters read so far
          more,     \* how many of them came after the given beginning
          scan,     \* c_http_parser_parse_url: its s, old_uf, found_at and is_connect
          fields,   \* the struct c_http_parser_url: field_set, off, len, port
          result    \* "reading", or what the function returned: "accepted" (0), "refused" (1)

urlVars == <<url, more, scan, fields, result>>

\* The states of the server part share one rule.
ServerChar(ch) ==
    CASE ch = "/" -> "path"
      [] ch = "?" -> "query_start"
      [] ch = "@" -> "server_with_at"
      [] ch \in IS_USERINFO_CHAR \cup {"[", "]"} -> "server"
      [] OTHER -> "dead"

parse_url_char(s, ch) ==
    CASE ch = " " -> "dead"
      [] s = "spaces_before_url" ->
            IF ch = "/" THEN "path" ELSE IF ch \in IS_ALPHA THEN "schema" ELSE "dead"
      [] s = "schema" -> IF ch \in IS_ALPHA THEN s ELSE IF ch = ":" THEN "schema_slash" ELSE "dead"
      [] s = "schema_slash" -> IF ch = "/" THEN "schema_slash_slash" ELSE "dead"
      [] s = "schema_slash_slash" -> IF ch = "/" THEN "server_start" ELSE "dead"
      [] s = "server_with_at" -> IF ch = "@" THEN "dead" ELSE ServerChar(ch)
      [] s \in {"server_start", "server"} -> ServerChar(ch)
      [] s = "path" -> IF ch \in IS_URL_CHAR THEN s ELSE IF ch = "?" THEN "query_start" ELSE "fragment_start"
      [] s \in {"query_start", "query"} -> IF ch = "#" THEN "fragment_start" ELSE "query"
      [] s = "fragment_start" -> IF ch = "#" THEN s ELSE "fragment"
      [] s = "fragment" -> s
      [] OTHER -> "dead"

Delimiting == {"schema_slash", "schema_slash_slash", "server_start", "query_start", "fragment_start"}

FieldOf(s) == IF s \in {"server", "server_with_at"} THEN "host" ELSE s

\* A field begins at position p, or goes on.
Begin(u, f, p) == [u EXCEPT !.off[f] = p % OffsetRange, !.len[f] = 1, !.set = @ \cup {f}]
Extend(u, f) == [u EXCEPT !.len[f] = (@ + 1) % OffsetRange]

c_http_parser_url_init ==
    [set |-> {}, port |-> 0, off |-> [f \in Fields |-> 0], len |-> [f \in Fields |-> 0]]

\* One turn of the loop of c_http_parser_parse_url, for the character at position p.
NextScan(sc, ch) ==
    LET s == parse_url_char(sc.s, ch)
    IN  [sc EXCEPT !.s = s, !.found_at = @ \/ s = "server_with_at",
                   !.old_uf = IF s \in Delimiting \cup {"dead"} THEN @ ELSE FieldOf(s)]
NextFields(sc, u, ch, p) ==
    LET s == parse_url_char(sc.s, ch)
    IN  IF s \in Delimiting \cup {"dead"} THEN u
        ELSE IF FieldOf(s) = sc.old_uf THEN Extend(u, FieldOf(s))
        ELSE Begin(u, FieldOf(s), p)

-----------------------------------------------------------------------------
(* The server part *)

c_http_parse_host_char(s, ch) ==
    CASE s \in {"userinfo", "userinfo_start"} ->
            IF ch = "@" THEN "host_start" ELSE IF ch \in IS_USERINFO_CHAR THEN "userinfo" ELSE "dead"
      [] s = "host_start" ->
            IF ch = "[" THEN "v6_start" ELSE IF ch \in IS_HOST_CHAR THEN "host" ELSE "dead"
      [] s = "host" ->
            IF ch \in IS_HOST_CHAR THEN s ELSE IF ch = ":" THEN "port_start" ELSE "dead"
      [] s = "v6_end" -> IF ch = ":" THEN "port_start" ELSE "dead"
      [] s \in {"v6", "v6_start"} ->
            IF s = "v6" /\ ch = "]" THEN "v6_end"
            ELSE IF ch \in IS_HEX \cup {":"} THEN "v6"
            ELSE IF s = "v6" /\ ch = "%" THEN "zone_start" ELSE "dead"
      [] s \in {"zone", "zone_start"} ->
            IF s = "zone" /\ ch = "]" THEN "v6_end"
            ELSE IF ch \in IS_ALPHA \cup IS_NUM \cup {"%"} THEN "zone" ELSE "dead"
      [] s \in {"port", "port_start"} -> IF ch \in IS_NUM THEN "port" ELSE "dead"

\* Faulty form of HostFields: the offset of the host stays where the server began.
HostFieldsKeepOffset(s, new, u, p) ==
    CASE new \in {"host", "v6", "zone", "zone_start"} -> Extend(u, "host")
      [] new \in {"port", "userinfo"} -> IF s = new THEN Extend(u, new) ELSE Begin(u, new, p)
      [] OTHER -> u

\* What a character adds to the fields; the length of the host is 0 before it begins.
HostFields(s, new, u, p) ==
    CASE new \in {"host", "v6"} /\ s # new ->
            [Extend(u, "host") EXCEPT !.off["host"] = p % OffsetRange]
      [] new \in {"host", "v6", "zone", "zone_start"} -> Extend(u, "host")
      [] new \in {"port", "userinfo"} -> IF s = new THEN Extend(u, new) ELSE Begin(u, new, p)
      [] OTHER -> u

\* The loop of c_http_parse_host: h[n] after n characters of the server part.
c_http_parse_host(t, u, found_at) ==
    LET h[n \in 0..u.len["host"]] ==
            IF n = 0 THEN [s |-> IF found_at THEN "userinfo_start" ELSE "host_start",
                           u |-> [u EXCEPT !.len["host"] = 0]]
            ELSE LET p == u.off["host"] + n - 1
                     old == h[n - 1]
                     new == c_http_parse_host_char(old.s, t[p + 1])
                 IN  IF old.s = "dead" \/ new = "dead" THEN [old EXCEPT !.s = "dead"]
                     ELSE [s |-> new, u |-> HostFields(old.s, new, old.u, p)]
    IN  h[u.len["host"]]

\* The states a server part may end in.
HostEnds == {"host", "v6_end", "port"}

\* *p - '0', also for what is not a digit.
LessZero == [ch \in Chars |->
    CASE ch = "1" -> 1 [] ch = "a" -> 49 [] ch = "g" -> 55 [] ch = ":" -> 10
      [] ch = "/" -> -1 [] ch = "?" -> 15 [] ch = "#" -> -13 [] ch = "@" -> 16
      [] ch = "[" -> 43 [] ch = "]" -> 45 [] ch = "%" -> -11 [] ch = " " -> -16]

\* The loop over the characters of the port, which ends at a value that is too
\* large; a negative one is very large, for v is unsigned.
PortValue(t, u) ==
    LET v[i \in 0..u.len["port"]] ==
            IF i = 0 THEN 0
            ELSE LET old == v[i - 1]
                     w == 10 * old + LessZero[t[u.off["port"] + i]]
                 IN  IF old > PortMax THEN old ELSE IF w < 0 THEN PortMax + 1 ELSE w
    IN  v[u.len["port"]]

-----------------------------------------------------------------------------
(* Reading a URL *)

Scanned(t, is_connect) ==
    LET start == [s |-> IF is_connect THEN "server_start" ELSE "spaces_before_url",
                  old_uf |-> "max", found_at |-> FALSE, is_connect |-> is_connect]
        r[n \in 0..Len(t)] ==
            IF n = 0 THEN [sc |-> start, u |-> c_http_parser_url_init]
            ELSE LET old == r[n - 1]
                 IN  [sc |-> NextScan(old.sc, t[n]), u |-> NextFields(old.sc, old.u, t[n], n - 1)]
    IN  r[Len(t)]

UrlInit ==
    /\ url = << >>
    /\ more = 0
    /\ scan = Scanned(<< >>, FALSE).sc
    /\ fields = c_http_parser_url_init
    /\ result = "reading"

\* A caller gives a URL that begins like this.
Given(prefix, is_connect) ==
    /\ url = << >>
    /\ result = "reading"
    /\ url' = prefix
    /\ more' = 0
    /\ scan' = Scanned(prefix, is_connect).sc
    /\ fields' = Scanned(prefix, is_connect).u
    /\ result' = IF scan'.s = "dead" THEN "refused" ELSE result

Scan(ch) ==
    /\ result = "reading"
    /\ more < MaxMore
    /\ more' = more + 1
    /\ url' = Append(url, ch)
    /\ scan' = NextScan(scan, ch)
    /\ fields' = NextFields(scan, fields, ch, Len(url))
    /\ result' = IF scan'.s = "dead" THEN "refused" ELSE result

\* The end of c_http_parser_parse_url.
EndOfUrl ==
    LET host == c_http_parse_host(url, fields, scan.found_at)
        after == IF "host" \in fields.set THEN host.u ELSE fields
        refused == \/ url = << >>
                   \/ "schema" \in fields.set /\ "host" \notin fields.set
                   \/ "host" \in fields.set /\ host.s \notin HostEnds
                   \/ scan.is_connect /\ after.set # {"host", "port"}
        port == PortValue(url, after)
    IN  /\ result = "reading"
        /\ IF refused \/ ("port" \in after.set /\ port > PortMax)
           THEN result' = "refused" /\ fields' = after
           ELSE result' = "accepted" /\ fields' = [after EXCEPT !.port = port % OffsetRange]
        /\ UNCHANGED <<url, more, scan>>

UrlNext ==
    \/ \E prefix \in Beginnings, is_connect \in BOOLEAN : Given(prefix, is_connect)
    \/ \E ch \in Chars : Scan(ch)
    \/ EndOfUrl

\* Url_new copies the fields, whatever c_http_parser_parse_url returned.
Url_new(f) == SubSeq(url, fields.off[f] + 1, fields.off[f] + fields.len[f])

-----------------------------------------------------------------------------
(* Properties *)

Placed == {<<i, url[i]>> : i \in DOMAIN url}
Span(f) == fields.off[f]..(fields.off[f] + fields.len[f] - 1)

\* Offsets and lengths are uint16_t (url_parser.h:100-101) and nothing refuses a
\* longer URL: past this length the fields of an accepted one may overlap.
Measurable == Len(url) < OffsetRange

\* In a URL that is accepted, and short enough, the fields lie one after the
\* other, none overlaps another, what they leave out is delimiters, and each
\* holds only what may be in it: so the URL can be put together again from its
\* fields.
FieldsApart ==
    result = "accepted" /\ Measurable =>
        /\ \A f, g \in fields.set : f # g => Span(f) \cap Span(g) = {}
        /\ \A p \in 0..(Len(url) - 1) :
            (\A f \in fields.set : p \notin Span(f)) => url[p + 1] \in {":", "/", "?", "#", "@", "[", "]"}
        /\ \A f, g \in fields.set :
            <<f, g>> \in {<<"schema", "userinfo">>, <<"schema", "host">>, <<"userinfo", "host">>,
                          <<"host", "port">>, <<"host", "path">>, <<"port", "path">>,
                          <<"host", "query">>, <<"path", "query">>, <<"query", "fragment">>}
                => Max(Span(f)) < Min(Span(g))
        /\ \A p \in Span("path") : "path" \in fields.set => url[p + 1] \in IS_URL_CHAR
        /\ \A p \in Span("query") : "query" \in fields.set => url[p + 1] # "#"

\* An accepted server part names a host: letters and digits, or an address that
\* stands between "[" and "]"; and a port in it is the number its digits (here
\* all 1) say, in range.
HostIsNamed ==
    result = "accepted" /\ Measurable /\ "host" \in fields.set =>
        /\ Span("host") # {}
        /\ \/ \A p \in Span("host") : url[p + 1] \in IS_HOST_CHAR
           \/ /\ <<Min(Span("host")), "[">> \in Placed
              /\ <<Max(Span("host")) + 2, "]">> \in Placed
              /\ \A p \in Span("host") : url[p + 1] \notin {"[", "]", "@", "/"}
        /\ "port" \in fields.set => /\ \A p \in Span("port") : url[p + 1] \in IS_NUM
                                    /\ \/ fields.len["port"] = 1 /\ fields.port = 1
                                       \/ fields.len["port"] = 2 /\ fields.port = 11

\* Url_new does not look at the result: what it copies lies within the URL even
\* when the URL was refused halfway, or was too long for its offsets.
CopiesWithinUrl ==
    result # "reading" => \A f \in Fields : fields.off[f] + fields.len[f] <= Len(url)

\* A URL is split into fields that lie within it and, up to the length that the
\* offsets can measure, apart, and name a host where there is one
\* (c_http_parser_parse_url, Url_new).
UrlSplits == FieldsApart /\ HostIsNamed /\ CopiesWithinUrl
=============================================================================
