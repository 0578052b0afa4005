------------------------------- MODULE RestHttp -------------------------------
(***************************************************************************)
(* HTTP/1.1 as the REST bridge reads it, one request for each connection,  *)
(* and its routes.  A stream is a sequence of characters, where a word, a  *)
(* decimal number, a letter's case and the two characters of the end of a  *)
(* line count as one; so Content-Length counts these.                      *)
(***************************************************************************)
EXTENDS Naturals, Sequences, SequencesExt

CONSTANTS
  MaxHeaders,    \* kMaxHeaders
  MaxHeaderLine, \* kMaxHeaderLine
  MaxBody        \* kMaxBodyBytes

EndOfLine == "\n"

(* Up to the next x, and after it. *)
Has(s, x) == Contains(s, x)
Before(s, x) == IF Has(s, x) THEN SubSeq(s, 1, SelectInSeq(s, LAMBDA c : c = x) - 1) ELSE s
After(s, x) == SubSeq(s, SelectInSeq(s, LAMBDA c : c = x) + 1, Len(s))

-----------------------------------------------------------------------------
(* read_line: a line of less than kMaxHeaderLine characters. *)
HasLine(s) == Has(s, EndOfLine) /\ Len(Before(s, EndOfLine)) < MaxHeaderLine

(* The method, the target without its query; nothing when malformed. *)
RequestLine(line) ==
  LET target == Before(After(line, " "), " ") IN
  IF Has(line, " ") /\ Has(After(line, " "), " ") /\ target # <<>>
  THEN {[method |-> Before(line, " "), path |-> Before(target, "?")]} ELSE {}

RECURSIVE WithoutSpaces(_)
WithoutSpaces(s) == IF s # <<>> /\ s[1] = " " THEN WithoutSpaces(Tail(s)) ELSE s

RECURSIVE Headers(_, _, _)
(* At most kMaxHeaders lines are read, the blank one included; a header    *)
(* that comes again replaces the first.                                    *)
Headers(s, n, headers) ==
  LET line == Before(s, EndOfLine) IN
  CASE n = MaxHeaders -> [kind |-> "ok", headers |-> headers, rest |-> s]
    [] ~HasLine(s) -> [kind |-> "connection error", headers |-> headers, rest |-> s]
    [] line = <<>> -> [kind |-> "ok", headers |-> headers, rest |-> After(s, EndOfLine)]
    [] ~Has(line, ":") -> [kind |-> "bad request", headers |-> headers, rest |-> s]
    [] OTHER -> Headers(After(s, EndOfLine), n + 1,
                  [k \in DOMAIN headers \cup {Before(line, ":")} |->
                     IF k = Before(line, ":") THEN WithoutSpaces(After(line, ":")) ELSE headers[k]])

ContentLength == <<"content-length">>
LengthIn(value) == {n \in 0 .. MaxBody : value = <<ToString(n)>>}

Outcome(kind, request) == [kind |-> kind, request |-> request]
NoRequest == [method |-> <<>>, path |-> <<>>, body |-> <<>>]

(* read_request; a body without a Content-Length is not read. *)
ReadRequest(s) ==
  LET line == RequestLine(Before(s, EndOfLine))
      head == Headers(After(s, EndOfLine), 0, [k \in {} |-> <<>>])
      length == IF ContentLength \in DOMAIN head.headers
                THEN LengthIn(head.headers[ContentLength]) ELSE {0}
      n == CHOOSE n \in length : TRUE
      r == CHOOSE r \in line : TRUE IN
  CASE ~HasLine(s) \/ Before(s, EndOfLine) = <<>> -> Outcome("connection error", NoRequest)
    [] line = {} -> Outcome("bad request", NoRequest)
    [] head.kind # "ok" -> Outcome(head.kind, NoRequest)
    [] length = {} \/ n > Len(head.rest) -> Outcome("bad request", NoRequest)
    [] OTHER -> Outcome("ok", [method |-> r.method, path |-> r.path, body |-> SubSeq(head.rest, 1, n)])

-----------------------------------------------------------------------------
(* classify_request. A path is a sequence of words and slashes. *)
Route(route, topic) == [route |-> route, topic |-> topic]

ClassifyRequest(method, rawPath) ==
  LET path == IF IsPrefix(<<"/", "topics">>, rawPath) THEN SubSeq(rawPath, 3, Len(rawPath)) ELSE rawPath
      topic == IF path # <<>> /\ path[1] = "/" THEN Tail(path) ELSE path IN
  CASE path \in {<<>>, <<"/">>} -> Route(IF method = "GET" THEN "list" ELSE "method not allowed", <<>>)
    [] topic = <<>> -> Route("bad request", <<>>)
    [] OTHER -> Route(CASE method = "GET" -> "subscribe" [] method = "POST" -> "publish"
                        [] OTHER -> "method not allowed", topic)

-----------------------------------------------------------------------------
(* The stream of events of a subscription: one chunk for each event. *)

(* The header text of a response of a kind; a chunked one has no length. *)
WriteHead(status, body) ==
  CASE status = "event-stream" -> <<"HTTP", " ", "200", EndOfLine, "transfer-encoding", ":", " ", "chunked",
                                    EndOfLine, EndOfLine>>
    [] status = "204" -> <<"HTTP", " ", "204", EndOfLine, EndOfLine>>
    [] OTHER -> <<"HTTP", " ", status, EndOfLine>> \o ContentLength
                  \o <<":", " ", ToString(Len(body)), EndOfLine, EndOfLine>> \o body

(* sse_message_event; the base64 text of a payload is one word. *)
SseMessageEvent(id, payload) ==
  <<"id: ", ToString(id), "\n", "event: message", "\n", "data: ", payload, "\n", "\n">>
SseKeepaliveComment == <<": keepalive", "\n", "\n">>

WriteChunk(data) == <<ToString(Len(data)), EndOfLine>> \o data \o <<EndOfLine>>
WriteChunkTerminator == <<"0", EndOfLine, EndOfLine>>

-----------------------------------------------------------------------------
(* What a client writes: a request line, headers and a body. *)
WriteRequest(method, target, headers, body) ==
  <<method, " ">> \o target \o <<" ", "HTTP", EndOfLine>>
    \o FlattenSeq([i \in 1 .. Len(headers) |-> headers[i] \o <<EndOfLine>>])
    \o ContentLength \o <<":", " ", ToString(Len(body)), EndOfLine, EndOfLine>> \o body

(* What it reads of a chunked response: the data of the chunks that are    *)
(* whole, and whether the last one came.                                   *)
RECURSIVE ReadChunks(_)
ReadChunks(s) ==
  LET n == {k \in 0 .. MaxBody : s # <<>> /\ s[1] = ToString(k)}
      size == CHOOSE k \in n : TRUE
      rest == ReadChunks(SubSeq(s, size + 4, Len(s))) IN
  CASE n = {} \/ Len(s) < size + 3 -> [ended |-> FALSE, chunks |-> <<>>]
    [] size = 0 -> [ended |-> TRUE, chunks |-> <<>>]
    [] OTHER -> [rest EXCEPT !.chunks = <<SubSeq(s, 3, size + 2)>> \o @]
=============================================================================
