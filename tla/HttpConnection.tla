--------------------------- MODULE HttpConnection ---------------------------
(***************************************************************************)
(* One connection of the HTTP server (aether_http_server.c):               *)
(* http_server_drain_connection reads requests into the buffer of the      *)
(* connection, in whatever pieces the network delivers, and answers them   *)
(* until the keep-alive policy, the client or an error ends it.  What one  *)
(* recv brings may hold the end of a request and the start of the next, or *)
(* the first frames of a WebSocket that the request asks for.              *)
(*                                                                         *)
(* The client sends the bytes of a script.  A byte is the number of the    *)
(* request or frame it belongs to and its offset in it.  The empty line    *)
(* that ends a header and the two bytes that start a frame count as one.   *)
(***************************************************************************)
EXTENDS Integers, Sequences, FiniteSets, SequencesExt

CONSTANTS Scripts,             \* what a client may send: see Request and Frame
          Policies,            \* [enabled, max]: keep_alive_enabled and keep_alive_max
          HTTP_CONN_BUF_CAP

\* A request with a header of h bytes and a body of b: what the server has for it
\* (a route, a middleware that blocks it, an SSE or WebSocket route, or no way to
\* parse it), whether the client wants the connection kept and whether the status
\* of the answer lets it be.
Request(h, b, route, keep) == [kind |-> "request", size |-> h + b, header |-> h, route |-> route, keep |-> keep]

\* A WebSocket frame: one byte for its start, then p bytes of payload.
Frame(opcode, fin, p) == [kind |-> "frame", size |-> 1 + p, header |-> 1, opcode |-> opcode, fin |-> fin]

VARIABLES script, policy,
          received,            \* how many bytes of the script have been received
          buf, buf_cap,        \* the buffer up to write_pos, and its capacity
          read_pos,
          pc,                  \* where the server is in serving the connection
          request_total,       \* the size of the request being read
          requests_served,
          answers,             \* the requests answered: their bytes and what the answer says
          msg_buf, msg_opcode, \* the WebSocket message being put together
          messages,            \* the messages the handler got
          pongs                \* the payloads of the pongs sent

connection_vars == <<script, policy, received, buf, buf_cap, read_pos, pc, request_total, requests_served,
                     answers, msg_buf, msg_opcode, messages, pongs>>
read_vars == <<received, buf, buf_cap, read_pos>>
ws_vars == <<msg_buf, msg_opcode, messages, pongs>>

Bytes(i) == [k \in 1..script[i].size |-> <<i, k>>]
Wire == FlattenSeq([i \in 1..Len(script) |-> Bytes(i)])

write_pos == Len(buf)
Unread == SubSeq(buf, read_pos + 1, write_pos)

----------------------------------------------------------------------------
\* Mutant: everything before write_pos is dropped.
CompactDropsUnread == buf' = << >> /\ read_pos' = 0

conn_buf_compact == buf' = Unread /\ read_pos' = 0

\* conn_buf_ensure: the capacity after growing to at least needed bytes.
RECURSIVE Doubled(_, _)
Doubled(cap, needed) == IF cap >= needed THEN cap ELSE Doubled(2 * cap, needed)

\* recv with room for so many bytes: some of what the client has sent.
conn_recv(room) ==
    \E n \in 1..room :
        /\ received + n <= Len(Wire)
        /\ buf' = buf \o SubSeq(Wire, received + 1, received + n)
        /\ received' = received + n

Close(how) == pc' = how /\ UNCHANGED <<script, policy, read_vars, request_total, requests_served, answers, ws_vars>>

----------------------------------------------------------------------------
(* handle_one_request.                                                      *)

BeginRequest ==
    /\ pc = "request"
    /\ buf_cap' = IF buf_cap = 0 THEN HTTP_CONN_BUF_CAP ELSE buf_cap
    /\ conn_buf_compact
    /\ pc' = "header"
    /\ UNCHANGED <<script, policy, received, request_total, requests_served, answers, ws_vars>>

\* The offset in the unread bytes at which strstr finds the end of a header, or 0.
hdr_end == LET ends == {k \in 1..Len(Unread) : LET b == Unread[k]
                                                    IN  script[b[1]].kind = "request" /\ b[2] = script[b[1]].header}
           IN  IF ends = {} THEN 0 ELSE CHOOSE k \in ends : \A j \in ends : k <= j

\* A header that does not fit into the buffer ends the connection.
ReadHeader ==
    /\ pc = "header" /\ hdr_end = 0
    /\ IF write_pos + 1 >= buf_cap THEN pc' = "failed" /\ UNCHANGED <<received, buf>>
       ELSE conn_recv(buf_cap - write_pos - 1) /\ UNCHANGED pc
    /\ UNCHANGED <<script, policy, buf_cap, read_pos, request_total, requests_served, answers, ws_vars>>

\* Content-Length is read from the header.
HeaderRead ==
    /\ pc = "header" /\ hdr_end # 0
    /\ LET r == script[Unread[hdr_end][1]]
           content_length == r.size - r.header
           needed_total == hdr_end + content_length
       IN  /\ request_total' = needed_total
           /\ buf_cap' = IF content_length > 0 THEN Doubled(buf_cap, read_pos + needed_total + 1) ELSE buf_cap
    /\ pc' = "body"
    /\ UNCHANGED <<script, policy, received, buf, read_pos, requests_served, answers, ws_vars>>

\* No more is asked for than the request needs.
ReadBody ==
    /\ pc = "body" /\ write_pos - read_pos < request_total
    /\ LET want == request_total - (write_pos - read_pos)
           avail == buf_cap - write_pos - 1
       IN  IF avail <= 0 THEN pc' = "failed" /\ UNCHANGED <<received, buf>>
           ELSE conn_recv(IF want < avail THEN want ELSE avail) /\ UNCHANGED pc
    /\ UNCHANGED <<script, policy, buf_cap, read_pos, request_total, requests_served, answers, ws_vars>>

will_keep_alive(r) == policy.enabled /\ r.keep /\ (policy.max = 0 \/ requests_served + 1 < policy.max)

\* The request is cut out of the buffer, parsed and answered.  The loop in
\* http_server_drain_connection counts it and looks at the limit again.
Respond ==
    /\ pc = "body" /\ write_pos - read_pos >= request_total
    /\ LET slice == SubSeq(Unread, 1, request_total)
           r == script[slice[Len(slice)][1]]
           keeps == r.route = "handler" /\ will_keep_alive(r)
           says == IF r.route = "handler" THEN (IF keeps THEN "keep-alive" ELSE "close") ELSE r.route
       IN  /\ read_pos' = read_pos + request_total
           /\ answers' = IF r.route = "malformed" THEN answers ELSE Append(answers, [bytes |-> slice, says |-> says])
           /\ requests_served' = IF keeps THEN requests_served + 1 ELSE requests_served
           /\ pc' = IF r.route = "websocket" THEN "frame" ELSE IF r.route = "malformed" THEN "failed"
                    ELSE IF keeps /\ (policy.max = 0 \/ requests_served' < policy.max) THEN "request" ELSE "closed"
    /\ UNCHANGED <<script, policy, received, buf, buf_cap, request_total, ws_vars>>

----------------------------------------------------------------------------
(* http_ws_recv, called by the handler again and again.                     *)

\* ws_recv_exact: the bytes come from the buffer as long as it has some, and then
\* from the socket.
ToCome == Unread \o SubSeq(Wire, received + 1, Len(Wire))
ws_recv_exact(n) ==
    LET take == IF Len(Unread) >= n THEN n ELSE Len(Unread)
    IN  read_pos' = read_pos + take /\ received' = received + n - take

WsControl(frame, payload) ==
    /\ pongs' = IF frame.opcode = "ping" THEN Append(pongs, payload) ELSE pongs
    /\ pc' = IF frame.opcode = "close" THEN "closed" ELSE pc
    /\ UNCHANGED <<msg_buf, msg_opcode, messages>>

\* A frame that begins a message drops what there was; the last one hands it over.
WsData(frame, payload) ==
    LET opcode == IF frame.opcode = "continuation" THEN msg_opcode ELSE frame.opcode
        data == (IF frame.opcode = "continuation" THEN msg_buf ELSE << >>) \o payload
    IN  /\ msg_opcode' = opcode
        /\ msg_buf' = IF frame.fin THEN << >> ELSE data
        /\ messages' = IF frame.fin THEN Append(messages, [opcode |-> opcode, data |-> data]) ELSE messages
        /\ UNCHANGED <<pongs, pc>>

NextFrame == script[ToCome[1][1]]
FrameToCome == ToCome # << >> /\ Len(ToCome) >= NextFrame.size

http_ws_recv ==
    /\ pc = "frame" /\ FrameToCome
    /\ ws_recv_exact(NextFrame.size)
    /\ LET payload == SubSeq(ToCome, 2, NextFrame.size)
       IN  IF NextFrame.opcode \in {"ping", "pong", "close"} THEN WsControl(NextFrame, payload)
           ELSE WsData(NextFrame, payload)
    /\ UNCHANGED <<script, policy, buf, buf_cap, request_total, requests_served, answers>>

\* The handler returns between two messages, and the server sends the close frame.
http_ws_close == pc = "frame" /\ msg_buf = << >> /\ Close("closed")

----------------------------------------------------------------------------
connection_init ==
    /\ script \in Scripts /\ policy \in Policies
    /\ received = 0 /\ buf = << >> /\ buf_cap = 0 /\ read_pos = 0
    /\ pc = "request" /\ request_total = 0 /\ requests_served = 0 /\ answers = << >>
    /\ msg_buf = << >> /\ msg_opcode = "none" /\ messages = << >> /\ pongs = << >>

\* A recv finds the end of the stream, times out or fails.
RecvFails ==
    /\ \/ pc = "header" /\ hdr_end = 0 /\ write_pos + 1 < buf_cap
       \/ pc = "body" /\ write_pos - read_pos < request_total
       \/ pc = "frame" /\ (FrameToCome => received < Len(Wire))
    /\ Close("eof")

\* The buffer cannot be allocated, or not be enlarged.
OutOfMemory ==
    /\ \/ pc = "request" /\ buf_cap = 0
       \/ pc = "header" /\ hdr_end # 0 /\ script[Unread[hdr_end][1]].size > script[Unread[hdr_end][1]].header
    /\ Close("failed")

connection_next ==
    \/ BeginRequest \/ ReadHeader \/ HeaderRead \/ ReadBody \/ Respond
    \/ http_ws_recv \/ http_ws_close \/ RecvFails \/ OutOfMemory

----------------------------------------------------------------------------
\* The buffer always has room for the byte that ends the string.
ConnectionTypeOK ==
    /\ buf_cap > 0 => write_pos < buf_cap
    /\ 0 <= read_pos /\ read_pos <= write_pos
    /\ received \in 0..Len(Wire)
    /\ pc \in {"request", "header", "body", "frame", "closed", "eof", "failed"}

Requests == {i \in 1..Len(script) : script[i].kind = "request"}
Data == {i \in 1..Len(script) : script[i].kind = "frame" /\ script[i].opcode \in {"text", "binary", "continuation"}}

\* The message that ends with frame j: the payloads since the frame that began it.
MessageEndingAt(j) ==
    LET first == CHOOSE i \in Data : /\ i <= j /\ script[i].opcode # "continuation"
                                     /\ \A k \in Data : k \in i + 1..j => script[k].opcode = "continuation"
    IN  [opcode |-> script[first].opcode,
         data |-> FlattenSeq([k \in 1..j - first + 1 |->
                                 IF first + k - 1 \in Data THEN Tail(Bytes(first + k - 1)) ELSE << >>])]
MessagesSent ==
    LET ends == SelectSeq([i \in 1..Len(script) |-> i], LAMBDA j : j \in Data /\ script[j].fin)
    IN  [k \in 1..Len(ends) |-> MessageEndingAt(ends[k])]

\* However the bytes arrive, the server answers the requests in order, each with
\* exactly its own header and body (handle_one_request); a handler of a WebSocket gets
\* the messages that were sent (http_ws_recv); once everything has arrived, nothing that
\* was received is left over; and the connection is not closed after an answer that
\* says it will be kept.
RequestsInOrder ==
    /\ \A k \in 1..Len(answers) : answers[k].bytes = Bytes(k)
    /\ IsPrefix(messages, MessagesSent)
    /\ pc = "closed" => answers[Len(answers)].says # "keep-alive"
    /\ (pc = "eof" /\ received = Len(Wire)) =>
           /\ Len(answers) = Cardinality(Requests)
           /\ Data # {} => messages = MessagesSent
=============================================================================
