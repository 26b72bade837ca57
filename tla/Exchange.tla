------------------------------ MODULE Exchange ------------------------------
(***************************************************************************)
(* Requests and responses between the Go client's reader (ResponseReader)  *)
(* and the echo handler of a Go server: frameworks.Echo and ReadBody of    *)
(* src/frameworks/handlers.go and the onEcho of each framework             *)
(* (Frameworks).  Handlers of several connections run at once and take     *)
(* their buffers from one pool; a connection's own requests are handled    *)
(* one after the other, however many are pipelined.                        *)
(*                                                                         *)
(* The reader is run against another server, too, which answers anything   *)
(* in Answers: interim responses, chunks, no body, a malformed one.        *)
(***************************************************************************)
EXTENDS ResponseReader, Frameworks, FiniteSets

CONSTANTS
    Conns,      \* connections
    Requests,   \* bound: requests on a connection
    Buffers,    \* bound: buffers that are ever allocated
    Answers     \* what another server may answer with

OtherServer == [body |-> "none", copies |-> FALSE]

VARIABLES
    server,     \* how the server holds a request's body
    sent,       \* how many requests were written on each connection
    handler,    \* the handler of each connection's request
    pool,       \* the buffers in the pool
    content,    \* whose body a buffer holds
    stream,     \* what the server has written on each connection
    closed,     \* the connection is closed by the server
    pos,        \* how far the client has read it
    answered,   \* how many responses the client has read from it
    last        \* the client's last result

vars == <<server, sent, handler, pool, content, stream, closed, pos, answered, last>>
serverVars == <<server, handler, pool, content>>
clientVars == <<pos, answered, last>>

NoBuffer == "none"

\* A handler without a buffer has nil, which is no buffer.
ASSUME BufferAssumption == NoBuffer \notin Buffers

Idle == [at |-> "idle", buf |-> NoBuffer, out |-> <<>>, served |-> 0]

Init ==
    /\ server \in {[body |-> GoServers[f].body, copies |-> GoServers[f].copies] :
                      f \in DOMAIN GoServers} \cup {OtherServer}
    /\ sent = [c \in Conns |-> 0]
    /\ handler = [c \in Conns |-> Idle]
    /\ pool = {}
    /\ content = [b \in Buffers |-> <<>>]
    /\ stream = [c \in Conns |-> <<>>]
    /\ closed = [c \in Conns |-> FALSE]
    /\ pos = [c \in Conns |-> 1]
    /\ answered = [c \in Conns |-> 0]
    /\ last = [c \in Conns |-> Read(200, <<>>, 0, 1)]

-----------------------------------------------------------------------------
(* The server *)

Held == {handler[c].buf : c \in Conns} \ {NoBuffer}

\* What the handler does next, on connection c.
Step(c, from, to) ==
    /\ handler[c].at = from
    /\ handler' = [handler EXCEPT ![c].at = to]

\* BodyPool.Get: one of the pool, or a new one; the engine's likewise.
GetBuffer(c) ==
    /\ server # OtherServer
    /\ handler[c].at = "idle"
    /\ handler[c].served < sent[c]
    /\ \E b \in IF pool # {} THEN pool ELSE Buffers \ Held :
           /\ handler' = [handler EXCEPT ![c].at = "read", ![c].buf = b]
           /\ pool' = pool \ {b}
    /\ UNCHANGED <<server, sent, content, stream, closed, clientVars>>

\* ReadBody: the whole body, of known length or up to its end.
ReadBody(c) ==
    /\ Step(c, "read", "respond")
    /\ content' = [content EXCEPT ![handler[c].buf] = <<c, handler[c].served + 1>>]
    /\ UNCHANGED <<server, sent, pool, stream, closed, clientVars>>

\* The connection fails under ReadBody: a 400 is the response.
ReadBodyFails(c) ==
    /\ handler[c].at = "read"
    /\ handler' = [handler EXCEPT ![c].at = "responded",
                                  ![c].out = <<Item("status", 400), Item("length", 0)>>]
    /\ UNCHANGED <<server, sent, pool, content, stream, closed, clientVars>>

\* The headers, Content-Length among them; the body is copied into the
\* response, or the response refers to the buffer.
Respond(c) ==
    /\ handler[c].at = "respond"
    /\ handler' = [handler EXCEPT
           ![c].at = "responded",
           ![c].out = << Item("status", 200), Item("field", 0), Item("length", 1),
                         IF server.copies THEN Item("copy", content[handler[c].buf])
                                          ELSE Item("buffer", handler[c].buf) >>]
    /\ UNCHANGED <<server, sent, pool, content, stream, closed, clientVars>>

\* Mutant of ReturnBuffer: returned when the response is made, and again by
\* the deferred call.
ReturnBufferTwice(c) ==
    /\ pool' = pool \cup {handler[c].buf}
    /\ \/ handler[c].at = "respond" /\ UNCHANGED handler
       \/ /\ handler[c].at \in {"responded", "written"}
          /\ handler' = [handler EXCEPT
                 ![c].at = IF handler[c].at = "written" THEN "idle" ELSE "returned",
                 ![c].buf = NoBuffer]
    /\ UNCHANGED <<server, sent, content, stream, closed, clientVars>>

\* The deferred BodyPool.Put, when the handler returns: the response may have
\* been written by then, or is the engine's to write.  An engine's own buffer
\* is kept until it has been.
ReturnBuffer(c) ==
    /\ handler[c].at = "written" \/ (handler[c].at = "responded" /\ server.body = "pool")
    /\ pool' = pool \cup {handler[c].buf}
    /\ handler' = [handler EXCEPT
           ![c].at = IF handler[c].at = "written" THEN "idle" ELSE "returned",
           ![c].buf = NoBuffer]
    /\ UNCHANGED <<server, sent, content, stream, closed, clientVars>>

\* What of a response goes out: the body last, read from the buffer now when
\* it was not copied.
Written(out) ==
    LET item == out[Len(out)] IN
    CASE item.kind = "copy"   -> SubSeq(out, 1, Len(out) - 1)
             \o <<Item("blank", 0), Item("body", [n |-> 1, of |-> item.value])>>
      [] item.kind = "buffer" -> SubSeq(out, 1, Len(out) - 1)
             \o <<Item("blank", 0), Item("body", [n |-> 1, of |-> content[item.value]])>>
      [] OTHER -> Append(out, Item("blank", 0))

WriteResponse(c) ==
    /\ handler[c].at \in {"responded", "returned"}
    /\ stream' = IF closed[c] THEN stream
                 ELSE [stream EXCEPT ![c] = @ \o Written(handler[c].out)]
    /\ handler' = [handler EXCEPT
           ![c].at = IF handler[c].at = "returned" THEN "idle" ELSE "written",
           ![c].out = <<>>, ![c].served = @ + 1]
    /\ UNCHANGED <<server, sent, pool, content, closed, clientVars>>

OtherAnswers(c) ==
    /\ server = OtherServer
    /\ ~closed[c]
    /\ handler[c].served < sent[c]
    /\ \E answer \in Answers : stream' = [stream EXCEPT ![c] = @ \o answer]
    /\ handler' = [handler EXCEPT ![c].served = @ + 1]
    /\ UNCHANGED <<server, sent, pool, content, closed, clientVars>>

\* The connection ends, within what has not been read; a handler goes on.
Close(c) ==
    /\ ~closed[c]
    /\ closed' = [closed EXCEPT ![c] = TRUE]
    /\ \E end \in (pos[c] - 1)..Len(stream[c]) :
           stream' = [stream EXCEPT ![c] = SubSeq(@, 1, end)]
    /\ UNCHANGED <<server, sent, handler, pool, content, clientVars>>

-----------------------------------------------------------------------------
(* The client *)

\* doOnce of a benchmark: a request is written, before or after the responses
\* to those in front of it have been read.
Send(c) ==
    /\ sent[c] < Requests
    /\ last[c].err = "nil"
    /\ sent' = [sent EXCEPT ![c] = @ + 1]
    /\ UNCHANGED <<serverVars, stream, closed, clientVars>>

\* One call of ReadResponse, which waits for what is not there yet; after an
\* error the connection is not read again.
Receive(c) ==
    /\ last[c].err = "nil"
    /\ answered[c] < sent[c]
    /\ LET result == ReadResponse(stream[c], pos[c]) IN
           /\ result.err = "eof" => closed[c]
           /\ last' = [last EXCEPT ![c] = result]
           /\ pos' = [pos EXCEPT ![c] = result.next]
           /\ answered' = [answered EXCEPT ![c] = @ + 1]
    /\ UNCHANGED <<serverVars, sent, stream, closed>>

-----------------------------------------------------------------------------
Handle(c) ==
    \/ GetBuffer(c) \/ ReadBody(c) \/ ReadBodyFails(c) \/ Respond(c)
    \/ ReturnBuffer(c) \/ WriteResponse(c)

Over ==
    \A c \in Conns :
        /\ closed[c]
        /\ handler[c].at = "idle"
        /\ server = OtherServer \/ handler[c].served = sent[c]
        /\ last[c].err # "nil" \/ answered[c] = Requests

Terminated == Over /\ UNCHANGED vars

Next ==
    \/ \E c \in Conns : Handle(c) \/ OtherAnswers(c) \/ Close(c) \/ Send(c) \/ Receive(c)
    \/ Terminated

Spec == Init /\ [][Next]_vars

-----------------------------------------------------------------------------
(* Properties *)

\* A response read without an error leaves the stream where the next one
\* begins, whatever its body was framed by: an interim response is one of its
\* own, and its final one is next (http.go:142).
Aligned ==
    \A c \in Conns :
        last[c].err = "nil" => ItemAt(stream[c], pos[c]).kind \in {"status", "eof"}

\* Every 200 the client reads from a Go server carries the body of the request
\* it answers, although the buffer the body was read into may long be another
\* request's (handlers.go:128).
EchoedBack ==
    \A c \in Conns :
        server # OtherServer /\ answered[c] > 0 /\ last[c].err = "nil" /\ last[c].status = 200
            => last[c].body = << <<c, answered[c]>> >>

\* No two handlers have the same buffer, and none has one that the pool could
\* hand out (handlers.go:128).
BuffersApart ==
    /\ pool \cap Held = {}
    /\ \A c, d \in Conns :
           c # d /\ handler[c].buf # NoBuffer => handler[c].buf # handler[d].buf
=============================================================================
