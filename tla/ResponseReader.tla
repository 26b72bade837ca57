--------------------------- MODULE ResponseReader ---------------------------
(***************************************************************************)
(* The HTTP response reader of the Go client, readResponse and what it     *)
(* calls in src/benchcli-go/protocol/http.go, as operators on what a       *)
(* connection carries: a sequence of lines and pieces of body.             *)
(*                                                                         *)
(* A line is what readLine makes of it: "status" (its code), "length"      *)
(* (Content-Length), "transfer" (Transfer-Encoding: chunked or not),       *)
(* "field" (any other header), "blank", "size" (a chunk's), "bad" (none of *)
(* them, or longer than the buffer).  A "body" is n bytes of a request's.  *)
(* No line is a "size" and a header at once, and sizes are far below 2^63. *)
(***************************************************************************)
EXTENDS Integers, Sequences, FiniteSetsExt

CONSTANT MaxBodySize    \* of http.go

Item(kind, value) == [kind |-> kind, value |-> value]

\* readLine, and the end of the stream after the last item.
ItemAt(r, i) == IF i \in DOMAIN r THEN r[i] ELSE Item("eof", 0)

\* The first item from i on that is none of the kinds.
FirstNot(r, i, kinds) ==
    Min({j \in i..(Len(r) + 1) : ItemAt(r, j).kind \notin kinds} \cup {Len(r) + 1})

\* What readResponse returns: next is where it leaves the stream.
Failed(err, n, next) == [err |-> err, status |-> 0, body |-> <<>>, n |-> n, next |-> next]
Read(status, body, n, next) ==
    [err |-> "nil", status |-> status, body |-> body, n |-> n, next |-> next]

ErrorAt(r, i) == IF ItemAt(r, i).kind = "eof" THEN "eof" ELSE "malformed"

HeaderKinds == {"length", "transfer", "field"}

\* The last header of the kind in r[i..j] decides.
HeaderOr(r, i, j, kind, default) ==
    LET at == {k \in i..j : r[k].kind = kind}
    IN  IF at = {} THEN default ELSE r[Max(at)].value

\* parseStatus: statuses whose response has no body whatever its headers say.
NoBody(status) == (status \div 100) = 1 \/ status \in {204, 304}

\* Content-Length: n bytes of body, Discard or ReadFull into the grown buffer.
ReadLength(r, status, i, n) ==
    IF n > MaxBodySize THEN Failed("too large", 0, i)
    ELSE IF n = 0 THEN Read(status, <<>>, 0, i)
    ELSE IF ItemAt(r, i).kind = "body" /\ r[i].value.n = n
         THEN Read(status, <<r[i].value.of>>, n, i + 1)
    ELSE Failed("eof", n, Len(r) + 1)

\* Mutant of ReadTrailer: the trailer and its blank line are left on the stream.
ReadNoTrailer(r, status, i, body, total) == Read(status, body, total, i)

\* The trailer: the lines from i on, up to the blank one; none is looked at,
\* so that a "bad" one here is one longer than the buffer.
ReadTrailer(r, status, i, body, total) ==
    LET end == FirstNot(r, i, HeaderKinds \cup {"status", "size", "body"})
    IN  IF ItemAt(r, end).kind = "blank" THEN Read(status, body, total, end + 1)
        ELSE Failed(ErrorAt(r, end), total, end)

\* readChunked: chunks from item i on, of which total bytes have been read.
ReadChunked(r, status, start) ==
    LET Chunk[i \in start..(Len(r) + 3), total \in 0..MaxBodySize] ==
            LET size == ItemAt(r, i) IN
            IF size.kind # "size" THEN Failed(ErrorAt(r, i), total, i)
            ELSE IF size.value = 0 THEN ReadTrailer(r, status, i + 1, <<>>, total)
            ELSE IF total + size.value > MaxBodySize THEN Failed("too large", total, i + 1)
            ELSE IF ~(ItemAt(r, i + 1).kind = "body" /\ r[i + 1].value.n = size.value)
                 THEN Failed("eof", total, i + 1)
            ELSE IF ItemAt(r, i + 2).kind # "blank"
                 THEN Failed(ErrorAt(r, i + 2), total + size.value, i + 2)
            ELSE LET rest == Chunk[i + 3, total + size.value]
                 IN  [rest EXCEPT !.body = <<r[i + 1].value.of>> \o @]
    IN  Chunk[start, 0]

\* readResponse, from item start on.  With keep FALSE (DiscardResponse) the
\* body is dropped and everything else is the same.
ReadResponse(r, start) ==
    LET status  == ItemAt(r, start)
        end     == FirstNot(r, start + 1, HeaderKinds)
        chunked == HeaderOr(r, start + 1, end - 1, "transfer", FALSE)
        length  == HeaderOr(r, start + 1, end - 1, "length", -1)
    IN  IF status.kind # "status" THEN Failed(ErrorAt(r, start), 0, start)
        ELSE IF ItemAt(r, end).kind # "blank" THEN Failed(ErrorAt(r, end), 0, end)
        ELSE IF NoBody(status.value) THEN Read(status.value, <<>>, 0, end + 1)
        ELSE IF chunked THEN ReadChunked(r, status.value, end + 1)
        ELSE IF length >= 0 THEN ReadLength(r, status.value, end + 1, length)
        ELSE Failed("no length", 0, end + 1)
=============================================================================
