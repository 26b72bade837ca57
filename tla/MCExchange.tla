----------------------------- MODULE MCExchange -----------------------------
EXTENDS Exchange, TLC

Head1(code) == Item("status", code)
Blank == Item("blank", 0)
Piece == Item("body", [n |-> 1, of |-> "other"])
Chunked == Item("transfer", TRUE)
LastChunk == Item("size", 0)

\* An interim response before the final one; a body of a length, of chunks
\* with a trailer, of chunks although a length is given; none; one that is too
\* large, by its length and in chunks; one without a length; and malformed ones.
MCAnswers ==
    { <<Head1(100), Blank, Head1(200), Item("length", 1), Blank, Piece>>,
      <<Head1(200), Item("length", 0), Blank>>,
      <<Head1(200), Chunked, Blank, Item("size", 1), Piece, Blank, LastChunk,
        Item("field", 0), Blank>>,
      <<Head1(200), Chunked, Item("length", 1), Blank, LastChunk, Blank>>,
      <<Head1(204), Item("length", 1), Blank>>,
      <<Head1(200), Item("length", 3), Blank, Piece>>,
      <<Head1(200), Chunked, Blank, Item("size", 1), Piece, Blank, Item("size", 2)>>,
      <<Head1(200), Blank>>,
      <<Head1(200), Item("bad", 0), Blank>>,
      <<Head1(200), Chunked, Blank, Item("size", 1), Piece, Item("bad", 0)>> }
\* Connections and buffers are alike.
Symmetry == Permutations(Conns) \cup Permutations(Buffers)
=============================================================================
