----------------------------- MODULE MCHttpRecv -----------------------------
(* Instances of HttpRecv: short streams of pipelined requests. *)
EXTENDS HttpRecv

Tok(k, t, n) == [req |-> k, t |-> t, n |-> n]
CRLF(k) == <<Tok(k, "CR", 0), Tok(k, "LF", 0)>>
Line(k, t, n) == <<Tok(k, t, n)>> \o CRLF(k)
Fill(k, t, n) == [i \in 1..n |-> Tok(k, t, 0)]

(* Request k: its line, with x more bytes, its header lines, its body. *)
Plain(k, m, x, lines, body) ==
  <<Tok(k, m, 0)>> \o Fill(k, "x", x) \o CRLF(k) \o lines \o CRLF(k) \o body

Keep(k) == Line(k, "KEEP", 0)
Length(k, n) == Line(k, "LENGTH", n)
Post(k, m, n) == Plain(k, m, 0, Length(k, n) \o Keep(k), Fill(k, "b", n))
Get(k) == Plain(k, "GET", 0, <<>>, <<>>)

(* A chunked request, of one chunk of n bytes and the last one. *)
Chunks(k, m, n) ==
  Plain(k, m, 0, Line(k, "CHUNKED", 0) \o Keep(k),
        Line(k, "SIZE", n) \o Fill(k, "b", n) \o CRLF(k) \o Line(k, "SIZE", 0) \o CRLF(k))

MCStreams == {
  Post(1, "UPLOAD", 3) \o Get(2),
  Post(1, "UPLOAD", 6) \o Post(2, "UPLOAD", 1) \o Get(3),
  Plain(1, "GET", 0, Keep(1), <<>>) \o Plain(2, "GET", 0, Keep(2), <<>>) \o Post(3, "FORM", 3),
  Post(1, "FORM", 2) \o Get(2),
  Post(1, "AUTH", 2) \o Get(2),
  Post(1, "EARLY", 2) \o Get(2),
  Post(1, "REFUSED", 1) \o Get(2),
  Post(1, "GET", 6),
  Plain(1, "GET", 0, Line(1, "x", 0) \o Keep(1), <<>>) \o Get(2),
  Plain(1, "GET", 0, Fill(1, "x", 7) \o CRLF(1) \o Keep(1), <<>>) \o Get(2),
  Fill(1, "x", 1) \o CRLF(1) \o Get(2),
  CRLF(1) \o Get(2),
  Chunks(1, "UPLOAD", 2),
  Chunks(1, "UPLOAD", 10) \o Get(2),   \* "a", read as 0
  Chunks(1, "UPLOAD", 17)              \* "11", read as 11
}
=============================================================================
