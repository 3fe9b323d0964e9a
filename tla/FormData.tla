------------------------------ MODULE FormData ------------------------------
(***************************************************************************)
(* The body of a posted form (httpd/http_web.c).  WEB_OnFormReceived       *)
(* appends what arrived to _sendBuffer, ExtractFormData passes the         *)
(* complete fields to TAG_Setter, and the rest is moved to the front.      *)
(*                                                                         *)
(* The buffer is scanned with strstr(), up to a NUL: what older fields     *)
(* left in it matters.  A byte of the buffer is therefore the position in  *)
(* the body that it came from, 0 for NUL, and -i for the character that    *)
(* the escape at position i decodes to.                                    *)
(***************************************************************************)
EXTENDS Integers, Sequences, FiniteSetsExt

CONSTANTS
  SEND_BUF,  \* sizeof(_sendBuffer)
  RESERVE,   \* the bytes at its end that are not used, 32 in the code
  Bodies     \* bound: the forms that are posted

(***************************************************************************)
(* "d" and "a" are hexadecimal digits, "x" is not, and an escape is "%"    *)
(* and two digits.  An escape that begins with "a" stands for an           *)
(* ampersand, the others for characters like "x".  "+" is such a character *)
(* too: URLDecode leaves it as it is.                                      *)
(***************************************************************************)
Hex == {"d", "a"}

(***************************************************************************)
(* A client posts a sequence of fields, separated by ampersands: each is a *)
(* name, an equals sign and a value, with other characters escaped.        *)
(***************************************************************************)
HasEquals(b, i) == \E j \in i..Len(b) : b[j] = "=" /\ \A k \in i..j : b[k] # "&"

IsForm(b) ==
  /\ b \in Seq(Hex \cup {"x", "%", "=", "&"})
  /\ HasEquals(b, 1)
  /\ \A i \in 1..Len(b) :
       /\ b[i] = "&" => HasEquals(b, i + 1)
       /\ b[i] = "%" => i + 2 <= Len(b) /\ b[i + 1] \in Hex /\ b[i + 2] \in Hex

ASSUME FormAssumption ==
  /\ RESERVE \in Nat \ {0} /\ SEND_BUF \in Nat /\ SEND_BUF > RESERVE
  /\ \A b \in Bodies : IsForm(b)

VARIABLES
  body,      \* what the client posts
  received,  \* _contentReceived
  mem,       \* _sendBuffer
  left,      \* _bytesLeft
  p, ne,     \* pointers of ExtractFormData, as indices; 0 for NULL
  calls,     \* history: the calls of TAG_Setter
  early,     \* history: a field was complete before the last part arrived
  pc         \* "recv" or "parse"; "done"; "undefined" once left is negative

vars == <<body, received, mem, left, p, ne, calls, early, pc>>

(* WEB_OnFormHeaders *)
Init ==
  /\ body \in Bodies
  /\ received = 0
  /\ mem = [i \in 1..SEND_BUF |-> 0]
  /\ left = 0 /\ p = 1 /\ ne = 0
  /\ calls = <<>> /\ early = FALSE
  /\ pc = "recv"

-----------------------------------------------------------------------------

(* The character of a byte of the buffer. *)
Char(v) ==
  CASE v = 0 -> "NUL"
    [] v > 0 -> body[v]
    [] v < 0 -> IF body[1 - v] = "a" THEN "&" ELSE "x"

(* The index of the NUL that ends the string at s. *)
StrEnd(m, s) == Min({i \in s..SEND_BUF : m[i] = 0})

Str(m, s) == SubSeq(m, s, StrEnd(m, s) - 1)

(* strstr: the first c in the string at s, or 0. *)
Find(m, s, c) ==
  LET hits == {i \in s..StrEnd(m, s) : Char(m[i]) = c}
  IN  IF hits = {} THEN 0 ELSE Min(hits)

(* Where s has escapes that are complete. *)
Escapes(s) ==
  {i \in 1..(Len(s) - 2) :
     Char(s[i]) = "%" /\ Char(s[i + 1]) \in Hex /\ Char(s[i + 2]) \in Hex}

(* The first i characters of s with its escapes decoded, for each i. *)
DecodedUpTo(s) ==
  LET dec[i \in 0..Len(s)] ==
        IF i = 0 THEN <<>>
        ELSE IF {i - 1, i - 2} \cap Escapes(s) # {} THEN dec[i - 1]
        ELSE Append(dec[i - 1], IF i \in Escapes(s) THEN -s[i] ELSE s[i])
  IN  dec

Decoded(s) == DecodedUpTo(s)[Len(s)]

(***************************************************************************)
(* URLDecode works in place and never writes a NUL: each memmove() takes   *)
(* two bytes out of the string and leaves its last two where they were, so *)
(* that they follow the decoded string once for each escape.               *)
(***************************************************************************)
URLDecode(s) ==
  Decoded(s) \o [j \in 1..(Len(s) - Len(Decoded(s))) |-> s[Len(s) - (j % 2)]]

(* The string s written to index i. *)
Write(m, i, s) == SubSeq(m, 1, i - 1) \o s \o SubSeq(m, i + Len(s), SEND_BUF)

(* Mutant: no NUL is written. *)
Cut_Not(m, i) == m

(* NUL at i. *)
Cut(m, i) == Write(m, i, <<0>>)

Remain == Len(body) - received

(* Mutant: the space that a partial field takes is counted twice. *)
Free_Twice == SEND_BUF - 2 * left - RESERVE

(* nFree *)
Free == SEND_BUF - left - RESERVE

(* The part of the body that HttpRequestProc has at hand is appended, as   *)
(* much as there is room for; with a negative left it would be written     *)
(* before the buffer.  (IsKilling is false: nothing sets _killing.)        *)
WEB_OnFormReceived ==
  /\ pc = "recv"
  /\ \E size \in 1..Remain :
       LET consumed == Min({size, Free})
       IN  \/ /\ left >= 0 /\ consumed > 0
              /\ mem' = Write(mem, left + 1, [i \in 1..consumed |-> received + i])
              /\ left' = left + consumed
              /\ received' = received + consumed
              /\ p' = 1 /\ ne' = 0 /\ pc' = "parse"
           \/ /\ left < 0
              /\ pc' = "undefined"
              /\ UNCHANGED <<received, mem, left, p, ne>>
  /\ UNCHANGED <<body, calls, early>>

(* The strings at name and value are decoded in place, and set. *)
SetField(m, name, value) ==
  \E raw \in {[name |-> Str(m, name), value |-> Str(m, value)]} :
    \E set \in {[name |-> URLDecode(raw.name), value |-> URLDecode(raw.value)]} :
      /\ mem' = Write(Write(m, name, set.name), value, set.value)
      /\ calls' = Append(calls, set)

(* The loop goes on: there is data, an ampersand and an equals sign. *)
HasField == p <= left /\ mem[p] # 0 /\ Find(mem, p, "=") # 0 /\ Find(mem, p, "&") # 0

(* One turn of the loop of ExtractFormData. *)
NextField ==
  LET e == Find(mem, p, "=")
      a == Find(mem, p, "&")
  IN
  /\ pc = "parse" /\ HasField
  /\ SetField(Cut(Cut(mem, e), a), p, e + 1)
  /\ p' = a + 1 /\ ne' = e
  /\ early' = (early \/ Remain > 0)
  /\ UNCHANGED <<body, received, left, pc>>

(* Mutant: what is left of the data is not moved to the front. *)
MoveDown_Not(n) == mem' = mem /\ left' = left - n

(* n bytes are parsed: the others move to the front of the buffer. *)
MoveDown(n) ==
  /\ left' = left - n
  /\ mem' = IF n > 0 /\ left' > 0
            THEN Write(mem, 1, SubSeq(mem, n + 1, n + left'))
            ELSE mem

(* The loop ends with data still to come. *)
KeepRest ==
  /\ pc = "parse" /\ ~HasField /\ Remain > 0
  /\ MoveDown(p - 1)
  /\ pc' = "recv"
  /\ UNCHANGED <<body, received, p, ne, calls, early>>

(* Where the loop left the pointer ne: found again unless it ended at p. *)
LastEquals == IF p <= left /\ mem[p] # 0 THEN Find(mem, p, "=") ELSE ne

(* The end of the form: its last field has no ampersand behind it. *)
LastField ==
  /\ pc = "parse" /\ ~HasField /\ Remain = 0
  /\ \/ /\ LastEquals # 0
        /\ SetField(Cut(mem, LastEquals), p, LastEquals + 1)
     \/ LastEquals = 0 /\ UNCHANGED <<mem, calls>>
  /\ left' = 0 /\ pc' = "done"
  /\ UNCHANGED <<body, received, p, ne, early>>

Next == WEB_OnFormReceived \/ NextField \/ KeepRest \/ LastField

Spec == Init /\ [][Next]_vars

(* The client sends its form, HttpRequestProc passes it on. *)
FairSpec == Spec /\ WF_vars(Next)

-----------------------------------------------------------------------------
(***************************************************************************)
(* The reference: the fields of the body, properly decoded.                *)
(***************************************************************************)

(* Positions i..j of the body. *)
Piece(i, j) == [k \in 1..(j - i + 1) |-> i + k - 1]

(* The ends of the fields of the body: ampersands, and its end. *)
FieldEnds == {i \in 1..Len(body) : body[i] = "&"} \cup {Len(body) + 1}

(* The field that ends before e: its name and its value in the body. *)
FieldAt(e) ==
  LET start == Max({0} \cup {i \in FieldEnds : i < e}) + 1
      eq    == Min({i \in start..(e - 1) : body[i] = "="})
  IN  [name |-> Piece(start, eq - 1), value |-> Piece(eq + 1, e - 1)]

(* The k-th field. *)
Field(k) == FieldAt(CHOOSE e \in FieldEnds : Cardinality({i \in FieldEnds : i < e}) = k - 1)

(* An ampersand in a name or a value: an escape that decodes to one. *)
HasAmpersand == \E i \in 1..(Len(body) - 1) : body[i] = "%" /\ body[i + 1] = "a"

Begins(s, t) == Len(t) <= Len(s) /\ SubSeq(s, 1, Len(t)) = t

(***************************************************************************)
(* Types.  The reserved bytes at the end of the buffer are never written:  *)
(* they are the NUL at which strstr() stops.  The count of buffered bytes  *)
(* is wrong only after an escaped ampersand.                               *)
(***************************************************************************)
TypeOK ==
  /\ body \in Bodies /\ received \in 0..Len(body)
  /\ mem \in Seq(Int) /\ Len(mem) = SEND_BUF
  /\ \A i \in (SEND_BUF - RESERVE + 1)..SEND_BUF : mem[i] = 0
  /\ left \in Int /\ p \in 1..SEND_BUF /\ ne \in 0..SEND_BUF
  /\ calls \in Seq([name : Seq(Int), value : Seq(Int)])
  /\ early \in BOOLEAN
  /\ pc \in {"recv", "parse", "done", "undefined"}
  /\ left \notin 0..(SEND_BUF - RESERVE) => HasAmpersand

(***************************************************************************)
(* However the form is cut into segments, and however small the buffer is: *)
(* each complete field is passed to its setter once and in order, and what *)
(* the setter gets begins with the decoded name or value.  (An escaped     *)
(* ampersand that stays in the buffer can end a later field.)              *)
(***************************************************************************)
FieldsInOrder ==
  ~HasAmpersand =>
    /\ Len(calls) <= Cardinality(FieldEnds)
    /\ pc = "done" => Len(calls) = Cardinality(FieldEnds)
    /\ \A k \in 1..Len(calls) :
         /\ Begins(calls[k].name, Decoded(Field(k).name))
         /\ Begins(calls[k].value, Decoded(Field(k).value))

(***************************************************************************)
(* What the setter gets is exactly what was posted if it has no escape     *)
(* (each one leaves its two digits at the end of the string), unless it is *)
(* the last value of a form of which a field was parsed before: what that  *)
(* field left in the buffer is not cut off.                                *)
(***************************************************************************)
FieldsAreExact ==
  ~HasAmpersand =>
    \A k \in 1..Len(calls) :
      LET f == Field(k)
      IN  /\ Escapes(f.name) = {} => calls[k].name = f.name
          /\ Escapes(f.value) = {} /\ ~(k = Cardinality(FieldEnds) /\ early)
               => calls[k].value = f.value

(***************************************************************************)
(* A form with fields that fit into the buffer is received to its end; a   *)
(* longer field blocks the connection until it times out.                  *)
(***************************************************************************)
FormCompletes ==
  (\A e \in FieldEnds : LET f == FieldAt(e)
                        IN  Len(f.name) + Len(f.value) + 2 <= SEND_BUF - RESERVE)
    ~> (pc \in {"done", "undefined"})

=============================================================================
