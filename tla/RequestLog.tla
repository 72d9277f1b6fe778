----------------------------- MODULE RequestLog -----------------------------
(* RequestLogMiddleware (provider/HTTPServer/gin/handler): the response is copied
   into a bounded buffer while it is written, in pieces of any size, and at the
   end the request's body and the buffer are prepared for the log: bodies of a
   binary type and bodies that are not UTF-8 are described, long ones are cut.
   A body is a sequence of bytes: "a", or the two bytes "h" "t" of one rune.  *)
EXTENDS Integers, Sequences, SequencesExt

CONSTANTS Bodies,      \* byte sequences
          Limits       \* values of maxRequestBodyLog / maxResponseBodyLog

VARIABLES body,        \* the request's or response's body
          binary,      \* its content type is one of isBinaryContentType
          limit,       \* -1 unlimited, 0 nothing
          sent,        \* bytes written to the client
          buffer,      \* blw.body
          written,     \* blw.written
          logged       \* the log entry of the whole body and of the buffer

vars == <<body, binary, limit, sent, buffer, written, logged>>

(* utf8.Valid *)
RECURSIVE Valid(_)
Valid(s) == \/ s = <<>>
            \/ s[1] = "a" /\ Valid(Tail(s))
            \/ Len(s) > 1 /\ s[1] = "h" /\ s[2] = "t" /\ Valid(Tail(Tail(s)))

Cut(s, n) == SubSeq(s, 1, n)
AtMost(m, n) == IF m < n THEN m ELSE n

RECURSIVE trimInvalid(_)
trimInvalid(s) == IF Valid(s) THEN s ELSE trimInvalid(Cut(s, Len(s) - 1))

Entry(kind, text) == [kind |-> kind, text |-> text]

(* Mutant: cut without regard to runes. *)
formatBodyForLogCut(s, bin, maxSize) ==
    CASE maxSize = 0 \/ s = <<>> -> Entry("empty", <<>>)
      [] maxSize # 0 /\ s # <<>> /\ (bin \/ ~Valid(s)) -> Entry("binary", <<>>)
      [] OTHER -> IF maxSize > 0 /\ Len(s) > maxSize
                  THEN Entry("truncated", Cut(s, maxSize))
                  ELSE Entry("text", s)

(* With logBinaryBody = FALSE, the default. *)
formatBodyForLog(s, bin, maxSize) ==
    CASE maxSize = 0 \/ s = <<>> -> Entry("empty", <<>>)
      [] maxSize # 0 /\ s # <<>> /\ (bin \/ ~Valid(s)) -> Entry("binary", <<>>)
      [] OTHER -> IF maxSize > 0 /\ Len(s) > maxSize
                  THEN Entry("truncated", trimInvalid(Cut(s, maxSize)))
                  ELSE Entry("text", s)

TypeOK == /\ body \in Bodies /\ binary \in BOOLEAN /\ limit \in Limits
          /\ sent \in 0 .. Len(body)
          /\ Range(buffer) \subseteq {"a", "h", "t"}
          /\ written \in 0 .. Len(body)
          /\ Len(logged) \in {0, 2}

Init == /\ body \in Bodies /\ binary \in BOOLEAN /\ limit \in Limits
        /\ sent = 0 /\ buffer = <<>> /\ written = 0
        /\ logged = <<>>

(* Mutant: the room left is not respected. *)
bufferBodyWhole(data) ==
    IF limit = 0 \/ (limit > 0 /\ written >= limit)
    THEN UNCHANGED <<buffer, written>>
    ELSE buffer' = buffer \o data /\ written' = written + Len(data)

(* written counts the whole piece also when only its beginning fits. *)
bufferBody(data) ==
    IF limit = 0 \/ (limit > 0 /\ written >= limit)
    THEN UNCHANGED <<buffer, written>>
    ELSE /\ buffer' = buffer \o (IF limit > 0 THEN Cut(data, AtMost(Len(data), limit - written))
                                              ELSE data)
         /\ written' = written + Len(data)

(* Write or WriteString of the next n bytes. *)
Write(n) == /\ logged = <<>>
            /\ sent + n <= Len(body)
            /\ bufferBody(SubSeq(body, sent + 1, sent + n))
            /\ sent' = sent + n
            /\ UNCHANGED <<body, binary, limit, logged>>

(* After c.Next(): the log entry. *)
Log == /\ logged = <<>>
       /\ sent = Len(body)
       /\ logged' = <<formatBodyForLog(body, binary, limit), formatBodyForLog(buffer, binary, limit)>>
       /\ UNCHANGED <<body, binary, limit, sent, buffer, written>>

Next == Log \/ \E n \in 1 .. Len(body) : Write(n)
Spec == Init /\ [][Next]_vars

---------------------------------------------------------------------------
(* However the response is cut into writes, the buffer holds exactly its first
   bytes up to the limit. *)
BufferIsPrefix ==
    buffer = CASE limit = 0 -> <<>>
               [] limit < 0 -> Cut(body, sent)
               [] OTHER -> Cut(body, AtMost(limit, sent))

(* What reaches the log as text is UTF-8, no longer than the limit, and a
   beginning of the body; and a request body that is text is logged as text,
   short of its limit by at most the rune the limit cuts through. *)
LogIsReadable ==
    logged # <<>> =>
        /\ \A i \in 1 .. 2 : LET t == logged[i].text
                             IN  /\ Valid(t) /\ IsPrefix(t, body)
                                 /\ limit > 0 => Len(t) <= limit
        /\ Valid(body) /\ ~binary /\ limit # 0 =>
              Len(logged[1].text) >= (IF limit < 0 \/ Len(body) <= limit THEN Len(body) ELSE limit - 1)
=============================================================================
