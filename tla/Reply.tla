------------------------------- MODULE Reply -------------------------------
(***************************************************************************)
(* Response serialization (src/reply.go, Response.String and              *)
(* EnhancedStatusCode.String), and the reading of a reply that RFC 5321   *)
(* and spec 4.1 give a client: split at CR LF, a three-digit code on      *)
(* every line, "-" after it on every line but the last, " " on the last,  *)
(* and the enhanced code, when in use, before the text of every line.     *)
(*                                                                         *)
(* A response is [code, enh, lines]: enh is <<>> for a nil EnhancedCode   *)
(* or <<[class, subject, detail]>>; a line of text and the wire are       *)
(* sequences of one-character strings, "CR" and "LF" standing for \r \n.  *)
(***************************************************************************)
EXTENDS Naturals, Sequences, SequencesExt

ReplyCRLF == <<"CR", "LF">>

DecimalDigits == <<"0", "1", "2", "3", "4", "5", "6", "7", "8", "9">>

\* fmt's %d of a non-negative integer.
RECURSIVE Itoa(_)
Itoa(n) ==
    IF n < 10 THEN <<DecimalDigits[n + 1]>>
    ELSE Itoa(n \div 10) \o <<DecimalDigits[(n % 10) + 1]>>

\* EnhancedStatusCode.String: "%d.%d.%d".
EnhancedString(e) ==
    Itoa(e.class) \o <<".">> \o Itoa(e.subject) \o <<".">> \o Itoa(e.detail)

\* Variant of ReplyLine that leaves the enhanced code off continuation
\* lines.
ReplyLineNoEnhancedOnContinuation(code, enh, sep, text) ==
    Itoa(code) \o <<sep>>
      \o (IF enh = <<>> \/ sep = "-" THEN <<>> ELSE EnhancedString(enh[1]) \o <<" ">>)
      \o text \o ReplyCRLF

\* One line of a non-empty response: "%d%s%s %s\r\n" with the enhanced
\* code, "%d%s%s\r\n" without, sep being "-" or " ".
ReplyLine(code, enh, sep, text) ==
    Itoa(code) \o <<sep>>
      \o (IF enh = <<>> THEN <<>> ELSE EnhancedString(enh[1]) \o <<" ">>)
      \o text \o ReplyCRLF

\* Response.String: the code alone (with the enhanced code) for no lines;
\* otherwise "-" after the code on every line but the last.
ResponseString(r) ==
    IF r.lines = <<>>
    THEN Itoa(r.code)
           \o (IF r.enh = <<>> THEN <<>> ELSE <<" ">> \o EnhancedString(r.enh[1]))
           \o ReplyCRLF
    ELSE FlattenSeq([i \in 1..Len(r.lines) |->
                        ReplyLine(r.code, r.enh,
                                  IF i = Len(r.lines) THEN " " ELSE "-",
                                  r.lines[i])])

-----------------------------------------------------------------------------
(* The client's reading of a reply                                         *)

\* The lines of the wire between CR LF pairs; an unterminated or broken
\* line end is the line <<"?">>, which no reading accepts.
RECURSIVE WireLines(_)
WireLines(s) ==
    IF s = <<>> THEN <<>>
    ELSE LET i == SelectInSeq(s, LAMBDA x : x = "CR")
         IN  IF i = 0 \/ i = Len(s) \/ s[i + 1] /= "LF" THEN <<<<"?">>>>
             ELSE <<SubSeq(s, 1, i - 1)>> \o WireLines(SubSeq(s, i + 2, Len(s)))

IsNumber(ds) == ds /= <<>> /\ \A k \in DOMAIN ds : ds[k] \in ToSet(DecimalDigits)

NumberOf(ds) ==
    FoldLeft(LAMBDA acc, d : 10 * acc + (CHOOSE k \in 0..9 : DecimalDigits[k + 1] = d),
             0, ds)

\* "class.subject.detail" read back into its three numbers.
EnhancedOf(tok) ==
    LET d1 == SelectInSeq(tok, LAMBDA x : x = ".")
        rest == SubSeq(tok, d1 + 1, Len(tok))
        d2 == SelectInSeq(rest, LAMBDA x : x = ".")
        parts == <<SubSeq(tok, 1, d1 - 1), SubSeq(rest, 1, d2 - 1),
                   SubSeq(rest, d2 + 1, Len(rest))>>
    IN  IF d1 = 0 \/ d2 = 0 \/ \E k \in 1..3 : ~IsNumber(parts[k]) THEN <<>>
        ELSE <<[class |-> NumberOf(parts[1]), subject |-> NumberOf(parts[2]),
                detail |-> NumberOf(parts[3])]>>

\* A wire line carries code c and, after the separator, body b.
LineCode(w) == IF Len(w) >= 3 /\ IsNumber(SubSeq(w, 1, 3)) THEN NumberOf(SubSeq(w, 1, 3))
               ELSE 0
LineBody(w) == SubSeq(w, 5, Len(w))

\* The enhanced code and the text of a body: the token up to the first
\* space, and what follows it.
BodyEnhanced(b) ==
    LET sp == SelectInSeq(b, LAMBDA x : x = " ")
    IN  EnhancedOf(IF sp = 0 THEN b ELSE SubSeq(b, 1, sp - 1))
BodyText(b, withEnh) ==
    IF ~withEnh THEN b
    ELSE LET sp == SelectInSeq(b, LAMBDA x : x = " ")
         IN  IF sp = 0 THEN <<"?">> ELSE SubSeq(b, sp + 1, Len(b))

\* What a client reads from the wire s of a reply: the code of its first
\* line, the enhanced code when withEnh, and the texts, provided every line
\* has the same three-digit code and the separators mark the last line.
ReadReply(s, withEnh) ==
    LET W == WireLines(s)
        n == Len(W)
        code == IF n = 0 THEN 0 ELSE LineCode(W[1])
        wellFormed ==
            /\ n >= 1
            /\ code >= 100 /\ code <= 999
            /\ \A i \in 1..n : LineCode(W[i]) = code
            /\ \A i \in 1..n - 1 : Len(W[i]) >= 4 /\ W[i][4] = "-"
            /\ Len(W[n]) = 3 \/ W[n][4] = " "
        bare == Len(W[n]) = 3 \/ (withEnh /\ SelectInSeq(LineBody(W[n]), LAMBDA x : x = " ") = 0)
        enh == IF withEnh THEN BodyEnhanced(LineBody(W[n])) ELSE <<>>
    IN  IF ~wellFormed \/ (withEnh /\ enh = <<>>)
               \/ (withEnh /\ \E i \in 1..n : BodyEnhanced(LineBody(W[i])) /= enh)
               \/ (bare /\ n > 1)
        THEN [ok |-> FALSE, code |-> 0, enh |-> <<>>, lines |-> <<>>]
        ELSE [ok |-> TRUE, code |-> code, enh |-> enh,
              lines |-> IF bare THEN <<>>
                        ELSE [i \in 1..n |-> BodyText(LineBody(W[i]), withEnh)]]

=============================================================================
