------------------------------- MODULE Parser -------------------------------
(***************************************************************************)
(* The wire formats of the session: the command, path and hostname        *)
(* parsers of src/parser.go (Parser.ParseCommand, ParseMailPath,           *)
(* extractPath, isValidAddress, ParseHeloHostname, isValidHostname), each  *)
(* checked against the grammar of spec section 4.2, and the reply          *)
(* formatter of module Reply, checked by reading its output back, and     *)
(* parseESMTPParams with handleMAIL's early SIZE check, checked against    *)
(* spec 8 property 8, over every input of a small alphabet up to a        *)
(* bounded length.                                                         *)
(*                                                                         *)
(* Strings are sequences of one-character strings.  "a" stands for any     *)
(* letter or digit, "_" for a byte that is neither, " " for white space.   *)
(* In a MAIL/RCPT argument "P" stands for the expected "FROM:" or "TO:"    *)
(* (in any case) and "X" for anything else at that position.  In a       *)
(* command line "R", "F" and "T" stand for a verb that requires an         *)
(* argument (MAIL), forbids one (QUIT) or takes either (NOOP), four bytes  *)
(* each in any case, "u" for any other letter, "CR" and "LF" for \r, \n.  *)
(* After a MAIL path "K" and "k" stand for the keyword SIZE in upper and   *)
(* lower case, "x" for any other letter; digits are themselves.           *)
(***************************************************************************)
EXTENDS Naturals, Sequences, SequencesExt, Reply

CONSTANTS
    Kinds,           \* what to check: "address", "from", "to", "hostname",
                     \* "command", "reply", "size"
    ReplyCodes,      \* reply codes given to the formatter
    EnhancedCodes,   \* enhanced codes: <<>> (nil) or <<[class, subject, detail]>>
    ReplyChars,      \* alphabet of reply text
    MaxReplyLines,   \* bound on the lines of a reply
    MaxReplyTextLen, \* bound on the length of a reply line's text
    AddressChars,    \* alphabet of addresses
    PathChars,       \* alphabet of MAIL/RCPT arguments
    HostChars,       \* alphabet of HELO arguments
    CommandChars,    \* alphabet of command lines
    MaxCommandLen,   \* bound on the symbols of a command line
    MaxCommandLength,\* Parser.MaxCommandLength in bytes (512), scaled down
    MaxAddressLen,
    MaxPathLen,
    MaxHostLen,
    LabelLimit,      \* isValidHostname's 63, scaled down with the inputs
    HostnameLimit,   \* isValidHostname's 255, scaled down with the inputs
    SizeChars,       \* alphabet of the words after a MAIL FROM path
    MaxSizeArgLen,   \* bound on their symbols
    MaxMessageSize,  \* Limits.MaxMessageSize, scaled down with the inputs
    Int64Max         \* the largest int64, scaled down with the inputs

Alnum == {"a"}
DomainChars == Alnum \cup {"-", "."}
\* Results: a parse error, a path, or a hostname.
PathError == [ok |-> FALSE, null |-> FALSE, address |-> <<>>]
Path(null, addr) == [ok |-> TRUE, null |-> null, address |-> addr]
HostError == [ok |-> FALSE, host |-> <<>>]
Host(h) == [ok |-> TRUE, host |-> h]

\* --- helpers over strings -------------------------------------------------

\* strings.Index / strings.LastIndex, 1-based, 0 when absent.
IndexOf(s, c) ==
    IF \E i \in 1..Len(s) : s[i] = c
    THEN CHOOSE i \in 1..Len(s) : s[i] = c /\ \A j \in 1..i - 1 : s[j] /= c
    ELSE 0

LastIndexOf(s, c) ==
    IF \E i \in 1..Len(s) : s[i] = c
    THEN CHOOSE i \in 1..Len(s) : s[i] = c /\ \A j \in i + 1..Len(s) : s[j] /= c
    ELSE 0

Drop(s, n) == SubSeq(s, n + 1, Len(s))

Space == {" ", "CR", "LF"}

\* strings.TrimSpace.
RECURSIVE TrimSpace(_)
TrimSpace(s) ==
    CASE s /= <<>> /\ Head(s) \in Space -> TrimSpace(Tail(s))
      [] s /= <<>> /\ Last(s) \in Space -> TrimSpace(Front(s))
      [] OTHER                          -> s

\* bytes.TrimSuffix.
TrimSuffix(s, t) ==
    IF Len(t) <= Len(s) /\ SubSeq(s, Len(s) - Len(t) + 1, Len(s)) = t
    THEN SubSeq(s, 1, Len(s) - Len(t)) ELSE s

\* len(line) in bytes: a verb symbol is four bytes.
Width(s) == Len(s) + 3 * Len(SelectSeq(s, LAMBDA x : x \in {"R", "F", "T"}))

\* strings.Split(s, sep), which returns <<"">> for an empty s.
RECURSIVE Split(_, _)
Split(s, sep) ==
    LET i == IndexOf(s, sep)
    IN  IF i = 0 THEN <<s>> ELSE <<SubSeq(s, 1, i - 1)>> \o Split(Drop(s, i), sep)

\* --- the code --------------------------------------------------------------

\* isValidAddress: the LAST "@" splits local part and domain.
IsValidAddress(addr) ==
    LET at == LastIndexOf(addr, "@")
        domain == Drop(addr, at)
    IN  /\ addr /= <<>>
        /\ at > 1 /\ at < Len(addr)
        /\ Head(domain) \notin {".", "-"} /\ Last(domain) \notin {".", "-"}
        /\ \A i \in 1..Len(domain) : domain[i] \in DomainChars

\* Variant: the path ends at the last ">".
ExtractPathLastClose(str) ==
    LET s == TrimSpace(str)
        close == LastIndexOf(s, ">")
        inner0 == SubSeq(s, 2, close - 1)
        colon == IndexOf(inner0, ":")
        inner == IF Head(inner0) = "@" /\ colon /= 0 THEN Drop(inner0, colon) ELSE inner0
    IN  CASE s = <<>> \/ Head(s) /= "<" -> PathError
          [] close = 0                   -> PathError
          [] inner0 = <<>>               -> Path(TRUE, <<>>)
          [] ~IsValidAddress(inner)      -> PathError
          [] OTHER                       -> Path(FALSE, inner)

\* extractPath: "<", up to the first ">", null path, source route, address.
ExtractPath(str) ==
    LET s == TrimSpace(str)
        close == IndexOf(s, ">")
        inner0 == SubSeq(s, 2, close - 1)
        colon == IndexOf(inner0, ":")
        inner == IF Head(inner0) = "@" /\ colon /= 0 THEN Drop(inner0, colon) ELSE inner0
    IN  CASE s = <<>> \/ Head(s) /= "<" -> PathError
          [] close = 0                   -> PathError
          [] inner0 = <<>>               -> Path(TRUE, <<>>)
          [] ~IsValidAddress(inner)      -> PathError
          [] OTHER                       -> Path(FALSE, inner)

\* ParseMailPath(arg, prefix): the prefix and colon, then extractPath.
ParseMailPath(arg) ==
    LET a == TrimSpace(arg)
    IN  IF a = <<>> \/ Head(a) /= "P" THEN PathError ELSE ExtractPath(Tail(a))

\* Variant: the label limit checked one past.
IsValidLabelLong(l) ==
    /\ l /= <<>> /\ Len(l) <= LabelLimit + 1
    /\ Head(l) \in Alnum /\ Last(l) \in Alnum
    /\ \A i \in 1..Len(l) : l[i] \in Alnum \cup {"-"}

IsValidLabel(l) ==
    /\ l /= <<>> /\ Len(l) <= LabelLimit
    /\ Head(l) \in Alnum /\ Last(l) \in Alnum
    /\ \A i \in 1..Len(l) : l[i] \in Alnum \cup {"-"}

IsValidHostname(s) ==
    LET labels == Split(s, ".")
    IN  /\ s /= <<>> /\ Len(s) <= HostnameLimit
        /\ \A i \in 1..Len(labels) : IsValidLabel(labels[i])

\* ParseHeloHostname: an address literal is accepted unchecked.
ParseHeloHostname(arg) ==
    LET h == TrimSpace(arg)
    IN  CASE h = <<>>                     -> HostError
          [] Head(h) = "[" /\ Last(h) /= "]" -> HostError
          [] Head(h) = "["                  -> Host(h)
          [] ~IsValidHostname(h)            -> HostError
          [] OTHER                          -> Host(h)

\* ParseCommandVerb: upper-cased and trimmed, one of the known verbs.
ParseCommandVerb(s) ==
    LET v == TrimSpace(s) IN IF Len(v) = 1 /\ v[1] \in {"R", "F", "T"} THEN v[1] ELSE "unknown"

CommandRequiresArgument(v) == v = "R"
CommandForbidsArgument(v) == v = "F"

CmdError == [ok |-> FALSE, verb |-> "unknown", arg |-> <<>>]
Cmd(v, a) == [ok |-> TRUE, verb |-> v, arg |-> a]

\* Variant: the length limit taken as reached at MaxCommandLength.
ParseCommandAtLimit(line) ==
    LET l == TrimSuffix(TrimSuffix(line, <<"CR", "LF">>), <<"LF">>)
        sp == IndexOf(l, " ")
        v == ParseCommandVerb(IF sp = 0 THEN l ELSE SubSeq(l, 1, sp - 1))
        arg == TrimSpace(IF sp = 0 THEN <<>> ELSE Drop(l, sp))
    IN  CASE Width(line) >= MaxCommandLength                 -> CmdError
          [] l = <<>> \/ v = "unknown"                       -> CmdError
          [] CommandRequiresArgument(v) /\ arg = <<>>        -> CmdError
          [] CommandForbidsArgument(v) /\ arg /= <<>>        -> CmdError
          [] OTHER                                           -> Cmd(v, arg)

\* ParseCommand with splitCommand: length limit, line end, the verb up to
\* the first space, the argument rules.
ParseCommand(line) ==
    LET l == TrimSuffix(TrimSuffix(line, <<"CR", "LF">>), <<"LF">>)
        sp == IndexOf(l, " ")
        v == ParseCommandVerb(IF sp = 0 THEN l ELSE SubSeq(l, 1, sp - 1))
        arg == TrimSpace(IF sp = 0 THEN <<>> ELSE Drop(l, sp))
    IN  CASE Width(line) > MaxCommandLength                  -> CmdError
          [] l = <<>> \/ v = "unknown"                       -> CmdError
          [] CommandRequiresArgument(v) /\ arg = <<>>        -> CmdError
          [] CommandForbidsArgument(v) /\ arg /= <<>>        -> CmdError
          [] OTHER                                           -> Cmd(v, arg)

\* strings.Fields: the runs of non-space symbols.
RECURSIVE Fields(_)
Fields(s) ==
    LET t == TrimSpace(s)
        i == IndexOf(t, " ")
    IN  CASE t = <<>> -> <<>>
          [] i = 0    -> <<t>>
          [] OTHER    -> <<SubSeq(t, 1, i - 1)>> \o Fields(Drop(t, i))

\* strings.ToUpper: "k" is the keyword SIZE written in lower case, "K" in
\* upper case.
ToUpper(p) == [i \in DOMAIN p |-> IF p[i] = "k" THEN "K" ELSE p[i]]

\* parseESMTPParams: the words after the first ">", each KEY=VALUE (the key
\* upper-cased, the value after the first "=") or KEY alone (value ""),
\* stored in a map, so that of two equal keys the later one wins.  No ">"
\* or nothing after it gives the nil map.
ParseESMTPParams(arg) ==
    LET close == IndexOf(arg, ">")
        parts == Fields(Drop(arg, close))
        Eq(w) == IndexOf(w, "=")
        Key(w) == ToUpper(IF Eq(w) = 0 THEN w ELSE SubSeq(w, 1, Eq(w) - 1))
        Value(w) == IF Eq(w) = 0 THEN <<>> ELSE Drop(w, Eq(w))
        LastWith(k) == CHOOSE i \in DOMAIN parts :
                           Key(parts[i]) = k
                           /\ \A j \in i + 1..Len(parts) : Key(parts[j]) /= k
    IN  IF close = 0 THEN [k \in {} |-> <<>>]
        ELSE [k \in {Key(parts[i]) : i \in DOMAIN parts} |-> Value(parts[LastWith(k)])]

\* fmt.Sscanf(sizeStr, "%d", &size) into an int64: an optional sign, then
\* the longest run of decimal digits (what follows is not read); no digit,
\* or a number outside int64 (Int64Max scaled down), is an error and leaves
\* size at 0.
ScanInt64(v) ==
    LET neg == v /= <<>> /\ Head(v) = "-"
        u == IF v /= <<>> /\ Head(v) \in {"+", "-"} THEN Tail(v) ELSE v
        Digit(c) == c \in ToSet(DecimalDigits)
        k == IF \A i \in DOMAIN u : Digit(u[i]) THEN Len(u)
             ELSE (CHOOSE i \in DOMAIN u : ~Digit(u[i]) /\ \A j \in 1..i - 1 : Digit(u[j])) - 1
        n == NumberOf(SubSeq(u, 1, k))
    IN  CASE k = 0                                 -> 0
          [] n > Int64Max + (IF neg THEN 1 ELSE 0) -> 0
          [] neg                                   -> -n
          [] OTHER                                 -> n

SizeKey == <<"K">>

\* Variant: the limit taken as reached at MaxMessageSize.
EarlySizeRefusedAtLimit(params) ==
    SizeKey \in DOMAIN params /\ ScanInt64(params[SizeKey]) >= MaxMessageSize

\* handleMAIL's early SIZE check (SIZE enabled, MaxMessageSize > 0): a
\* SIZE parameter whose number exceeds the limit is refused with 552.
EarlySizeRefused(params) ==
    SizeKey \in DOMAIN params /\ ScanInt64(params[SizeKey]) > MaxMessageSize

\* handleMAIL up to the early check: the path must parse (else 501), then
\* the parameters ParseCommand attached to the MAIL command are checked.
MailSizeRefused(arg) ==
    ParseMailPath(arg).ok /\ EarlySizeRefused(ParseESMTPParams(arg))

\* --- the grammar of spec 4.2 ---------------------------------------------

Count(s, c) == Len(SelectSeq(s, LAMBDA x : x = c))

\* "exactly one @ neither leading nor trailing; both sides non-empty;
\* domain characters drawn from [A-Za-z0-9.-]; domain must not begin or
\* end with . or -".
SpecAddress(a) ==
    LET at == IndexOf(a, "@")
        domain == Drop(a, at)
    IN  /\ Count(a, "@") = 1
        /\ at > 1 /\ at < Len(a)
        /\ Head(domain) \notin {".", "-"} /\ Last(domain) \notin {".", "-"}
        /\ \A i \in 1..Len(domain) : domain[i] \in DomainChars

\* parse_mail_path: the prefix, then "<" ... first ">"; an empty path is
\* the null path, valid only for FROM; a leading "@" route up to the first
\* ":" is dropped.  The address rule is the code's, so that this checks
\* the path structure alone (SpecAddress is checked on its own).
SpecMailPath(arg, isFrom) ==
    LET a == TrimSpace(arg)
        r == TrimSpace(Tail(a))
        close == IndexOf(r, ">")
        path == SubSeq(r, 2, close - 1)
        colon == IndexOf(path, ":")
        addr == IF path /= <<>> /\ Head(path) = "@" /\ colon > 0
                THEN Drop(path, colon) ELSE path
    IN  CASE a = <<>> \/ Head(a) /= "P"     -> PathError
          [] r = <<>> \/ Head(r) /= "<" \/ close = 0 -> PathError
          [] path = <<>> /\ isFrom           -> Path(TRUE, <<>>)
          [] path = <<>>                      -> PathError
          [] ~IsValidAddress(addr)            -> PathError
          [] OTHER                            -> Path(FALSE, addr)

\* "an address literal [...] unchanged if properly closed; otherwise a DNS
\* name: total length within the limit, labels of 1..limit characters,
\* alphanumeric or hyphen, starting and ending alphanumeric".
SpecHostname(arg) ==
    LET h == TrimSpace(arg)
        IsDot(i) == i < 1 \/ i > Len(h) \/ h[i] = "."
        segments == {<<i, j>> \in (1..Len(h)) \X (0..Len(h)) :
                        i <= j + 1 /\ IsDot(i - 1) /\ IsDot(j + 1)
                        /\ \A k \in i..j : h[k] /= "."}
        ok == /\ h /= <<>> /\ Len(h) <= HostnameLimit
              /\ h[1] /= "." /\ h[Len(h)] /= "."
              /\ \A sg \in segments :
                    /\ sg[1] <= sg[2] /\ sg[2] - sg[1] < LabelLimit
                    /\ h[sg[1]] \in Alnum /\ h[sg[2]] \in Alnum
                    /\ \A k \in sg[1]..sg[2] : h[k] \in Alnum \cup {"-"}
    IN  CASE h = <<>>                         -> HostError
          [] Head(h) = "["                    -> IF Last(h) = "]" THEN Host(h) ELSE HostError
          [] ok                               -> Host(h)
          [] OTHER                            -> HostError

\* parse_command, steps 1-4: the byte limit; ONE trailing CR LF or bare
\* LF stripped; split at the first space; the verb normalised (read as
\* ParseCommandVerb does: trimmed and upper-cased) and recognised; the rest
\* trimmed; HELO/EHLO/MAIL/RCPT need an argument, DATA/RSET/QUIT/STARTTLS
\* take none.  Which error is reported is not compared (all are 500).
SpecCommand(line) ==
    LET n == Len(line)
        l == CASE n >= 2 /\ line[n - 1] = "CR" /\ line[n] = "LF" -> SubSeq(line, 1, n - 2)
               [] n >= 1 /\ line[n] = "LF"                      -> SubSeq(line, 1, n - 1)
               [] OTHER                                         -> line
        sp == IndexOf(l, " ")
        verb == TrimSpace(IF sp = 0 THEN l ELSE SubSeq(l, 1, sp - 1))
        rest == TrimSpace(IF sp = 0 THEN <<>> ELSE SubSeq(l, sp + 1, Len(l)))
        known == Len(verb) = 1 /\ verb[1] \in {"R", "F", "T"}
    IN  IF /\ Width(line) <= MaxCommandLength
           /\ known
           /\ verb[1] = "R" => rest /= <<>>
           /\ verb[1] = "F" => rest = <<>>
        THEN Cmd(verb[1], rest) ELSE CmdError

\* Spec 4.2 step 5 and section 8 property 8: the words after the first ">"
\* are KEY=VALUE parameters, keys case-insensitive; the SIZE parameter is
\* the last word whose key is SIZE, and a MAIL whose SIZE=N has N above
\* MaxMessageSize is refused with 552.  The SIZE value, or "none".
SpecSizeValue(arg) ==
    LET close == IndexOf(arg, ">")
        r == Drop(arg, close)
        IsSp(i) == i < 1 \/ i > Len(r) \/ r[i] \in Space
        words == {w \in (1..Len(r)) \X (1..Len(r)) :
                     w[1] <= w[2] /\ IsSp(w[1] - 1) /\ IsSp(w[2] + 1)
                     /\ \A k \in w[1]..w[2] : ~IsSp(k)}
        IsSize(w) == r[w[1]] \in {"K", "k"} /\ (w[1] = w[2] \/ r[w[1] + 1] = "=")
        sizes == {w \in words : IsSize(w)}
        last == CHOOSE w \in sizes : \A x \in sizes : x[1] <= w[1]
    IN  IF close = 0 \/ sizes = {} THEN "none" ELSE SubSeq(r, last[1] + 2, last[2])

\* --- one parse of one input -------------------------------------------------

\* Every argument string of every kind checked, up to the bounds.
Inputs ==
    [kind : Kinds \cap {"address"}, s : SeqOf(AddressChars, MaxAddressLen)]
    \cup [kind : Kinds \cap {"command"}, s : SeqOf(CommandChars, MaxCommandLen)]
    \cup [kind : Kinds \cap {"hostname"}, s : SeqOf(HostChars, MaxHostLen)]
    \cup [kind : Kinds \cap {"from", "to"}, s : SeqOf(PathChars, MaxPathLen)]
    \cup [kind : Kinds \cap {"size"},
          s : {<<"P", "<", ">">> \o t : t \in SeqOf(SizeChars, MaxSizeArgLen)}]
    \cup [kind : Kinds \cap {"reply"},
          s : [code : ReplyCodes, enh : EnhancedCodes,
               lines : SeqOf(SeqOf(ReplyChars, MaxReplyTextLen), MaxReplyLines)]]

VARIABLES
    input,   \* the argument string, and which parser it is given to
    done,    \* the parser has returned
    result   \* what it returned

Init == input \in Inputs /\ done = FALSE /\ result = FALSE

Parse ==
    /\ ~done
    /\ done' = TRUE
    /\ result' = CASE input.kind = "address"  -> IsValidAddress(input.s)
                   [] input.kind = "command"  -> ParseCommand(input.s)
                   [] input.kind = "hostname" -> ParseHeloHostname(input.s)
                   [] input.kind = "reply"    -> ResponseString(input.s)
                   [] input.kind = "size"     -> MailSizeRefused(input.s)
                   [] OTHER                   -> ParseMailPath(input.s)
    /\ UNCHANGED input

Spec == Init /\ [][Parse]_<<input, done, result>>

-----------------------------------------------------------------------------

\* isValidAddress accepts exactly the addresses spec 4.2 (path rule 5)
\* allows, in particular only those with exactly one "@".
AddressRule ==
    done /\ input.kind = "address" => result = SpecAddress(input.s)

\* ParseMailPath gives for MAIL FROM / RCPT TO exactly the path or error
\* spec 4.2's path rules 1-4 give, the null path only for FROM.
MailPathRule ==
    done /\ input.kind \in {"from", "to"}
        => result = SpecMailPath(input.s, input.kind = "from")

\* ParseHeloHostname accepts exactly spec 4.2's HELO arguments.
HostnameRule ==
    done /\ input.kind = "hostname" => result = SpecHostname(input.s)

\* ParseCommand accepts exactly the command lines of spec 4.2, with the
\* same verb and argument.
CommandRule ==
    done /\ input.kind = "command" => result = SpecCommand(input.s)

\* Response.String writes a reply a client reads back whole (spec 4.1 and
\* RFC 5321 4.2.1): the same code on every line, "-" on every line but the
\* last, the enhanced code before the text of every line, and exactly the
\* response's lines, for the empty response too.
ReplyRoundTrip ==
    done /\ input.kind = "reply" =>
        ReadReply(result, input.s.enh /= <<>>)
            = [ok |-> TRUE, code |-> input.s.code, enh |-> input.s.enh,
               lines |-> input.s.lines]

\* handleMAIL with the parameters parseESMTPParams attaches (spec 8,
\* property 8): a MAIL FROM without a SIZE parameter is never refused for
\* its size, and one whose last SIZE=N, keyword in any case, has N a
\* decimal number within int64 is refused with 552 exactly when N exceeds
\* MaxMessageSize, whatever other parameters and repeated SIZE words it
\* carries.
SizeRule ==
    done /\ input.kind = "size" =>
        LET v == SpecSizeValue(input.s)
        IN  /\ v = "none" => ~result
            /\ v /= "none" /\ IsNumber(v) /\ NumberOf(v) <= Int64Max
                => (result <=> NumberOf(v) > MaxMessageSize)

=============================================================================
