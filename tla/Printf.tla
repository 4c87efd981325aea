------------------------------- MODULE Printf -------------------------------
(***************************************************************************)
(* vfprintf (lib/vfprintf.c): printf_core runs over the format twice, first*)
(* without a file, to find the types of the arguments that are named by    *)
(* their position, then to print.  A format is a sequence of texts and     *)
(* directives; a directive is split where printf_core splits it (position, *)
(* flags, width, precision, length modifiers and conversion).              *)
(*                                                                         *)
(* An argument is what one slot of the va_list holds: the bits of an       *)
(* integer, or of a pointer with the text it leads to (for %c, the text is *)
(* the character).  Integers keep their widths, which the instance makes   *)
(* small.  Formats do not mix arguments named by position with others, and *)
(* no argument used as a width is the least int.                           *)
(***************************************************************************)
EXTENDS Integers, Sequences

CONSTANTS
    CHAR_W, SHORT_W, INT_W, LONG_W, \* bits of the C types; long long, size_t,
                                    \* intmax_t and pointers are as wide as long
    Calls           \* formats, as C programs may write them, with their va_lists

ASSUME PrintfAssumption ==
    /\ {CHAR_W, SHORT_W, INT_W, LONG_W} \subseteq Nat \ {0}
    /\ CHAR_W < SHORT_W /\ SHORT_W < INT_W /\ INT_W < LONG_W

NL_ARGMAX == 9
INT_MAX == 2 ^ (INT_W - 1) - 1
Positions == 1 .. NL_ARGMAX

VARIABLES
    fmt,        \* what is left of the format
    format, args,   \* what vfprintf was called with (they do not change)
    ap,         \* slots of the va_list taken so far
    pass,       \* "scan" (without a file), "pop", "print" or "done"
    nl_type, nl_arg,
    l10n,       \* an argument was named by its position
    cnt,        \* characters counted so far
    out,        \* characters written
    counts,     \* what %n has stored
    ret

vars == <<fmt, format, args, ap, pass, nl_type, nl_arg, l10n, cnt, out, counts, ret>>

NoArg == [bits |-> 0, text |-> <<>>]

Call(c) ==
    /\ format = c.format /\ args = c.args
    /\ fmt = format /\ ap = 0 /\ pass = "scan"
    /\ nl_type = [i \in Positions |-> "none"] /\ nl_arg = [i \in Positions |-> NoArg]
    /\ l10n = FALSE
    /\ cnt = 0 /\ out = <<>> /\ counts = <<>> /\ ret = 0

Init == \E c \in Calls : Call(c)

-----------------------------------------------------------------------------
(* The tables: conversions and their argument types.                       *)

Signed == {"d", "i"}
Unsigned == {"o", "u", "x", "X"}

\* states[][]: one row for each state, as the type it gives to signed and to
\* unsigned conversions, and its other entries.
Row(signed, unsigned, more) ==
    [c \in Signed \cup Unsigned \cup DOMAIN more |->
        IF c \in Signed THEN signed ELSE IF c \in Unsigned THEN unsigned ELSE more[c]]

states ==
    [BARE  |-> Row("INT", "UINT",
                   [c |-> "INT", s |-> "PTR", p |-> "UIPTR", n |-> "PTR", l |-> "LPRE",
                    h |-> "HPRE", z |-> "ZTPRE", j |-> "JPRE", t |-> "ZTPRE"]),
     LPRE  |-> Row("LONG", "ULONG", [c |-> "UINT", s |-> "PTR", n |-> "PTR", l |-> "LLPRE"]),
     LLPRE |-> Row("LLONG", "ULLONG", [n |-> "PTR"]),
     HPRE  |-> Row("SHORT", "USHORT", [n |-> "PTR", h |-> "HHPRE"]),
     HHPRE |-> Row("CHAR", "UCHAR", [n |-> "PTR"]),
     ZTPRE |-> Row("PDIFF", "SIZET", [n |-> "PTR"]),
     JPRE  |-> Row("IMAX", "UMAX", [n |-> "PTR"])]

\* The state machine over the letters of a directive: the state before the last
\* letter (ps) and the type it ends in; "none" when a letter has no entry, or
\* the letters end before a type is found.
Machine(letters) ==
    LET at[k \in 0 .. Len(letters)] ==
          IF k = 0 THEN "BARE"
          ELSE IF at[k - 1] \in DOMAIN states /\ letters[k] \in DOMAIN states[at[k - 1]]
               THEN states[at[k - 1]][letters[k]] ELSE "none"
        st == at[Len(letters)]
    IN  [ps |-> IF letters = <<>> THEN "none" ELSE at[Len(letters) - 1],
         st |-> IF st \in DOMAIN states THEN "none" ELSE st]

\* Fault: char and short are taken as the int that was passed.
WidthAsPassed(type) ==
    IF type \in {"INT", "UINT", "SHORT", "USHORT", "CHAR", "UCHAR"} THEN INT_W ELSE LONG_W

\* Bits that pop_arg keeps of the slot.
Width(type) ==
    CASE type \in {"INT", "UINT"} -> INT_W
      [] type \in {"SHORT", "USHORT"} -> SHORT_W
      [] type \in {"CHAR", "UCHAR"} -> CHAR_W
      [] OTHER -> LONG_W

SignedTypes == {"INT", "LONG", "SHORT", "CHAR", "LLONG", "IMAX", "PDIFF"}

\* pop_arg: signed types are extended to uintmax_t.
pop_arg(slot, type) ==
    LET w == Width(type)
        low == slot.bits % (2 ^ w)
    IN  [slot EXCEPT !.bits =
           IF type \in SignedTypes /\ low >= 2 ^ (w - 1) THEN low - 2 ^ w + 2 ^ LONG_W
           ELSE low]

\* An int taken from an argument: a width or a precision.
AsInt(bits) ==
    LET low == bits % (2 ^ INT_W) IN IF low > INT_MAX THEN low - 2 ^ INT_W ELSE low

-----------------------------------------------------------------------------
(* One directive: d.pos (0 when it has none), d.flags, d.width, d.prec and *)
(* d.letters.  A width or precision is "none", a number ("num", n), the    *)
(* next argument ("star") or the argument at position n ("nl").            *)

d == Head(fmt)
IsText == d.kind = "text"
Star(f) == f.kind = "star"

\* getint: negative when the number does not fit.
getint(n) == IF n > INT_MAX THEN -1 ELSE n

\* Slots that the stars of d take before its own argument.
StarSlots == (IF Star(d.width) THEN 1 ELSE 0) + (IF Star(d.prec) THEN 1 ELSE 0)

Value(f, k) ==
    CASE f.kind = "num" -> getint(f.n)
      [] f.kind = "star" -> AsInt(args[k].bits)
      [] f.kind = "nl" -> AsInt(nl_arg[f.n].bits)
      [] OTHER -> 0

GivenWidth == Value(d.width, ap + 1)

\* A negative width from an argument is a minus flag and a width.
Flags == d.flags \cup (IF d.width.kind # "num" /\ GivenWidth < 0 THEN {"-"} ELSE {})
FieldWidth == IF GivenWidth < 0 THEN -GivenWidth ELSE GivenWidth

HasPrec == d.prec.kind # "none"
Precision == IF HasPrec THEN Value(d.prec, ap + StarSlots) ELSE -1

\* xp: a precision was given, and for a star it is not negative.
xp == HasPrec /\ (d.prec.kind = "num" \/ Precision >= 0)

t == d.letters[Len(d.letters)]
Type == Machine(d.letters).st

\* Directives that end in inval or overflow in either pass.
Malformed ==
    \/ Type = "none"
    \/ (l10n \/ d.pos > 0) /\ StarSlots > 0
    \/ d.width.kind = "num" /\ getint(d.width.n) < 0

\* The argument of d.
arg == IF d.pos > 0 THEN nl_arg[d.pos] ELSE pop_arg(args[ap + StarSlots + 1], Type)

Bigger(a, b) == IF a > b THEN a ELSE b

\* pad: as many characters as w is wider than l.
pad(c, w, l) == [i \in 1 .. w - l |-> c]

xdigits == <<"0", "1", "2", "3", "4", "5", "6", "7", "8", "9", "A", "B", "C", "D", "E", "F">>
lower == [c \in {"A", "B", "C", "D", "E", "F"} |->
             CASE c = "A" -> "a" [] c = "B" -> "b" [] c = "C" -> "c"
               [] c = "D" -> "d" [] c = "E" -> "e" [] c = "F" -> "f"]

\* fmt_x, fmt_o and fmt_u: the digits of x from the last one to the left, none
\* for 0.
Digits(x, base, low) ==
    LET digit(k) == xdigits[k + 1]
        text[y \in 0 .. x] ==
          IF y = 0 THEN <<>>
          ELSE Append(text[y \div base],
                      LET c == digit(y % base) IN IF low /\ c \in DOMAIN lower THEN lower[c] ELSE c)
    IN  text[x]

Negative == t \in Signed /\ arg.bits >= 2 ^ (LONG_W - 1)
Numeric == t \in Signed \cup Unsigned \cup {"p"}

\* The string of %s, and how much of it strnlen sees.
String == IF arg.bits = 0 THEN <<"(", "n", "u", "l", "l", ")">> ELSE arg.text
Shortened == LET most == IF Precision < 0 THEN INT_MAX ELSE Precision
             IN  IF Len(String) <= most THEN String ELSE SubSeq(String, 1, most)

\* What the switch on t leaves between a and z.
Converted ==
    CASE t \in {"x", "p"} -> Digits(arg.bits, 16, TRUE)
      [] t = "X" -> Digits(arg.bits, 16, FALSE)
      [] t = "o" -> Digits(arg.bits, 8, FALSE)
      [] t \in Signed -> Digits(IF Negative THEN 2 ^ LONG_W - arg.bits ELSE arg.bits, 10, FALSE)
      [] t = "u" -> Digits(arg.bits, 10, FALSE)
      [] t = "c" -> arg.text
      [] t = "s" -> Shortened

Prefix ==
    CASE t \in {"x", "X"} /\ arg.bits # 0 /\ "#" \in Flags -> <<"0", t>>
      [] t = "p" /\ arg.bits # 0 -> <<"0", "x">>
      [] Negative -> <<"-">>
      [] t \in Signed /\ ~Negative /\ "+" \in Flags -> <<"+">>
      [] t \in Signed /\ ~Negative /\ "+" \notin Flags /\ " " \in Flags -> <<" ">>
      [] OTHER -> <<>>

\* The precision of a number as the switch has changed it: %p takes the larger
\* of (size_t) p, which is the largest of all when none was given, and the
\* digits of a pointer; %#o one more than the digits.
Asked ==
    CASE t = "p" /\ Precision >= 0 -> Bigger(Precision, LONG_W \div 4)
      [] t = "o" /\ "#" \in Flags -> Bigger(Precision, Len(Converted) + 1)
      [] OTHER -> Precision

\* p at the end of the switch.
Least ==
    IF ~Numeric THEN Len(Converted)
    ELSE IF arg.bits = 0 /\ Asked = 0 THEN 0
    ELSE Bigger(Asked, Len(Converted) + (IF arg.bits = 0 THEN 1 ELSE 0))

ZeroPad == "0" \in Flags /\ "-" \notin Flags /\ Numeric /\ ~xp
FullWidth == Bigger(FieldWidth, Len(Prefix) + Least)

\* The checks against INT_MAX.
Overflow ==
    \/ Numeric /\ xp /\ Asked < 0
    \/ t = "s" /\ Precision < 0 /\ Shortened # String
    \/ Least > INT_MAX - Len(Prefix)
    \/ FullWidth > INT_MAX - cnt

\* What is written for d: exactly one of the three paddings to the width.
Written ==
    LET fill(c) == pad(c, FullWidth, Len(Prefix) + Least)
    IN  (IF "-" \in Flags \/ ZeroPad THEN <<>> ELSE fill(" "))
        \o Prefix \o (IF ZeroPad THEN fill("0") ELSE <<>>)
        \o pad("0", Least, Len(Converted)) \o Converted
        \o (IF "-" \in Flags THEN fill(" ") ELSE <<>>)

-----------------------------------------------------------------------------
(* The two runs of printf_core.                                            *)

Running(p) == pass = p
Looking == Running("scan") \/ Running("print")

Fail ==
    /\ pass' = "done" /\ ret' = -1
    /\ UNCHANGED <<fmt, ap, nl_type, nl_arg, l10n, cnt, out, counts>>

\* Text, with %% as one character.
Text ==
    /\ Looking /\ fmt # <<>> /\ IsText
    /\ IF Len(d.chars) > INT_MAX - cnt THEN Fail
       ELSE /\ fmt' = Tail(fmt) /\ cnt' = cnt + Len(d.chars)
            /\ out' = IF Running("print") THEN out \o d.chars ELSE out
            /\ UNCHANGED <<ap, pass, nl_type, nl_arg, l10n, counts, ret>>

Directive(p) == Running(p) /\ fmt # <<>> /\ ~IsText

Refuse ==
    /\ Looking /\ fmt # <<>> /\ ~IsText
    /\ Malformed /\ Fail

\* printf_core starts over, with the file.
StartPrinting ==
    /\ pass' = "print" /\ fmt' = format /\ l10n' = FALSE /\ cnt' = 0
    /\ UNCHANGED <<ap, nl_type, nl_arg, out, counts, ret>>

Records(f) == IF f.kind = "nl" THEN {<<f.n, "INT">>} ELSE {}

\* Without a file: note the types of the arguments that d names, and return 0 at
\* the first one that has no position.
Note ==
    /\ Directive("scan") /\ ~Malformed
    /\ IF d.pos = 0 THEN StartPrinting
       ELSE /\ nl_type' = [i \in Positions |->
                  IF i = d.pos THEN Type
                  ELSE IF <<i, "INT">> \in Records(d.width) \cup Records(d.prec) THEN "INT"
                  ELSE nl_type[i]]
            /\ fmt' = Tail(fmt) /\ l10n' = TRUE
            /\ UNCHANGED <<ap, pass, nl_arg, cnt, out, counts, ret>>

\* At the end of the format the named arguments are taken in order; a gap among
\* them is an error.
PopNamed ==
    /\ Running("scan") /\ fmt = <<>>
    /\ LET first == {i \in Positions : \A j \in 1 .. i : nl_type[j] # "none"}
           gap == \E i \in Positions \ first : nl_type[i] # "none"
       IN  IF l10n /\ gap THEN Fail
           ELSE /\ nl_arg' = [i \in Positions |->
                                IF l10n /\ i \in first THEN pop_arg(args[i], nl_type[i]) ELSE nl_arg[i]]
                /\ pass' = "print" /\ fmt' = format /\ l10n' = FALSE /\ cnt' = 0
                /\ UNCHANGED <<ap, nl_type, out, counts, ret>>

\* Slots that d has taken when it is done.
Taken == ap + StarSlots + (IF d.pos = 0 THEN 1 ELSE 0)

CountType(ps) == CASE ps = "BARE" -> "INT" [] ps = "HPRE" -> "USHORT" [] ps = "HHPRE" -> "UCHAR"
                   [] OTHER -> "LONG"

\* %n stores the count through its argument.
Count ==
    /\ Directive("print") /\ ~Malformed /\ t = "n"
    /\ counts' = Append(counts, cnt % (2 ^ Width(CountType(Machine(d.letters).ps))))
    /\ fmt' = Tail(fmt) /\ ap' = Taken /\ l10n' = (l10n \/ d.pos > 0)
    /\ UNCHANGED <<pass, nl_type, nl_arg, cnt, out, ret>>

Convert ==
    /\ Directive("print") /\ ~Malformed /\ t # "n"
    /\ IF Overflow THEN Fail
       ELSE /\ out' = out \o Written /\ cnt' = cnt + FullWidth
            /\ fmt' = Tail(fmt) /\ ap' = Taken /\ l10n' = (l10n \/ d.pos > 0)
            /\ UNCHANGED <<pass, nl_type, nl_arg, counts, ret>>

Return ==
    /\ Running("print") /\ fmt = <<>>
    /\ pass' = "done" /\ ret' = cnt
    /\ UNCHANGED <<fmt, ap, nl_type, nl_arg, l10n, cnt, out, counts>>

Next == (Text \/ Refuse \/ Note \/ PopNamed \/ Count \/ Convert \/ Return)
        /\ UNCHANGED <<format, args>>

-----------------------------------------------------------------------------
(* What the C standard asks of each directive, over the integers.          *)

Asterisks(e) == Len(SelectSeq(<<e.width, e.prec>>, Star))

\* Slot of the argument of the i-th item: the ones its position names, or the
\* first that the items before it and its own stars leave.
Uses(e) == IF e.kind = "text" THEN 0 ELSE Asterisks(e) + (IF e.pos = 0 THEN 1 ELSE 0)
Before(i) == LET n[k \in 0 .. i - 1] == IF k = 0 THEN 0 ELSE n[k - 1] + Uses(format[k]) IN n[i - 1]
SlotOf(i) == IF format[i].pos > 0 THEN format[i].pos ELSE Before(i) + Uses(format[i])

IntegerOf(bits, w, signed) ==
    CHOOSE v \in IF signed THEN -(2 ^ (w - 1)) .. 2 ^ (w - 1) - 1 ELSE 0 .. 2 ^ w - 1 :
        (v - bits) % (2 ^ w) = 0

BitsOf(letters) ==
    CASE letters[1] = "h" -> IF letters[2] = "h" THEN CHAR_W ELSE SHORT_W
      [] letters[1] \in {"l", "z", "j", "t", "p"} -> LONG_W
      [] OTHER -> INT_W

\* The value of a width or precision f of the i-th item, the k-th of its stars.
Asks(f, i, k) ==
    CASE f.kind = "num" -> f.n
      [] f.kind = "none" -> -1
      [] OTHER -> IntegerOf(args[IF f.kind = "nl" THEN f.n ELSE Before(i) + k].bits, INT_W, TRUE)

Numeral(n, base, upper) ==
    LET long == CHOOSE k \in 0 .. LONG_W : base ^ k > n /\ (k > 0 => base ^ (k - 1) <= n)
        of(c) == IF upper \/ c \notin DOMAIN lower THEN c ELSE lower[c]
    IN  [i \in 1 .. long |-> of(xdigits[((n \div base ^ (long - i)) % base) + 1])]

Rendered(i) ==
    LET e == format[i]
        c == e.letters[Len(e.letters)]
        given == IF e.width.kind = "none" THEN 0 ELSE Asks(e.width, i, 1)
        left == "-" \in e.flags \/ given < 0
        width == IF given < 0 THEN -given ELSE given
        prec == Asks(e.prec, i, Asterisks(e))
        slot == args[SlotOf(i)]
        v == IntegerOf(slot.bits, BitsOf(e.letters), c \in Signed)
        size == IF v < 0 THEN -v ELSE v
        least == IF prec < 0 THEN 1 ELSE prec
        plain == Numeral(size, CASE c = "o" -> 8 [] c \in {"x", "X", "p"} -> 16 [] OTHER -> 10, c = "X")
        digits == pad("0", least, Len(plain)) \o plain
        octal == IF c = "o" /\ "#" \in e.flags /\ (digits = <<>> \/ digits[1] # "0")
                 THEN <<"0">> \o digits ELSE digits
        sign == CASE c \in Signed /\ v < 0 -> <<"-">>
                  [] c \in Signed /\ v >= 0 /\ "+" \in e.flags -> <<"+">>
                  [] c \in Signed /\ v >= 0 /\ "+" \notin e.flags /\ " " \in e.flags -> <<" ">>
                  [] c = "p" \/ (c = "x" /\ "#" \in e.flags) -> IF v = 0 THEN <<>> ELSE <<"0", "x">>
                  [] c = "X" /\ "#" \in e.flags -> IF v = 0 THEN <<>> ELSE <<"0", "X">>
                  [] OTHER -> <<>>
        null == <<"(", "n", "u", "l", "l", ")">>
        chars == IF c = "s" /\ slot.bits = 0 THEN null ELSE slot.text
        text == IF c = "s" /\ 0 <= prec /\ prec < Len(chars) THEN SubSeq(chars, 1, prec) ELSE chars
    IN  CASE c = "n" -> <<>>
          [] c \in {"c", "s"} -> IF left THEN text \o pad(" ", width, Len(text))
                                 ELSE pad(" ", width, Len(text)) \o text
          [] OTHER -> LET room == Len(sign) + Len(octal) IN
                      IF left THEN sign \o octal \o pad(" ", width, room)
                      ELSE IF "0" \in e.flags /\ prec < 0
                      THEN sign \o pad("0", width, room) \o octal
                      ELSE pad(" ", width, room) \o sign \o octal

\* The characters of the first n items.
Expected(n) ==
    LET upto[k \in 0 .. n] ==
          IF k = 0 THEN <<>>
          ELSE upto[k - 1] \o (IF format[k].kind = "text" THEN format[k].chars ELSE Rendered(k))
    IN  upto[n]

Conversions ==
    {<<c>> : c \in {"c", "s", "p"}}
    \cup {m \o <<c>> : m \in {<<>>, <<"h">>, <<"h", "h">>, <<"l">>, <<"l", "l">>, <<"z">>, <<"j">>, <<"t">>},
                       c \in Signed \cup Unsigned \cup {"n"}}

Items == {i \in 1 .. Len(format) : format[i].kind # "text"}
Named == UNION {{format[i].pos} \cup {f.n : f \in {g \in {format[i].width, format[i].prec} : g.kind = "nl"}}
                  : i \in {j \in Items : format[j].pos > 0}}

\* Formats to refuse: a conversion that does not exist, a gap in the positions,
\* more characters than an int counts.
Refused ==
    \/ \E i \in Items : format[i].letters \notin Conversions
    \/ \E n \in Named : ~(1 .. n \subseteq Named)
    \/ Len(Expected(Len(format))) > INT_MAX

ExpectedCounts ==
    LET of(i) == IF i \notin Items \/ format[i].letters[Len(format[i].letters)] # "n" THEN <<>>
                 ELSE <<Len(Expected(i)) % (2 ^ BitsOf(format[i].letters))>>
        upto[k \in 0 .. Len(format)] == IF k = 0 THEN <<>> ELSE upto[k - 1] \o of(k)
    IN  upto[Len(format)]

\* What vfprintf writes, returns and stores through %n is what the C standard
\* asks of the format and its arguments, whatever their widths, flags and
\* positions; a format it cannot print is answered with -1 (printf_core).
PrintsWhatCSays ==
    pass = "done" =>
        IF Refused THEN ret = -1
        ELSE out = Expected(Len(format)) /\ ret = Len(out) /\ counts = ExpectedCounts
=============================================================================
