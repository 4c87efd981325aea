------------------------------- MODULE Scanf -------------------------------
(***************************************************************************)
(* vfscanf (lib/vfscanf.c): scanf_core reads its file one character at a   *)
(* time, echoes what it reads, and knows %d, %c and %s.  The input that is *)
(* left stays in the file for the next call.  An item of the format is     *)
(* white space, a directive, or another character.                         *)
(***************************************************************************)
EXTENDS Integers, Sequences

CONSTANTS
    BITS,           \* of an int
    Directives,     \* formats
    Inputs          \* what is typed; the end of an input is the end of the file

VARIABLES
    rest,       \* format left (fmt)
    typed, asked,   \* the input and the format of the call (they do not change)
    input,      \* input left
    num, sign, flag, word,  \* locals of a directive
    stored,     \* what the arguments have been given, in order
    echo,       \* what stdout has shown
    running, result \* the call has not returned; what it returned

svars == <<rest, typed, asked, input, num, sign, flag, word, stored, echo, running, result>>

Start(f, s) ==
    /\ asked = f /\ typed = s
    /\ rest = asked /\ input = typed
    /\ num = 0 /\ sign = 1 /\ flag = FALSE /\ word = <<>>
    /\ stored = <<>> /\ echo = <<>> /\ running = TRUE /\ result = 0

Begin == \E f \in Directives, s \in Inputs : Start(f, s)

digits == <<"0", "1", "2", "3", "4", "5", "6", "7", "8", "9">>
IsDigit(c) == \E i \in 1 .. 10 : digits[i] = c
DigitOf(c) == (CHOOSE i \in 1 .. 10 : digits[i] = c) - 1

\* Newline, return, space, backspace, delete and the null character.
Ends == {"nl", "cr", " ", "bs", "del", "nul"}

\* An int keeps BITS bits.
ToInt(n) == ((n + 2 ^ (BITS - 1)) % (2 ^ BITS)) - 2 ^ (BITS - 1)

On(c) == running /\ rest # <<>> /\ Head(rest) = c
GiveUp(shown) ==
    /\ running' = FALSE /\ result' = -1 /\ echo' = echo \o shown
    /\ UNCHANGED <<rest, num, sign, flag, word, stored>>

\* Fault: the number of one directive is left to the next.
DoneKeepingNumber(value) ==
    /\ stored' = Append(stored, value) /\ rest' = Tail(rest)
    /\ sign' = 1 /\ flag' = FALSE /\ word' = <<>> /\ UNCHANGED num

\* The directive is done: value is stored and the locals of the next one start
\* from their initial values.
Done(value) ==
    /\ stored' = Append(stored, value) /\ rest' = Tail(rest)
    /\ num' = 0 /\ sign' = 1 /\ flag' = FALSE /\ word' = <<>>

\* in returns nothing more.
AtEnd ==
    /\ \E c \in {"d", "c", "s"} : On(c)
    /\ input = <<>>
    /\ GiveUp(<<>>) /\ UNCHANGED input

\* The key that in returns, if there is one.
Key == IF input = <<>> THEN {} ELSE {Head(input)}
Get(c) == input' = Tail(input)
Echoed(c) == echo' = Append(echo, c)

\* A sign is taken before any digit but 0.
First == num = 0 /\ ~flag

Number ==
    /\ On("d")
    /\ \E c \in Key :
        /\ Get(c)
        /\ \/ /\ IsDigit(c)
              /\ num' = ToInt(num * 10 + DigitOf(c)) /\ Echoed(c)
              /\ UNCHANGED <<rest, sign, flag, word, stored, running, result>>
           \/ /\ c \in {"+", "-"} /\ First
              /\ flag' = TRUE /\ sign' = (IF c = "-" THEN -1 ELSE sign) /\ Echoed(c)
              /\ UNCHANGED <<rest, num, word, stored, running, result>>
           \/ /\ c \in Ends
              /\ Done(ToInt(num * sign)) /\ Echoed(c) /\ UNCHANGED <<running, result>>
           \/ /\ ~IsDigit(c) /\ c \notin Ends /\ ~(c \in {"+", "-"} /\ First)
              /\ GiveUp(<<c, c>>)

Character ==
    /\ On("c")
    /\ \E c \in Key :
        Get(c) /\ Done(c) /\ Echoed(c) /\ UNCHANGED <<running, result>>

Word ==
    /\ On("s")
    /\ \E c \in Key :
        /\ Get(c) /\ Echoed(c) /\ UNCHANGED <<running, result>>
        /\ IF c \in Ends THEN Done(word)
           ELSE word' = Append(word, c) /\ UNCHANGED <<rest, num, sign, flag, stored>>

\* White space of the format is skipped; a directive must follow it.
Skip ==
    /\ On(" ")
    /\ IF Len(rest) > 1 THEN rest' = Tail(rest) /\ UNCHANGED <<num, sign, flag, word, stored, echo, running, result>>
       ELSE GiveUp(<<>>)
    /\ UNCHANGED input

WrongFormat ==
    /\ running /\ rest # <<>> /\ Head(rest) \notin {"d", "c", "s", " "}
    /\ GiveUp(<<>>) /\ UNCHANGED input

Finish ==
    /\ running /\ rest = <<>>
    /\ running' = FALSE /\ result' = Len(stored)
    /\ UNCHANGED <<rest, input, num, sign, flag, word, stored, echo>>

Step == (AtEnd \/ Number \/ Character \/ Word \/ Skip \/ WrongFormat \/ Finish)
        /\ UNCHANGED <<typed, asked>>

-----------------------------------------------------------------------------
(* What C reads (C11, 7.21.6.2) of white space, %d, %s and %c.              *)

White == {"nl", "cr", " "}

\* The length of the longest prefix of s whose keys are all in S.
Lead(s, S) == CHOOSE n \in 0 .. Len(s) : /\ \A i \in 1 .. n : s[i] \in S
                                         /\ n < Len(s) => s[n + 1] \notin S
From(s, n) == SubSeq(s, n + 1, Len(s))

Integer(s) ==
    LET signed == s[1] \in {"+", "-"}
        body == IF signed THEN Tail(s) ELSE s
        value[k \in 0 .. Len(body)] == IF k = 0 THEN 0 ELSE 10 * value[k - 1] + DigitOf(body[k])
    IN  IF s[1] = "-" THEN -value[Len(body)] ELSE value[Len(body)]

\* The length of the text that a directive takes from s, 0 when it takes none:
\* a sign or none and digits, a word, a key.
Extent(item, s) ==
    LET signs == IF s # <<>> /\ s[1] \in {"+", "-"} THEN 1 ELSE 0
        number == Lead(From(s, signs), {digits[i] : i \in 1 .. 10})
    IN  CASE item = "d" -> IF number = 0 THEN 0 ELSE signs + number
          [] item = "s" -> Lead(s, {s[i] : i \in 1 .. Len(s)} \ White)
          [] item = "c" -> IF s = <<>> THEN 0 ELSE 1
          [] OTHER -> 0

\* What C makes of input s with format f, skipped white keys of it already
\* passed over: a set of at most one record of the values, the white keys
\* skipped before each, and the input that is left, where a key that ends a
\* field stays; {} when some directive does not match.
RECURSIVE Reads(_, _, _)
Reads(f, s, skipped) ==
    IF f = <<>> THEN {[values |-> <<>>, gaps |-> <<>>, left |-> s]}
    ELSE LET white == IF Head(f) = "c" THEN 0 ELSE Lead(s, White)
             t     == From(s, white)
             n     == Extent(Head(f), t)
             text  == SubSeq(t, 1, n)
             value == CASE Head(f) = "d" -> Integer(text)
                        [] Head(f) = "s" -> text
                        [] OTHER -> text[1]
         IN  CASE Head(f) = " " -> Reads(Tail(f), t, skipped + white)
               [] n = 0 -> {}
               [] OTHER -> {[values |-> <<value>> \o r.values,
                             gaps   |-> <<skipped + white>> \o r.gaps,
                             left   |-> r.left] : r \in Reads(Tail(f), From(t, n), 0)}

IsField(item) == item \in {"d", "s"}

\* The inputs for which scanf_core follows C: one white key ends each number
\* and each word, no other is skipped, no key is one that only the code takes
\* for an end, the numbers fit an int, and the format ends in a directive.
Plainly(f, s, r) ==
    LET directives == SelectSeq(f, LAMBDA item : item # " ") IN
    /\ \A i \in 1 .. Len(s) : s[i] \notin Ends \ White
    /\ \A i \in 1 .. Len(directives) :
         /\ r.gaps[i] = IF i > 1 /\ IsField(directives[i - 1]) THEN 1 ELSE 0
         /\ directives[i] = "d" => ToInt(r.values[i]) = r.values[i]
    /\ f[Len(f)] # " "
    /\ IsField(f[Len(f)]) => r.left # <<>> /\ Head(r.left) \in White

\* On such input the call stores what C stores and counts what C counts; of
\* what C leaves it takes the key that ends a last number or word, and no more.
ScansWhatWasTyped ==
    asked # <<>> =>
      \A r \in Reads(asked, typed, 0) : Plainly(asked, typed, r) =>
        /\ Len(stored) <= Len(r.values)
        /\ \A i \in 1 .. Len(stored) : stored[i] = r.values[i]
        /\ ~running => /\ result = Len(r.values) /\ stored = r.values
                       /\ input = From(r.left, IF IsField(asked[Len(asked)]) THEN 1 ELSE 0)
=============================================================================
