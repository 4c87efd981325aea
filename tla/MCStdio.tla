------------------------------ MODULE MCStdio ------------------------------
(* Small calls of printf and scanf for TLC: ints of 5 bits (up to 15) among *)
(* longs of 8.  Every flag, width and precision with every conversion of an *)
(* int; lengths, texts, counts and named arguments on formats of their own. *)
(* A behaviour is one call of one of the two.                               *)
EXTENDS Printf, Scanf, FiniteSets

Num(n) == [kind |-> "num", n |-> n]
Nl(n) == [kind |-> "nl", n |-> n]
NextArg == [kind |-> "star", n |-> 0]
No == [kind |-> "none", n |-> 0]
Bits(b) == [bits |-> b, text |-> <<>>]
Pointer(s) == [bits |-> 200, text |-> s]

Dir(flags, width, prec, letters) ==
    [kind |-> "dir", pos |-> 0, flags |-> flags, width |-> width, prec |-> prec, letters |-> letters]
Plain(letters) == Dir({}, No, No, letters)
At(n, e) == [e EXCEPT !.pos = n]
Chars(s) == [kind |-> "text", chars |-> s]

\* Every directive of an int, with -4 and 3 as widths and -1, 0 and 3 as
\* precisions from arguments.
Ints ==
    {[format |-> <<Dir(fl, w, p, <<c>>)>>, args |-> <<Bits(a), Bits(b), Bits(v)>>] :
        fl \in SUBSET {"-", "0", "+", " ", "#"}, w \in {No, Num(5), NextArg}, p \in {No, NextArg},
        c \in {"d", "o", "x"}, a \in {252, 5}, b \in {255, 0, 3}, v \in {0, 10, 244}}

\* Every length of an integer, with bits that the shorter types lose.
Lengths ==
    {[format |-> <<Dir({"#"}, No, p, m \o <<c>>)>>, args |-> <<Bits(v)>>] :
        m \in {<<>>, <<"h">>, <<"h", "h">>, <<"l">>, <<"l", "l">>, <<"z">>, <<"j">>, <<"t">>},
        c \in {"i", "u", "X", "o"}, p \in {No, Num(0), Num(3)}, v \in {0, 6, 171}}

Texts ==
    {[format |-> <<Dir(fl, w, p, <<"s">>)>>, args |-> <<a>>] :
        fl \in {{}, {"-"}, {"0"}}, w \in {No, Num(5)}, p \in {No, Num(0), Num(2), Num(20)},
        a \in {Pointer(<<>>), Pointer(<<"k", "e", "y">>), Bits(0), Pointer([i \in 1 .. 18 |-> "k"])}}
    \cup {[format |-> <<Dir(fl, w, No, <<c>>)>>, args |-> <<a>>] :
        fl \in {{}, {"-"}, {"0"}}, w \in {No, Num(4), Num(20)}, c \in {"c", "p"},
        a \in {[bits |-> 41, text |-> <<"k">>], [bits |-> 0, text |-> <<"nul">>]}}

\* Formats of several items.
Several ==
    {[format |-> f, args |-> <<Bits(3), Bits(255), Bits(12), Pointer(<<"k", "e">>), Bits(1)>>] : f \in
        { <<Chars(<<"a">>), Plain(<<"d">>), Chars(<<"%">>), Plain(<<"x">>), Plain(<<"h", "u">>)>>,
          <<Dir({}, NextArg, No, <<"d">>), Plain(<<"n">>), Plain(<<"d">>), Plain(<<"h", "n">>)>>,
          <<Chars(<<"a", "b", "c">>), Plain(<<"h", "h", "n">>), Dir({}, NextArg, No, <<"d">>), Plain(<<"s">>), Plain(<<"n">>)>>,
          <<At(2, Plain(<<"d">>)), Chars(<<",">>), At(4, Plain(<<"s">>)), At(1, Plain(<<"u">>)), At(3, Plain(<<"h", "h", "d">>))>>,
          <<At(4, Dir({"-"}, Nl(1), Nl(2), <<"s">>)), At(3, Plain(<<"l", "d">>)), Chars(<<"!">>)>>,
          <<At(3, Dir({}, Nl(1), No, <<"x">>)), At(2, Plain(<<"l", "n">>))>>,
          <<At(1, Plain(<<"d">>)), At(3, Plain(<<"d">>))>>,
          <<Chars(<<"a">>), Plain(<<"h", "s">>)>>,
          <<Plain(<<"d">>), Plain(<<"k">>)>>,
          <<At(1, Plain(<<"k">>))>>,
          <<Dir({}, Num(9), No, <<"d">>), Dir({}, Num(9), No, <<"d">>)>>,
          <<At(2, Dir({}, Num(9), No, <<"d">>)), At(1, Dir({}, Num(9), No, <<"d">>))>>,
          <<Dir({}, Num(20), No, <<"d">>)>>,
          <<Plain(<<"d">>), Dir({}, No, Num(20), <<"u">>)>>,
          <<Chars([i \in 1 .. 9 |-> "k"]), Plain(<<"d">>), Chars([i \in 1 .. 9 |-> "k"])>>,
          <<At(1, Plain(<<"d">>)), Chars([i \in 1 .. 16 |-> "k"])>> }}

PrintCalls == Ints \cup Lengths \cup Texts \cup Several

ScanFormats == {<<"d">>, <<"d", "d">>, <<"s", " ", "d">>, <<"d", " ", "s">>, <<"c", "d">>,
                <<"d", " ", "c">>, <<"d", "c">>, <<"d", " ">>, <<"x">>}
Keys == {"1", "0", "-", "k", "nl", " "}
ScanInputs == UNION {[1 .. n -> Keys] : n \in 0 .. 4}
              \cup {<<"+", "2", "cr", "-", "9", " ", "k">>, <<"1", "2", "nl", "0", "7", "nl", "1">>,
                    <<"-", "1", "k", "nl", "-", "3", "2", "nl">>, <<"3", "1", "nl", "-", "3", "2", "cr">>,
                    <<"9", "9", "nl">>, <<"1", "bs", "0", "7", "del">>, <<"k", "nul", "1", "nl">>}

MCInit ==
    \/ Init /\ Start(<<>>, <<>>)
    \/ Begin /\ Call([format |-> <<>>, args |-> <<>>])

MCNext ==
    \/ asked = <<>> /\ Next /\ UNCHANGED svars
    \/ asked # <<>> /\ Step /\ UNCHANGED vars

MCSpec == MCInit /\ [][MCNext]_<<vars, svars>>
=============================================================================
