----------------------------- MODULE MCDtFormat -----------------------------
(* Formats, buffers and strings for TLC.                                   *)
EXTENDS DtFormats

FewItems ==
  {<<"%", "Y">>, <<"%", "p">>, <<"%", "%">>, <<"-">>, <<"3">>, <<"f">>,
   <<"%", "f">>, <<"%", "3", "f">>, <<"%", "0", "f">>}

ShortFormats == UNION {[1 .. n -> FewItems] : n \in 0 .. 3}

Years == {[year |-> 2012, nano_second |-> 987654321], [year |-> 1999, nano_second |-> 5]}

FewSizes == {1, 2, 3, 4, 5, 6, 8, 10, 11, 12, 14, 32}

(* Short fractions, none, too much, and a fraction that is no number.      *)
FewStrings ==
  {<<"1", "2">>, <<"1", "2", "-">>, <<"-", "7">>, <<"2", "0", "1", "2", "-">>, <<"f">>, <<>>,
   <<"9", "9", "9", "9", "9", "9", "9", "9", "9", "9", "9", "9", "9">>}
=============================================================================
