----------------------------- MODULE MCPrintString -----------------------------
(* Formats, arguments and doubles for PrintString. *)
EXTENDS PrintString

MCAlphabet == {"%", "h", "l", "c", "d", "g", "u", "s", "a"}
FormatsUpTo(n) == UNION {[1 .. k -> MCAlphabet] : k \in 0 .. n}

MCNumbers ==
  {<<"%", c>> : c \in {"d", "o", "u", "x", "X"}}
    \cup {<<"%", w, c>> : w \in {"h", "l"}, c \in {"d", "o", "s", "u", "x", "X"}}

(* Doubles: whole ones, one whose float is 0, one whose float is infinite, *)
(* and the infinite one.                                                   *)
Same(negative, n) ==
  [float |-> [negative |-> negative, tenths |-> n],
   double |-> [negative |-> negative, tenths |-> n]]
Tiny == [float |-> [negative |-> FALSE, tenths |-> 0], double |-> [negative |-> TRUE, tenths |-> 0]]
Huge(n) == [float |-> [negative |-> FALSE, tenths |-> Infinity],
                 double |-> [negative |-> FALSE, tenths |-> n]]

MCDoubles ==
  {Same(negative, n) : negative \in BOOLEAN, n \in {0, 1, 2, 39}}
    \cup {Same(TRUE, Infinity), Tiny}
    \cup {Huge(n) : n \in {40, 255, 256, 257, 309}}

(* Every format of up to four characters; every number through every       *)
(* conversion; every double through %f and %g, with a number after it.     *)
MCInputs ==
  [fmt : FormatsUpTo(4), args : {<<20, 100>>}, doubles : {<<Same(FALSE, 2), Same(TRUE, 0)>>}]
    \cup [fmt : MCNumbers, args : {<<n>> : n \in 0 .. 2 ^ LongBits - 1}, doubles : {<<Tiny>>}]
    \cup [fmt : {<<"%", c, "%", "u">> : c \in {"f", "g"}}, args : {<<1, 2>>},
          doubles : {<<d, d>> : d \in MCDoubles}]

==============================================================================
