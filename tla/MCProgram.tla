----------------------------- MODULE MCProgram ------------------------------
(* Values for the run of Program.  Characters are codes: 32 is a blank, 34 *)
(* and 39 the quotes, 48 and 49 digits, 65 and 98 the letters A and b.     *)
EXTENDS Program

MCProgName == <<112>>

BareWord(w) == [word |-> w, quote |-> 0, gap |-> 1]

(* Every name of at most four of 0 9 A b ? * . : and ;                     *)
NameChars == {48, 57, 65, 98, 63, 42, 46, 58, 59}
Names     == UNION {[1 .. n -> NameChars] : n \in 1 .. 4}
OneName   == {<<BareWord(n)>> : n \in Names}

(* Up to three words in every kind of quotes.                              *)
Typed  == [word : {<<>>, <<65>>, <<65, 32>>, <<65, 39>>}, quote : {0, 34, 39}, gap : {-1, 0, 1}]
Quoting == UNION {[1 .. n -> Typed] : n \in 0 .. 2}
           \cup {<<t, BareWord(<<65>>), u>> : t, u \in Typed}

(* A 1:b   0:A 1:B   1:* A   ? 0:A                                         *)
MCWorked == {<<BareWord(w[1]), BareWord(w[2])>> :
               w \in {<<<<65>>, <<49, 58, 98>>>>,
                      <<<<48, 58, 65>>, <<49, 58, 66>>>>,
                      <<<<49, 58, 42>>, <<65>>>>,
                      <<<<63>>, <<48, 58, 65>>>>}}

MCHungry == {<<BareWord(<<65>>)>>}
MCDisks  == {{<<0, <<65, 32, 32>>>>, <<1, <<66, 32, 32>>>>}}

MCLines  == {l \in OneName \cup Quoting \cup MCWorked : WellTyped(l)}
MCParsed == {ParseFn(l[k].word) : l \in MCWorked, k \in 1 .. 2}
MCPlain  == {<<65, 32, 32>>, <<66, 32, 32>>}
MCIncrs  == {-2, -1, 1, 2, 3}
=============================================================================
