----------------------------- MODULE MCAscFile -----------------------------
(* Values for the runs of AscFile: texts of returns, newlines and two      *)
(* letters, and seeks to the beginning and the end.                        *)
EXTENDS AscFile

(* Texts of at most two characters, and some of three. *)
Texts == {<<>>, <<97>>, <<10>>, <<13>>, <<97, 10>>, <<13, 10>>, <<10, 10>>, <<97, 98, 97>>}
FewTexts == {<<97>>, <<97, 10>>}

BothEnds == {<<0, 0>>, <<0, 2>>}

NoFaults == {{}}
SecondBad == {{}, {1}}
Rewind == {<<0, 0>>}
=============================================================================
