----------------------------- MODULE MCConsole -----------------------------
(* Values for the runs of Console. *)
EXTENDS Console

UpTo(S, k) == UNION {[1 .. n -> S] : n \in 0 .. k}

MCScripts == UpTo({"a", CR, EOFCHAR}, 3)
             \cup {<<"a", "a", "a", "a", CR>>, <<"a", "a", "a", CR, "a", CR>>,
                   <<"a", EOFCHAR, "a", CR>>, <<EOFCHAR, CR, CR, "a">>}

(* Everything of two characters, what just fits into the output buffer,    *)
(* what just does not, and what is as long as a UWORD has values (7 in the *)
(* run), or longer.                                                        *)
MCData == UpTo({"a", LF, DOLLAR}, 2)
          \cup {<<"a", "a", "a", LF, "a">>, <<DOLLAR, "a", DOLLAR, DOLLAR>>,
                <<LF, LF, LF>>, <<"a", LF, DOLLAR, LF>>, <<"a", "a", "a", "a", "a", DOLLAR>>,
                <<"a", "a", "a", "a", "a", "a", LF>>, <<"a", LF, DOLLAR, LF, "a", "a", "a", "a", "a">>}
=============================================================================
