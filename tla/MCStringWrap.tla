---------------------------- MODULE MCStringWrap ----------------------------
(***************************************************************************)
(* Texts and widths for StringWrap.                                        *)
(***************************************************************************)
EXTENDS StringWrap

\* Every text of letters and blanks up to seven characters, and one with a malformed byte.
AllTexts == UNION {[1 .. n -> {Letter, Blank}] : n \in 0 .. 7}
Refused == {<<<<Letter>>, 0>>, <<<<Letter, Malformed>>, 3>>}

AllCalls == (AllTexts \X {1, 2, 3, 5}) \union Refused
=============================================================================
