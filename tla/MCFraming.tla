------------------------------ MODULE MCFraming ------------------------------
(* Small instances of Framing for TLC.  MAX_LEN is 5: a line of 5 characters is *)
(* the longest the protocol allows.                                             *)
EXTENDS Framing

MCChars == {"t", "x", "y", "E", ":", "\n"}
MCErrTag == <<"E">>
Msg(t, d) == [tag |-> <<t>>, data |-> d]

\* At most 4 characters, with a colon in the data and with the tag of errors.
Short == {Msg("t", <<>>), Msg("t", <<"x">>), Msg("t", <<":">>), Msg("E", <<"x">>)}
MCScripts == [1..2 -> Short]

\* Exactly MAX_LEN characters.
MCLongScripts == {<<Msg("t", <<"x", "y">>)>>}
=============================================================================
