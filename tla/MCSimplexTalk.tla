---------------------------- MODULE MCSimplexTalk ----------------------------
(***************************************************************************)
(* Lines of every length there is a case for: the longest with "exit"      *)
(* behind the first piece of it.                                           *)
(***************************************************************************)
EXTENDS SimplexTalk

MCMaxLine == 6
MCLetters == {"a", "b", "t", "o", "v", "e", "r", "?"}
MCLines == {<<"a">>, <<"b", "b", "b">>, <<Exit>>, <<"a", "a", "a", "a", "a", Exit>>}
MCStamp == <<"t">>
MCTerminated == <<"o", "v", "e", "r">>
=============================================================================
