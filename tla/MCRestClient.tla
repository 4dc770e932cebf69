----------------------------- MODULE MCRestClient ------------------------------
(* RestClient for TLC: strings over "/" (0) and one other code unit (1).   *)
EXTENDS RestClient

Values   == {<<>>, <<1>>, <<1, 0>>}
Journals == SeqsUpTo({0, 1}, 3)
================================================================================
