------------------------------- MODULE MCConf -------------------------------
(* Conf with an empty value and values of two lengths.                     *)
EXTENDS Conf

MCValues == {<< >>, <<7>>, <<1, 5>>, <<2, 8>>}

=============================================================================
