--------------------------- MODULE MCFactor4Audit ---------------------------
(* Two uses of the service, one wrong cell or one misbehaviour in all.      *)
EXTENDS Factor4Audit

MCRefOrder == <<"a", "b", "c", "d", "other", "x">>
MCMinimums == {Digits(1, 1), Digits(4, 1)}
=============================================================================
