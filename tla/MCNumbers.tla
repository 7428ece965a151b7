----------------------------- MODULE MCNumbers -----------------------------
(***************************************************************************)
(* Model-checking instance of Numbers: the ends and the middle of what the *)
(* generator draws and of the temperature's course.                        *)
(***************************************************************************)
EXTENDS Numbers

MCDraws == {<<0, 0, 0>>, <<65535, 65535, 65535>>, <<0, 65535, 32768>>,
            <<16384, 33000, 65535>>, <<32440, 32768, 20000>>, <<49000, 1000, 50000>>}
MCPhases == {0, 13, 28, 29, 31, 32, 35, 62}
=============================================================================
