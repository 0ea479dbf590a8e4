------------------------------- MODULE MCInputs ------------------------------
(* Inputs on small values.                                                 *)
EXTENDS Inputs

MCFragments == {<<"plain">>, <<"bearer", "token", "plain", "bearer", "sk-ant">>,
                <<"scheme", "login", "sk-ant">>, <<"bearer", "scheme", "login">>}
=============================================================================
