------------------------------ MODULE MCService ------------------------------
(* Service on a small instance.                                            *)
EXTENDS Service, TLC

CONSTANTS secret, clean, note, plain, other, d1

MCChannel == {<<"run", "r">>}
MCContent == {secret, clean, note}
MCSent ==
    {[kind |-> "durable", content |-> secret, context |-> plain, delta |-> d1],
     [kind |-> "checkpoint", content |-> secret, context |-> other, delta |-> None],
     [kind |-> "publish", content |-> note, context |-> plain, delta |-> None]}
MCClean == (secret :> clean) @@ (clean :> clean) @@ (note :> note)
MCRequested == {{}}
MCParents == {{}, {1}}

MCSymmetry == Permutations(Handler) \cup Permutations(Agent) \cup Permutations(Form)
=============================================================================
