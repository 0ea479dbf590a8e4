-------------------------------- MODULE MCBus --------------------------------
(* Bus on small instances.                                                 *)
EXTENDS Bus, TLC

MCTopic == <<"topic", "a">>

MCTopics  == [patterns |-> {[text |-> <<"topic">>, star |-> TRUE]}, durableOnly |-> FALSE]
MCDurable == [patterns |-> {[text |-> MCTopic, star |-> FALSE]}, durableOnly |-> TRUE]

MCOneChannel  == {MCTopic}
MCOneFilter   == {MCTopics}
MCFilters     == {MCTopics, MCDurable}

MCSymmetry == Permutations(Pub)
=============================================================================
