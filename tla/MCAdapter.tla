------------------------------ MODULE MCAdapter ------------------------------
(* Adapter on small instances.                                             *)
EXTENDS Adapter, TLC

\* LangGraph with calls that overlap; the others without, except that a
\* streamText call is over before its checkpoints are.
MCModes == {<<"langgraph", FALSE>>, <<"stream_text", TRUE>>,
            <<"crewai", TRUE>>, <<"generate_text", TRUE>>}

MCSymmetry == Permutations(Call)
=============================================================================
