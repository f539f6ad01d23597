----------------------------- MODULE MCTerminal -----------------------------
(* Instance of Terminal for TLC. *)
EXTENDS Terminal

\* One character: with more, what is left of the lines above multiplies the states
\* of the screen.
PlainStrokes == {<<k, FALSE>> : k \in Keys}
=============================================================================
