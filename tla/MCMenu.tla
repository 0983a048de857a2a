------------------------------- MODULE MCMenu -------------------------------
EXTENDS Menu, FiniteSets

\* The bound of the runs: how many effects are away from their defaults at once.
\* The code handles each row on its own, so two are enough to see one disturb
\* another; the values of every single effect are explored to both ends.
MaxMoved == 2

Bound == Cardinality({s \in Slider : level[s] # Default[s]}) <= MaxMoved

=============================================================================
