------------------------------- MODULE MCApp --------------------------------
EXTENDS App

\* Any application of the framework: every function set, every outcome possible.
AnyOutcome == [f \in AllFunctions |-> {"true", "false", "throws"}]

=============================================================================
