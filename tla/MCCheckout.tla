------------------------------ MODULE MCCheckout ------------------------------
EXTENDS Checkout, TLC

\* "loose" needs two passes, "odd" is one the formatter gets wrong.
MCPretty == [loose |-> "looser", looser |-> "neat", neat |-> "neat", odd |-> "neat", broken |-> "broken"]
MCTexts == DOMAIN MCPretty
MCStructure == [loose |-> "nothing", looser |-> "nothing", neat |-> "nothing", odd |-> "table", broken |-> "none"]

ProcSymmetry == Permutations(Procs)

\* The second directory claims the id of the first.
MCDirs == 1 .. 4
MCNameId == <<1, 1, 3, 4>>

===============================================================================
