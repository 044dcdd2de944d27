-------------------------- MODULE MCCheckoutQuotes --------------------------
\* Small instances of CheckoutQuotes.
EXTENDS CheckoutQuotes, TLC

\* Every order costs one unit, so that Cap counts live quotes.
UnitPrice == [o \in Orders |-> 1]

\* At one price, the members of each of these sets differ in their names only.
Symmetric == Permutations(Callers) \cup Permutations(Sigs)
             \cup Permutations(Quotes) \cup Permutations(Orders)
=============================================================================
