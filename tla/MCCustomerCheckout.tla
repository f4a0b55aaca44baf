------------------------ MODULE MCCustomerCheckout ------------------------
\* Instances of CustomerCheckout for TLC.
EXTENDS CustomerCheckout, TLC

KeySymmetry == Permutations(Keys) \cup Permutations(Requests)
===========================================================================
