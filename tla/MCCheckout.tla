----------------------------- MODULE MCCheckout -----------------------------
(* Small instances of Checkout for TLC.                                    *)
EXTENDS CheckoutInvariant, TLC

\* Rows, keys, server threads and sessions are interchangeable.
Symmetry == Permutations(Payments) \cup Permutations(Keys) \cup Permutations(Sessions)
              \cup Permutations(Requests) \cup Permutations(Orders)
=============================================================================
