------------------------------- MODULE MCShop -------------------------------
(* The customer's side of a tab up to the order, in two parts that are      *)
(* looked at one at a time: the cart with its orders, and the session that   *)
(* AuthProvider keeps.  Of the session the cart's part has only the phases.  *)
EXTENDS CartOrdering, AuthSession, TLC

VARIABLE concern   \* which part the behaviour is of

CONSTANTS soup, fish, ann, shared
MCItems == {soup, fish}
MCAccounts == {ann, shared}
MCSeconds == {1}
Symmetry == Permutations(MCItems)

ShopInit ==
    /\ concern \in {"ordering", "session"}
    /\ OrderingInit /\ SessionInit
    /\ concern = "ordering" => store = EmptyStore /\ service.roles[ann] = "customer"
    /\ concern = "session" => shopper = Anonymous /\ cart.works

ShopNext ==
    /\ \/ concern = "ordering" /\ OrderingNext /\ UNCHANGED sessionVars
       \/ concern = "session" /\ SessionNext /\ UNCHANGED orderingVars
    /\ UNCHANGED concern

ShopSpec == ShopInit /\ [][ShopNext]_<<orderingVars, sessionVars, concern>>

\* The shape of the part looked at.
ShopTypeOK == IF concern = "ordering" THEN OrderingTypeOK ELSE SessionTypeOK
=============================================================================
