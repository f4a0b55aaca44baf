------------------------------ MODULE MCConsole ------------------------------
(* The pages behind the sign-in that load lists and reports or change rows,  *)
(* one of them looked at in each behaviour: a tab shows one page at a time.  *)
EXTENDS AdminMenu, AdminUsers, AdminOrderDetail, ReadPages, TLC

VARIABLE looked   \* which part of the console the behaviour is of

\* x and y stand for the fields of a form, the handlers of a page and the sections of a
\* report, which never meet in one behaviour.
CONSTANTS x, y
MCPair == {x, y}
MCValues == {0, 1}
Symmetry == Permutations(MCPair) \cup Permutations(Contexts)

ConsoleInit ==
    /\ looked \in {"menu", "users", "order", "reports"}
    /\ MenuInit /\ (looked # "menu" => section = "item")
    /\ UsersInit /\ OrderInit /\ ReadInit

ConsoleNext ==
    /\ \/ looked = "menu" /\ MenuNext /\ UNCHANGED <<usersVars, orderVars, readVars>>
       \/ looked = "users" /\ UsersNext /\ UNCHANGED <<menuVars, orderVars, readVars>>
       \/ looked = "order" /\ OrderNext /\ UNCHANGED <<menuVars, usersVars, readVars>>
       \/ looked = "reports" /\ ReadNext /\ UNCHANGED <<menuVars, usersVars, orderVars>>
    /\ UNCHANGED looked

ConsoleSpec == ConsoleInit /\ [][ConsoleNext]_<<menuVars, usersVars, orderVars, readVars, looked>>

-----------------------------------------------------------------------------
\* The shape of the state looked at.
ConsoleTypeOK ==
    CASE looked = "menu" -> MenuTypeOK
      [] looked = "users" -> UsersTypeOK
      [] looked = "order" -> OrderPageTypeOK
      [] looked = "reports" -> ReadTypeOK

\* What a page says of the service is so: a menu notice speaks of what became of the save,
\* and the actions offered on an order are the ones the service accepts.
PagesTellTheTruth == MenuNoticeIsTrue /\ OffersOnlyWhatIsAccepted
==============================================================================
