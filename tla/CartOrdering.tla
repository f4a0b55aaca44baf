---------------------------- MODULE CartOrdering ----------------------------
(***************************************************************************)
(* From the menu to the order in one browser tab: the cart and its copy in *)
(* session storage, the quotes of the cart page, and the order request,    *)
(* which has no idempotency key.  submitOrder is a run of its own: it goes *)
(* on, with what it captured, when its page has been left.  The menu and   *)
(* its prices are the service's: any quote and any order may be refused.   *)
(***************************************************************************)
EXTENDS Integers, FiniteSets, SequencesExt

CONSTANTS
    Items,         \* menu items
    MaxQuantity,   \* CART_MAX_QUANTITY (99 in the code)
    MaxUnique,     \* CART_MAX_UNIQUE_ITEMS (50 in the code)
    MaxVisits,     \* bound: visits of the cart page
    MaxPresses,    \* bound: presses of the order buttons
    MaxSessions    \* bound: sessions, the stored one included

ASSUME OrderingBounds ==
    /\ MaxQuantity \in Nat \ {0} /\ MaxUnique \in Nat \ {0}
    /\ MaxVisits \in Nat /\ MaxPresses \in Nat /\ MaxSessions \in Nat \ {0}

VARIABLES
    cart,     \* the cart's lines, and whether session storage works
    shopper,  \* the session, as AuthProvider shows it
    page,     \* the page shown; of the cart page its quote, form and feedback
    asks,     \* quote requests of the cart page that will be heard
    runs,     \* runs of submitOrder
    sent      \* history: the order requests, in the order they were sent

orderingVars == <<cart, shopper, page, asks, runs, sent>>

-----------------------------------------------------------------------------
(* cartReducer.                                                            *)

Line(lines, i) == {n \in DOMAIN lines : lines[n].item = i}

\* Mutant: the limit of one line is forgotten.
AddedFreely(lines, i) ==
    IF Line(lines, i) # {}
    THEN [n \in DOMAIN lines |-> IF n \in Line(lines, i) THEN [lines[n] EXCEPT !.quantity = @ + 1] ELSE lines[n]]
    ELSE IF Len(lines) < MaxUnique THEN Append(lines, [item |-> i, quantity |-> 1]) ELSE lines

\* getAddResult: one line for each item, limits on both.
Added(lines, i) ==
    IF Line(lines, i) # {}
    THEN [n \in DOMAIN lines |->
            IF n \in Line(lines, i) /\ lines[n].quantity < MaxQuantity
            THEN [lines[n] EXCEPT !.quantity = @ + 1] ELSE lines[n]]
    ELSE IF Len(lines) < MaxUnique THEN Append(lines, [item |-> i, quantity |-> 1]) ELSE lines

Decremented(lines, i) ==
    [n \in DOMAIN lines |->
        IF n \in Line(lines, i) /\ lines[n].quantity > 1 THEN [lines[n] EXCEPT !.quantity = @ - 1] ELSE lines[n]]

Removed(lines, i) ==
    IF Line(lines, i) = {} THEN lines ELSE RemoveAt(lines, CHOOSE n \in Line(lines, i) : TRUE)

\* A tab whose storage fails keeps its cart until CartProvider is mounted again.
RestoredCart == IF cart.works THEN cart.lines ELSE <<>>

-----------------------------------------------------------------------------
(* The cart page.                                                          *)

ShopPlaces == {"menu", "cart", "checkout", "outside"}     \* outside: pages without CartProvider
Tables == {"stated", "no table"}                      \* the form: "no table" is dine-in without a number
OrderStates == {"idle", "refreshing-quote", "creating", "error", "table-error", "ambiguous",
                "session-expired", "navigation-error"}

Anonymous == [phase |-> "guest", session |-> 0]
NoQuote == [status |-> "idle", of |-> <<>>]

\* Mounting the page arms the debounce of its first quote.
Mount(place, visit, lines) ==
    [place |-> place, visit |-> visit, armed |-> place = "cart" /\ lines # <<>>, quote |-> NoQuote,
     order |-> "idle", table |-> "stated"]

Open == page.place = "cart" /\ cart.lines # <<>>
InFlight == page.order \in {"refreshing-quote", "creating"}
QuoteIsCurrent == page.quote.status = "success" /\ page.quote.of = cart.lines
QuoteErrorIsCurrent == page.quote.status = "error" /\ page.quote.of = cart.lines
Resolved(phase) == phase \in {"customer", "guest"}

Mounted(r) == page.place = "cart" /\ page.visit = r.visit

\* Refs of an unmounted page keep what they held: latestSignature, currentAuthRef.
Frozen(r) == IF Mounted(r) THEN [r EXCEPT !.latest = cart.lines, !.phase = shopper.phase] ELSE r
LatestSignature(r) == IF Mounted(r) THEN cart.lines ELSE r.latest
SeenPhase(r) == IF Mounted(r) THEN shopper.phase ELSE r.phase

\* Where the tab goes; the requests of a page that is left are aborted, its run is not.
Goes(place) ==
    /\ place = "cart" => page.visit < MaxVisits
    /\ LET lines == IF page.place = "outside" THEN RestoredCart ELSE cart.lines
       IN  /\ page' = Mount(place, IF place = "cart" THEN page.visit + 1 ELSE page.visit, lines)
           /\ cart' = [cart EXCEPT !.lines = lines]
    /\ asks' = {}

OrderingInit ==
    /\ cart \in [lines : {<<>>}, works : BOOLEAN]
    /\ shopper \in {Anonymous, [phase |-> "unresolved", session |-> 1]}
    /\ page = Mount("menu", 0, <<>>)
    /\ asks = {} /\ runs = {} /\ sent = <<>>

Browse ==
    /\ \E place \in {"menu", "cart", "outside"} \ {page.place} : Goes(place)
    /\ runs' = {Frozen(r) : r \in runs}
    /\ UNCHANGED <<shopper, sent>>

\* A page load keeps what was stored, and validates a stored session anew.
Reload ==
    /\ page.place = "cart" => page.visit < MaxVisits
    /\ cart' = [cart EXCEPT !.lines = RestoredCart]
    /\ page' = Mount(page.place, IF page.place = "cart" THEN page.visit + 1 ELSE page.visit, RestoredCart)
    /\ shopper' = IF shopper.phase = "guest" \/ ~cart.works THEN Anonymous ELSE [shopper EXCEPT !.phase = "unresolved"]
    /\ asks' = {} /\ runs' = {}
    /\ UNCHANGED <<sent>>

\* MenuItemCard: offered for items that were available when the menu was read.
AddItem(i) ==
    /\ page.place = "menu"
    /\ cart' = [cart EXCEPT !.lines = Added(cart.lines, i)]
    /\ UNCHANGED <<shopper, page, asks, runs, sent>>

\* Mutant: a changed cart does not ask for a quote.
CartChangesQuietly(lines) ==
    /\ page.place = "cart" /\ ~InFlight
    /\ lines # cart.lines
    /\ cart' = [cart EXCEPT !.lines = lines]
    /\ asks' = {}
    /\ UNCHANGED <<shopper, page, runs, sent>>

\* The quote effect: a changed cart aborts the request for the old one.
CartChanges(lines) ==
    /\ page.place = "cart" /\ ~InFlight
    /\ lines # cart.lines
    /\ cart' = [cart EXCEPT !.lines = lines]
    /\ page' = [page EXCEPT !.armed = lines # <<>>]
    /\ asks' = {}
    /\ UNCHANGED <<shopper, runs, sent>>

ChangeLine(i) ==
    /\ Line(cart.lines, i) # {}
    /\ \E lines \in {Added(cart.lines, i), Decremented(cart.lines, i), Removed(cart.lines, i), <<>>} :
        CartChanges(lines)

\* The order form; a change clears the server's complaint about the table.
ChooseTable ==
    /\ Open /\ ~InFlight
    /\ \E t \in Tables \ {page.table} :
        page' = [page EXCEPT !.table = t, !.order = IF @ = "table-error" THEN "idle" ELSE @]
    /\ UNCHANGED <<cart, shopper, asks, runs, sent>>

-----------------------------------------------------------------------------
(* Quotes of the page.                                                     *)

DebounceEnds ==
    /\ page.armed
    /\ page' = [page EXCEPT !.armed = FALSE, !.quote = [status |-> "pending", of |-> cart.lines]]
    /\ asks' = asks \cup {[visit |-> page.visit, of |-> cart.lines]}
    /\ UNCHANGED <<cart, shopper, runs, sent>>

Quoted(lines, ok) == [status |-> IF ok THEN "success" ELSE "error", of |-> lines]

QuoteAnswered(q) ==
    /\ asks' = asks \ {q}
    /\ \E ok \in BOOLEAN :
        /\ page' = [page EXCEPT !.quote = IF q.of = cart.lines THEN Quoted(q.of, ok) ELSE @]
    /\ UNCHANGED <<cart, shopper, runs, sent>>

RetryQuote ==
    /\ Open /\ QuoteErrorIsCurrent /\ ~page.armed
    /\ page' = [page EXCEPT !.armed = TRUE]
    /\ asks' = {}
    /\ UNCHANGED <<cart, shopper, runs, sent>>

-----------------------------------------------------------------------------
(* submitOrder.                                                            *)

\* Mutant: a press is not ignored while a run is under way.
NotCreating == ~\E r \in runs : Mounted(r) /\ r.step = "creating"

Idle == ~\E r \in runs : Mounted(r)

\* The button, and the one below the warning that the result of the last request is unknown.
SubmitOrder(deliberate) ==
    /\ Open /\ Idle /\ QuoteIsCurrent /\ page.table # "no table" /\ Resolved(shopper.phase)
    /\ page.order \notin {"session-expired", "navigation-error"}
    /\ (page.order = "ambiguous") = deliberate
    /\ Len(sent) + Cardinality({r \in runs : r.step = "quoting"}) < MaxPresses
    /\ page' = [page EXCEPT !.order = "refreshing-quote"]
    /\ runs' = runs \cup {[visit |-> page.visit, step |-> "quoting", items |-> cart.lines,
                           deliberate |-> deliberate, latest |-> cart.lines, phase |-> shopper.phase,
                           session |-> 0, request |-> 0]}
    /\ UNCHANGED <<cart, shopper, asks, sent>>

\* What a run shows, if its page is still there.
Shows(r, order, quote) ==
    page' = IF Mounted(r) THEN [page EXCEPT !.order = order, !.quote = quote] ELSE page

FreshQuoteFails(r) ==
    /\ r.step = "quoting"
    /\ Shows(r, "error", IF LatestSignature(r) = r.items THEN Quoted(r.items, FALSE) ELSE page.quote)
    /\ runs' = runs \ {r}
    /\ UNCHANGED <<cart, shopper, asks, sent>>

\* The cart may have changed, and the session may be another or unknown, since the press.
FreshQuoteStops(r) ==
    /\ r.step = "quoting"
    /\ \/ LatestSignature(r) # r.items /\ Shows(r, "error", page.quote)
       \/ /\ LatestSignature(r) = r.items
          /\ ~Resolved(SeenPhase(r))
          /\ Shows(r, "idle", Quoted(r.items, TRUE))
       \/ /\ LatestSignature(r) = r.items
          /\ SeenPhase(r) = "customer" /\ shopper.session = 0
          /\ Shows(r, "session-expired", Quoted(r.items, TRUE))
    /\ runs' = runs \ {r}
    /\ UNCHANGED <<cart, shopper, asks, sent>>

SendOrder(r) ==
    /\ r.step = "quoting" /\ LatestSignature(r) = r.items
    /\ \/ SeenPhase(r) = "guest"
       \/ SeenPhase(r) = "customer" /\ shopper.session # 0
    /\ LET session == IF SeenPhase(r) = "customer" THEN shopper.session ELSE 0
       IN  /\ sent' = Append(sent, [visit |-> r.visit, session |-> session,
                                    deliberate |-> r.deliberate, result |-> "pending"])
           /\ runs' = (runs \ {r}) \cup
                {[Frozen(r) EXCEPT !.step = "creating", !.session = session, !.request = Len(sent) + 1]}
    /\ Shows(r, "creating", Quoted(r.items, TRUE))
    /\ UNCHANGED <<cart, shopper, asks>>

Ends(r, result) ==
    /\ r.step = "creating"
    /\ sent' = [sent EXCEPT ![r.request].result = result]

\* The order is created from the menu of that moment; the tab goes to its checkout page,
\* from wherever it is.
OrderCreated(r) ==
    /\ Ends(r, "created")
    /\ \/ /\ Goes("checkout")
          /\ runs' = {Frozen(q) : q \in runs \ {r}}
       \/ /\ Mounted(r)
          /\ Shows(r, "navigation-error", page.quote)
          /\ runs' = runs \ {r}
          /\ UNCHANGED <<cart, asks>>
    /\ UNCHANGED shopper

\* An answer that refuses, or 5xx, which says nothing of the order and is shown alike.
OrderRefused(r) ==
    /\ \E result \in {"refused", "broken"} : Ends(r, result)
    /\ \E order \in {"error", "table-error"} : Shows(r, order, page.quote)
    /\ runs' = runs \ {r}
    /\ UNCHANGED <<cart, shopper, asks>>

\* Mutant: a 401 is shown like any refusal.
OrderRejected(r) ==
    /\ Ends(r, "unauthorized") /\ r.session # 0
    /\ shopper' = IF shopper.session = r.session THEN Anonymous ELSE shopper
    /\ Shows(r, "error", page.quote)
    /\ runs' = runs \ {r}
    /\ UNCHANGED <<cart, asks>>

OrderUnauthorized(r) ==
    /\ Ends(r, "unauthorized") /\ r.session # 0
    /\ shopper' = IF shopper.session = r.session THEN Anonymous ELSE shopper
    /\ Shows(r, "session-expired", page.quote)
    /\ runs' = runs \ {r}
    /\ UNCHANGED <<cart, asks>>

\* isAmbiguousOrderError: the order may have been created.
OrderUnknown(r) ==
    /\ Ends(r, "lost")
    /\ Shows(r, "ambiguous", page.quote)
    /\ runs' = runs \ {r}
    /\ UNCHANGED <<cart, shopper, asks>>

\* "Continue to payment setup".
RetryNavigation ==
    /\ Open /\ page.order = "navigation-error"
    /\ Goes("checkout")
    /\ runs' = {Frozen(r) : r \in runs}
    /\ UNCHANGED <<shopper, sent>>

-----------------------------------------------------------------------------
(* The session, whose own module is AuthSession.                           *)

\* Sign-ins so far are bounded through the sessions' numbers.
ShopperSignsIn(n) ==
    /\ page.place = "outside" /\ shopper.phase = "guest"
    /\ \A k \in DOMAIN sent : n > sent[k].session
    /\ shopper' = [phase |-> "customer", session |-> n]
    /\ UNCHANGED <<cart, page, asks, runs, sent>>

\* A validation ends: the stored session is good, is not, or its check failed.
SessionResolves ==
    /\ shopper.phase = "unresolved"
    /\ shopper' \in {[shopper EXCEPT !.phase = "customer"], Anonymous}
    /\ UNCHANGED <<cart, page, asks, runs, sent>>

\* A request of another page finds the session expired, or its check fails.
SessionEnds ==
    /\ shopper.phase = "customer"
    /\ shopper' \in {Anonymous, [shopper EXCEPT !.phase = "unresolved"]}
    /\ UNCHANGED <<cart, page, asks, runs, sent>>

\* The header's button, which leads home in the same update.
ShopperSignsOut ==
    /\ shopper.phase = "customer"
    /\ shopper' = Anonymous
    /\ Goes("menu")
    /\ runs' = {Frozen(r) : r \in runs}
    /\ UNCHANGED <<sent>>

-----------------------------------------------------------------------------
OrderingNext ==
    \/ Browse \/ Reload \/ ChooseTable \/ DebounceEnds \/ RetryQuote \/ RetryNavigation
    \/ \E i \in Items : AddItem(i) \/ ChangeLine(i)
    \/ \E q \in asks : QuoteAnswered(q)
    \/ \E deliberate \in BOOLEAN : SubmitOrder(deliberate)
    \/ \E r \in runs :
        \/ FreshQuoteFails(r) \/ FreshQuoteStops(r) \/ SendOrder(r)
        \/ OrderCreated(r) \/ OrderRefused(r) \/ OrderUnauthorized(r) \/ OrderUnknown(r)
    \/ \E n \in 1 .. MaxSessions : ShopperSignsIn(n)
    \/ SessionResolves \/ SessionEnds \/ ShopperSignsOut

OrderingSpec == OrderingInit /\ [][OrderingNext]_orderingVars

-----------------------------------------------------------------------------
(* Properties.                                                             *)

Carts ==
    {lines \in Seq([item : Items, quantity : 1 .. MaxQuantity]) :
        /\ Len(lines) <= MaxUnique
        /\ \A m, n \in DOMAIN lines : lines[m].item = lines[n].item => m = n}
Visits == 0 .. MaxVisits
ShopSessions == 0 .. MaxSessions
ShopPhases == {"guest", "customer", "unresolved"}
Quotes == [status : {"idle", "pending", "success", "error"}, of : Carts]
Orders == [visit : Visits, session : ShopSessions, deliberate : BOOLEAN,
           result : {"pending", "created", "refused", "broken", "unauthorized", "lost"}]

\* The shape of the tab's state; a cart has one line for each item, within the limits.
OrderingTypeOK ==
    /\ cart \in [lines : Carts, works : BOOLEAN]
    /\ shopper \in [phase : ShopPhases, session : ShopSessions]
    /\ shopper.session = 0 <=> shopper.phase = "guest"
    /\ page \in [place : ShopPlaces, visit : Visits, armed : BOOLEAN, quote : Quotes, order : OrderStates,
                 table : Tables]
    /\ asks \subseteq [visit : Visits, of : Carts]
    /\ runs \subseteq [visit : Visits, step : {"quoting", "creating"}, items : Carts, deliberate : BOOLEAN,
                       latest : Carts, phase : ShopPhases, session : ShopSessions, request : Nat]
    /\ sent \in Seq(Orders)
    /\ \A q \in asks : q.visit = page.visit
    /\ \A r \in runs : /\ r.items # <<>> /\ r.visit \in 1 .. page.visit
                       /\ r.step = "creating" => r.request \in DOMAIN sent /\ sent[r.request].result = "pending"

\* The figures next to the order button follow the cart: they are the answer for these
\* lines, or an error about them that offers another try, or they are on their way.
QuoteFollowsTheCart ==
    Open => \/ QuoteIsCurrent \/ QuoteErrorIsCurrent
            \/ page.armed
            \/ \E q \in asks : q.of = cart.lines

\* "The submit guard prevents an ordinary duplicate click": a visit of the cart page has one
\* run at a time, is busy exactly while it is under way, and sends an order only when it has
\* heard of the one before.
OneRunPerVisit ==
    /\ \A q, r \in runs : q.visit = r.visit => q = r
    /\ page.place = "cart" =>
        /\ page.order = "refreshing-quote" <=> \E r \in runs : Mounted(r) /\ r.step = "quoting"
        /\ page.order = "creating" <=> \E r \in runs : Mounted(r) /\ r.step = "creating"
    /\ \A j, k \in DOMAIN sent : j < k /\ sent[j].visit = sent[k].visit => sent[j].result # "pending"

\* A 401 is "never retried anonymously": after one, the visit sends no other order.
NothingAfterRejection ==
    \A j, k \in DOMAIN sent :
        j < k /\ sent[j].visit = sent[k].visit => sent[j].result # "unauthorized"

\* "does not create from a stale pre-submit quote after the cart changes"
\* (CartPage.test.tsx): an order is sent for the cart as it is, which session storage keeps.
OrdersTheCart ==
    [][\A r \in runs' : r.step = "creating" /\ r.request > Len(sent) /\ cart.works
                        => r.items = cart.lines]_orderingVars
=============================================================================
