----------------------------- MODULE ShopProofs -----------------------------
(***************************************************************************)
(* Proofs about the tab up to the order: for every menu, every limit of    *)
(* the cart and every bound, the cart and its page keep their shape, a     *)
(* visit has one run of submitOrder, its quote follows the cart, and after *)
(* a 401 it sends nothing.                                                 *)
(***************************************************************************)
EXTENDS MCShop, AuthSessionProofs, SequenceTheorems

CartLines == [item : Items, quantity : 1 .. MaxQuantity]

OneLineEach(lines) == \A m, n \in DOMAIN lines : lines[m].item = lines[n].item => m = n

-----------------------------------------------------------------------------
(* The reducer keeps a cart a cart.                                        *)

LEMMA CartParts ==
    ASSUME NEW lines
    PROVE  lines \in Carts <=> lines \in Seq(CartLines) /\ Len(lines) <= MaxUnique /\ OneLineEach(lines)
BY DEF Carts, CartLines, OneLineEach

LEMMA EmptyCart == <<>> \in Carts
<1>1. <<>> \in Seq(CartLines) /\ Len(<<>>) <= MaxUnique
  BY OrderingBounds
<1>2. \A m, n \in DOMAIN <<>> : <<>>[m].item = <<>>[n].item => m = n
  OBVIOUS
<1>. QED BY <1>1, <1>2 DEF Carts, CartLines

\* A change of quantities keeps the lines.
LEMMA SameItems ==
    ASSUME NEW lines \in Carts, NEW new, new \in [DOMAIN lines -> CartLines],
           \A n \in DOMAIN lines : new[n].item = lines[n].item
    PROVE  new \in Carts
<1>1. lines \in Seq(CartLines) /\ Len(lines) <= MaxUnique /\ OneLineEach(lines)
  BY CartParts
<1>2. DOMAIN lines = 1 .. Len(lines) /\ Len(lines) \in Nat
  BY <1>1, LenProperties
<1>3. new \in Seq(CartLines) /\ Len(new) = Len(lines) /\ DOMAIN new = DOMAIN lines
  BY <1>2
<1>4. OneLineEach(new)
  BY <1>1, <1>3 DEF OneLineEach
<1>. QED BY <1>1, <1>3, <1>4, CartParts

LEMMA DecrementedCart ==
    ASSUME NEW lines \in Carts, NEW i \in Items
    PROVE  Decremented(lines, i) \in Carts
<1>1. lines \in Seq(CartLines)
  BY CartParts
<1>2. \A n \in DOMAIN lines : lines[n] \in CartLines
  BY <1>1, LenProperties
<1>. DEFINE line(n) == IF n \in Line(lines, i) /\ lines[n].quantity > 1
                       THEN [lines[n] EXCEPT !.quantity = @ - 1] ELSE lines[n]
<1>3. ASSUME NEW n \in DOMAIN lines
      PROVE  line(n) \in CartLines /\ line(n).item = lines[n].item
  BY <1>2, OrderingBounds DEF CartLines
<1>. HIDE DEF line
<1>4. [n \in DOMAIN lines |-> line(n)] \in Carts
  BY <1>3, SameItems
<1>. QED BY <1>4 DEF Decremented, line

LEMMA AddedCart ==
    ASSUME NEW lines \in Carts, NEW i \in Items
    PROVE  Added(lines, i) \in Carts
<1>1. lines \in Seq(CartLines) /\ Len(lines) <= MaxUnique /\ OneLineEach(lines)
  BY CartParts
<1>2. DOMAIN lines = 1 .. Len(lines) /\ Len(lines) \in Nat /\ \A n \in DOMAIN lines : lines[n] \in CartLines
  BY <1>1, LenProperties
<1>3. CASE Line(lines, i) # {}
  <2>. DEFINE line(n) == IF n \in Line(lines, i) /\ lines[n].quantity < MaxQuantity
                         THEN [lines[n] EXCEPT !.quantity = @ + 1] ELSE lines[n]
  <2>1. ASSUME NEW n \in DOMAIN lines
        PROVE  line(n) \in CartLines /\ line(n).item = lines[n].item
    BY <1>2, OrderingBounds DEF CartLines
  <2>. HIDE DEF line
  <2>2. [n \in DOMAIN lines |-> line(n)] \in Carts
    BY <2>1, SameItems
  <2>. QED BY <1>3, <2>2 DEF Added, line
<1>4. CASE Line(lines, i) = {} /\ Len(lines) < MaxUnique
  <2>. DEFINE new == Append(lines, [item |-> i, quantity |-> 1])
  <2>1. [item |-> i, quantity |-> 1] \in CartLines
    BY OrderingBounds DEF CartLines
  <2>2. new \in Seq(CartLines) /\ Len(new) = Len(lines) + 1 /\ new[Len(lines) + 1] = [item |-> i, quantity |-> 1]
        /\ \A n \in 1 .. Len(lines) : new[n] = lines[n]
    BY <1>1, <2>1, AppendProperties
  <2>3. DOMAIN new = 1 .. Len(lines) + 1
    BY <2>2, LenProperties
  <2>. HIDE DEF new
  <2>4. \A n \in DOMAIN lines : lines[n].item # i
    BY <1>4 DEF Line
  <2>5. new[Len(lines) + 1].item = i
    BY <2>2
  <2>6. ASSUME NEW m \in DOMAIN new, NEW n \in DOMAIN new, new[m].item = new[n].item PROVE m = n
    <3>1. m \in DOMAIN lines \/ m = Len(lines) + 1
      BY <1>2, <2>3
    <3>2. n \in DOMAIN lines \/ n = Len(lines) + 1
      BY <1>2, <2>3
    <3>3. \A k \in DOMAIN lines : new[k] = lines[k]
      BY <1>2, <2>2
    <3>. QED BY <1>1, <2>4, <2>5, <2>6, <3>1, <3>2, <3>3 DEF OneLineEach
  <2>7. Len(new) <= MaxUnique
    BY <1>2, <1>4, <2>2, OrderingBounds
  <2>. QED BY <1>4, <2>2, <2>6, <2>7, CartParts DEF Added, OneLineEach, new
<1>5. CASE Line(lines, i) = {} /\ ~(Len(lines) < MaxUnique)
  BY <1>5 DEF Added
<1>. QED BY <1>3, <1>4, <1>5

LEMMA RemovedCart ==
    ASSUME NEW lines \in Carts, NEW i \in Items
    PROVE  Removed(lines, i) \in Carts
<1>1. lines \in Seq(CartLines) /\ Len(lines) <= MaxUnique /\ OneLineEach(lines)
  BY CartParts
<1>2. DOMAIN lines = 1 .. Len(lines) /\ Len(lines) \in Nat /\ \A n \in DOMAIN lines : lines[n] \in CartLines
  BY <1>1, LenProperties
<1>3. ASSUME NEW k \in 1 .. Len(lines) PROVE RemoveAt(lines, k) \in Carts
  <2>. DEFINE s == SubSeq(lines, 1, k - 1)
              t == SubSeq(lines, k + 1, Len(lines))
              new == RemoveAt(lines, k)
  <2>1. s \in Seq(CartLines) /\ Len(s) = k - 1 /\ \A n \in 1 .. k - 1 : s[n] = lines[n]
    <3>1. \A n \in 1 .. k - 1 : lines[n] \in CartLines
      BY <1>2
    <3>. QED BY <1>2, <3>1, SubSeqProperties, Z3
  <2>2. t \in Seq(CartLines) /\ Len(t) = Len(lines) - k /\ \A n \in 1 .. Len(lines) - k : t[n] = lines[n + k]
    <3>1. \A n \in k + 1 .. Len(lines) : lines[n] \in CartLines
      BY <1>2
    <3>2. k + 1 \in Int /\ Len(lines) \in Int
      BY <1>2
    <3>3. /\ t \in Seq(CartLines)
          /\ Len(t) = IF k + 1 <= Len(lines) THEN Len(lines) - (k + 1) + 1 ELSE 0
          /\ \A n \in 1 .. Len(lines) - (k + 1) + 1 : t[n] = lines[k + 1 + n - 1]
      BY <3>1, <3>2, SubSeqProperties
    <3>4. Len(t) = Len(lines) - k /\ Len(lines) - (k + 1) + 1 = Len(lines) - k
      <4>1. \A a \in Nat : k <= a => /\ a - (k + 1) + 1 = a - k
                                     /\ (IF k + 1 <= a THEN a - (k + 1) + 1 ELSE 0) = a - k
        OBVIOUS
      <4>2. Len(t) = IF k + 1 <= Len(lines) THEN Len(lines) - (k + 1) + 1 ELSE 0
        BY <3>3
      <4>3. Len(lines) \in Nat /\ k <= Len(lines)
        BY <1>2
      <4>. HIDE DEF t
      <4>. QED BY <4>1, <4>2, <4>3
    <3>5. \A n \in 1 .. Len(lines) - k : k + 1 + n - 1 = n + k
      OBVIOUS
    <3>. QED BY <3>3, <3>4, <3>5
  <2>3. new = s \o t
    BY DEF RemoveAt
  <2>. HIDE DEF s, t, new
  <2>4. new \in Seq(CartLines) /\ Len(new) = Len(lines) - 1
        /\ \A n \in 1 .. Len(lines) - 1 : new[n] = IF n <= k - 1 THEN s[n] ELSE t[n - (k - 1)]
    <3>1. /\ new \in Seq(CartLines) /\ Len(new) = Len(s) + Len(t)
          /\ \A n \in 1 .. Len(s) + Len(t) : new[n] = IF n <= Len(s) THEN s[n] ELSE t[n - Len(s)]
      BY <2>1, <2>2, <2>3, ConcatProperties
    <3>2. Len(s) + Len(t) = Len(lines) - 1
      BY <1>2, <2>1, <2>2
    <3>. QED BY <2>1, <3>1, <3>2
  <2>5. DOMAIN new = 1 .. Len(lines) - 1
    BY <2>4, LenProperties
  <2>6. ASSUME NEW n \in DOMAIN new
        PROVE  /\ (IF n <= k - 1 THEN n ELSE n + 1) \in DOMAIN lines
               /\ new[n] = lines[IF n <= k - 1 THEN n ELSE n + 1]
    <3>1. n \in 1 .. Len(lines) - 1
      BY <2>5
    <3>2. CASE n <= k - 1
      BY <1>2, <2>1, <2>4, <3>1, <3>2
    <3>3. CASE ~(n <= k - 1)
      <4>1. n - (k - 1) \in 1 .. Len(lines) - k /\ n - (k - 1) + k = n + 1 /\ n + 1 \in DOMAIN lines
        BY <1>2, <3>1, <3>3
      <4>2. t[n - (k - 1)] = lines[n + 1]
        BY <2>2, <4>1
      <4>. QED BY <2>4, <3>1, <3>3, <4>1, <4>2
    <3>. QED BY <3>2, <3>3
  <2>7. OneLineEach(new)
    <3>. SUFFICES ASSUME NEW m \in DOMAIN new, NEW n \in DOMAIN new, new[m].item = new[n].item PROVE m = n
      BY DEF OneLineEach
    <3>1. (IF m <= k - 1 THEN m ELSE m + 1) = (IF n <= k - 1 THEN n ELSE n + 1)
      BY <1>1, <2>6 DEF OneLineEach
    <3>. QED BY <2>5, <3>1
  <2>. QED BY <1>1, <1>2, <2>4, <2>7, OrderingBounds, CartParts DEF new
<1>4. ASSUME Line(lines, i) # {} PROVE (CHOOSE n \in Line(lines, i) : TRUE) \in 1 .. Len(lines)
  BY <1>2, <1>4 DEF Line
<1>. QED BY <1>3, <1>4 DEF Removed

-----------------------------------------------------------------------------
(* The invariant.                                                          *)

CartType == [lines : Carts, works : BOOLEAN]
PageType == [place : ShopPlaces, visit : Visits, armed : BOOLEAN, quote : Quotes, order : OrderStates,
             table : Tables]
AskType == [visit : Visits, of : Carts]
RunType == [visit : Visits, step : {"quoting", "creating"}, items : Carts, deliberate : BOOLEAN,
            latest : Carts, phase : ShopPhases, session : ShopSessions, request : Nat]

ShopperTyped ==
    /\ shopper \in [phase : ShopPhases, session : ShopSessions]
    /\ shopper.session = 0 <=> shopper.phase = "guest"

RunTyped(r) ==
    /\ r.items # <<>> /\ r.visit \in 1 .. page.visit
    /\ r.step = "creating" => r.request \in DOMAIN sent /\ sent[r.request].result = "pending"

Unsettled == {"pending", "unauthorized"}

\* Only the latest order of a visit is unanswered or was rejected, and then no run of the
\* visit is about to send another.
LatestOnly ==
    /\ \A j, k \in DOMAIN sent : j < k /\ sent[j].visit = sent[k].visit => sent[j].result \notin Unsettled
    /\ \A r \in runs, j \in DOMAIN sent :
        r.step = "quoting" /\ sent[j].visit = r.visit => sent[j].result \notin Unsettled

\* A visit has one run, and a run that waits for an answer waits for an order of its visit.
RunsOfVisits ==
    /\ \A q, r \in runs : q.visit = r.visit => q = r
    /\ \A r \in runs : r.step = "creating" => sent[r.request].visit = r.visit
    /\ \A j \in DOMAIN sent : sent[j].visit \in 1 .. page.visit

\* What the page shown knows of its visit: whether a run is under way, and in which step,
\* that an unanswered order has its run, and that an order was rejected.
PageKnows ==
    page.place = "cart" =>
        /\ page.visit # 0
        /\ page.order = "refreshing-quote" <=> \E r \in runs : Mounted(r) /\ r.step = "quoting"
        /\ page.order = "creating" <=> \E r \in runs : Mounted(r) /\ r.step = "creating"
        /\ \A j \in DOMAIN sent : sent[j].visit = page.visit =>
            /\ sent[j].result = "pending" => \E r \in runs : r.step = "creating" /\ r.request = j
            /\ sent[j].result = "unauthorized" => page.order = "session-expired"

RunsInv == LatestOnly /\ RunsOfVisits /\ PageKnows

OrderingInv == OrderingTypeOK /\ QuoteFollowsTheCart /\ RunsInv

LEMMA OrderingParts ==
    OrderingTypeOK <=>
        /\ cart \in CartType /\ ShopperTyped /\ page \in PageType
        /\ asks \subseteq AskType /\ \A q \in asks : q.visit = page.visit
        /\ runs \subseteq RunType /\ \A r \in runs : RunTyped(r)
        /\ sent \in Seq(Orders)
BY DEF OrderingTypeOK, CartType, ShopperTyped, PageType, AskType, RunType, RunTyped

LEMMA InvariantGivesTheRest == OrderingInv => OneRunPerVisit /\ NothingAfterRejection
BY DEF OrderingInv, RunsInv, LatestOnly, RunsOfVisits, PageKnows, OneRunPerVisit, NothingAfterRejection, Unsettled

-----------------------------------------------------------------------------
(* Types of the operators.                                                 *)

LEMMA CartTyped ==
    ASSUME cart \in CartType
    PROVE  /\ cart.lines \in Carts /\ cart.works \in BOOLEAN /\ RestoredCart \in Carts
           /\ \A lines \in Carts : /\ [cart EXCEPT !.lines = lines] \in CartType
                                   /\ [cart EXCEPT !.lines = lines].lines = lines
BY EmptyCart DEF CartType, RestoredCart

LEMMA MountTyped ==
    ASSUME NEW place \in ShopPlaces, NEW visit \in Visits, NEW lines \in Carts
    PROVE  /\ Mount(place, visit, lines) \in PageType
           /\ Mount(place, visit, lines).place = place /\ Mount(place, visit, lines).visit = visit
           /\ Mount(place, visit, lines).order = "idle"
           /\ Mount(place, visit, lines).armed <=> place = "cart" /\ lines # <<>>
<1>1. (place = "cart" /\ lines # <<>>) \in BOOLEAN
  OBVIOUS
<1>2. NoQuote \in Quotes
  BY EmptyCart DEF NoQuote, Quotes
<1>. QED BY <1>1, <1>2 DEF Mount, PageType, OrderStates, Tables

LEMMA QuotedTyped ==
    ASSUME NEW lines \in Carts, NEW ok \in BOOLEAN
    PROVE  Quoted(lines, ok) \in Quotes /\ Quoted(lines, ok).of = lines
           /\ Quoted(lines, ok).status = IF ok THEN "success" ELSE "error"
BY DEF Quoted, Quotes

LEMMA FrozenTyped ==
    ASSUME cart \in CartType, ShopperTyped, NEW r \in RunType
    PROVE  /\ Frozen(r) \in RunType /\ Frozen(r).visit = r.visit /\ Frozen(r).step = r.step
           /\ Frozen(r).items = r.items /\ Frozen(r).request = r.request
BY CartTyped DEF Frozen, RunType, ShopperTyped

\* Runs that lose their page are the runs they were.
LEMMA FrozenRuns ==
    ASSUME OrderingInv, NEW R \in SUBSET runs, runs' = {Frozen(r) : r \in R}
    PROVE  /\ runs' \subseteq RunType
           /\ \A q \in runs' : \E r \in R : /\ q.visit = r.visit /\ q.step = r.step
                                            /\ q.items = r.items /\ q.request = r.request
           /\ \A q, r \in runs' : q.visit = r.visit => q = r
<1>1. cart \in CartType /\ ShopperTyped /\ runs \subseteq RunType
  BY OrderingParts DEF OrderingInv
<1>2. \A r \in R : /\ Frozen(r) \in RunType /\ Frozen(r).visit = r.visit /\ Frozen(r).step = r.step
                   /\ Frozen(r).items = r.items /\ Frozen(r).request = r.request
  BY <1>1, FrozenTyped
<1>3. \A q, r \in R : q.visit = r.visit => q = r
  BY DEF OrderingInv, RunsInv, RunsOfVisits
<1>4. ASSUME NEW q \in runs' PROVE \E r \in R : q = Frozen(r)
  BY <1>4
<1>5. ASSUME NEW q \in runs', NEW r \in runs', q.visit = r.visit PROVE q = r
  <2>1. PICK s \in R : q = Frozen(s)
    BY <1>4
  <2>2. PICK t \in R : r = Frozen(t)
    BY <1>4
  <2>. QED BY <1>2, <1>3, <1>5, <2>1, <2>2
<1>. QED BY <1>2, <1>4, <1>5

-----------------------------------------------------------------------------
(* Steps that leave runs and requests as they are.                         *)

LEMMA QuietRuns ==
    ASSUME RunsInv, UNCHANGED <<runs, sent>>,
           page'.place = page.place, page'.visit = page.visit,
           page'.order = page.order \/ (page.order = "table-error" /\ page'.order = "idle")
    PROVE  RunsInv'
<1>1. LatestOnly'
  BY DEF RunsInv, LatestOnly
<1>2. RunsOfVisits'
  BY DEF RunsInv, RunsOfVisits
<1>3. PageKnows'
  BY DEF RunsInv, PageKnows, Mounted
<1>. QED BY <1>1, <1>2, <1>3 DEF RunsInv

LEMMA PageOnlyStep ==
    ASSUME OrderingInv, UNCHANGED <<runs, sent>>,
           cart' \in CartType, ShopperTyped', page' \in PageType,
           page'.place = page.place, page'.visit = page.visit,
           page'.order = page.order \/ (page.order = "table-error" /\ page'.order = "idle"),
           asks' \subseteq AskType, \A q \in asks' : q.visit = page.visit,
           QuoteFollowsTheCart'
    PROVE  OrderingInv'
<1>1. RunsInv'
  BY QuietRuns DEF OrderingInv
<1>2. \A r \in runs : RunTyped(r)
  BY OrderingParts DEF OrderingInv
<1>3. \A r \in runs' : RunTyped(r)'
  BY <1>2 DEF RunTyped
<1>4. runs' \subseteq RunType /\ sent' \in Seq(Orders)
  BY OrderingParts DEF OrderingInv
<1>5. OrderingTypeOK'
  BY <1>3, <1>4 DEF OrderingTypeOK, CartType, ShopperTyped, PageType, AskType, RunType, RunTyped
<1>. QED BY <1>1, <1>5 DEF OrderingInv

LEMMA TypesOf ==
    ASSUME OrderingInv
    PROVE  /\ cart \in CartType /\ ShopperTyped /\ page \in PageType
           /\ asks \subseteq AskType /\ \A q \in asks : q.visit = page.visit
           /\ runs \subseteq RunType /\ \A r \in runs : RunTyped(r)
           /\ sent \in Seq(Orders) /\ DOMAIN sent = 1 .. Len(sent) /\ Len(sent) \in Nat
           /\ \A j \in DOMAIN sent : sent[j] \in Orders
<1>1. sent \in Seq(Orders)
  BY OrderingParts DEF OrderingInv
<1>2. DOMAIN sent = 1 .. Len(sent) /\ Len(sent) \in Nat /\ \A j \in DOMAIN sent : sent[j] \in Orders
  BY <1>1, LenProperties
<1>. QED BY <1>1, <1>2, OrderingParts DEF OrderingInv

\* The page with another quote, debounce, order state or table.
LEMMA PageChanges ==
    ASSUME page \in PageType, NEW armed \in BOOLEAN, NEW quote \in Quotes, NEW order \in OrderStates
    PROVE  /\ [page EXCEPT !.armed = armed] \in PageType
           /\ [page EXCEPT !.quote = quote] \in PageType
           /\ [page EXCEPT !.armed = armed, !.quote = quote] \in PageType
           /\ [page EXCEPT !.order = order] \in PageType
           /\ [page EXCEPT !.order = order, !.quote = quote] \in PageType
BY DEF PageType

LEMMA AddItemStep ==
    ASSUME OrderingInv, NEW i \in Items, AddItem(i)
    PROVE  OrderingInv'
<1>1. page.place = "menu" /\ cart' = [cart EXCEPT !.lines = Added(cart.lines, i)]
      /\ UNCHANGED <<shopper, page, asks, runs, sent>>
  BY DEF AddItem
<1>2. cart' \in CartType
  BY <1>1, TypesOf, CartTyped, AddedCart
<1>3. QuoteFollowsTheCart'
  BY <1>1 DEF QuoteFollowsTheCart, Open
<1>4. ShopperTyped'
  BY <1>1, TypesOf DEF ShopperTyped
<1>. QED BY <1>1, <1>2, <1>3, <1>4, TypesOf, PageOnlyStep

LEMMA ChangeLineStep ==
    ASSUME OrderingInv, NEW i \in Items, ChangeLine(i)
    PROVE  OrderingInv'
<1>1. PICK lines \in {Added(cart.lines, i), Decremented(cart.lines, i), Removed(cart.lines, i), <<>>} :
        CartChanges(lines)
  BY DEF ChangeLine
<1>2. lines \in Carts
  BY TypesOf, CartTyped, AddedCart, DecrementedCart, RemovedCart, EmptyCart
<1>3. PICK armed \in BOOLEAN : armed <=> lines # <<>>
  OBVIOUS
<1>4. /\ cart' = [cart EXCEPT !.lines = lines] /\ page' = [page EXCEPT !.armed = armed] /\ asks' = {}
      /\ UNCHANGED <<shopper, runs, sent>>
  BY <1>1, <1>3 DEF CartChanges
<1>5. cart' \in CartType /\ cart'.lines = lines
  BY <1>2, <1>4, TypesOf, CartTyped
<1>6. page' \in PageType /\ page'.place = page.place /\ page'.visit = page.visit /\ page'.order = page.order
      /\ page'.armed = armed
  BY <1>4, TypesOf, PageChanges DEF PageType
<1>7. QuoteFollowsTheCart'
  BY <1>3, <1>5, <1>6 DEF QuoteFollowsTheCart, Open
<1>8. ShopperTyped'
  BY <1>4, TypesOf DEF ShopperTyped
<1>. QED BY <1>4, <1>5, <1>6, <1>7, <1>8, PageOnlyStep

LEMMA ChooseTableStep ==
    ASSUME OrderingInv, ChooseTable
    PROVE  OrderingInv'
<1>1. PICK t \in Tables :
        page' = [page EXCEPT !.table = t, !.order = IF @ = "table-error" THEN "idle" ELSE @]
  BY DEF ChooseTable
<1>2. UNCHANGED <<cart, shopper, asks, runs, sent>>
  BY DEF ChooseTable
<1>3. /\ page' \in PageType /\ page'.place = page.place /\ page'.visit = page.visit
      /\ page'.armed = page.armed /\ page'.quote = page.quote
      /\ page'.order = page.order \/ (page.order = "table-error" /\ page'.order = "idle")
  BY <1>1, TypesOf DEF PageType, OrderStates
<1>4. QuoteFollowsTheCart'
  BY <1>2, <1>3 DEF OrderingInv, QuoteFollowsTheCart, Open, QuoteIsCurrent, QuoteErrorIsCurrent
<1>5. ShopperTyped' /\ cart' \in CartType /\ asks' \subseteq AskType /\ \A q \in asks' : q.visit = page.visit
  BY <1>2, TypesOf DEF ShopperTyped
<1>. QED BY <1>2, <1>3, <1>4, <1>5, PageOnlyStep

LEMMA DebounceEndsStep ==
    ASSUME OrderingInv, DebounceEnds
    PROVE  OrderingInv'
<1>. DEFINE quote == [status |-> "pending", of |-> cart.lines]
<1>1. /\ page' = [page EXCEPT !.armed = FALSE, !.quote = quote]
      /\ asks' = asks \cup {[visit |-> page.visit, of |-> cart.lines]}
      /\ UNCHANGED <<cart, shopper, runs, sent>>
  BY DEF DebounceEnds
<1>2. quote \in Quotes
  BY TypesOf, CartTyped DEF Quotes
<1>. HIDE DEF quote
<1>3. page' \in PageType /\ page'.place = page.place /\ page'.visit = page.visit /\ page'.order = page.order
  BY <1>1, <1>2, TypesOf, PageChanges DEF PageType
<1>4. asks' \subseteq AskType /\ \A q \in asks' : q.visit = page.visit
  BY <1>1, TypesOf, CartTyped DEF AskType, PageType
<1>5. QuoteFollowsTheCart'
  <2>1. [visit |-> page.visit, of |-> cart.lines] \in asks' /\ cart' = cart
    BY <1>1
  <2>2. \E q \in asks' : q.of = cart'.lines
    BY <2>1
  <2>. QED BY <2>2 DEF QuoteFollowsTheCart
<1>6. ShopperTyped' /\ cart' \in CartType
  BY <1>1, TypesOf DEF ShopperTyped
<1>. QED BY <1>1, <1>3, <1>4, <1>5, <1>6, PageOnlyStep

LEMMA QuoteAnsweredStep ==
    ASSUME OrderingInv, NEW q \in asks, QuoteAnswered(q)
    PROVE  OrderingInv'
<1>1. PICK ok \in BOOLEAN : page' = [page EXCEPT !.quote = IF q.of = cart.lines THEN Quoted(q.of, ok) ELSE @]
  BY DEF QuoteAnswered
<1>2. asks' = asks \ {q} /\ UNCHANGED <<cart, shopper, runs, sent>>
  BY DEF QuoteAnswered
<1>3. q.of \in Carts
  BY TypesOf DEF AskType
<1>4. CASE q.of = cart.lines
  <2>1. page' = [page EXCEPT !.quote = Quoted(q.of, ok)]
    BY <1>1, <1>4
  <2>2. page' \in PageType /\ page'.place = page.place /\ page'.visit = page.visit /\ page'.order = page.order
        /\ page'.quote = Quoted(q.of, ok)
    BY <1>3, <2>1, TypesOf, QuotedTyped, PageChanges DEF PageType
  <2>3. QuoteFollowsTheCart'
    BY <1>2, <1>3, <1>4, <2>2, QuotedTyped DEF QuoteFollowsTheCart, QuoteIsCurrent, QuoteErrorIsCurrent
  <2>4. ShopperTyped' /\ cart' \in CartType /\ asks' \subseteq AskType /\ \A a \in asks' : a.visit = page.visit
    BY <1>2, TypesOf DEF ShopperTyped
  <2>. QED BY <1>2, <2>2, <2>3, <2>4, PageOnlyStep
<1>5. CASE q.of # cart.lines
  <2>1. page' = page
    BY <1>1, <1>5, TypesOf DEF PageType
  <2>2. QuoteFollowsTheCart'
    BY <1>2, <1>5, <2>1
    DEF OrderingInv, QuoteFollowsTheCart, Open, QuoteIsCurrent, QuoteErrorIsCurrent
  <2>3. ShopperTyped' /\ cart' \in CartType /\ asks' \subseteq AskType /\ \A a \in asks' : a.visit = page.visit
    BY <1>2, TypesOf DEF ShopperTyped
  <2>. QED BY <1>2, <2>1, <2>2, <2>3, TypesOf, PageOnlyStep
<1>. QED BY <1>4, <1>5

LEMMA RetryQuoteStep ==
    ASSUME OrderingInv, RetryQuote
    PROVE  OrderingInv'
<1>1. page' = [page EXCEPT !.armed = TRUE] /\ asks' = {} /\ UNCHANGED <<cart, shopper, runs, sent>>
  BY DEF RetryQuote
<1>2. page' \in PageType /\ page'.place = page.place /\ page'.visit = page.visit /\ page'.order = page.order
      /\ page'.armed
  BY <1>1, TypesOf, PageChanges DEF PageType
<1>3. QuoteFollowsTheCart'
  BY <1>2 DEF QuoteFollowsTheCart
<1>4. ShopperTyped' /\ cart' \in CartType
  BY <1>1, TypesOf DEF ShopperTyped
<1>. QED BY <1>1, <1>2, <1>3, <1>4, PageOnlyStep

\* The session changes, and the page is where it was.
LEMMA ShopperSteps ==
    ASSUME OrderingInv,
           SessionResolves \/ SessionEnds \/ \E n \in 1 .. MaxSessions : ShopperSignsIn(n)
    PROVE  OrderingInv'
<1>1. UNCHANGED <<cart, page, asks, runs, sent>>
  BY DEF SessionResolves, SessionEnds, ShopperSignsIn
<1>2. ShopperTyped'
  <2>1. 0 \in ShopSessions /\ Anonymous.phase = "guest" /\ Anonymous.session = 0
        /\ Anonymous \in [phase : ShopPhases, session : ShopSessions]
    BY OrderingBounds DEF Anonymous, ShopSessions, ShopPhases
  <2>2. CASE SessionResolves \/ SessionEnds
    BY <2>1, <2>2, TypesOf DEF SessionResolves, SessionEnds, ShopperTyped, ShopPhases
  <2>3. ASSUME NEW n \in 1 .. MaxSessions, ShopperSignsIn(n) PROVE ShopperTyped'
    BY <2>3, OrderingBounds DEF ShopperSignsIn, ShopperTyped, ShopPhases, ShopSessions
  <2>. QED BY <2>2, <2>3
<1>3. QuoteFollowsTheCart'
  BY <1>1 DEF OrderingInv, QuoteFollowsTheCart, Open, QuoteIsCurrent, QuoteErrorIsCurrent
<1>. QED BY <1>1, <1>2, <1>3, TypesOf, PageOnlyStep

-----------------------------------------------------------------------------
(* Steps that mount a page: nothing of an earlier visit is the new page's. *)

\* The orders sent are the same; one that was unanswered may have been answered.
SameOrders ==
    /\ sent' \in Seq(Orders) /\ DOMAIN sent' = DOMAIN sent
    /\ \A j \in DOMAIN sent : /\ sent'[j].visit = sent[j].visit
                              /\ sent'[j].result \in Unsettled => sent'[j].result = sent[j].result

\* Every run is one of R as it was, but for what its refs hold.
RunsOf(R) ==
    /\ \A q \in runs' : \E r \in R : /\ q.visit = r.visit /\ q.step = r.step
                                     /\ q.items = r.items /\ q.request = r.request
    /\ \A q, r \in runs' : q.visit = r.visit => q = r

LEMMA KeptLatestOnly ==
    ASSUME LatestOnly, SameOrders, NEW R \in SUBSET runs, RunsOf(R)
    PROVE  LatestOnly'
<1>1. \A j \in DOMAIN sent : /\ sent'[j].result \in Unsettled => sent[j].result \in Unsettled
                             /\ sent'[j].visit = sent[j].visit
  BY DEF SameOrders
<1>2. DOMAIN sent' = DOMAIN sent
  BY DEF SameOrders
<1>3. \A j, k \in DOMAIN sent' : j < k /\ sent'[j].visit = sent'[k].visit => sent'[j].result \notin Unsettled
  BY <1>1, <1>2 DEF LatestOnly
<1>4. ASSUME NEW q \in runs', NEW j \in DOMAIN sent', q.step = "quoting", sent'[j].visit = q.visit
      PROVE  sent'[j].result \notin Unsettled
  <2>1. PICK r \in R : q.visit = r.visit /\ q.step = r.step
    BY DEF RunsOf
  <2>2. r \in runs /\ j \in DOMAIN sent /\ sent[j].visit = r.visit /\ r.step = "quoting"
    BY <1>1, <1>2, <1>4, <2>1
  <2>. QED BY <1>1, <2>2 DEF LatestOnly
<1>. QED BY <1>3, <1>4 DEF LatestOnly

LEMMA NewPageRuns ==
    ASSUME RunsInv, SameOrders, NEW R \in SUBSET runs, RunsOf(R), \A r \in runs : RunTyped(r),
           \A r \in R : r.step = "creating" => sent'[r.request].result = "pending",
           page.visit \in Nat, page'.visit \in Nat, page.visit <= page'.visit,
           page'.place = "cart" => page.visit < page'.visit, page'.order = "idle"
    PROVE  RunsInv' /\ \A q \in runs' : RunTyped(q)'
<1>1. LatestOnly'
  BY KeptLatestOnly DEF RunsInv
<1>2. \A r \in R : /\ r.items # <<>> /\ r.visit \in 1 .. page.visit /\ r.visit \in 1 .. page'.visit
                   /\ r.step = "creating" => /\ r.request \in DOMAIN sent /\ sent[r.request].visit = r.visit
                                             /\ sent'[r.request].result = "pending"
  BY DEF RunTyped, RunsInv, RunsOfVisits
<1>3. DOMAIN sent' = DOMAIN sent /\ \A j \in DOMAIN sent : sent'[j].visit = sent[j].visit
  BY DEF SameOrders
<1>4. ASSUME NEW q \in runs'
      PROVE  /\ q.items # <<>> /\ q.visit \in 1 .. page.visit /\ q.visit \in 1 .. page'.visit
             /\ q.step = "creating" => /\ q.request \in DOMAIN sent' /\ sent'[q.request].visit = q.visit
                                       /\ sent'[q.request].result = "pending"
  <2>1. PICK r \in R : q.visit = r.visit /\ q.step = r.step /\ q.items = r.items /\ q.request = r.request
    BY DEF RunsOf
  <2>. QED BY <1>2, <1>3, <2>1
<1>5. \A j \in DOMAIN sent' : sent'[j].visit \in 1 .. page.visit /\ sent'[j].visit \in 1 .. page'.visit
  BY <1>3 DEF RunsInv, RunsOfVisits
<1>6. RunsOfVisits'
  BY <1>4, <1>5 DEF RunsOfVisits, RunsOf
<1>7. PageKnows'
  <2>. SUFFICES ASSUME page'.place = "cart" PROVE PageKnows'
    BY DEF PageKnows
  <2>1. \A q \in runs' : q.visit # page'.visit
    BY <1>4
  <2>2. \A j \in DOMAIN sent' : sent'[j].visit # page'.visit
    BY <1>5
  <2>. QED BY <2>1, <2>2 DEF PageKnows, Mounted
<1>. QED BY <1>1, <1>4, <1>6, <1>7 DEF RunsInv, RunTyped

LEMMA MountStep ==
    ASSUME OrderingInv, NEW place \in ShopPlaces, NEW lines \in Carts, NEW R \in SUBSET runs,
           place = "cart" => page.visit < MaxVisits,
           page' = Mount(place, IF place = "cart" THEN page.visit + 1 ELSE page.visit, lines),
           cart' = [cart EXCEPT !.lines = lines], asks' = {},
           runs' = {Frozen(r) : r \in R}, ShopperTyped', SameOrders,
           \A r \in R : r.step = "creating" => sent'[r.request].result = "pending"
    PROVE  OrderingInv'
<1>1. page.visit \in Visits
  BY TypesOf DEF PageType
<1>2. PICK visit \in Visits : /\ visit = IF place = "cart" THEN page.visit + 1 ELSE page.visit
                              /\ page.visit <= visit
                              /\ place = "cart" => page.visit < visit
  <2>1. CASE place = "cart"
    <3>1. page.visit + 1 \in Visits /\ page.visit < page.visit + 1 /\ page.visit <= page.visit + 1
      BY <1>1, <2>1, OrderingBounds DEF Visits
    <3>. QED BY <2>1, <3>1
  <2>2. CASE place # "cart"
    BY <1>1, <2>2 DEF Visits
  <2>. QED BY <2>1, <2>2
<1>3. page' \in PageType /\ page'.place = place /\ page'.visit = visit /\ page'.order = "idle"
      /\ (page'.armed <=> place = "cart" /\ lines # <<>>)
  <2>1. page' = Mount(place, visit, lines)
    BY <1>2
  <2>. QED BY <2>1, MountTyped
<1>4. cart' \in CartType /\ cart'.lines = lines
  BY TypesOf, CartTyped
<1>5. runs' \subseteq RunType /\ RunsOf(R)
  BY FrozenRuns DEF RunsOf
<1>6. RunsInv' /\ \A q \in runs' : RunTyped(q)'
  <2>1. page.visit \in Nat /\ page'.visit \in Nat
    BY <1>1, <1>3 DEF Visits
  <2>2. RunsInv /\ \A r \in runs : RunTyped(r)
    BY TypesOf DEF OrderingInv
  <2>. QED BY <1>2, <1>3, <1>5, <2>1, <2>2, NewPageRuns
<1>7. OrderingTypeOK'
  <2>1. sent' \in Seq(Orders)
    BY DEF SameOrders
  <2>. QED BY <1>3, <1>4, <1>5, <1>6, <2>1
       DEF OrderingTypeOK, CartType, ShopperTyped, PageType, AskType, RunType, RunTyped
<1>8. QuoteFollowsTheCart'
  BY <1>3, <1>4 DEF QuoteFollowsTheCart, Open
<1>. QED BY <1>6, <1>7, <1>8 DEF OrderingInv

\* A step of the tab that goes elsewhere, with the runs and the requests it leaves.
LEMMA GoesStep ==
    ASSUME OrderingInv, NEW place \in ShopPlaces, Goes(place), NEW R \in SUBSET runs,
           runs' = {Frozen(r) : r \in R}, ShopperTyped', SameOrders,
           \A r \in R : r.step = "creating" => sent'[r.request].result = "pending"
    PROVE  OrderingInv'
<1>. DEFINE lines == IF page.place = "outside" THEN RestoredCart ELSE cart.lines
<1>1. lines \in Carts
  BY TypesOf, CartTyped
<1>2. /\ place = "cart" => page.visit < MaxVisits
      /\ page' = Mount(place, IF place = "cart" THEN page.visit + 1 ELSE page.visit, lines)
      /\ cart' = [cart EXCEPT !.lines = lines] /\ asks' = {}
  BY DEF Goes
<1>. HIDE DEF lines
<1>. QED BY <1>1, <1>2, MountStep

LEMMA UnchangedSent ==
    ASSUME OrderingInv, UNCHANGED sent
    PROVE  SameOrders /\ \A r \in runs : r.step = "creating" => sent'[r.request].result = "pending"
BY TypesOf DEF RunTyped, SameOrders

LEMMA AnonymousTyped == Anonymous \in [phase : ShopPhases, session : ShopSessions]
                        /\ Anonymous.session = 0 /\ Anonymous.phase = "guest"
BY OrderingBounds DEF Anonymous, ShopSessions, ShopPhases

LEMMA BrowseSteps ==
    ASSUME OrderingInv, Browse \/ RetryNavigation \/ ShopperSignsOut
    PROVE  OrderingInv'
<1>1. PICK place \in ShopPlaces : Goes(place)
  BY DEF Browse, RetryNavigation, ShopperSignsOut, ShopPlaces
<1>2. runs' = {Frozen(r) : r \in runs} /\ UNCHANGED sent
  BY DEF Browse, RetryNavigation, ShopperSignsOut
<1>3. ShopperTyped'
  BY TypesOf, AnonymousTyped DEF Browse, RetryNavigation, ShopperSignsOut, ShopperTyped
<1>. QED BY <1>1, <1>2, <1>3, UnchangedSent, GoesStep

LEMMA ReloadStepOfOrdering ==
    ASSUME OrderingInv, Reload
    PROVE  OrderingInv'
<1>1. /\ page.place = "cart" => page.visit < MaxVisits
      /\ page' = Mount(page.place, IF page.place = "cart" THEN page.visit + 1 ELSE page.visit, RestoredCart)
      /\ cart' = [cart EXCEPT !.lines = RestoredCart] /\ asks' = {} /\ runs' = {} /\ UNCHANGED sent
  BY DEF Reload
<1>2. page.place \in ShopPlaces /\ RestoredCart \in Carts
  BY TypesOf, CartTyped DEF PageType
<1>3. ShopperTyped'
  BY TypesOf, AnonymousTyped DEF Reload, ShopperTyped, ShopPhases
<1>4. runs' = {Frozen(r) : r \in {}} /\ {} \in SUBSET runs
  BY <1>1
<1>. QED BY <1>1, <1>2, <1>3, <1>4, UnchangedSent, MountStep

-----------------------------------------------------------------------------
(* Steps that end a run.                                                   *)

\* The step shows order state o and quote u, if the page of run r is still there.
LEMMA ShowsTyped ==
    ASSUME OrderingInv, NEW r \in runs, NEW o \in OrderStates, NEW u \in Quotes, Shows(r, o, u)
    PROVE  /\ page' \in PageType /\ page'.place = page.place /\ page'.visit = page.visit
           /\ page'.armed = page.armed
           /\ Mounted(r) => page'.order = o /\ page'.quote = u
           /\ ~Mounted(r) => page' = page
<1>. page \in PageType
  BY TypesOf
<1>1. CASE Mounted(r)
  <2>1. page' = [page EXCEPT !.order = o, !.quote = u]
    BY <1>1 DEF Shows
  <2>. QED BY <1>1, <2>1, PageChanges DEF PageType
<1>2. CASE ~Mounted(r)
  BY <1>2 DEF Shows
<1>. QED BY <1>1, <1>2

\* The run that ends was the visit's only one.
LEMMA RunEndsQuietly ==
    ASSUME RunsInv, NEW r \in runs, r.step = "quoting", runs' = runs \ {r}, UNCHANGED sent,
           page'.place = page.place, page'.visit = page.visit,
           Mounted(r) => page'.order \notin {"refreshing-quote", "creating"},
           ~Mounted(r) => page'.order = page.order
    PROVE  RunsInv'
<1>1. LatestOnly'
  BY DEF RunsInv, LatestOnly
<1>2. RunsOfVisits'
  BY DEF RunsInv, RunsOfVisits
<1>3. \A q \in runs : Mounted(q) <=> Mounted(q)'
  BY DEF Mounted
<1>4. CASE Mounted(r)
  <2>1. \A q \in runs' : ~Mounted(q)'
    BY <1>3, <1>4 DEF RunsInv, RunsOfVisits, Mounted
  <2>2. \A j \in DOMAIN sent : sent[j].visit = page.visit => sent[j].result \notin Unsettled
    BY <1>4 DEF RunsInv, LatestOnly, Mounted
  <2>. QED BY <1>1, <1>2, <1>4, <2>1, <2>2 DEF RunsInv, PageKnows, Unsettled
<1>5. CASE ~Mounted(r)
  <2>1. \A q \in runs : Mounted(q) => q \in runs'
    BY <1>5
  <2>2. \A q \in runs : q.step = "creating" => q \in runs'
    OBVIOUS
  <2>. QED BY <1>1, <1>2, <1>3, <1>5, <2>1, <2>2 DEF RunsInv, PageKnows
<1>. QED BY <1>4, <1>5

Results == {"pending", "created", "refused", "broken", "unauthorized", "lost"}

\* The run that has waited hears of its order, and of none else.
LEMMA EndsOrder ==
    ASSUME OrderingInv, NEW r \in runs, NEW result \in Results, Ends(r, result)
    PROVE  /\ r.step = "creating" /\ r.request \in DOMAIN sent /\ sent[r.request].result = "pending"
           /\ sent[r.request].visit = r.visit
           /\ sent' \in Seq(Orders) /\ DOMAIN sent' = DOMAIN sent
           /\ \A j \in DOMAIN sent :
               /\ sent'[j].visit = sent[j].visit
               /\ sent'[j].result = IF j = r.request THEN result ELSE sent[j].result
<1>1. /\ r.step = "creating" /\ r.request \in DOMAIN sent /\ sent[r.request].result = "pending"
      /\ sent[r.request].visit = r.visit
  BY TypesOf DEF Ends, RunTyped, OrderingInv, RunsInv, RunsOfVisits
<1>. DEFINE order == [sent[r.request] EXCEPT !.result = result]
<1>2. sent' = [sent EXCEPT ![r.request] = order]
  BY DEF Ends
<1>3. order \in Orders /\ order.visit = sent[r.request].visit /\ order.result = result
  BY <1>1, TypesOf DEF Orders, Results
<1>. HIDE DEF order
<1>4. sent' \in Seq(Orders) /\ DOMAIN sent' = DOMAIN sent
  BY <1>1, <1>2, <1>3, TypesOf, ExceptSeq
<1>5. ASSUME NEW j \in DOMAIN sent PROVE sent'[j] = IF j = r.request THEN order ELSE sent[j]
  BY <1>2
<1>. QED BY <1>1, <1>3, <1>4, <1>5

LEMMA RunHears ==
    ASSUME OrderingInv, NEW r \in runs, NEW result \in Results \ {"pending"}, Ends(r, result), runs' = runs \ {r},
           page'.place = page.place, page'.visit = page.visit,
           Mounted(r) => /\ page'.order \notin {"refreshing-quote", "creating"}
                         /\ result = "unauthorized" => page'.order = "session-expired",
           ~Mounted(r) => page'.order = page.order
    PROVE  RunsInv' /\ \A q \in runs' : RunTyped(q)'
<1>. DEFINE k == r.request
<1>1. /\ r.step = "creating" /\ k \in DOMAIN sent /\ sent[k].result = "pending" /\ sent[k].visit = r.visit
      /\ DOMAIN sent' = DOMAIN sent
      /\ \A j \in DOMAIN sent : /\ sent'[j].visit = sent[j].visit
                                /\ sent'[j].result = IF j = k THEN result ELSE sent[j].result
  BY EndsOrder
<1>. HIDE DEF k
<1>2. LatestOnly /\ RunsOfVisits /\ PageKnows
  BY DEF OrderingInv, RunsInv
<1>3. \A q \in runs' : q \in runs /\ q # r /\ q.visit # r.visit
  BY <1>2 DEF RunsOfVisits
<1>4. \A q \in runs' : q.step = "creating" => q.request # k
  BY <1>1, <1>2, <1>3 DEF RunsOfVisits
<1>5. \A j \in DOMAIN sent : j # k /\ sent[j].visit = r.visit => j < k
  <2>1. DOMAIN sent \subseteq Int
    BY TypesOf
  <2>2. ASSUME NEW j \in DOMAIN sent, k < j, sent[j].visit = r.visit PROVE FALSE
    BY <1>1, <1>2, <2>2 DEF LatestOnly, Unsettled
  <2>. QED BY <1>1, <2>1, <2>2
<1>6. \A j \in DOMAIN sent : j # k /\ sent[j].visit = r.visit => sent[j].result \notin Unsettled
  BY <1>1, <1>2, <1>5 DEF LatestOnly
<1>7. LatestOnly'
  <2>1. ASSUME NEW j \in DOMAIN sent', NEW l \in DOMAIN sent', j < l, sent'[j].visit = sent'[l].visit
        PROVE  sent'[j].result \notin Unsettled
    <3>1. j # k
      <4>1. ASSUME j = k PROVE FALSE
        BY <1>1, <1>2, <2>1, <4>1 DEF LatestOnly, Unsettled
      <4>. QED BY <4>1
    <3>. QED BY <1>1, <1>2, <2>1, <3>1 DEF LatestOnly
  <2>2. ASSUME NEW q \in runs', NEW j \in DOMAIN sent', q.step = "quoting", sent'[j].visit = q.visit
        PROVE  sent'[j].result \notin Unsettled
    BY <1>1, <1>2, <1>3, <2>2 DEF LatestOnly
  <2>. QED BY <2>1, <2>2 DEF LatestOnly
<1>8. RunsOfVisits'
  <2>1. \A q \in runs' : q.step = "creating" => q.request \in DOMAIN sent /\ sent[q.request].visit = q.visit
    BY <1>2, <1>3, TypesOf DEF RunsOfVisits, RunTyped
  <2>2. \A j \in DOMAIN sent' : sent'[j].visit \in 1 .. page'.visit
    BY <1>1, <1>2 DEF RunsOfVisits
  <2>. QED BY <1>1, <1>2, <1>3, <2>1, <2>2 DEF RunsOfVisits
<1>9. \A q \in runs' : RunTyped(q)'
  BY <1>1, <1>3, <1>4, TypesOf DEF RunTyped
<1>10. \A q \in runs : Mounted(q) <=> Mounted(q)'
  BY DEF Mounted
<1>11. CASE Mounted(r)
  <2>1. \A q \in runs' : ~Mounted(q)'
    BY <1>3, <1>10, <1>11 DEF Mounted
  <2>2. \A j \in DOMAIN sent' : sent'[j].visit = page'.visit =>
          /\ sent'[j].result # "pending"
          /\ sent'[j].result = "unauthorized" => page'.order = "session-expired"
    BY <1>1, <1>6, <1>11 DEF Mounted, Unsettled
  <2>3. PageKnows'
    BY <1>2, <1>11, <2>1, <2>2 DEF PageKnows
  <2>. QED BY <1>7, <1>8, <1>9, <2>3 DEF RunsInv
<1>12. CASE ~Mounted(r)
  <2>1. \A q \in runs : Mounted(q) => q \in runs'
    BY <1>12
  <2>2. \A q \in runs : q.request # k => q \in runs'
    BY DEF k
  <2>3. page.place = "cart" => \A j \in DOMAIN sent : sent[j].visit = page.visit => j # k
    BY <1>1, <1>12 DEF Mounted
  <2>4. PageKnows'
    <3>. SUFFICES ASSUME page.place = "cart" PROVE PageKnows'
      BY DEF PageKnows
    <3>1. \A j \in DOMAIN sent' : sent'[j].visit = page'.visit => j # k /\ sent'[j].result = sent[j].result
      BY <1>1, <2>3
    <3>2. /\ page'.order = "refreshing-quote" <=> \E q \in runs' : Mounted(q)' /\ q.step = "quoting"
          /\ page'.order = "creating" <=> \E q \in runs' : Mounted(q)' /\ q.step = "creating"
      BY <1>2, <1>3, <1>10, <1>12, <2>1 DEF PageKnows
    <3>3. \A j \in DOMAIN sent' : sent'[j].visit = page'.visit =>
            /\ sent'[j].result = "pending" => \E q \in runs' : q.step = "creating" /\ q.request = j
            /\ sent'[j].result = "unauthorized" => page'.order = "session-expired"
      BY <1>1, <1>2, <1>12, <2>2, <3>1 DEF PageKnows
    <3>. QED BY <1>2, <3>2, <3>3 DEF PageKnows
  <2>. QED BY <1>7, <1>8, <1>9, <2>4 DEF RunsInv
<1>. QED BY <1>11, <1>12

LEMMA RunEndsStep ==
    ASSUME OrderingInv, NEW r \in runs, runs' = runs \ {r}, UNCHANGED <<cart, asks>>, ShopperTyped',
           NEW o \in OrderStates \ {"refreshing-quote", "creating"}, NEW u \in Quotes, Shows(r, o, u),
           Mounted(r) => u = page.quote \/ (u.of = cart.lines /\ u.status \in {"success", "error"}),
           \/ r.step = "quoting" /\ UNCHANGED sent
           \/ \E result \in Results \ {"pending"} :
                Ends(r, result) /\ (result = "unauthorized" => o = "session-expired")
    PROVE  OrderingInv'
<1>1. /\ page' \in PageType /\ page'.place = page.place /\ page'.visit = page.visit
      /\ page'.armed = page.armed
      /\ Mounted(r) => page'.order = o /\ page'.quote = u
      /\ ~Mounted(r) => page' = page
  BY ShowsTyped
<1>2. RunsInv' /\ (\A q \in runs' : RunTyped(q)') /\ sent' \in Seq(Orders)
  <2>1. CASE r.step = "quoting" /\ UNCHANGED sent
    <3>1. RunsInv'
      BY <1>1, <2>1, RunEndsQuietly DEF OrderingInv
    <3>2. \A q \in runs' : RunTyped(q)'
      BY <1>1, <2>1, TypesOf DEF RunTyped
    <3>. QED BY <2>1, <3>1, <3>2, TypesOf
  <2>2. ASSUME NEW result \in Results \ {"pending"}, Ends(r, result), result = "unauthorized" => o = "session-expired"
        PROVE  RunsInv' /\ (\A q \in runs' : RunTyped(q)') /\ sent' \in Seq(Orders)
    BY <1>1, <2>2, RunHears, EndsOrder
  <2>. QED BY <2>1, <2>2
<1>3. OrderingTypeOK'
  <2>1. cart' \in CartType /\ asks' \subseteq AskType /\ runs' \subseteq RunType
    BY TypesOf
  <2>2. \A q \in asks' : q.visit = page'.visit
    BY <1>1, TypesOf
  <2>. QED BY <1>1, <1>2, <2>1, <2>2
       DEF OrderingTypeOK, CartType, ShopperTyped, PageType, AskType, RunType, RunTyped
<1>4. QuoteFollowsTheCart'
  <2>1. Open' => Open
    BY <1>1 DEF Open
  <2>2. page'.quote = page.quote \/ (page'.quote.of = cart'.lines /\ page'.quote.status \in {"success", "error"})
    BY <1>1
  <2>. QED BY <1>1, <2>1, <2>2 DEF OrderingInv, QuoteFollowsTheCart, QuoteIsCurrent, QuoteErrorIsCurrent
<1>. QED BY <1>2, <1>3, <1>4 DEF OrderingInv

\* The fresh quote of a run is about the run's items; on a mounted page they are the cart's.
LEMMA RunItems ==
    ASSUME OrderingInv, NEW r \in runs
    PROVE  /\ r.items \in Carts /\ cart.lines \in Carts /\ page.quote \in Quotes
           /\ Mounted(r) /\ LatestSignature(r) = r.items => r.items = cart.lines
BY TypesOf, CartTyped DEF RunType, PageType, LatestSignature

LEMMA FreshQuoteFailsStep ==
    ASSUME OrderingInv, NEW r \in runs, FreshQuoteFails(r)
    PROVE  OrderingInv'
<1>. DEFINE u == IF LatestSignature(r) = r.items THEN Quoted(r.items, FALSE) ELSE page.quote
<1>1. r.step = "quoting" /\ Shows(r, "error", u) /\ runs' = runs \ {r} /\ UNCHANGED <<cart, shopper, asks, sent>>
  BY DEF FreshQuoteFails
<1>2. /\ u \in Quotes
      /\ Mounted(r) => u = page.quote \/ (u.of = cart.lines /\ u.status \in {"success", "error"})
  BY RunItems, QuotedTyped
<1>. HIDE DEF u
<1>3. "error" \in OrderStates \ {"refreshing-quote", "creating"}
  BY DEF OrderStates
<1>4. ShopperTyped'
  BY <1>1, TypesOf DEF ShopperTyped
<1>. QED BY <1>1, <1>2, <1>3, <1>4, RunEndsStep

LEMMA FreshQuoteStopsStep ==
    ASSUME OrderingInv, NEW r \in runs, FreshQuoteStops(r)
    PROVE  OrderingInv'
<1>1. r.step = "quoting" /\ runs' = runs \ {r} /\ UNCHANGED <<cart, shopper, asks, sent>>
  BY DEF FreshQuoteStops
<1>2. ShopperTyped'
  BY <1>1, TypesOf DEF ShopperTyped
<1>3. {"error", "idle", "session-expired"} \subseteq OrderStates \ {"refreshing-quote", "creating"}
  BY DEF OrderStates
<1>4. CASE Shows(r, "error", page.quote)
  BY <1>1, <1>2, <1>3, <1>4, RunItems, RunEndsStep
<1>5. ASSUME NEW o \in {"idle", "session-expired"}, LatestSignature(r) = r.items, Shows(r, o, Quoted(r.items, TRUE))
      PROVE  OrderingInv'
  <2>1. /\ Quoted(r.items, TRUE) \in Quotes
        /\ Mounted(r) => Quoted(r.items, TRUE).of = cart.lines /\ Quoted(r.items, TRUE).status = "success"
    BY <1>5, RunItems, QuotedTyped
  <2>. QED BY <1>1, <1>2, <1>3, <1>5, <2>1, RunEndsStep
<1>. QED BY <1>4, <1>5 DEF FreshQuoteStops

LEMMA AnswerSteps ==
    ASSUME OrderingInv, NEW r \in runs, OrderRefused(r) \/ OrderUnauthorized(r) \/ OrderUnknown(r)
    PROVE  OrderingInv'
<1>1. runs' = runs \ {r} /\ UNCHANGED <<cart, asks>>
  BY DEF OrderRefused, OrderUnauthorized, OrderUnknown
<1>2. ShopperTyped'
  BY TypesOf, AnonymousTyped DEF OrderRefused, OrderUnauthorized, OrderUnknown, ShopperTyped
<1>3. PICK o \in OrderStates \ {"refreshing-quote", "creating"}, result \in Results \ {"pending"} :
        Shows(r, o, page.quote) /\ Ends(r, result) /\ (result = "unauthorized" => o = "session-expired")
  <2>1. CASE OrderRefused(r)
    BY <2>1 DEF OrderRefused, OrderStates, Results
  <2>2. CASE OrderUnauthorized(r)
    BY <2>2 DEF OrderUnauthorized, OrderStates, Results
  <2>3. CASE OrderUnknown(r)
    BY <2>3 DEF OrderUnknown, OrderStates, Results
  <2>. QED BY <2>1, <2>2, <2>3
<1>. QED BY <1>1, <1>2, <1>3, RunItems, RunEndsStep

LEMMA OrderCreatedStep ==
    ASSUME OrderingInv, NEW r \in runs, OrderCreated(r)
    PROVE  OrderingInv'
<1>1. Ends(r, "created") /\ "created" \in Results \ {"pending"} /\ UNCHANGED shopper
  BY DEF OrderCreated, Results
<1>2. ShopperTyped'
  BY <1>1, TypesOf DEF ShopperTyped
<1>3. CASE Goes("checkout") /\ runs' = {Frozen(q) : q \in runs \ {r}}
  <2>1. /\ r.step = "creating" /\ sent[r.request].visit = r.visit
        /\ sent' \in Seq(Orders) /\ DOMAIN sent' = DOMAIN sent
        /\ \A j \in DOMAIN sent :
            /\ sent'[j].visit = sent[j].visit
            /\ sent'[j].result = IF j = r.request THEN "created" ELSE sent[j].result
    BY <1>1, EndsOrder
  <2>2. SameOrders
    BY <2>1 DEF SameOrders, Unsettled
  <2>3. ASSUME NEW q \in runs \ {r}, q.step = "creating" PROVE sent'[q.request].result = "pending"
    <3>1. q.request \in DOMAIN sent /\ sent[q.request].result = "pending" /\ sent[q.request].visit = q.visit
      BY <2>3, TypesOf DEF RunTyped, OrderingInv, RunsInv, RunsOfVisits
    <3>2. q.visit # r.visit
      BY DEF OrderingInv, RunsInv, RunsOfVisits
    <3>. QED BY <2>1, <3>1, <3>2
  <2>4. runs \ {r} \in SUBSET runs /\ "checkout" \in ShopPlaces
    BY DEF ShopPlaces
  <2>. QED BY <1>2, <1>3, <2>2, <2>3, <2>4, GoesStep
<1>4. CASE Shows(r, "navigation-error", page.quote) /\ runs' = runs \ {r} /\ UNCHANGED <<cart, asks>>
  <2>1. "navigation-error" \in OrderStates \ {"refreshing-quote", "creating"}
    BY DEF OrderStates
  <2>. QED BY <1>1, <1>2, <1>4, <2>1, RunItems, RunEndsStep
<1>. QED BY <1>3, <1>4 DEF OrderCreated

-----------------------------------------------------------------------------
(* A run starts, and sends its order.                                      *)

LEMMA SubmitOrderStep ==
    ASSUME OrderingInv, NEW deliberate \in BOOLEAN, SubmitOrder(deliberate)
    PROVE  OrderingInv'
<1>. DEFINE r == [visit |-> page.visit, step |-> "quoting", items |-> cart.lines, deliberate |-> deliberate,
                  latest |-> cart.lines, phase |-> shopper.phase, session |-> 0, request |-> 0]
<1>1. /\ page.place = "cart" /\ cart.lines # <<>> /\ QuoteIsCurrent /\ page.order # "session-expired"
      /\ \A q \in runs : ~Mounted(q)
      /\ page' = [page EXCEPT !.order = "refreshing-quote"] /\ runs' = runs \cup {r}
      /\ UNCHANGED <<cart, shopper, asks, sent>>
  BY DEF SubmitOrder, Open, Idle
<1>2. /\ r \in RunType /\ r.visit = page.visit /\ r.step = "quoting" /\ r.items = cart.lines
  BY TypesOf, CartTyped, OrderingBounds DEF RunType, PageType, ShopperTyped, ShopSessions
<1>. HIDE DEF r
<1>3. /\ page' \in PageType /\ page'.place = "cart" /\ page'.visit = page.visit /\ page'.quote = page.quote
      /\ page'.armed = page.armed /\ page'.order = "refreshing-quote"
  <2>1. "refreshing-quote" \in OrderStates
    BY DEF OrderStates
  <2>. QED BY <1>1, <2>1, TypesOf, PageChanges DEF PageType
<1>4. \A q \in runs : q.visit # page.visit /\ q.visit \in 1 .. page.visit
  BY <1>1, TypesOf DEF Mounted, RunTyped
<1>5. page.visit \in 1 .. page.visit
  <2>1. page.visit # 0
    BY <1>1 DEF OrderingInv, RunsInv, PageKnows
  <2>. QED BY <2>1, TypesOf, OrderingBounds DEF PageType, Visits
<1>6. \A j \in DOMAIN sent : sent[j].visit = page.visit => sent[j].result \notin Unsettled
  BY <1>1, <1>4 DEF OrderingInv, RunsInv, RunsOfVisits, PageKnows, Unsettled
<1>7. LatestOnly'
  BY <1>1, <1>2, <1>6 DEF OrderingInv, RunsInv, LatestOnly
<1>8. RunsOfVisits'
  BY <1>1, <1>2, <1>3, <1>4 DEF OrderingInv, RunsInv, RunsOfVisits
<1>9. PageKnows'
  <2>1. \A q \in runs' : Mounted(q)' <=> q = r
    BY <1>1, <1>2, <1>3, <1>4 DEF Mounted
  <2>2. page.visit # 0
    BY <1>1 DEF OrderingInv, RunsInv, PageKnows
  <2>. QED BY <1>1, <1>2, <1>3, <1>6, <2>1, <2>2 DEF PageKnows, Unsettled
<1>10. \A q \in runs' : RunTyped(q)'
  <2>1. \A q \in runs' : q = r => RunTyped(q)'
    BY <1>1, <1>2, <1>3, <1>5 DEF RunTyped
  <2>2. \A q \in runs : RunTyped(q)'
    BY <1>1, <1>3, TypesOf DEF RunTyped
  <2>. QED BY <1>1, <2>1, <2>2
<1>11. OrderingTypeOK'
  <2>1. cart' \in CartType /\ asks' \subseteq AskType /\ runs' \subseteq RunType /\ sent' \in Seq(Orders) /\ ShopperTyped'
    BY <1>1, <1>2, TypesOf DEF ShopperTyped
  <2>2. \A q \in asks' : q.visit = page'.visit
    BY <1>1, <1>3, TypesOf
  <2>. QED BY <1>3, <1>10, <2>1, <2>2
       DEF OrderingTypeOK, CartType, ShopperTyped, PageType, AskType, RunType, RunTyped
<1>12. QuoteFollowsTheCart'
  BY <1>1, <1>3 DEF QuoteFollowsTheCart, QuoteIsCurrent
<1>. QED BY <1>7, <1>8, <1>9, <1>11, <1>12 DEF OrderingInv, RunsInv

LEMMA SendOrderStep ==
    ASSUME OrderingInv, NEW r \in runs, SendOrder(r)
    PROVE  OrderingInv'
<1>0. PICK session \in ShopSessions : session = IF SeenPhase(r) = "customer" THEN shopper.session ELSE 0
  <2>1. shopper.session \in ShopSessions /\ 0 \in ShopSessions
    BY TypesOf, OrderingBounds DEF ShopperTyped, ShopSessions
  <2>. QED BY <2>1
<1>1. /\ sent' = Append(sent, [visit |-> r.visit, session |-> session, deliberate |-> r.deliberate,
                               result |-> "pending"])
      /\ runs' = (runs \ {r}) \cup
                     {[Frozen(r) EXCEPT !.step = "creating", !.session = session, !.request = Len(sent) + 1]}
  BY <1>0 DEF SendOrder
<1>2. r.step = "quoting" /\ LatestSignature(r) = r.items /\ Shows(r, "creating", Quoted(r.items, TRUE))
      /\ UNCHANGED <<cart, shopper, asks>>
  BY DEF SendOrder
<1>. DEFINE order == [visit |-> r.visit, session |-> session, deliberate |-> r.deliberate, result |-> "pending"]
            s == [Frozen(r) EXCEPT !.step = "creating", !.session = session, !.request = Len(sent) + 1]
            k == Len(sent) + 1
<1>3. r \in RunType /\ RunTyped(r) /\ k \in Nat /\ DOMAIN sent = 1 .. Len(sent) /\ Len(sent) \in Nat
  BY TypesOf
<1>4. order \in Orders /\ order.visit = r.visit /\ order.result = "pending"
  <2>1. r.visit \in Visits /\ r.deliberate \in BOOLEAN
    BY <1>3 DEF RunType
  <2>. QED BY <2>1 DEF Orders
<1>5. s \in RunType /\ s.visit = r.visit /\ s.step = "creating" /\ s.items = r.items /\ s.request = k
  <2>1. Frozen(r) \in RunType /\ Frozen(r).visit = r.visit /\ Frozen(r).items = r.items
    BY <1>3, TypesOf, FrozenTyped
  <2>. QED BY <1>3, <2>1 DEF RunType
<1>6. sent' = Append(sent, order) /\ runs' = (runs \ {r}) \cup {s}
  BY <1>1
<1>. HIDE DEF order, s
<1>7. /\ sent' \in Seq(Orders) /\ DOMAIN sent' = 1 .. k /\ sent'[k] = order
      /\ \A j \in DOMAIN sent : sent'[j] = sent[j]
  <2>1. /\ sent' \in Seq(Orders) /\ Len(sent') = k /\ sent'[k] = order
        /\ \A j \in 1 .. Len(sent) : sent'[j] = sent[j]
    BY <1>4, <1>6, TypesOf, AppendProperties
  <2>. QED BY <1>3, <2>1, LenProperties
<1>8. \A j \in DOMAIN sent' : (j \in DOMAIN sent /\ j < k) \/ j = k
  BY <1>3, <1>7
<1>. HIDE DEF k
<1>9. \A q \in runs : q # r => q.visit # r.visit
  BY DEF OrderingInv, RunsInv, RunsOfVisits
<1>10. \A j \in DOMAIN sent : sent[j].visit = r.visit => sent[j].result \notin Unsettled
  BY <1>2 DEF OrderingInv, RunsInv, LatestOnly
<1>11. /\ page' \in PageType /\ page'.place = page.place /\ page'.visit = page.visit
       /\ page'.armed = page.armed
       /\ Mounted(r) => page'.order = "creating" /\ page'.quote = Quoted(r.items, TRUE)
       /\ ~Mounted(r) => page' = page
  <2>1. "creating" \in OrderStates /\ Quoted(r.items, TRUE) \in Quotes
    BY RunItems, QuotedTyped DEF OrderStates
  <2>. QED BY <1>2, <2>1, ShowsTyped
<1>12. LatestOnly'
  <2>1. ASSUME NEW i \in DOMAIN sent', NEW j \in DOMAIN sent', i < j, sent'[i].visit = sent'[j].visit
        PROVE  sent'[i].result \notin Unsettled
    <3>1. i \in DOMAIN sent /\ sent'[i] = sent[i]
      BY <1>3, <1>7, <1>8, <2>1 DEF k
    <3>2. CASE j = k
      BY <1>4, <1>7, <1>10, <2>1, <3>1, <3>2
    <3>3. CASE j \in DOMAIN sent
      BY <1>7, <2>1, <3>1, <3>3 DEF OrderingInv, RunsInv, LatestOnly
    <3>. QED BY <1>8, <3>2, <3>3
  <2>2. ASSUME NEW q \in runs', NEW j \in DOMAIN sent', q.step = "quoting", sent'[j].visit = q.visit
        PROVE  sent'[j].result \notin Unsettled
    <3>1. q \in runs /\ q # r
      BY <1>2, <1>5, <1>6, <2>2
    <3>2. j \in DOMAIN sent
      BY <1>4, <1>7, <1>8, <1>9, <2>2, <3>1
    <3>. QED BY <1>7, <2>2, <3>1, <3>2 DEF OrderingInv, RunsInv, LatestOnly
  <2>. QED BY <2>1, <2>2 DEF LatestOnly
<1>13. \A q \in runs' : (q \in runs /\ q # r) \/ q = s
  BY <1>6
<1>14. r.visit \in 1 .. page.visit
  BY <1>3 DEF RunTyped
<1>15. \A q \in runs' : RunTyped(q)'
  <2>1. \A q \in runs' : q = s => RunTyped(q)'
    BY <1>3, <1>4, <1>5, <1>7, <1>8, <1>11, <1>14 DEF RunTyped, k
  <2>2. \A q \in runs : q # r => RunTyped(q)'
    BY <1>3, <1>7, <1>11, TypesOf DEF RunTyped, k
  <2>. QED BY <1>13, <2>1, <2>2
<1>16. RunsOfVisits'
  <2>1. \A p, q \in runs' : p.visit = q.visit => p = q
    BY <1>5, <1>9, <1>13 DEF OrderingInv, RunsInv, RunsOfVisits
  <2>2. ASSUME NEW q \in runs', q.step = "creating" PROVE sent'[q.request].visit = q.visit
    <3>1. CASE q = s
      BY <1>4, <1>5, <1>7, <3>1
    <3>2. CASE q \in runs
      BY <1>7, <2>2, <3>2, TypesOf DEF OrderingInv, RunsInv, RunsOfVisits, RunTyped
    <3>. QED BY <1>13, <3>1, <3>2
  <2>3. \A j \in DOMAIN sent' : sent'[j].visit \in 1 .. page'.visit
    BY <1>4, <1>7, <1>8, <1>11, <1>14 DEF OrderingInv, RunsInv, RunsOfVisits
  <2>. QED BY <2>1, <2>2, <2>3 DEF RunsOfVisits
<1>17. PageKnows'
  <2>. SUFFICES ASSUME page.place = "cart" PROVE PageKnows'
    BY <1>11 DEF PageKnows
  <2>1. page.visit # 0
    BY DEF OrderingInv, RunsInv, PageKnows
  <2>2. \A q \in runs : Mounted(q) <=> Mounted(q)'
    BY <1>11 DEF Mounted
  <2>3. CASE Mounted(r)
    <3>1. \A q \in runs' : Mounted(q)' <=> q = s
      BY <1>5, <1>9, <1>11, <1>13, <2>3 DEF Mounted
    <3>2. s \in runs' /\ page'.order = "creating"
      BY <1>6, <1>11, <2>3
    <3>3. \A j \in DOMAIN sent' : sent'[j].visit = page'.visit /\ sent'[j].result \in Unsettled => j = k
      BY <1>7, <1>8, <1>10, <1>11, <2>3 DEF Mounted
    <3>4. sent'[k].result = "pending"
      BY <1>4, <1>7
    <3>. QED BY <1>5, <1>11, <2>1, <3>1, <3>2, <3>3, <3>4 DEF PageKnows, Unsettled
  <2>4. CASE ~Mounted(r)
    <3>1. (\A q \in runs' : q = s => ~Mounted(q)') /\ r.visit # page.visit
      BY <1>5, <1>11, <2>4 DEF Mounted
    <3>2. \A q \in runs : Mounted(q) => q \in runs'
      BY <1>6, <2>4
    <3>3. \A q \in runs : q.step = "creating" => q \in runs'
      BY <1>2, <1>6
    <3>4. \A j \in DOMAIN sent' : sent'[j].visit = page'.visit => j \in DOMAIN sent /\ sent'[j] = sent[j]
      BY <1>4, <1>7, <1>8, <1>11, <3>1
    <3>5. page' = page
      BY <1>11, <2>4
    <3>6. PageKnows
      BY DEF OrderingInv, RunsInv
    <3>. QED BY <1>13, <2>1, <2>2, <3>1, <3>2, <3>3, <3>4, <3>5, <3>6 DEF PageKnows
  <2>. QED BY <2>3, <2>4
<1>18. OrderingTypeOK'
  <2>1. cart' \in CartType /\ asks' \subseteq AskType /\ runs' \subseteq RunType /\ ShopperTyped'
    BY <1>2, <1>5, <1>6, TypesOf DEF ShopperTyped
  <2>2. \A q \in asks' : q.visit = page'.visit
    BY <1>2, <1>11, TypesOf
  <2>. QED BY <1>7, <1>11, <1>15, <2>1, <2>2
       DEF OrderingTypeOK, CartType, ShopperTyped, PageType, AskType, RunType, RunTyped
<1>19. QuoteFollowsTheCart'
  <2>1. CASE Mounted(r)
    BY <1>2, <1>11, <2>1, RunItems, QuotedTyped DEF QuoteFollowsTheCart, QuoteIsCurrent
  <2>2. CASE ~Mounted(r)
    BY <1>2, <1>11, <2>2
    DEF OrderingInv, QuoteFollowsTheCart, Open, QuoteIsCurrent, QuoteErrorIsCurrent
  <2>. QED BY <2>1, <2>2
<1>. QED BY <1>12, <1>16, <1>17, <1>18, <1>19 DEF OrderingInv, RunsInv

-----------------------------------------------------------------------------
(* Theorems of the cart.                                                   *)

LEMMA OrderingStarts == OrderingInit => OrderingInv
<1>. SUFFICES ASSUME OrderingInit PROVE OrderingInv
  OBVIOUS
<1>1. /\ cart \in [lines : {<<>>}, works : BOOLEAN] /\ page = Mount("menu", 0, <<>>)
      /\ asks = {} /\ runs = {} /\ sent = <<>>
  BY DEF OrderingInit
<1>2. cart \in CartType /\ cart.lines = <<>>
  BY <1>1, EmptyCart DEF CartType
<1>3. page \in PageType /\ page.place = "menu"
  <2>1. "menu" \in ShopPlaces /\ 0 \in Visits
    BY OrderingBounds DEF ShopPlaces, Visits
  <2>. QED BY <1>1, <2>1, EmptyCart, MountTyped
<1>4. ShopperTyped
  <2>1. CASE shopper = Anonymous
    BY <2>1, AnonymousTyped DEF ShopperTyped
  <2>2. CASE shopper = [phase |-> "unresolved", session |-> 1]
    BY <2>2, OrderingBounds DEF ShopperTyped, ShopPhases, ShopSessions
  <2>. QED BY <2>1, <2>2 DEF OrderingInit
<1>5. OrderingTypeOK
  BY <1>1, <1>2, <1>3, <1>4, OrderingParts
<1>6. RunsInv
  BY <1>1, <1>3 DEF RunsInv, LatestOnly, RunsOfVisits, PageKnows
<1>7. QuoteFollowsTheCart
  BY <1>3 DEF QuoteFollowsTheCart, Open
<1>. QED BY <1>5, <1>6, <1>7 DEF OrderingInv

LEMMA OrderingKeeps == OrderingInv /\ [OrderingNext]_orderingVars => OrderingInv'
<1>. SUFFICES ASSUME OrderingInv, [OrderingNext]_orderingVars PROVE OrderingInv'
  OBVIOUS
<1>1. CASE Browse \/ Reload \/ ChooseTable \/ DebounceEnds \/ RetryQuote \/ RetryNavigation
  BY <1>1, BrowseSteps, ReloadStepOfOrdering, ChooseTableStep, DebounceEndsStep, RetryQuoteStep
<1>2. ASSUME NEW i \in Items, AddItem(i) \/ ChangeLine(i) PROVE OrderingInv'
  BY <1>2, AddItemStep, ChangeLineStep
<1>3. ASSUME NEW q \in asks, QuoteAnswered(q) PROVE OrderingInv'
  BY <1>3, QuoteAnsweredStep
<1>4. ASSUME NEW deliberate \in BOOLEAN, SubmitOrder(deliberate) PROVE OrderingInv'
  BY <1>4, SubmitOrderStep
<1>5. ASSUME NEW r \in runs,
             \/ FreshQuoteFails(r) \/ FreshQuoteStops(r) \/ SendOrder(r)
             \/ OrderCreated(r) \/ OrderRefused(r) \/ OrderUnauthorized(r) \/ OrderUnknown(r)
      PROVE  OrderingInv'
  BY <1>5, FreshQuoteFailsStep, FreshQuoteStopsStep, SendOrderStep, OrderCreatedStep, AnswerSteps
<1>6. CASE SessionResolves \/ SessionEnds \/ ShopperSignsOut \/ \E n \in 1 .. MaxSessions : ShopperSignsIn(n)
  BY <1>6, ShopperSteps, BrowseSteps
<1>7. CASE UNCHANGED orderingVars
  <2>1. UNCHANGED <<cart, shopper, page, asks, runs, sent>>
    BY <1>7 DEF orderingVars
  <2>2. ShopperTyped'
    BY <2>1, TypesOf DEF ShopperTyped
  <2>3. QuoteFollowsTheCart'
    BY <2>1 DEF OrderingInv, QuoteFollowsTheCart, Open, QuoteIsCurrent, QuoteErrorIsCurrent
  <2>. QED BY <2>1, <2>2, <2>3, TypesOf, PageOnlyStep
<1>. QED BY <1>1, <1>2, <1>3, <1>4, <1>5, <1>6, <1>7 DEF OrderingNext

\* The invariant of the tab up to the order: one run for a visit, whose order is the
\* visit's latest, and a quote that follows the cart.
THEOREM OrderingInvariant == OrderingSpec => []OrderingInv
BY OrderingStarts, OrderingKeeps, PTL DEF OrderingSpec

\* Carts stay carts (one line for each item, within the limits), whatever the reducer does.
THEOREM OrderingTypeCorrect == OrderingSpec => []OrderingTypeOK
<1>1. OrderingInv => OrderingTypeOK
  BY DEF OrderingInv
<1>. QED BY <1>1, OrderingInvariant, PTL

\* The figures next to the order button are the answer for these lines, or on their way.
THEOREM QuoteFollowsTheCartAlways == OrderingSpec => []QuoteFollowsTheCart
<1>1. OrderingInv => QuoteFollowsTheCart
  BY DEF OrderingInv
<1>. QED BY <1>1, OrderingInvariant, PTL

\* A visit of the cart page has one run of submitOrder at a time, and sends an order only
\* when it has heard of the one before.
THEOREM OneRunPerVisitAlways == OrderingSpec => []OneRunPerVisit
<1>1. OrderingInv => OneRunPerVisit
  BY InvariantGivesTheRest
<1>. QED BY <1>1, OrderingInvariant, PTL

\* After an order that was answered with 401 the visit sends no other.
THEOREM NothingAfterRejectionAlways == OrderingSpec => []NothingAfterRejection
<1>1. OrderingInv => NothingAfterRejection
  BY InvariantGivesTheRest
<1>. QED BY <1>1, OrderingInvariant, PTL

-----------------------------------------------------------------------------
(* The tab: its two parts, looked at one at a time.                        *)

\* A behaviour of the tab is one of the cart and one of the session.
THEOREM ShopIsBoth == ShopSpec => OrderingSpec /\ SessionSpec
<1>1. ShopInit => OrderingInit /\ SessionInit
  BY DEF ShopInit
<1>2. [ShopNext]_<<orderingVars, sessionVars, concern>> => [OrderingNext]_orderingVars /\ [SessionNext]_sessionVars
  BY DEF ShopNext
<1>. QED BY <1>1, <1>2, PTL DEF ShopSpec, OrderingSpec, SessionSpec

\* The tab keeps its shape.
THEOREM ShopTypeCorrect == ShopSpec => []ShopTypeOK
<1>1. OrderingTypeOK /\ SessionTypeOK => ShopTypeOK
  BY DEF ShopTypeOK
<1>. QED BY <1>1, ShopIsBoth, OrderingTypeCorrect, TypeCorrect, PTL
=============================================================================
