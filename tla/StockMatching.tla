---------------------------- MODULE StockMatching ---------------------------
(***************************************************************************)
(* The deterministic matching engine of the stock exchange                 *)
(* (stock_exchange/matching.py, order_book.py, policies.py) for one symbol: *)
(* a pure reduction of sequenced commands over accounts, orders and a book *)
(* index of price levels, FIFO links and a best-price heap.                *)
(*                                                                         *)
(* The heap is the set of the prices it holds: entries of deleted levels   *)
(* stay until best() meets them, repeated entries answer alike, and the    *)
(* compaction of stale entries changes no answer.                          *)
(***************************************************************************)
EXTENDS Integers, Sequences, FiniteSets, FiniteSetsExt, Functions, SequencesExt

CONSTANTS
  Owners,
  OrderIds,     \* opaque identifiers: numbers, in the order of their first use
  Prices,       \* limit prices in cents
  Quantities,   \* order sizes
  Cash, Shares, \* opening balances of every owner
  DailyLimit,   \* submitted quantity per owner and day
  MaxCommands,  \* bound: sequenced commands
  MaxDays       \* bound: days of the simulated clock

\* What the constants may be.
Assumption ==
  /\ OrderIds \subseteq Nat \ {0}
  /\ Prices \subseteq Nat \ {0} /\ Quantities \subseteq Nat \ {0}
  /\ Cash \in Nat /\ Shares \in Nat /\ DailyLimit \in Nat
  /\ MaxCommands \in Nat /\ MaxDays \in Nat

VARIABLES
  state,  \* the projection: accounts, orders, index, trades, daily volume
  clock   \* the simulated clock: day, and whether the session is open

vars == <<state, clock>>

Nil       == 0      \* None
Sides     == {"BUY", "SELL"}
Other(s)  == IF s = "BUY" THEN "SELL" ELSE "BUY"
Active    == {"OPEN", "PARTIAL"}
NoOrder   == [status |-> "none"]
Least(a, b) == IF a < b THEN a ELSE b

-----------------------------------------------------------------------------
(***************************************************************************)
(* The book index of one side.                                             *)
(***************************************************************************)

EmptySide == [levels |-> <<>>, nodes |-> <<>>, heap |-> {}]

\* OrderBook.add: the order becomes the tail of its price level.
Link(ix, id, price, quantity) ==
  LET level == IF price \in DOMAIN ix.levels THEN ix.levels[price]
               ELSE [head |-> Nil, tail |-> Nil, quantity |-> 0]
      last  == level.tail
      nodes == IF last = Nil THEN ix.nodes ELSE [ix.nodes EXCEPT ![last].next = id]
      first == IF last = Nil THEN id ELSE level.head
  IN  [levels |-> [p \in DOMAIN ix.levels \cup {price} |->
                     IF p = price
                     THEN [head |-> first, tail |-> id, quantity |-> level.quantity + quantity]
                     ELSE ix.levels[p]],
       nodes  |-> [n \in DOMAIN nodes \cup {id} |->
                     IF n = id
                     THEN [previous |-> last, next |-> Nil, price |-> price, quantity |-> quantity]
                     ELSE nodes[n]],
       heap   |-> ix.heap \cup {price}]

\* OrderBook.remove: an order that is not indexed is left alone.
Unlink_NoBackLink(ix, id) ==
  IF id \notin DOMAIN ix.nodes THEN ix
  ELSE LET node  == ix.nodes[id]
           level == ix.levels[node.price]
           rest  == Restrict(ix.nodes, DOMAIN ix.nodes \ {id})
           left  == [level EXCEPT !.head = IF node.previous = Nil THEN node.next ELSE @,
                                  !.tail = IF node.next = Nil THEN node.previous ELSE @,
                                  !.quantity = @ - node.quantity]
       IN  [ix EXCEPT !.nodes = IF node.previous = Nil THEN rest
                                ELSE [rest EXCEPT ![node.previous].next = node.next],
                      !.levels = IF left.head = Nil
                                 THEN Restrict(@, DOMAIN @ \ {node.price})
                                 ELSE [@ EXCEPT ![node.price] = left]]

Unlink(ix, id) ==
  IF id \notin DOMAIN ix.nodes THEN ix
  ELSE LET node  == ix.nodes[id]
           level == ix.levels[node.price]
           rest  == Restrict(ix.nodes, DOMAIN ix.nodes \ {id})
           left  == [level EXCEPT !.head = IF node.previous = Nil THEN node.next ELSE @,
                                  !.tail = IF node.next = Nil THEN node.previous ELSE @,
                                  !.quantity = @ - node.quantity]
       IN  [ix EXCEPT !.nodes = [n \in DOMAIN rest |->
                                   [rest[n] EXCEPT !.next = IF n = node.previous THEN node.next ELSE @,
                                                   !.previous = IF n = node.next THEN node.previous ELSE @]],
                      !.levels = IF left.head = Nil
                                 THEN Restrict(@, DOMAIN @ \ {node.price})
                                 ELSE [@ EXCEPT ![node.price] = left]]

\* OrderBook.consume.
Consume(ix, id, quantity) ==
  LET node == ix.nodes[id] IN
  IF quantity = node.quantity THEN Unlink(ix, id)
  ELSE [ix EXCEPT !.nodes[id].quantity = @ - quantity,
                  !.levels[node.price].quantity = @ - quantity]

\* Heap entries best() discards: those ahead of the first live level.
Better(side, p, q) == IF side = "SELL" THEN p < q ELSE p > q
Popped(side, ix) ==
  {p \in ix.heap : p \notin DOMAIN ix.levels
                   /\ \A q \in ix.heap \cap DOMAIN ix.levels : Better(side, p, q)}

\* OrderBook.best.
Best_Newest(side, ix) ==
  LET live == (ix.heap \ Popped(side, ix)) \cap DOMAIN ix.levels IN
  IF live = {} THEN Nil
  ELSE ix.levels[CHOOSE p \in live : \A q \in live : p = q \/ Better(side, p, q)].tail
Best(side, ix) ==
  LET live == (ix.heap \ Popped(side, ix)) \cap DOMAIN ix.levels IN
  IF live = {} THEN Nil
  ELSE ix.levels[CHOOSE p \in live : \A q \in live : p = q \/ Better(side, p, q)].head

-----------------------------------------------------------------------------
(***************************************************************************)
(* Reservations and matching.                                              *)
(***************************************************************************)

Asset(side) == IF side = "BUY" THEN "cash" ELSE "shares"

\* What an open quantity of an order keeps on hold.
Hold(o, quantity) == IF o.side = "BUY" THEN quantity * o.price ELSE quantity

\* release.
Release_ByQuantity(st, id) ==
  LET o == st.order[id] IN
  [st EXCEPT !.index[o.side] = Unlink(@, id),
             !.acct[o.owner][Asset(o.side)] = [available |-> @.available + Hold(o, o.quantity),
                                               held |-> @.held - Hold(o, o.quantity)],
             !.order[id].status = "CANCELED"]
Release(st, id) ==
  LET o == st.order[id] IN
  [st EXCEPT !.index[o.side] = Unlink(@, id),
             !.acct[o.owner][Asset(o.side)] = [available |-> @.available + Hold(o, o.remaining),
                                               held |-> @.held - Hold(o, o.remaining)],
             !.order[id].status = "CANCELED"]

Filled(o, count) ==
  [o EXCEPT !.remaining = @ - count, !.filled = @ + count,
            !.status = IF o.remaining = count THEN "FILLED" ELSE "PARTIAL"]

\* Cash and shares of a trade at the maker's price.
Settle_AtTakerLimit(acct, bid, ask, price, count) ==
  [acct EXCEPT ![bid.owner].cash.held = @ - bid.price * count,
               ![bid.owner].shares.available = @ + count,
               ![ask.owner].cash.available = @ + price * count,
               ![ask.owner].shares.held = @ - count]
Settle(acct, bid, ask, price, count) ==
  [acct EXCEPT ![bid.owner].cash.held = @ - bid.price * count,
               ![bid.owner].cash.available = @ + (bid.price - price) * count,
               ![bid.owner].shares.available = @ + count,
               ![ask.owner].cash.available = @ + price * count,
               ![ask.owner].shares.held = @ - count]

\* One round of the loop for the taker id; a finished loop changes nothing.
Crosses_Strict(o, maker) == IF o.side = "BUY" THEN maker.price < o.price ELSE maker.price > o.price
Crosses(o, maker) == IF o.side = "BUY" THEN maker.price <= o.price ELSE maker.price >= o.price

Round(st, id) ==
  LET o  == st.order[id]
      ix == st.index[Other(o.side)]
      m  == Best(Other(o.side), ix)
  IN
  IF o.remaining = 0 \/ o.status = "CANCELED" \/ m = Nil THEN st
  ELSE LET maker == st.order[m]
           count == Least(o.remaining, maker.remaining)
           bid   == IF o.side = "BUY" THEN o ELSE maker
           ask   == IF o.side = "BUY" THEN maker ELSE o
       IN  CASE ~Crosses(o, maker) -> st
             [] Crosses(o, maker) /\ maker.owner = o.owner -> Release(st, id)
             [] Crosses(o, maker) /\ maker.owner # o.owner ->
                  [st EXCEPT !.acct = Settle(@, bid, ask, maker.price, count),
                             !.index[Other(o.side)] =
                                Consume([@ EXCEPT !.heap = @ \ Popped(Other(o.side), ix)], m, count),
                             !.order[id] = Filled(o, count),
                             !.order[m] = Filled(maker, count),
                             !.trades = Append(@, [taker |-> id, maker |-> m, price |-> maker.price,
                                                   quantity |-> count, buyer |-> bid.owner,
                                                   seller |-> ask.owner])]

\* The loop ends after at most one round per maker.
Match(st, id) ==
  LET round[n \in 0..Cardinality(OrderIds)] == IF n = 0 THEN st ELSE Round(round[n - 1], id)
      done  == round[Cardinality(OrderIds)]
      o     == done.order[id]
  IN  IF o.status \in Active
      THEN [done EXCEPT !.index[o.side] = Link(@, id, o.price, o.remaining)]
      ELSE done

-----------------------------------------------------------------------------
(***************************************************************************)
(* Commands.                                                               *)
(***************************************************************************)

\* Every command first expires the open orders of earlier days.
Stale(st) == {id \in OrderIds : st.order[id].status \in Active /\ st.order[id].day # clock.day}
Expired(st) ==
  LET s == SetToSeq(Stale(st))
      f[n \in 0..Len(s)] == IF n = 0 THEN st ELSE Release(f[n - 1], s[n])
  IN  [f[Len(s)] EXCEPT !.seq = @ + 1]

Sequenced == state.seq < MaxCommands

Used(st, owner) ==
  MapThenSumSet(LAMBDA id : st.order[id].quantity,
    {id \in OrderIds : /\ st.order[id].status # "none"
                       /\ st.order[id].owner = owner
                       /\ st.order[id].day = clock.day})

Permitted_NoFunds(st, owner, side, price, quantity) ==
  clock.open /\ Used(st, owner) + quantity <= DailyLimit
Permitted(st, owner, side, price, quantity) ==
  /\ clock.open
  /\ Used(st, owner) + quantity <= DailyLimit
  /\ st.acct[owner][Asset(side)].available >= Hold([side |-> side, price |-> price], quantity)

NewOrder(owner, id, side, price, quantity) ==
  LET st   == Expired(state)
      o    == [owner |-> owner, side |-> side, price |-> price, quantity |-> quantity,
               remaining |-> quantity, filled |-> 0, status |-> "OPEN", seq |-> st.seq, day |-> clock.day]
      cost == Hold(o, quantity)
  IN
  /\ Sequenced
  /\ st.order[id].status = "none" /\ \A n \in OrderIds : n < id => st.order[n].status # "none"
  /\ Permitted(st, owner, side, price, quantity)
  /\ state' = Match([st EXCEPT !.order[id] = o,
                               !.acct[owner][Asset(side)] = [available |-> @.available - cost,
                                                             held |-> @.held + cost]], id)
  /\ UNCHANGED clock

\* A rejected command still takes its sequence number and expires orders.
Reject(owner, id, side, price, quantity) ==
  LET st == Expired(state) IN
  /\ Sequenced
  /\ st.order[id].status # "none" \/ ~Permitted(st, owner, side, price, quantity)
  /\ state' = st
  /\ UNCHANGED clock

Cancel(owner, id) ==
  LET st == Expired(state)
      o  == st.order[id]
  IN
  /\ Sequenced
  /\ state' = IF o.status \in Active /\ o.owner = owner THEN Release(st, id) ELSE st
  /\ UNCHANGED clock

\* The administrator moves the clock: the session opens or closes, or a new
\* day begins.
AdvanceClock ==
  /\ clock.day < MaxDays
  /\ clock' \in {[clock EXCEPT !.open = FALSE], [day |-> clock.day + 1, open |-> TRUE]}
  /\ clock' # clock
  /\ UNCHANGED state

Init ==
  /\ clock = [day |-> 1, open |-> TRUE]
  /\ state = [acct |-> [w \in Owners |-> [cash |-> [available |-> Cash, held |-> 0],
                                          shares |-> [available |-> Shares, held |-> 0]]],
              order |-> [id \in OrderIds |-> NoOrder],
              index |-> [s \in Sides |-> EmptySide],
              trades |-> <<>>,
              seq |-> 1]

Next ==
  \/ \E w \in Owners, id \in OrderIds, s \in Sides, p \in Prices, q \in Quantities :
       NewOrder(w, id, s, p, q) \/ Reject(w, id, s, p, q)
  \/ \E w \in Owners, id \in OrderIds : Cancel(w, id)
  \/ AdvanceClock

Spec == Init /\ [][Next]_vars

-----------------------------------------------------------------------------
(***************************************************************************)
(* Properties.                                                             *)
(***************************************************************************)

Live(st) == {id \in OrderIds : st.order[id].status \in Active}

\* Balances stay natural numbers, and the fills of an order add up.
TypeOK ==
  /\ \A w \in Owners, a \in {"cash", "shares"} : state.acct[w][a] \in [available : Nat, held : Nat]
  /\ \A id \in OrderIds : state.order[id].status # "none" =>
       LET o == state.order[id] IN o.filled + o.remaining = o.quantity /\ o.remaining \in Nat

\* What an owner has on hold is what the open quantity of the owner's orders
\* reserves, after any mix of fills, price improvements, cancels and expiries.
HoldsMatchOrders ==
  \A w \in Owners, s \in Sides :
    state.acct[w][Asset(s)].held =
      MapThenSumSet(LAMBDA id : Hold(state.order[id], state.order[id].remaining),
        {id \in Live(state) : state.order[id].owner = w /\ state.order[id].side = s})

\* An owner's total is the opening balance plus what the recorded trades moved.
BalancesMatchTrades ==
  \A w \in Owners :
    LET T    == DOMAIN state.trades
        t(i) == state.trades[i]
        Value(i) == t(i).price * t(i).quantity
        Size(i)  == t(i).quantity
        B == {i \in T : t(i).buyer = w}
        S == {i \in T : t(i).seller = w}
    IN  /\ state.acct[w].cash.available + state.acct[w].cash.held
             = Cash - MapThenSumSet(Value, B) + MapThenSumSet(Value, S)
        /\ state.acct[w].shares.available + state.acct[w].shares.held
             = Shares + MapThenSumSet(Size, B) - MapThenSumSet(Size, S)

\* Open orders at one price, oldest first.
Resting(s, p) ==
  SetToSortSeq({id \in Live(state) : state.order[id].side = s /\ state.order[id].price = p},
               LAMBDA a, b : state.order[a].seq < state.order[b].seq)

\* The index is the orders: each level links exactly its open orders in the
\* order of their sequence numbers, with their remaining quantities, and the
\* heap still knows every level.
IndexMatchesOrders ==
  \A s \in Sides :
    LET ix == state.index[s] IN
    /\ DOMAIN ix.nodes = {id \in Live(state) : state.order[id].side = s}
    /\ DOMAIN ix.levels \subseteq ix.heap
    /\ \A p \in Prices :
         LET q == Resting(s, p) IN
         /\ p \in DOMAIN ix.levels <=> q # <<>>
         /\ q # <<>> =>
              /\ ix.levels[p].head = q[1] /\ ix.levels[p].tail = q[Len(q)]
              /\ ix.levels[p].quantity = MapThenSumSet(LAMBDA i : state.order[q[i]].remaining, DOMAIN q)
              /\ \A i \in DOMAIN q :
                   ix.nodes[q[i]] = [previous |-> IF i = 1 THEN Nil ELSE q[i - 1],
                                     next |-> IF i = Len(q) THEN Nil ELSE q[i + 1],
                                     price |-> p, quantity |-> state.order[q[i]].remaining]

\* The book never rests crossed: no open bid reaches an open ask, also after
\* a self-trade stopped the matching.
NeverCrossed ==
  \A b, a \in Live(state) :
    state.order[b].side = "BUY" /\ state.order[a].side = "SELL" =>
      state.order[b].price < state.order[a].price

\* A trade goes to the best price and, at that price, to the oldest order: no
\* order that is still open after the command had priority over a maker.
PriceTimePriority ==
  [][\A i \in DOMAIN state'.trades \ DOMAIN state.trades :
       LET m == state'.order[state'.trades[i].maker] IN
       \A id \in Live(state') :
         LET o == state'.order[id] IN
         o.side = m.side => ~(Better(m.side, o.price, m.price) \/ (o.price = m.price /\ o.seq < m.seq))]_vars
=============================================================================
