-------------------------- MODULE CommunityRewards --------------------------
(***************************************************************************)
(* The community shop of admin/community_rewards.py (class Store): wallets,*)
(* one offer with its stock, purchases and their delivery queue, with the  *)
(* ticks of admin_panel.community_delivery_tick that deliver the items.    *)
(*                                                                         *)
(* Every store method is one "begin immediate" transaction.  A tick is     *)
(* not: it claims a delivery in one transaction, asks the game database,   *)
(* writes the items there one by one, and settles the delivery in another  *)
(* transaction; the worker thread and operators run ticks at the same time.*)
(***************************************************************************)
EXTENDS Integers, Sequences, Sums

CONSTANTS
    Tickers,      \* the worker thread and the handlers of "tick" requests
    Accounts,     \* Dune account ids
    Ids,          \* purchase ids; a purchase's delivery has the same id
    Keys,         \* idempotency keys
    References,   \* ledger references of manual credits (the others carry
                  \* a prefix: purchase:, refund:, webhook:)
    WebhookIds,   \* provider and event id of webhooks
    Amounts,      \* credit amounts
    Prices, Stocks, Quantities,
    MaxVersion,   \* bound on the offer's version
    None          \* SQL null

ConstantsAssumption ==
    /\ Amounts \subseteq Nat \ {0} /\ Quantities \subseteq Nat \ {0}
    /\ Prices \subseteq Nat /\ Stocks \subseteq Nat \cup {None}
    /\ MaxVersion \in Nat \ {0} /\ None \notin Nat
    /\ None \notin Accounts /\ None \notin Tickers /\ None \notin Keys

VARIABLES
    wallet,      \* table wallets
    ledger,      \* table ledger: references are unique
    receipts,    \* table webhook_receipts, by event
    offer,       \* the row of table offers; supply is the stock its version
                 \* was configured with
    purchases,   \* table purchases
    deliveries,  \* table deliveries
    queue,       \* the delivery ids by created_at
    tick,        \* the tick each thread is in
    game,        \* items the game database holds from each delivery
    resolved     \* history: deliveries an operator decided

vars == <<wallet, ledger, receipts, offer, purchases, deliveries, queue, tick,
          game, resolved>>

NoPurchase == [state |-> "none", account |-> None, version |-> 0,
               quantity |-> 0, total |-> 0, key |-> None]
NoDelivery == [status |-> "none", token |-> None]
NoReceipt  == [account |-> None, amount |-> 0]
NoTick     == [pc |-> "idle", id |-> None]

Init ==
    /\ wallet = [a \in Accounts |-> 0] /\ ledger = {}
    /\ receipts = [e \in WebhookIds |-> NoReceipt]
    /\ \E price \in Prices, stock \in Stocks :
         offer = [version |-> 1, price |-> price, stock |-> stock,
                  enabled |-> TRUE, supply |-> stock]
    /\ purchases = [i \in Ids |-> NoPurchase]
    /\ deliveries = [i \in Ids |-> NoDelivery]
    /\ queue = << >>
    /\ tick = [t \in Tickers |-> NoTick]
    /\ game = [i \in Ids |-> 0] /\ resolved = {}

-----------------------------------------------------------------------------
(* Credits. *)

Posted(kind, ref) == \E e \in ledger : e.kind = kind /\ e.ref = ref

(* _append_ledger: refused when the balance would be negative. *)
Post(a, delta, kind, ref) ==
    /\ ~ Posted(kind, ref)
    /\ wallet[a] + delta >= 0
    /\ wallet' = [wallet EXCEPT ![a] = @ + delta]
    /\ ledger' = ledger \cup {[account |-> a, delta |-> delta, kind |-> kind,
                               ref |-> ref]}

shop == <<offer, purchases, deliveries, queue, tick, game, resolved>>

(* credit(): a reference that is there already credits nothing. *)
Credit(a, amount, ref) ==
    /\ Post(a, amount, "credit", ref)
    /\ UNCHANGED <<receipts, shop>>

(* ingest_webhook(): a replayed event returns its receipt or is refused. *)
Webhook(a, amount, e) ==
    /\ receipts[e] = NoReceipt
    /\ Post(a, amount, "webhook", e)
    /\ receipts' = [receipts EXCEPT ![e] = [account |-> a, amount |-> amount]]
    /\ UNCHANGED shop

-----------------------------------------------------------------------------
(* sync_config(): the same version keeps its stock, a new one resets it (as
   the documentation asks, the file's version only grows); an offer that
   the file no longer lists is disabled. *)
Sync(version, price, stock, enabled) ==
    /\ version \in offer.version..MaxVersion
    /\ offer' = IF version = offer.version
                  THEN [offer EXCEPT !.price = price, !.enabled = enabled]
                  ELSE [version |-> version, price |-> price, stock |-> stock,
                        enabled |-> enabled, supply |-> stock]
    /\ UNCHANGED <<wallet, ledger, receipts, purchases, deliveries, queue,
                   tick, game, resolved>>

Delist ==
    /\ offer.enabled
    /\ offer' = [offer EXCEPT !.enabled = FALSE]
    /\ UNCHANGED <<wallet, ledger, receipts, purchases, deliveries, queue,
                   tick, game, resolved>>

-----------------------------------------------------------------------------
(* purchase(): debit, reservation and delivery in one transaction. *)

Repeated(a, key) ==
    \E i \in Ids : purchases[i].account = a /\ purchases[i].key = key

InStock(quantity) == offer.stock # None => offer.stock >= quantity

Restocked(quantity) ==
    IF offer.stock = None THEN offer
    ELSE [offer EXCEPT !.stock = @ + quantity]

Purchase(i, a, quantity, key) ==
    LET total == offer.price * quantity IN
    /\ purchases[i] = NoPurchase
    /\ ~ Repeated(a, key)
    /\ offer.enabled /\ InStock(quantity)
    /\ IF total = 0 THEN UNCHANGED <<wallet, ledger>>
       ELSE Post(a, - total, "purchase", i)
    /\ offer' = Restocked(- quantity)
    /\ purchases' = [purchases EXCEPT ![i] =
                       [state |-> "queued", account |-> a,
                        version |-> offer.version, quantity |-> quantity,
                        total |-> total, key |-> key]]
    /\ deliveries' = [deliveries EXCEPT ![i].status = "queued"]
    /\ queue' = Append(queue, i)
    /\ UNCHANGED <<receipts, tick, game, resolved>>

-----------------------------------------------------------------------------
(* The delivery transactions. *)

(* Fault: claims of a tick that stopped are taken over. *)
Claimable_Stale(i) == deliveries[i].status \in {"queued", "retry", "processing"}

Claimable(i) == deliveries[i].status \in {"queued", "retry"}

(* claim_delivery(): the oldest one that is queued or waits for a retry
   (those of one second in the order of their rows). *)
Claim(t) ==
    /\ tick[t].pc = "idle"
    /\ \E k \in DOMAIN queue :
         /\ Claimable(queue[k])
         /\ \A j \in 1..(k - 1) : ~ Claimable(queue[j])
         /\ deliveries' = [deliveries EXCEPT ![queue[k]] =
                             [status |-> "processing", token |-> t]]
         /\ tick' = [tick EXCEPT ![t] = [pc |-> "check", id |-> queue[k]]]
    /\ UNCHANGED <<wallet, ledger, receipts, offer, purchases, queue, game,
                   resolved>>

(* The claim a thread presents is still the delivery's. *)
Holds(t, i) ==
    deliveries[i].status = "processing" /\ deliveries[i].token = t

Settle(i, status) ==
    deliveries' = [deliveries EXCEPT ![i] = [status |-> status, token |-> None]]

EndTick(t) == tick' = [tick EXCEPT ![t] = NoTick]

RefundOf(i) == purchases[i].total

Returned(i) == purchases[i].quantity

(* The refund that fail_delivery and resolve_reconciliation share. *)
Refund(i) ==
    IF purchases[i].state \in {"refunded", "delivered"}
      THEN UNCHANGED <<wallet, ledger, offer, purchases>>
      ELSE /\ IF RefundOf(i) = 0 THEN UNCHANGED <<wallet, ledger>>
              ELSE Post(purchases[i].account, RefundOf(i), "refund", i)
           /\ offer' = Restocked(Returned(i))
           /\ purchases' = [purchases EXCEPT ![i].state = "refunded"]

(* release_delivery(): the player is online. *)
Release(t) ==
    LET i == tick[t].id IN
    /\ tick[t].pc = "check" /\ Holds(t, i)
    /\ Settle(i, "retry") /\ EndTick(t)
    /\ UNCHANGED <<wallet, ledger, receipts, offer, purchases, queue, game,
                   resolved>>

(* fail_delivery(definitive): the account is gone or the dry run failed. *)
FailDefinitively(t) ==
    LET i == tick[t].id IN
    /\ tick[t].pc = "check" /\ Holds(t, i)
    /\ Refund(i) /\ Settle(i, "failed") /\ EndTick(t)
    /\ UNCHANGED <<receipts, queue, game, resolved>>

(* The dry runs of all items succeed. *)
Preflight(t) ==
    /\ tick[t].pc = "check"
    /\ tick' = [tick EXCEPT ![t].pc = "grant"]
    /\ UNCHANGED <<wallet, ledger, receipts, offer, purchases, deliveries,
                   queue, game, resolved>>

(* grant_item writes one item into the game database. *)
Grant(t) ==
    LET i == tick[t].id IN
    /\ tick[t].pc = "grant" /\ game[i] < purchases[i].quantity
    /\ game' = [game EXCEPT ![i] = @ + 1]
    /\ UNCHANGED <<wallet, ledger, receipts, offer, purchases, deliveries,
                   queue, tick, resolved>>

(* grant_item raises, the item written or not; fail_delivery(ambiguous). *)
GrantRaises(t) ==
    LET i == tick[t].id IN
    /\ tick[t].pc = "grant" /\ Holds(t, i) /\ game[i] < purchases[i].quantity
    /\ \E n \in {0, 1} : game' = [game EXCEPT ![i] = @ + n]
    /\ Settle(i, "reconciliation") /\ EndTick(t)
    /\ UNCHANGED <<wallet, ledger, receipts, offer, purchases, queue, resolved>>

(* complete_delivery(), after the last item. *)
Complete(t) ==
    LET i == tick[t].id IN
    /\ tick[t].pc = "grant" /\ Holds(t, i) /\ game[i] = purchases[i].quantity
    /\ Settle(i, "delivered") /\ EndTick(t)
    /\ purchases' = [purchases EXCEPT ![i].state = "delivered"]
    /\ UNCHANGED <<wallet, ledger, receipts, offer, queue, game, resolved>>

(* A query of the game database or a transaction of the store raises: the
   tick ends and the claim stays. *)
Abandon(t) ==
    /\ tick[t].pc # "idle"
    /\ EndTick(t)
    /\ UNCHANGED <<wallet, ledger, receipts, offer, purchases, deliveries,
                   queue, game, resolved>>

Undecided(i) == deliveries[i].status = "reconciliation"

(* resolve_reconciliation(): an operator looked at the inventory. *)
Resolve(i, delivered) ==
    /\ Undecided(i)
    /\ IF delivered
         THEN /\ purchases' = [purchases EXCEPT ![i].state = "delivered"]
              /\ Settle(i, "delivered")
              /\ UNCHANGED <<wallet, ledger, offer>>
         ELSE Refund(i) /\ Settle(i, "failed")
    /\ resolved' = resolved \cup {i}
    /\ UNCHANGED <<receipts, queue, tick, game>>

(* The panel is recreated in the middle of its ticks. *)
Restart ==
    /\ tick' = [t \in Tickers |-> NoTick]
    /\ UNCHANGED <<wallet, ledger, receipts, offer, purchases, deliveries,
                   queue, game, resolved>>

-----------------------------------------------------------------------------

Tick(t) ==
    \/ Claim(t) \/ Release(t) \/ FailDefinitively(t) \/ Preflight(t)
    \/ Grant(t) \/ GrantRaises(t) \/ Complete(t) \/ Abandon(t)

Next ==
    \/ \E t \in Tickers : Tick(t)
    \/ \E a \in Accounts, amount \in Amounts :
         \/ \E ref \in References : Credit(a, amount, ref)
         \/ \E e \in WebhookIds : Webhook(a, amount, e)
    \/ \E i \in Ids, a \in Accounts, n \in Quantities, key \in Keys :
         Purchase(i, a, n, key)
    \/ \E i \in Ids, delivered \in BOOLEAN : Resolve(i, delivered)
    \/ \E v \in 1..MaxVersion, p \in Prices, s \in Stocks, b \in BOOLEAN :
         Sync(v, p, s, b)
    \/ Delist \/ Restart

Spec == Init /\ [][Next]_vars

(* The worker's loop keeps ticking and a tick that can go on goes on. *)
FairSpec == Spec /\ \A t \in Tickers : WF_vars(Tick(t))
-----------------------------------------------------------------------------
(* Properties. *)

Settled == {"delivered", "refunded"}

(* Type invariant; balances and stock are never negative. *)
TypeOK ==
    /\ wallet \in [Accounts -> Nat]
    /\ \A e \in ledger : e.account \in Accounts /\ e.delta \in Int \ {0}
    /\ receipts \in [WebhookIds -> [account : Accounts \cup {None},
                                    amount : Amounts \cup {0}]]
    /\ offer \in [version : 1..MaxVersion, price : Prices,
                  stock : Nat \cup {None}, enabled : BOOLEAN, supply : Stocks]
    /\ purchases \in [Ids -> [state : {"none", "queued"} \cup Settled,
                              account : Accounts \cup {None},
                              version : 0..MaxVersion, total : Nat,
                              quantity : Quantities \cup {0},
                              key : Keys \cup {None}]]
    /\ deliveries \in [Ids -> [status : {"none", "queued", "retry",
                                        "processing", "delivered", "failed",
                                        "reconciliation"},
                               token : Tickers \cup {None}]]
    /\ queue \in Seq(Ids)
    /\ tick \in [Tickers -> [pc : {"idle", "check", "grant"},
                             id : Ids \cup {None}]]
    /\ game \in [Ids -> Nat] /\ resolved \subseteq Ids

(* No credit appears or is lost: a balance is what was credited to the
   account less every purchase of its own that was not refunded, at the
   price it was bought for, however prices change and deliveries fail in
   between (_append_ledger and its callers, lines 518-704). *)
WalletTellsTheStory ==
    \A a \in Accounts :
      LET credits == {e \in ledger : /\ e.account = a
                                    /\ e.kind \in {"credit", "webhook"}}
          owed    == {i \in Ids : /\ purchases[i].account = a
                                 /\ purchases[i].state # "refunded"}
      IN wallet[a] = Total([e \in credits |-> e.delta], credits)
                       - Total([i \in Ids |-> purchases[i].total], owed)

(* Finite stock is never oversold and never leaks: what is left and what is
   sold of this version is what the version was stocked with, plus at most
   what refunds of earlier versions put back (purchase, fail_delivery,
   sync_config). *)
StockIsAccountedFor ==
    offer.stock # None =>
      LET Pieces(S) == Total([i \in Ids |-> purchases[i].quantity], S)
          sold  == {i \in Ids : /\ purchases[i].version = offer.version
                               /\ purchases[i].state # "refunded"}
          older == {i \in Ids : /\ purchases[i].version < offer.version
                               /\ purchases[i].state = "refunded"}
      IN offer.stock + Pieces(sold)
           \in offer.supply..(offer.supply + Pieces(older))

(* Neither a free duplicate nor an unjustified debit: unless an operator
   decided it, a refunded order gave no item, a delivered one gave all, and
   no order ever gives an item twice, with ticks side by side, exceptions
   and restarts (community_delivery_tick,
   lines 12296-12332). *)
ItemsMatchMoney ==
    \A i \in Ids :
      /\ game[i] <= purchases[i].quantity
      /\ i \notin resolved =>
           /\ purchases[i].state = "refunded" => game[i] = 0
           /\ purchases[i].state = "delivered" =>
                game[i] = purchases[i].quantity

(* An order and its delivery agree on how it ended, and a tick that could
   still write items holds its claim (claim tokens, lines 620-704). *)
OrderFollowsDelivery ==
    /\ \A i \in Ids :
         /\ purchases[i].state = "delivered" <=> deliveries[i].status = "delivered"
         /\ purchases[i].state = "refunded" <=> deliveries[i].status = "failed"
    /\ \A t \in Tickers : tick[t].pc = "grant" => Holds(t, tick[t].id)

(* A repeated request never buys twice (purchase, lines 594-597). *)
OneOrderPerKey ==
    \A i, j \in Ids :
      /\ purchases[i].state # "none"
      /\ purchases[i].account = purchases[j].account
      /\ purchases[i].key = purchases[j].key
      => i = j

(* docs/community-rewards.md, "Delivery states and operator action":
   processing leads to delivered, failed or reconciliation. *)
ProcessingIsLeft ==
    \A i \in Ids : deliveries[i].status = "processing"
                     ~> deliveries[i].status # "processing"

=============================================================================
