------------------------------ MODULE Ledgers ------------------------------
(***************************************************************************)
(* The stores that keep books: the audit ledger, and of the community      *)
(* store the shop, the playtime tracks and the engagement rewards.  They   *)
(* share no variable here; `part` names the one that runs and the others   *)
(* rest in an initial state, so that TLC explores the sum of the state     *)
(* spaces and not their product.                                           *)
(***************************************************************************)
EXTENDS AuditLedger, Sums

CONSTANTS
    Parts,                              \* what is explored
    Buyers, Ids, Keys, References, WebhookIds, Amounts, Prices, Stocks, Quantities,
    MaxVersion,                         \* of the shop
    Players, Order, PlayTickers, Interval, MaxGap, LevelXp, MaxTime, MaxFaults,
                                        \* of the playtime tracks
    Places, Policies, Day, Week, Seconds    \* of the engagement rewards

VARIABLES
    part,
    wallet, ledger, receipts, offer, purchases, deliveries, queue, shopTick, game,
    resolved,
    present, playClock, playRow, xp, markers, levels, granted, playTick, counted,
    playSeen, sighted, late, back, repeated, faults,
    policy, dayClock, online, place, dayRow, days, weeks, claims, grants, dayTick, daySeen,
    blind

-----------------------------------------------------------------------------

Shop == INSTANCE CommunityRewards WITH
    Tickers <- Threads, Accounts <- Buyers, tick <- shopTick

Play == INSTANCE Playtime WITH
    Accounts <- Players, Tickers <- PlayTickers, MaxClock <- MaxTime,
    clock <- playClock, checkpoint <- playRow, claims <- levels, deliveries <- granted,
    tick <- playTick, seen <- playSeen

Engage == INSTANCE Engagement WITH
    Tickers <- Threads, MaxClock <- Seconds,
    clock <- dayClock, checkpoint <- dayRow, tick <- dayTick, seen <- daySeen

ASSUME BooksAssumption ==
    /\ Shop!ConstantsAssumption
    /\ Play!PlaytimeAssumption
    /\ Engage!EngagementAssumption

-----------------------------------------------------------------------------

shopVars ==
    <<wallet, ledger, receipts, offer, purchases, deliveries, queue, shopTick, game,
      resolved>>
playVars ==
    <<present, playClock, playRow, xp, markers, levels, granted, playTick, counted,
      playSeen, sighted, late, back, repeated, faults>>
dayVars ==
    <<policy, dayClock, online, place, dayRow, days, weeks, claims, grants, dayTick, daySeen,
      blind>>
allVars == <<part, vars, shopVars, playVars, dayVars>>

LedgersInit ==
    /\ part \in Parts
    /\ Init
    /\ Shop!Init
    /\ part = "shop" \/ (offer.price = 0 /\ offer.stock = None)
    /\ Play!Init
    /\ part = "play" \/ present = {}
    /\ Engage!Init
    /\ part = "engage" \/ (/\ ~online /\ place = CHOOSE s \in Places : TRUE
                          /\ policy = CHOOSE p \in Policies : TRUE)

RunLedger(A) == part = "ledger" /\ A /\ UNCHANGED <<part, shopVars, playVars, dayVars>>
RunShop(A) == part = "shop" /\ A /\ UNCHANGED <<part, vars, playVars, dayVars>>
RunPlay(A) == part = "play" /\ A /\ UNCHANGED <<part, vars, shopVars, dayVars>>
RunEngage(A) == part = "engage" /\ A /\ UNCHANGED <<part, vars, shopVars, playVars>>

LedgersNext ==
    \/ RunLedger(Next) \/ RunShop(Shop!Next) \/ RunPlay(Play!Next)
    \/ RunEngage(Engage!Next)

LedgersSpec == LedgersInit /\ [][LedgersNext]_allVars

(* The shop alone, under the fairness its module states for it. *)
ShopFairSpec ==
    LedgersSpec /\ \A t \in Threads : WF_allVars(RunShop(Shop!Tick(t)))

-----------------------------------------------------------------------------
(* What is checked, beside the properties of AuditLedger. *)

(* A wallet, the stock, the items delivered and the orders tell the same    *)
(* story of every purchase, whichever threads tick, retry or are restarted. *)
ShopBooksBalance ==
    /\ Shop!TypeOK /\ Shop!WalletTellsTheStory /\ Shop!StockIsAccountedFor
    /\ Shop!ItemsMatchMoney /\ Shop!OrderFollowsDelivery /\ Shop!OneOrderPerKey

(* However many threads tick: no second of play is counted again but those  *)
(* that an overtaken thread takes the row back, downtime counts no more     *)
(* than the gap, and a claimed level is delivered once.                     *)
PlaytimeIsReal ==
    /\ Play!TypeOK /\ Play!SecondsAreKept /\ Play!DowntimeIsBounded
    /\ Play!OneThreadIsInTime /\ Play!OneDeliveryPerLevel

(* Active time, streaks, goals and hours agree with what was observed, and  *)
(* rewards with them.                                                       *)
EngagementIsEarned ==
    /\ Engage!TypeOK /\ Engage!ActiveTimeIsReal /\ Engage!StreakIsARun
    /\ Engage!ClaimsMatchActivity /\ Engage!HoursAreEarned

(* docs/community-rewards.md, "Delivery states and operator action":        *)
(* processing leads to delivered, failed or reconciliation.                 *)
ProcessingIsLeft == (part = "shop") => Shop!ProcessingIsLeft
=============================================================================
