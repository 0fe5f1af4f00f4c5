----------------------------- MODULE MCOutside -----------------------------
(* Instances of what acts on the outside world: the outbound webhooks, the *)
(* enforcement of bans and the artificial buyer of the game's exchange.    *)
(* Their models share no variable; `part` names the one that runs and the  *)
(* others rest in an initial state, so that TLC explores the sum of the    *)
(* state spaces and not their product.                                     *)
EXTENDS OutboundWebhooks, TLC

CONSTANTS
    Parts,      \* what the run explores
    a1, a2, b1, worker1, worker2,
    Gone, Torn

VARIABLES
    part,
    online, ban, enforced, listed, cooling, session, tick, faults,
    recent, unkept, unjust, left,
    market, settled, bank, file, day, scan, claim, bought, told, slips, deaths, commands

MCEndpoints == <<"ops", "hall", "chat">>

Symmetry == Permutations({a1, a2})

-----------------------------------------------------------------------------

(* Two players, a ban, the worker's ticks alone, and records that are lost. *)
Players == INSTANCE Moderation WITH
    Accounts <- {a1, a2}, Bans <- {b1}, Tickers <- {worker1}, Lists <- FALSE, MaxFaults <- 1

(* A player, a ban and the allowlist. *)
Policy == INSTANCE Moderation WITH
    Accounts <- {a1}, Bans <- {b1}, Tickers <- {worker1}, Lists <- TRUE, MaxFaults <- 1

(* A player and a ban, and ticks of two threads that meet and die. *)
Threads == INSTANCE Moderation WITH
    Accounts <- {a1}, Bans <- {b1}, Tickers <- {worker1, worker2}, Lists <- FALSE,
    MaxFaults <- 2

(* Three listings, worth more than two caps, that are repriced under the     *)
(* scan, and a death.                                                       *)
Market == INSTANCE ArtificialExchange WITH
    NOrders <- 3, Prices <- {1, 2}, Stack <- 1, Cap <- 2, Limit <- 4,
    AutoClaim <- FALSE, PartialFills <- FALSE, TornWrites <- FALSE,
    MaxRev <- 1, MaxDay <- 0, MaxDeaths <- 1, MaxCommands <- 0

(* Scans over a midnight, and a death. *)
Overnight == INSTANCE ArtificialExchange WITH
    NOrders <- 3, Prices <- {1}, Stack <- 1, Cap <- 1, Limit <- 4,
    AutoClaim <- FALSE, PartialFills <- FALSE, TornWrites <- FALSE,
    MaxRev <- 0, MaxDay <- 1, MaxDeaths <- 1, MaxCommands <- 0

(* Scans and commands that claim the same sales, and files that are torn. *)
Claims == INSTANCE ArtificialExchange WITH
    NOrders <- 3, Prices <- {1}, Stack <- 1, Cap <- 1, Limit <- 4,
    AutoClaim <- TRUE, PartialFills <- FALSE, TornWrites <- TRUE,
    MaxRev <- 0, MaxDay <- 0, MaxDeaths <- 1, MaxCommands <- 1

(* Listings of two units, which the native function may buy one by one. *)
Fills == INSTANCE ArtificialExchange WITH
    NOrders <- 2, Prices <- {1}, Stack <- 2, Cap <- 2, Limit <- 4,
    AutoClaim <- FALSE, PartialFills <- TRUE, TornWrites <- FALSE,
    MaxRev <- 1, MaxDay <- 0, MaxDeaths <- 1, MaxCommands <- 0

ASSUME Players!ModerationAssumption /\ Policy!ModerationAssumption
ASSUME Threads!ModerationAssumption
ASSUME Market!ArtificialExchangeAssumption /\ Claims!ArtificialExchangeAssumption
ASSUME Fills!ArtificialExchangeAssumption /\ Overnight!ArtificialExchangeAssumption

-----------------------------------------------------------------------------

bansVars ==
    <<online, ban, enforced, listed, cooling, session, tick, faults,
      recent, unkept, unjust, left>>
exchangeVars ==
    <<market, settled, bank, file, day, scan, claim, bought, told, slips, deaths, commands>>
allVars == <<part, vars, bansVars, exchangeVars>>

OutsideInit ==
    /\ part \in Parts
    /\ Init
    /\ CASE part = "threads" -> Threads!Init
         [] part = "policy" -> Policy!Init
         [] OTHER -> Players!Init
    /\ CASE part = "overnight" -> Overnight!Init
         [] part = "fills" -> Fills!Init
         [] OTHER -> Market!Init
    /\ \A o \in DOMAIN market : market[o].price = 1

RunWebhooks(A) == part = "webhooks" /\ A /\ UNCHANGED <<part, bansVars, exchangeVars>>
RunBans(A) == A /\ UNCHANGED <<part, vars, exchangeVars>>
RunExchange(A) == A /\ UNCHANGED <<part, vars, bansVars>>

OutsideNext ==
    \/ RunWebhooks(Next)
    \/ part = "players" /\ RunBans(Players!Next)
    \/ part = "policy" /\ RunBans(Policy!Next)
    \/ part = "threads" /\ RunBans(Threads!Next)
    \/ part = "market" /\ RunExchange(Market!Next)
    \/ part = "overnight" /\ RunExchange(Overnight!Next)
    \/ part = "claims" /\ RunExchange(Claims!Next)
    \/ part = "fills" /\ RunExchange(Fills!Next)

OutsideSpec == OutsideInit /\ [][OutsideNext]_allVars

-----------------------------------------------------------------------------
(* What is checked, beside InOrder and DeliveriesAreTrue of OutboundWebhooks. *)

(* Within a cooldown each thread kicks once, and once more for a record that *)
(* was lost; a revoked ban ejects at most one more player for each; and only *)
(* leaving, or an older sample, ends a visit (moderation_tick).              *)
BansAreEnforced ==
    /\ [](CASE part = "threads" -> /\ Threads!TypeOK
                                   /\ Threads!KicksAreFew /\ Threads!RevokedBansEnd
            [] part = "policy" -> /\ Policy!TypeOK
                                  /\ Policy!KicksAreFew /\ Policy!RevokedBansEnd
            [] OTHER -> /\ Players!TypeOK
                        /\ Players!KicksAreFew /\ Players!RevokedBansEnd)
    /\ [][CASE part = "threads" -> Threads!SessionsEndForCause
             [] part = "policy" -> Policy!SessionsEndForCause
             [] OTHER -> Players!SessionsEndForCause]_bansVars

(* Sellers are owed and paid what purchases cost, a purchase costs what was  *)
(* held against the cap, and a day's purchases exceed it only by what of     *)
(* them was forgotten (scan_once, claim_all_settlements).                    *)
BooksBalance ==
    CASE part = "market" -> /\ Market!TypeOK /\ Market!MoneyIsConserved
                            /\ Market!AtThePriceSeen /\ Market!OnlySlipsExceed
      [] part = "overnight" -> /\ Overnight!TypeOK /\ Overnight!MoneyIsConserved
                               /\ Overnight!AtThePriceSeen /\ Overnight!OnlySlipsExceed
      [] part = "claims" -> /\ Claims!TypeOK /\ Claims!MoneyIsConserved
                            /\ Claims!AtThePriceSeen /\ Claims!OnlySlipsExceed
      [] OTHER -> /\ Fills!TypeOK /\ Fills!MoneyIsConserved
                  /\ Fills!AtThePriceSeen /\ Fills!OnlySlipsExceed
=============================================================================
