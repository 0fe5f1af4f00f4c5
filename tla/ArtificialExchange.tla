------------------------ MODULE ArtificialExchange ------------------------
(***************************************************************************)
(* The artificial buyer of scripts/artificial-exchange-bot.py: its scan,   *)
(* and the settlement of sales by the service and by operators' commands.  *)
(*                                                                         *)
(* The service is one process that systemd restarts whenever it ends, and  *)
(* a command is another.  Both load one small file of JSON, work, and      *)
(* write it back without a lock.  A scan is one transaction of the game's  *)
(* database: what it bought is real when it commits, and the file is       *)
(* written after that.  A claim is a transaction of its own.  The three    *)
(* caps are checked alike, so that there is one, and one seller, whose     *)
(* claims compete for one bank balance.                                    *)
(***************************************************************************)
EXTENDS Naturals, Sequences, FiniteSets, SequencesExt, FiniteSetsExt

CONSTANTS
    NOrders,      \* listings, numbered as the scan orders them
    Prices,       \* prices of a unit
    Stack,        \* units of a listing
    Cap,          \* the daily cap
    Limit,        \* rows of a settlement report
    AutoClaim,    \* TRUE if scans claim
    PartialFills, \* TRUE if the native function may buy a part
    TornWrites,   \* TRUE if a process can end within save_json
    MaxRev,       \* bound: revisions of a listing
    MaxDay,       \* bound: midnights
    MaxDeaths,    \* bound: ends of processes by failure
    MaxCommands,  \* bound: operators' commands
    Gone, Torn

ArtificialExchangeAssumption ==
    /\ {NOrders, Stack, Cap, Limit, MaxRev, MaxDay, MaxDeaths, MaxCommands} \subseteq Nat
    /\ Prices \subseteq Nat \ {0} /\ Stack > 0
    /\ {AutoClaim, PartialFills, TornWrites} \subseteq BOOLEAN

VARIABLES
    market,   \* by order, its listing in the database
    settled,  \* the fulfilled rows, the newest last
    bank,     \* the seller's balance
    file,     \* STATE_PATH
    day,      \* today_key
    scan,     \* the service's scan
    claim,    \* by process, its pass over the settlements
    bought,   \* history: by day, what purchases cost
    told,     \* history: orders whose seller was told of a sale
    slips,    \* history: by day, what purchases cost that the file does not count
    deaths, commands

db == <<market, settled, bank>>
history == <<bought, told, slips>>
bounds == <<deaths, commands>>
vars == <<db, file, day, scan, claim, history, bounds>>

Orders == 1..NOrders
Procs == {"service", "command"}
Worth(l) == l.price * l.left
Listings == [price : Prices, left : 1..Stack, rev : 0..MaxRev]
Rows == [order : Orders, left : 0..(Stack - 1), kind : {"item", "sold"},
         worth : {p * n : p \in Prices, n \in 1..Stack}]

Empty == [day |-> 0, spent |-> 0, claimed |-> {}]
NoScan == [pc |-> "idle", state |-> Empty, seen |-> <<>>, todo |-> {}, held |-> {}, txn |-> <<>>]
NoClaim == [pc |-> "idle", state |-> Empty, rows |-> <<>>]

Init ==
    /\ market \in [Orders -> [price : Prices, left : {Stack}, rev : {0}]]
    /\ settled = <<>> /\ bank = 0
    /\ day = 0
    /\ file = Empty
    /\ scan = NoScan
    /\ claim = [p \in Procs |-> NoClaim]
    /\ bought = [d \in 0..MaxDay |-> 0] /\ told = {}
    /\ slips = [d \in 0..MaxDay |-> 0]
    /\ deaths = 0 /\ commands = 0

-----------------------------------------------------------------------------
(* The file. *)

(* A new day begins with nothing spent and nothing claimed. *)
Loaded == IF file.day = day THEN file ELSE [Empty EXCEPT !.day = day]

Today(f) == IF f # Torn /\ f.day = day THEN f.spent ELSE 0

(* What was bought today is forgotten where the file comes to count less of
   it than it did, or than a scan that has committed is about to write. *)
Counted == Max({Today(file), IF scan.pc = "save" THEN Today(scan.state) ELSE 0})
Forget(known, f) == slips' = [slips EXCEPT ![day] = @ + known - Min({known, Today(f)})]

Put(f) == file' = f /\ Forget(Today(file), f)

-----------------------------------------------------------------------------
(* The world: the game, its players and the clock. *)

(* A changed listing has a new revision; a scan's lock makes its owner wait. *)
Reprice(o) ==
    /\ o \notin scan.held /\ market[o] # Gone /\ market[o].rev < MaxRev
    /\ \E p \in Prices \ {market[o].price} :
         market' = [market EXCEPT ![o].price = p, ![o].rev = @ + 1]
    /\ UNCHANGED <<settled, bank, file, day, scan, claim, history, bounds>>

Withdraw(o) ==
    /\ o \notin scan.held /\ market[o] # Gone
    /\ market' = [market EXCEPT ![o] = Gone]
    /\ UNCHANGED <<settled, bank, file, day, scan, claim, history, bounds>>

Sold == {i \in DOMAIN settled : settled[i].kind = "sold"}

(* The seller takes the proceeds in the game. *)
Collect ==
    /\ \E i \in Sold :
         /\ bank' = bank + settled[i].worth
         /\ settled' = RemoveAt(settled, i)
    /\ UNCHANGED <<market, file, day, scan, claim, history, bounds>>

Midnight ==
    /\ day < MaxDay
    /\ day' = day + 1
    /\ UNCHANGED <<db, file, scan, claim, history, bounds>>

-----------------------------------------------------------------------------
(* Claims, by the service within a scan and by commands. *)

(* The newest rows, the newest first. *)
Report == Reverse(SubSeq(settled, 1 + Len(settled) - Min({Limit, Len(settled)}), Len(settled)))

StartClaims(p, rows) ==
    claim' = [claim EXCEPT ![p] = [pc |-> "claim", state |-> Loaded, rows |-> rows]]

(* --claim-all-settlements, or --claim-settlement of one row. *)
Command ==
    /\ claim["command"].pc = "idle" /\ file # Torn
    /\ commands < MaxCommands /\ commands' = commands + 1
    /\ \/ StartClaims("command", Report)
       \/ \E i \in Sold : StartClaims("command", <<settled[i]>>)
    /\ UNCHANGED <<db, file, day, scan, history, deaths>>

Row(p) == Head(claim[p].rows)
HasRow(p) == claim[p].pc = "claim" /\ claim[p].rows # <<>>

(* Rows of bought items, and rows that the file says were claimed. *)
PassOver(p) ==
    /\ HasRow(p)
    /\ Row(p).kind = "item" \/ Row(p) \in claim[p].state.claimed
    /\ claim' = [claim EXCEPT ![p].rows = Tail(@)]
    /\ UNCHANGED <<db, file, day, scan, history, bounds>>

(* execute_direct_seller_claim: locked, checked, credited, deleted. *)
Claim(p) ==
    /\ HasRow(p) /\ Row(p).kind = "sold" /\ Row(p) \notin claim[p].state.claimed
    /\ Contains(settled, Row(p))
    /\ bank' = bank + Row(p).worth
    /\ settled' = SelectSeq(settled, LAMBDA r : r # Row(p))
    /\ claim' = [claim EXCEPT ![p].rows = Tail(@), ![p].state.claimed = @ \cup {Row(p)}]
    /\ UNCHANGED <<market, file, day, scan, history, bounds>>

(* Somebody else settled the row: the pass raises, and the process ends. *)
Vanished(p) ==
    /\ HasRow(p) /\ Row(p).kind = "sold" /\ Row(p) \notin claim[p].state.claimed
    /\ ~Contains(settled, Row(p))
    /\ claim' = [claim EXCEPT ![p] = NoClaim]
    /\ scan' = IF p = "service" THEN NoScan ELSE scan
    /\ UNCHANGED <<db, file, day, history, bounds>>

(* The whole state is written, as it was loaded before the pass. *)
SaveClaims(p) ==
    /\ claim[p].pc = "claim" /\ claim[p].rows = <<>>
    /\ Put(claim[p].state)
    /\ claim' = [claim EXCEPT ![p] = NoClaim]
    /\ scan' = IF p = "service" THEN [scan EXCEPT !.pc = "reload"] ELSE scan
    /\ UNCHANGED <<db, day, bought, told, bounds>>

-----------------------------------------------------------------------------
(* The scan. *)

At(pc) == scan.pc = pc

(* A torn file raises before anything is done: the service ends at once. *)
Scan ==
    /\ At("idle") /\ file # Torn
    /\ scan' = [NoScan EXCEPT !.pc = IF AutoClaim THEN "claims" ELSE "fetch", !.state = Loaded]
    /\ UNCHANGED <<db, file, day, claim, history, bounds>>

BeginClaims ==
    /\ At("claims") /\ claim["service"].pc = "idle" /\ file # Torn
    /\ StartClaims("service", Report)
    /\ scan' = [scan EXCEPT !.pc = "claiming"]
    /\ UNCHANGED <<db, file, day, history, bounds>>

Reload ==
    /\ At("reload") /\ file # Torn
    /\ scan' = [scan EXCEPT !.pc = "fetch", !.state.claimed = Loaded.claimed]
    /\ UNCHANGED <<db, file, day, claim, history, bounds>>

Fetch ==
    /\ At("fetch")
    /\ scan' = [scan EXCEPT !.pc = "consider", !.seen = market,
                            !.todo = {o \in Orders : market[o] # Gone}]
    /\ UNCHANGED <<db, file, day, claim, history, bounds>>

Order == Min(scan.todo)
Seen == scan.seen[Order]
Considering == At("consider") /\ scan.todo # {}

(* The catalogue, the chances of its tiers, or a cap that is reached. *)
Skip ==
    /\ Considering
    /\ scan' = [scan EXCEPT !.todo = @ \ {Order}]
    /\ UNCHANGED <<db, file, day, claim, history, bounds>>

SpendAvailable == scan.state.spent + Worth(Seen) <= Cap

RevisionMatches ==
    market[Order] # Gone /\ market[Order].rev = Seen.rev /\ market[Order].price = Seen.price

(* The row is locked for sharing until the scan commits, if there is one. *)
Check ==
    /\ Considering /\ SpendAvailable
    /\ LET locked == IF market[Order] # Gone THEN scan.held \cup {Order} ELSE scan.held IN
       scan' = IF RevisionMatches THEN [scan EXCEPT !.pc = "buy", !.held = locked]
               ELSE [scan EXCEPT !.todo = @ \ {Order}, !.held = locked]
    /\ UNCHANGED <<db, file, day, claim, history, bounds>>

(* What the transaction holds of a purchase that leaves so many units. *)
Purchase(left) ==
    [order |-> Order, left |-> left, day |-> day, counted |-> Worth(Seen),
     worth |-> market[Order].price * (market[Order].left - left)]

Considered == [scan EXCEPT !.pc = "consider", !.todo = @ \ {Order}]

(* The whole listing is bought and counted, and its seller is told, if that
   succeeds. *)
Buy ==
    /\ At("buy") /\ market[Order] # Gone
    /\ scan' = [Considered EXCEPT !.txn = Append(@, Purchase(0)),
                                  !.state.spent = @ + Worth(Seen)]
    /\ told' \in {told, told \cup {Order}}
    /\ UNCHANGED <<db, file, day, claim, bought, slips, bounds>>

(* The postcondition fails: nothing was bought, or a part.  Nothing is counted
   and nothing rolled back. *)
Reject ==
    /\ At("buy")
    /\ \/ scan' = Considered
       \/ /\ PartialFills /\ market[Order] # Gone
          /\ \E left \in 1..(market[Order].left - 1) :
               scan' = [Considered EXCEPT !.txn = Append(@, Purchase(left))]
    /\ UNCHANGED <<db, file, day, claim, history, bounds>>

(* The native function leaves a row for the item and one for the proceeds. *)
Fulfilled(b) ==
    LET row(kind) == [order |-> b.order, left |-> b.left, kind |-> kind, worth |-> b.worth]
    IN <<row("item"), row("sold")>>

After(o) ==
    LET of == {i \in DOMAIN scan.txn : scan.txn[i].order = o} IN
    IF of = {} THEN market[o]
    ELSE LET left == scan.txn[Max(of)].left IN
         IF left = 0 THEN Gone
         ELSE [market[o] EXCEPT !.left = left, !.rev = Min({MaxRev, @ + 1})]

CostOn(d, purchases) ==
    MapThenSumSet(LAMBDA i : scan.txn[i].worth, {i \in purchases : scan.txn[i].day = d})

(* Purchases of a part, and those after the midnight of the scan's day. *)
Uncounted ==
    {i \in DOMAIN scan.txn : scan.txn[i].left # 0 \/ scan.txn[i].day # scan.state.day}

Commit ==
    /\ At("consider") /\ scan.todo = {}
    /\ market' = [o \in Orders |-> After(o)]
    /\ settled' = settled \o FlattenSeq([i \in DOMAIN scan.txn |-> Fulfilled(scan.txn[i])])
    /\ bought' = [d \in 0..MaxDay |-> bought[d] + CostOn(d, DOMAIN scan.txn)]
    /\ slips' = [d \in 0..MaxDay |-> slips[d] + CostOn(d, Uncounted)]
    /\ scan' = [scan EXCEPT !.pc = "save", !.held = {}, !.txn = <<>>]
    /\ UNCHANGED <<bank, file, day, claim, told, bounds>>

(* Fault: the file is read again before it is written. *)
Save_Again ==
    /\ At("save") /\ file # Torn
    /\ Put(Loaded)
    /\ scan' = NoScan
    /\ UNCHANGED <<db, day, claim, bought, told, bounds>>

Save ==
    /\ At("save")
    /\ Put(scan.state)
    /\ scan' = NoScan
    /\ UNCHANGED <<db, day, claim, bought, told, bounds>>

-----------------------------------------------------------------------------
(* A process ends: an exception of the database, a kill, a reboot.  Its open
   transaction is rolled back. *)

Writing(p) == claim[p].pc = "claim" /\ claim[p].rows = <<>>

ServiceDies ==
    /\ scan.pc # "idle" /\ deaths < MaxDeaths /\ deaths' = deaths + 1
    /\ \/ file' = file
       \/ TornWrites /\ (At("save") \/ Writing("service")) /\ file' = Torn
    /\ Forget(Counted, file')
    /\ scan' = NoScan
    /\ claim' = [claim EXCEPT !["service"] = NoClaim]
    /\ UNCHANGED <<db, day, bought, told, commands>>

CommandDies ==
    /\ claim["command"].pc # "idle" /\ deaths < MaxDeaths /\ deaths' = deaths + 1
    /\ Put(file) \/ (TornWrites /\ Writing("command") /\ Put(Torn))
    /\ claim' = [claim EXCEPT !["command"] = NoClaim]
    /\ UNCHANGED <<db, day, scan, bought, told, commands>>

(* The file is torn where the service loads it again: it ends. *)
LoadFails ==
    /\ At("claims") \/ At("reload")
    /\ file = Torn
    /\ scan' = NoScan
    /\ UNCHANGED <<db, file, day, claim, history, bounds>>

World == Collect \/ Midnight \/ (\E o \in Orders : Reprice(o) \/ Withdraw(o))
Claiming(p) == PassOver(p) \/ Claim(p) \/ Vanished(p) \/ SaveClaims(p)
Scanning ==
    \/ Scan \/ BeginClaims \/ Reload \/ Fetch \/ Skip \/ Check \/ Buy \/ Reject
    \/ Commit \/ Save \/ LoadFails

Next ==
    \/ World \/ Command \/ Scanning \/ ServiceDies \/ CommandDies
    \/ \E p \in Procs : Claiming(p)

Spec == Init /\ [][Next]_vars

(* systemd starts the service again whenever it ends, a scan's calls return or
   raise, and the loop sleeps for minutes only. *)
FairSpec == Spec /\ WF_vars(Scanning) /\ WF_vars(Claiming("service"))

-----------------------------------------------------------------------------
(* Properties. *)

State == [day : 0..MaxDay, spent : 0..Cap, claimed : SUBSET Rows]

(* The scan's and the claims' state has its shape; nothing recorded is over the
   cap, and a row is locked or bought only while its scan runs. *)
TypeOK ==
    /\ \A o \in Orders : market[o] = Gone \/ market[o] \in Listings
    /\ settled \in Seq(Rows) /\ bank \in Nat /\ day \in 0..MaxDay
    /\ file = Torn \/ file \in State
    /\ scan.state \in State /\ scan.todo \subseteq Orders /\ scan.held \subseteq Orders
    /\ \A p \in Procs : claim[p].state \in State /\ claim[p].rows \in Seq(Rows)
    /\ scan.pc \in {"claims", "claiming", "reload", "fetch"} => scan.txn = <<>>
    /\ claim["service"].pc = "claim" <=> At("claiming")

(* What sellers were paid and what waits for them is what purchases cost:
   nobody is paid twice by two claims of a row, and no claim loses a row. *)
MoneyIsConserved ==
    bank + MapThenSumSet(LAMBDA i : settled[i].worth, Sold)
      = MapThenSumSet(LAMBDA d : bought[d], 0..MaxDay)

(* A purchase costs what was held against the caps, whatever the seller does
   between the reading of the market and the purchase. *)
AtThePriceSeen ==
    \A i \in DOMAIN scan.txn :
        scan.txn[i].left = 0 => scan.txn[i].worth = scan.txn[i].counted

(* A day's purchases exceed the cap by no more than what of them was       *)
(* forgotten, after midnight or in part: by a death between commit and     *)
(* file, a claim that writes back the spending it had read, or a torn file. *)
OnlySlipsExceed == \A d \in 0..MaxDay : bought[d] <= Cap + slips[d]

(* What was sold is paid, by a claim or in the game. *)
EverySaleIsPaid ==
    \A r \in Rows :
        (r.kind = "sold" /\ Contains(settled, r)) ~> ~Contains(settled, r)

(* The caps bound what is bought on a day. *)
CapsHold == \A d \in 0..MaxDay : bought[d] <= Cap

(* A seller is told of a sale that happened, or is about to. *)
ToldIsSold ==
    \A o \in told :
        market[o] = Gone \/ \E i \in DOMAIN scan.txn : scan.txn[i].order = o

(* A purchase that left a remainder was rejected. *)
RemainderIsRejected == \A i \in DOMAIN settled : settled[i].left = 0

(* Whatever ends it, the service scans again. *)
ComesBack == []<>~At("idle")
=============================================================================
