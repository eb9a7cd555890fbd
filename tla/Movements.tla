----------------------------- MODULE Movements -----------------------------
(***************************************************************************)
(* The balance movements that the wallet service is asked for: each        *)
(* operation is a list of legs, in the order in which the service applies  *)
(* them (services/wallet-service, WalletService).  A leg changes the       *)
(* available and the locked part of one wallet and adds one entry to the   *)
(* ledger.  Amounts are numbers of the smallest unit; no DTO requires them  *)
(* to be positive.                                                         *)
(***************************************************************************)
EXTENDS Integers, Sequences, FiniteSets, SequencesExt, FiniteSetsExt

CONSTANTS
  Users, Assets,
  Pairs,           \* <<base, quote>> assets of the markets
  Amounts,         \* amounts, quantities and prices that are asked for
  Fees,            \* fees that the trading service computes
  Opening          \* the wallets when the service starts

Wallets == Users \X Assets

(* A wallets row, and the sum of the amounts of its ledger entries. *)
Account == [available: Int, locked: Int, recorded: Int]

ASSUME UsersAssumption == IsFiniteSet(Users)
ASSUME PairsAssumption ==
  Pairs \in SUBSET (Assets \X Assets) /\ \A p \in Pairs : p[1] # p[2]
ASSUME AmountsAssumption == Amounts \in SUBSET Int /\ Fees \in SUBSET Int
ASSUME OpeningAssumption ==
  /\ Opening \in [Wallets -> Account]
  /\ \A w \in Wallets : Opening[w].available >= 0 /\ Opening[w].locked >= 0

Leg(user, asset, available, locked, recorded) ==
  [wallet |-> <<user, asset>>, available |-> available, locked |-> locked,
   recorded |-> recorded]

Legs == [wallet: Wallets, available: Int, locked: Int, recorded: Int]

(* An operation: the users it checks, its legs, and what it brings into    *)
(* the exchange (a withdrawal and the fees leave it).                      *)
Operation(users, legs, asset, inflow) ==
  [users |-> users, legs |-> legs,
   inflow |-> [a \in Assets |-> IF a = asset THEN inflow ELSE 0]]

Operations == [users: Seq(Users), legs: Seq(Legs), inflow: [Assets -> Int]]

Credit(user, asset, amount) ==
  Operation(<<user>>, <<Leg(user, asset, amount, 0, amount)>>, asset, amount)

Debit(user, asset, amount) ==
  Operation(<<user>>, <<Leg(user, asset, -amount, 0, -amount)>>, asset, -amount)

Lock(user, asset, amount) ==
  Operation(<<user>>, <<Leg(user, asset, -amount, amount, amount)>>, asset, 0)

Unlock(user, asset, amount) ==
  Operation(<<user>>, <<Leg(user, asset, amount, -amount, amount)>>, asset, 0)

InternalTransfer(user, to, asset, amount) ==
  Operation(<<user, to>>,
            <<Leg(user, asset, -amount, 0, amount),
              Leg(to, asset, amount, 0, amount)>>, asset, 0)

(* Mutant of SettleTrade: the seller's fee is forgotten. *)
SettleFreeOfFee(seller, buyer, maker, taker, pair, price, quantity, fees) ==
  LET base == pair[1]
      quote == pair[2]
      gives(user, asset, amount) == Leg(user, asset, 0, -amount, -amount)
      gets(user, asset, amount)  == Leg(user, asset, amount, 0, amount)
      sells == <<gives(seller, base, quantity), gets(seller, quote, price * quantity)>>
      buys  == <<gives(buyer, quote, price * quantity + fees[2]),
                 gets(buyer, base, quantity)>>
  IN Operation(<<maker, taker>>,
               IF maker = seller THEN sells \o buys ELSE buys \o sells,
               quote, -(fees[1] + fees[2]))

(* One trade: the maker's legs come first.  Both sides give what they had  *)
(* locked; the fees (seller's, buyer's), in the quote asset, go to no wallet. *)
SettleTrade(seller, buyer, maker, taker, pair, price, quantity, fees) ==
  LET base == pair[1]
      quote == pair[2]
      gives(user, asset, amount) == Leg(user, asset, 0, -amount, -amount)
      gets(user, asset, amount)  == Leg(user, asset, amount, 0, amount)
      sells == <<gives(seller, base, quantity),
                 gets(seller, quote, price * quantity - fees[1])>>
      buys  == <<gives(buyer, quote, price * quantity + fees[2]),
                 gets(buyer, base, quantity)>>
  IN Operation(<<maker, taker>>,
               IF maker = seller THEN sells \o buys ELSE buys \o sells,
               quote, -(fees[1] + fees[2]))

(* Seller and buyer: the matching engine lets nobody trade with themselves. *)
Trades == {t \in Users \X Users : t[1] # t[2]}

(* What clients and the other services ask for.  The quantity of a trade   *)
(* is one unit.                                                            *)
Asked ==
  {Credit(u, a, n) : u \in Users, a \in Assets, n \in Amounts}
  \cup {Debit(u, a, n) : u \in Users, a \in Assets, n \in Amounts}
  \cup {Lock(u, a, n) : u \in Users, a \in Assets, n \in Amounts}
  \cup {Unlock(u, a, n) : u \in Users, a \in Assets, n \in Amounts}
  \cup {InternalTransfer(u, to, a, n) :
          u \in Users, to \in Users, a \in Assets, n \in Amounts}
  \cup {SettleTrade(t[1], t[2], t[1], t[2], p, n, 1, f) :
          t \in Trades, p \in Pairs, n \in Amounts, f \in Fees \X Fees}
  \cup {SettleTrade(t[1], t[2], t[2], t[1], p, n, 1, f) :
          t \in Trades, p \in Pairs, n \in Amounts, f \in Fees \X Fees}

(* The users of an operation are the owners of the wallets that it moves. *)
OwnersAreUsers(op) ==
  \A i \in DOMAIN op.legs : op.legs[i].wallet[1] \in Range(op.users)

Moved(account, leg) ==
  [available |-> account.available + leg.available,
   locked    |-> account.locked + leg.locked,
   recorded  |-> account.recorded + leg.recorded]
=============================================================================
