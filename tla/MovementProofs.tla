--------------------------- MODULE MovementProofs ---------------------------
(***************************************************************************)
(* Facts about the balance movements: the operations that are asked for    *)
(* are well formed, their legs are applied one after the other, and the    *)
(* wallets of an asset then hold what they held and what the operation     *)
(* brings in; what they do to the locked part of a wallet.                 *)
(***************************************************************************)
EXTENDS Movements, SequenceTheorems, FoldProofs, TLAPS

(* A leg over a user's wallet is a leg. *)
LEMMA LegType ==
  ASSUME NEW u \in Users, NEW a \in Assets, NEW x \in Int, NEW y \in Int, NEW z \in Int
  PROVE  /\ Leg(u, a, x, y, z) \in Legs
         /\ Leg(u, a, x, y, z).wallet[1] = u
BY DEF Leg, Legs, Wallets

(* An operation of legs over its users' wallets is well formed. *)
LEMMA OperationType ==
  ASSUME NEW users \in Seq(Users), NEW moves \in Seq(Legs),
         NEW a \in Assets, NEW n \in Int,
         \A i \in DOMAIN moves : moves[i].wallet[1] \in Range(users)
  PROVE  /\ Operation(users, moves, a, n) \in Operations
         /\ OwnersAreUsers(Operation(users, moves, a, n))
BY DEF Operation, Operations, OwnersAreUsers

(* Operations on one wallet are well formed. *)
LEMMA OneLeg ==
  ASSUME NEW u \in Users, NEW a \in Assets, NEW x \in Int, NEW y \in Int,
         NEW z \in Int, NEW n \in Int
  PROVE  LET op == Operation(<<u>>, <<Leg(u, a, x, y, z)>>, a, n)
         IN op \in Operations /\ OwnersAreUsers(op)
<1> DEFINE users == <<u>>
           moves == <<Leg(u, a, x, y, z)>>
<1>1. users \in Seq(Users) /\ moves \in Seq(Legs)
  BY LegType
<1>2. \A i \in DOMAIN moves : moves[i].wallet[1] \in Range(users)
  BY LegType DEF Range
<1> QED BY <1>1, <1>2, OperationType

(* A transfer is well formed. *)
LEMMA TransferType ==
  ASSUME NEW u \in Users, NEW to \in Users, NEW a \in Assets, NEW n \in Amounts
  PROVE  /\ InternalTransfer(u, to, a, n) \in Operations
         /\ OwnersAreUsers(InternalTransfer(u, to, a, n))
<1> DEFINE users == <<u, to>>
           moves == <<Leg(u, a, -n, 0, n), Leg(to, a, n, 0, n)>>
<1>1. n \in Int /\ -n \in Int
  BY AmountsAssumption
<1>2. users \in Seq(Users) /\ moves \in Seq(Legs)
  BY <1>1, LegType
<1>3. \A i \in DOMAIN moves : moves[i].wallet[1] \in Range(users)
  BY <1>1, LegType DEF Range
<1> HIDE DEF users, moves
<1>4. Operation(users, moves, a, 0) \in Operations
      /\ OwnersAreUsers(Operation(users, moves, a, 0))
  BY <1>2, <1>3, OperationType
<1> QED BY <1>4 DEF InternalTransfer, users, moves

(* The legs of both sides of a trade belong to users of the trade. *)
LEMMA BothOwned ==
  ASSUME NEW U, NEW x \in Seq(Legs), NEW y \in Seq(Legs),
         \A i \in DOMAIN x : x[i].wallet[1] \in U,
         \A i \in DOMAIN y : y[i].wallet[1] \in U
  PROVE  /\ x \o y \in Seq(Legs)
         /\ \A i \in DOMAIN (x \o y) : (x \o y)[i].wallet[1] \in U
<1>1. /\ x \o y \in Seq(Legs)
      /\ Len(x \o y) = Len(x) + Len(y)
      /\ \A i \in 1 .. Len(x) + Len(y) :
           (x \o y)[i] = IF i <= Len(x) THEN x[i] ELSE y[i - Len(x)]
  BY ConcatProperties
<1>2. /\ DOMAIN (x \o y) = 1..Len(x) + Len(y)
      /\ DOMAIN x = 1..Len(x) /\ DOMAIN y = 1..Len(y)
      /\ Len(x) \in Nat /\ Len(y) \in Nat
  BY <1>1, LenProperties
<1>3. ASSUME NEW i \in 1..Len(x) + Len(y)
      PROVE  (x \o y)[i].wallet[1] \in U
  <2>1. CASE i <= Len(x)
    BY <1>1, <1>2, <2>1
  <2>2. CASE i > Len(x)
    <3>1. i - Len(x) \in DOMAIN y
      BY <1>2, <2>2
    <3> QED BY <1>1, <1>2, <2>2, <3>1
  <2> QED BY <1>2, <2>1, <2>2
<1> QED BY <1>1, <1>2, <1>3

(* A settlement is well formed, whoever was the maker. *)
LEMMA SettlementType ==
  ASSUME NEW s \in Users, NEW b \in Users, NEW m \in {s, b}, NEW k \in {s, b},
         m # k, NEW pair, pair[1] \in Assets, pair[2] \in Assets,
         NEW p \in Int, NEW q \in Int, NEW fees, fees[1] \in Int, fees[2] \in Int
  PROVE  LET op == SettleTrade(s, b, m, k, pair, p, q, fees)
         IN op \in Operations /\ OwnersAreUsers(op)
<1> DEFINE base == pair[1]
           quote == pair[2]
           sf == fees[1]
           bf == fees[2]
           users == <<m, k>>
           sells == <<Leg(s, base, 0, -q, -q),
                      Leg(s, quote, p * q - sf, 0, p * q - sf)>>
           buys  == <<Leg(b, quote, 0, -(p * q + bf), -(p * q + bf)),
                      Leg(b, base, q, 0, q)>>
           moves == IF m = s THEN sells \o buys ELSE buys \o sells
<1>1. /\ -q \in Int /\ p * q - sf \in Int /\ -(p * q + bf) \in Int
      /\ -(sf + bf) \in Int /\ q \in Int
  OBVIOUS
<1>2. /\ sells \in Seq(Legs) /\ Len(sells) = 2
      /\ \A i \in DOMAIN sells : sells[i].wallet[1] = s
  BY <1>1, LegType
<1>3. /\ buys \in Seq(Legs) /\ Len(buys) = 2
      /\ \A i \in DOMAIN buys : buys[i].wallet[1] = b
  BY <1>1, LegType
<1>4. users \in Seq(Users) /\ s \in Range(users) /\ b \in Range(users)
  BY DEF Range
<1> HIDE DEF users, sells, buys
<1>5. /\ moves \in Seq(Legs)
      /\ \A i \in DOMAIN moves : moves[i].wallet[1] \in Range(users)
  BY <1>2, <1>3, <1>4, BothOwned
<1> HIDE DEF moves
<1>6. Operation(users, moves, quote, -(sf + bf)) \in Operations
      /\ OwnersAreUsers(Operation(users, moves, quote, -(sf + bf)))
  BY <1>1, <1>4, <1>5, OperationType
<1> QED BY <1>6 DEF SettleTrade, users, moves, sells, buys

(* The legs of a settlement are legs, whoever trades. *)
LEMMA SettledLegs ==
  ASSUME NEW s \in Users, NEW b \in Users, NEW m, NEW k,
         NEW pair, pair[1] \in Assets, pair[2] \in Assets,
         NEW p \in Int, NEW q \in Int, NEW fees, fees[1] \in Int, fees[2] \in Int
  PROVE  SettleTrade(s, b, m, k, pair, p, q, fees).legs \in Seq(Legs)
<1> DEFINE base == pair[1]
           quote == pair[2]
           sf == fees[1]
           bf == fees[2]
           sells == <<Leg(s, base, 0, -q, -q),
                      Leg(s, quote, p * q - sf, 0, p * q - sf)>>
           buys  == <<Leg(b, quote, 0, -(p * q + bf), -(p * q + bf)),
                      Leg(b, base, q, 0, q)>>
<1>1. /\ -q \in Int /\ p * q - sf \in Int /\ -(p * q + bf) \in Int
      /\ -(sf + bf) \in Int /\ q \in Int
  OBVIOUS
<1>2. sells \in Seq(Legs) /\ buys \in Seq(Legs)
  BY <1>1, LegType
<1>3. SettleTrade(s, b, m, k, pair, p, q, fees).legs
        = IF m = s THEN sells \o buys ELSE buys \o sells
  BY DEF SettleTrade, Operation
<1> HIDE DEF sells, buys
<1>4. sells \o buys \in Seq(Legs) /\ buys \o sells \in Seq(Legs)
  BY <1>2, ConcatProperties
<1> QED BY <1>3, <1>4

(* Whatever is asked for moves only wallets of users that it names. *)
LEMMA AskedType ==
  ASSUME NEW op \in Asked
  PROVE  op \in Operations /\ OwnersAreUsers(op)
<1> USE AmountsAssumption
<1>1. CASE \E u \in Users, a \in Assets, n \in Amounts :
             op \in {Credit(u, a, n), Debit(u, a, n), Lock(u, a, n), Unlock(u, a, n)}
  <2> PICK u \in Users, a \in Assets, n \in Amounts :
        op \in {Credit(u, a, n), Debit(u, a, n), Lock(u, a, n), Unlock(u, a, n)}
    BY <1>1
  <2>1. n \in Int /\ -n \in Int /\ 0 \in Int
    OBVIOUS
  <2>2. CASE op = Credit(u, a, n)
    BY <2>1, <2>2, OneLeg DEF Credit
  <2>3. CASE op = Debit(u, a, n)
    BY <2>1, <2>3, OneLeg DEF Debit
  <2>4. CASE op = Lock(u, a, n)
    BY <2>1, <2>4, OneLeg DEF Lock
  <2>5. CASE op = Unlock(u, a, n)
    BY <2>1, <2>5, OneLeg DEF Unlock
  <2> QED BY <2>2, <2>3, <2>4, <2>5
<1>2. CASE \E u \in Users, to \in Users, a \in Assets, n \in Amounts :
             op = InternalTransfer(u, to, a, n)
  BY <1>2, TransferType
<1>3. CASE \E t \in Trades, p \in Pairs, n \in Amounts, f \in Fees \X Fees :
             \/ op = SettleTrade(t[1], t[2], t[1], t[2], p, n, 1, f)
             \/ op = SettleTrade(t[1], t[2], t[2], t[1], p, n, 1, f)
  <2> PICK t \in Trades, p \in Pairs, n \in Amounts, f \in Fees \X Fees :
             \/ op = SettleTrade(t[1], t[2], t[1], t[2], p, n, 1, f)
             \/ op = SettleTrade(t[1], t[2], t[2], t[1], p, n, 1, f)
    BY <1>3
  <2>1. /\ t[1] \in Users /\ t[2] \in Users /\ t[1] # t[2]
        /\ p[1] \in Assets /\ p[2] \in Assets
        /\ n \in Int /\ f[1] \in Int /\ f[2] \in Int
    BY PairsAssumption DEF Trades
  <2> QED BY <2>1, SettlementType
<1> QED BY <1>1, <1>2, <1>3 DEF Asked

-----------------------------------------------------------------------------
(* Legs, one after the other *)

(* A leg moves an account to an account. *)
LEMMA MovedType ==
  ASSUME NEW account \in Account, NEW leg \in Legs
  PROVE  Moved(account, leg) \in Account
BY DEF Account, Legs, Moved

(* One leg of an operation, applied to one wallet. *)
AfterLeg(w, account, leg) == IF leg.wallet = w THEN Moved(account, leg) ELSE account

LEMMA AfterLegType ==
  ASSUME NEW account \in Account, NEW leg \in Legs, NEW w
  PROVE  AfterLeg(w, account, leg) \in Account
BY MovedType DEF AfterLeg

(* What becomes of one wallet when all legs of a list are applied. *)
AfterLegs(w, account, moves) ==
  FoldLeft(LAMBDA held, leg : IF leg.wallet = w THEN Moved(held, leg) ELSE held,
           account, moves)

(* The accounts from leg to leg. *)
LegSteps(p, w, account, moves) ==
  /\ p[0] = account
  /\ \A k \in 1..Len(moves) : p[k] = AfterLeg(w, p[k - 1], moves[k])

(* Legs are applied from the first to the last. *)
LEMMA OneByOne ==
  ASSUME NEW account \in Account, NEW moves \in Seq(Legs), NEW w
  PROVE  \E p \in [0..Len(moves) -> Account] :
           LegSteps(p, w, account, moves) /\ AfterLegs(w, account, moves) = p[Len(moves)]
<1> DEFINE n == Len(moves)
           S == SUBSET (1..n)
           step == [k \in 1..n |-> [v \in Account |-> AfterLeg(w, v, moves[k])]]
           Rec(g) == [s \in S |-> IF s = {} THEN account
                                  ELSE AfterLeg(w, g[s \ {Max(s)}], moves[Max(s)])]
           h == CHOOSE g : g = Rec(g)
<1>1. /\ n \in Nat /\ DOMAIN moves = 1..n
      /\ \A k \in 1..n : moves[k] \in Legs
  BY LenProperties, ElementOfSeq
<1>2. AfterLegs(w, account, moves) = h[1..n]
  BY <1>1 DEF AfterLegs, FoldLeft, MapThenFoldSet, AfterLeg
<1>3. \A k \in 1..n, v \in Account :
        step[k][v] = AfterLeg(w, v, moves[k]) /\ step[k][v] \in Account
  BY <1>1, AfterLegType
<1> HIDE DEF step, n
<1>4. PICK g \in [S -> Account], p \in [0..n -> Account] :
        /\ IsSeqFold(g, n, account, step)
        /\ ArePrefixes(p, n, account, step)
        /\ g[1..n] = p[n]
  <2>1. SeqFolding(n, Account, account, step)
    BY <1>1, <1>3 DEF SeqFolding
  <2>2. HasSeqFold(n, Account, account, step)
    BY <2>1, SequenceFold
  <2> QED BY <2>2 DEF HasSeqFold
<1>5. \A s \in S : s # {} => Max(s) \in s /\ Max(s) \in 1..n /\ s \ {Max(s)} \in S
  BY <1>1, MaxIsIn
<1>6. g = Rec(g)
  <2>1. g[{}] = account /\ \A s \in S : s # {} => g[s] = step[Max(s)][g[s \ {Max(s)}]]
    BY <1>4 DEF IsSeqFold
  <2>2. ASSUME NEW s \in S, s # {}
        PROVE  g[s] = AfterLeg(w, g[s \ {Max(s)}], moves[Max(s)])
    <3>1. g[s \ {Max(s)}] \in Account /\ Max(s) \in 1..n
      BY <1>4, <1>5, <2>2
    <3> QED BY <1>3, <2>1, <2>2, <3>1
  <2> QED BY <2>1, <2>2
<1>7. h = Rec(h)
  <2> HIDE DEF Rec
  <2> QED BY <1>6
<1> HIDE DEF h
<1>8. \A s \in S : s # {} => /\ h[s] = AfterLeg(w, h[s \ {Max(s)}], moves[Max(s)])
  BY <1>7
<1>9. h[{}] = account
  BY <1>7
<1> HIDE DEF Rec
<1>10. h[1..n] = p[n]
  <2> DEFINE G == {s \in S : h[s] = g[s]}
  <2>1. IsFiniteSet(1..n) /\ {} \in G
    BY <1>1, <1>4, <1>9, FS_Interval DEF IsSeqFold
  <2>2. ASSUME NEW s \in S, s # {}, \A x \in s : s \ {x} \in G
        PROVE  s \in G
    <3>1. Max(s) \in s /\ Max(s) \in 1..n /\ s \ {Max(s)} \in G
      BY <1>5, <2>2
    <3>2. h[s \ {Max(s)}] = g[s \ {Max(s)}] /\ g[s \ {Max(s)}] \in Account
      BY <1>4, <1>5, <2>2, <3>1
    <3>3. g[s] = step[Max(s)][g[s \ {Max(s)}]]
      BY <1>4, <2>2 DEF IsSeqFold
    <3> QED BY <1>3, <1>8, <2>2, <3>1, <3>2, <3>3
  <2> HIDE DEF G
  <2>3. S \subseteq G
    BY <2>1, <2>2, SubsetInduction
  <2>4. 1..n \in G
    BY <2>3
  <2> QED BY <1>4, <2>4 DEF G
<1>11. LegSteps(p, w, account, moves)
  <2>1. \A k \in 1..n : k - 1 \in 0..n
    BY <1>1
  <2> QED BY <1>3, <1>4, <2>1 DEF ArePrefixes, LegSteps, n
<1> QED BY <1>2, <1>4, <1>10, <1>11 DEF n


(* Applied legs leave an account; without legs it is left as it is. *)
LEMMA AfterLegsType ==
  ASSUME NEW account \in Account, NEW moves \in Seq(Legs), NEW w
  PROVE  /\ AfterLegs(w, account, moves) \in Account
         /\ moves = << >> => AfterLegs(w, account, moves) = account
<1>1. PICK p \in [0..Len(moves) -> Account] :
        LegSteps(p, w, account, moves) /\ AfterLegs(w, account, moves) = p[Len(moves)]
  BY OneByOne
<1>2. Len(moves) \in Nat /\ Len(moves) \in 0..Len(moves)
  BY LenProperties
<1>3. Len(<< >>) = 0
  OBVIOUS
<1> QED BY <1>1, <1>2, <1>3 DEF LegSteps

(* The first leg is applied first. *)
LEMMA FirstLeg ==
  ASSUME NEW account \in Account, NEW moves \in Seq(Legs), moves # << >>, NEW w
  PROVE  /\ Head(moves) \in Legs /\ Tail(moves) \in Seq(Legs)
         /\ AfterLeg(w, account, Head(moves)) \in Account
         /\ AfterLegs(w, account, moves)
              = AfterLegs(w, AfterLeg(w, account, Head(moves)), Tail(moves))
<1> DEFINE n == Len(moves)
           rest == Tail(moves)
           next == AfterLeg(w, account, Head(moves))
<1>1. /\ n \in Nat /\ n # 0 /\ Head(moves) = moves[1] /\ Head(moves) \in Legs
      /\ rest \in Seq(Legs) /\ Len(rest) = n - 1
      /\ \A k \in 1..(n - 1) : rest[k] = moves[k + 1]
  BY LenProperties, HeadTailProperties, EmptySeq
<1>2. next \in Account
  BY <1>1, AfterLegType
<1> HIDE DEF rest, next
<1>3. PICK p \in [0..n -> Account] :
        LegSteps(p, w, account, moves) /\ AfterLegs(w, account, moves) = p[n]
  BY OneByOne
<1>4. PICK q \in [0..Len(rest) -> Account] :
        LegSteps(q, w, next, rest) /\ AfterLegs(w, next, rest) = q[Len(rest)]
  BY <1>1, <1>2, OneByOne
<1> HIDE DEF n
<1>5. /\ p[0] = account /\ \A k \in 1..n : p[k] = AfterLeg(w, p[k - 1], moves[k])
      /\ q[0] = next /\ \A k \in 1..(n - 1) : q[k] = AfterLeg(w, q[k - 1], moves[k + 1])
  BY <1>1, <1>3, <1>4 DEF LegSteps, n
<1> DEFINE N == {k \in Nat : k <= n - 1 => p[k + 1] = q[k]}
<1>6. 0 \in N
  <2>1. 1 \in 1..n /\ 1 - 1 = 0 /\ 0 + 1 = 1
    BY <1>1
  <2>2. p[1] = AfterLeg(w, p[1 - 1], moves[1])
    BY <1>5, <2>1
  <2>3. p[0 + 1] = q[0]
    BY <1>1, <1>5, <2>1, <2>2 DEF next
  <2> QED BY <2>3
<1>7. ASSUME NEW k \in Nat, k \in N
      PROVE  k + 1 \in N
  <2> SUFFICES ASSUME k + 1 <= n - 1 PROVE p[(k + 1) + 1] = q[k + 1]
    OBVIOUS
  <2>1. p[k + 1] = q[k] /\ k + 1 \in 1..(n - 1) /\ (k + 1) + 1 \in 1..n
        /\ (k + 1) - 1 = k /\ ((k + 1) + 1) - 1 = k + 1
    BY <1>1, <1>7
  <2>2. q[k + 1] = AfterLeg(w, q[(k + 1) - 1], moves[(k + 1) + 1])
    BY <1>5, <2>1
  <2>3. p[(k + 1) + 1] = AfterLeg(w, p[((k + 1) + 1) - 1], moves[(k + 1) + 1])
    BY <1>5, <2>1
  <2> QED BY <2>1, <2>2, <2>3
<1> HIDE DEF N
<1>8. Nat \subseteq N
  BY <1>6, <1>7, SetInduction
<1>9. n - 1 \in N /\ n - 1 \in Nat /\ (n - 1) + 1 = n
  BY <1>1, <1>8
<1>10. p[n] = q[n - 1]
  BY <1>9 DEF N
<1> QED BY <1>1, <1>2, <1>3, <1>4, <1>10 DEF rest, next, n

-----------------------------------------------------------------------------
(* What the wallets of an asset hold *)

(* A table of wallets after one leg, and after the legs of a list. *)
LegApplied(table, leg) == [w \in Wallets |-> AfterLeg(w, table[w], leg)]
Applied(table, moves) == [w \in Wallets |-> AfterLegs(w, table[w], moves)]

InWallet(account) == account.available + account.locked

(* What users hold of an asset, in a table of wallets. *)
Holding(table, asset) == MapThenSumSet(LAMBDA u : InWallet(table[<<u, asset>>]), Users)

(* What a leg brings to the wallets of an asset. *)
Brings(leg, asset) ==
  IF leg.wallet[2] = asset THEN leg.available + leg.locked ELSE 0

LEMMA LegAppliedType ==
  ASSUME NEW table \in [Wallets -> Account], NEW leg \in Legs
  PROVE  LegApplied(table, leg) \in [Wallets -> Account]
BY AfterLegType DEF LegApplied

LEMMA AppliedType ==
  ASSUME NEW table \in [Wallets -> Account], NEW moves \in Seq(Legs)
  PROVE  /\ Applied(table, moves) \in [Wallets -> Account]
         /\ moves = << >> => Applied(table, moves) = table
BY AfterLegsType DEF Applied

(* Applying a list is applying its first leg, and then the others. *)
LEMMA AppliedFirst ==
  ASSUME NEW table \in [Wallets -> Account], NEW moves \in Seq(Legs), moves # << >>
  PROVE  /\ Head(moves) \in Legs /\ Tail(moves) \in Seq(Legs)
         /\ Applied(table, moves) = Applied(LegApplied(table, Head(moves)), Tail(moves))
<1>1. Head(moves) \in Legs /\ Tail(moves) \in Seq(Legs)
  BY HeadTailProperties
<1>2. \A w \in Wallets :
        AfterLegs(w, table[w], moves)
          = AfterLegs(w, AfterLeg(w, table[w], Head(moves)), Tail(moves))
  BY FirstLeg
<1> QED BY <1>1, <1>2 DEF Applied, LegApplied

Parts(table, asset) == [u \in Users |-> InWallet(table[<<u, asset>>])]

LEMMA PartsType ==
  ASSUME NEW table \in [Wallets -> Account], NEW a \in Assets
  PROVE  Parts(table, a) \in [Users -> Int]
<1>1. \A u \in Users : table[<<u, a>>] \in Account
  BY DEF Wallets
<1> QED BY <1>1 DEF InWallet, Account, Parts

(* What is held of an asset is a sum over the users. *)
LEMMA HoldingIsSum ==
  ASSUME NEW table \in [Wallets -> Account], NEW a \in Assets
  PROVE  Holding(table, a) = SumOf(Parts(table, a), Users)
<1> DEFINE f == Parts(table, a)
           S == SUBSET Users
           Rec(g) == [s \in S |->
                        IF s = {} THEN 0
                        ELSE InWallet(table[<<Chosen(s), a>>]) + g[s \ {Chosen(s)}]]
           h == CHOOSE g : g = Rec(g)
<1>1. f \in [Users -> Int]
  BY PartsType
<1>2. \A u \in Users : f[u] = InWallet(table[<<u, a>>])
  BY DEF Parts
<1>3. Holding(table, a) = h[Users]
  BY DEF Holding, MapThenSumSet, MapThenFoldSet, Chosen
<1> HIDE DEF f
<1>4. PICK g \in [S -> Int] : AreSums(g, f, Users)
  BY <1>1, UsersAssumption, SumRecursion
<1>5. \A s \in S : s # {} => Chosen(s) \in s /\ Chosen(s) \in Users /\ s \ {Chosen(s)} \in S
  BY ChosenLeaves
<1>6. g = Rec(g)
  <2>1. \A s \in S : g[s] = IF s = {} THEN 0
                            ELSE InWallet(table[<<Chosen(s), a>>]) + g[s \ {Chosen(s)}]
    BY <1>2, <1>4, <1>5 DEF AreSums
  <2> QED BY <2>1
<1>7. h = Rec(h)
  <2> HIDE DEF Rec
  <2> QED BY <1>6
<1> HIDE DEF h
<1>8. \A s \in S : h[s] = IF s = {} THEN 0
                          ELSE InWallet(table[<<Chosen(s), a>>]) + h[s \ {Chosen(s)}]
  BY <1>7
<1>9. \A s \in S : g[s] = IF s = {} THEN 0
                          ELSE InWallet(table[<<Chosen(s), a>>]) + g[s \ {Chosen(s)}]
  BY <1>6
<1> HIDE DEF Rec
<1> DEFINE G == {s \in S : h[s] = g[s]}
<1>10. {} \in G
  BY <1>8, <1>9
<1>11. ASSUME NEW s \in S, s # {}, \A x \in s : s \ {x} \in G
       PROVE  s \in G
  <2>1. h[s \ {Chosen(s)}] = g[s \ {Chosen(s)}]
    BY <1>5, <1>11
  <2> QED BY <1>8, <1>9, <1>11, <2>1
<1> HIDE DEF G
<1>12. Users \in G
  BY <1>10, <1>11, UsersAssumption, SubsetInduction
<1>13. h[Users] = g[Users] /\ g[Users] = SumOf(f, Users)
  BY <1>4, <1>12 DEF AreSums, G
<1> QED BY <1>3, <1>13 DEF f

(* A leg changes what is held of each asset by what it brings. *)
LEMMA LegHolding ==
  ASSUME NEW table \in [Wallets -> Account], NEW leg \in Legs, NEW a \in Assets
  PROVE  Holding(LegApplied(table, leg), a) = Holding(table, a) + Brings(leg, a)
<1> DEFINE after == LegApplied(table, leg)
           f == Parts(table, a)
           g == Parts(after, a)
           u == leg.wallet[1]
<1>1. /\ u \in Users /\ leg.wallet \in Wallets /\ leg.wallet = <<u, leg.wallet[2]>>
      /\ leg.available \in Int /\ leg.locked \in Int
  BY DEF Legs, Wallets
<1>2. after \in [Wallets -> Account]
  BY LegAppliedType
<1>3. \A w \in Wallets : after[w] = IF leg.wallet = w THEN Moved(table[w], leg) ELSE table[w]
  BY DEF LegApplied, AfterLeg
<1> HIDE DEF after
<1>4. f \in [Users -> Int] /\ g \in [Users -> Int]
  BY <1>2, PartsType
<1>5. \A x \in Users : /\ f[x] = InWallet(table[<<x, a>>])
                       /\ g[x] = InWallet(after[<<x, a>>])
                       /\ <<x, a>> \in Wallets
  BY DEF Parts, Wallets
<1>6. Holding(table, a) = SumOf(f, Users) /\ Holding(after, a) = SumOf(g, Users)
  BY <1>2, HoldingIsSum
<1> HIDE DEF f, g, u
<1>7. ASSUME NEW x \in Users, x # u
      PROVE  g[x] = f[x]
  <2>1. leg.wallet # <<x, a>>
    BY <1>1, <1>7
  <2> QED BY <1>3, <1>5, <2>1
<1>8. g[u] = f[u] + Brings(leg, a)
  <2>1. CASE leg.wallet[2] = a
    <3>1. leg.wallet = <<u, a>> /\ after[<<u, a>>] = Moved(table[<<u, a>>], leg)
      BY <1>1, <1>3, <2>1
    <3>2. table[<<u, a>>] \in Account
      BY <1>1, <1>5
    <3>3. InWallet(after[<<u, a>>]) = InWallet(table[<<u, a>>]) + (leg.available + leg.locked)
      BY <1>1, <3>1, <3>2 DEF InWallet, Moved, Account
    <3> QED BY <1>1, <1>5, <2>1, <3>3 DEF Brings
  <2>2. CASE leg.wallet[2] # a
    <3>1. leg.wallet # <<u, a>>
      BY <2>2
    <3>2. g[u] = f[u]
      BY <1>1, <1>3, <1>5, <3>1
    <3> QED BY <1>1, <1>4, <2>2, <3>2 DEF Brings
  <2> QED BY <2>1, <2>2
<1>9. SumOf(g, Users) = SumOf(f, Users) + g[u] - f[u]
  BY <1>1, <1>4, <1>7, UsersAssumption, SumChanges
<1>10. SumOf(f, Users) \in Int /\ f[u] \in Int /\ Brings(leg, a) \in Int
  BY <1>1, <1>4, UsersAssumption, SumType DEF Brings
<1> HIDE DEF after
<1> QED BY <1>6, <1>8, <1>9, <1>10 DEF after


LEMMA HoldingType ==
  ASSUME NEW table \in [Wallets -> Account], NEW a \in Assets
  PROVE  Holding(table, a) \in Int
BY HoldingIsSum, PartsType, UsersAssumption, SumType

-----------------------------------------------------------------------------
(* What operations bring in *)

(* The legs bring n to the wallets of an asset, whatever is in them. *)
Bring(moves, asset, n) ==
  \A table \in [Wallets -> Account] :
    Holding(Applied(table, moves), asset) = Holding(table, asset) + n

LEMMA NoLegBrings ==
  ASSUME NEW a \in Assets
  PROVE  Bring(<< >>, a, 0)
<1> SUFFICES ASSUME NEW table \in [Wallets -> Account]
             PROVE  Holding(Applied(table, << >>), a) = Holding(table, a) + 0
  BY DEF Bring
<1>1. << >> \in Seq(Legs)
  OBVIOUS
<1>2. Applied(table, << >>) = table
  BY <1>1, AppliedType
<1> QED BY <1>2, HoldingType

(* Legs bring what the first and what the others bring. *)
LEMMA MoreLegsBring ==
  ASSUME NEW moves \in Seq(Legs), moves # << >>, NEW a \in Assets, NEW n \in Int,
         Bring(Tail(moves), a, n)
  PROVE  Bring(moves, a, Brings(Head(moves), a) + n)
<1> SUFFICES ASSUME NEW table \in [Wallets -> Account]
             PROVE  Holding(Applied(table, moves), a)
                      = Holding(table, a) + (Brings(Head(moves), a) + n)
  BY DEF Bring
<1> DEFINE leg == Head(moves)
           next == LegApplied(table, leg)
<1>1. leg \in Legs /\ Applied(table, moves) = Applied(next, Tail(moves))
  BY AppliedFirst
<1>2. next \in [Wallets -> Account] /\ Holding(next, a) = Holding(table, a) + Brings(leg, a)
  BY <1>1, LegAppliedType, LegHolding
<1>3. Brings(leg, a) \in Int /\ Holding(table, a) \in Int
  BY <1>1, HoldingType DEF Brings, Legs
<1> HIDE DEF next, leg
<1>4. Holding(Applied(next, Tail(moves)), a) = Holding(next, a) + n
  BY <1>2 DEF Bring
<1> QED BY <1>1, <1>2, <1>3, <1>4 DEF leg

(* One leg, two legs, four legs. *)
LEMMA OneLegBrings ==
  ASSUME NEW leg \in Legs, NEW a \in Assets
  PROVE  Bring(<<leg>>, a, Brings(leg, a))
<1>1. /\ <<leg>> \in Seq(Legs) /\ <<leg>> # << >>
      /\ Head(<<leg>>) = leg /\ Tail(<<leg>>) = << >>
  OBVIOUS
<1>2. Brings(leg, a) \in Int /\ Brings(leg, a) + 0 = Brings(leg, a) /\ 0 \in Int
  BY DEF Brings, Legs
<1> DEFINE moves == <<leg>>
<1>3. /\ moves \in Seq(Legs) /\ moves # << >> /\ Head(moves) = leg
      /\ Bring(Tail(moves), a, 0)
  BY <1>1, NoLegBrings
<1> HIDE DEF moves
<1>4. Bring(moves, a, Brings(Head(moves), a) + 0)
  BY <1>2, <1>3, MoreLegsBring
<1>5. Bring(moves, a, Brings(leg, a))
  BY <1>2, <1>3, <1>4
<1> QED BY <1>5 DEF moves

LEMMA TwoLegsBring ==
  ASSUME NEW x \in Legs, NEW y \in Legs, NEW a \in Assets
  PROVE  Bring(<<x, y>>, a, Brings(x, a) + Brings(y, a))
<1>1. /\ <<x, y>> \in Seq(Legs) /\ <<x, y>> # << >>
      /\ Head(<<x, y>>) = x /\ Tail(<<x, y>>) = <<y>>
  OBVIOUS
<1>2. Brings(y, a) \in Int
  BY DEF Brings, Legs
<1> QED BY <1>1, <1>2, OneLegBrings, MoreLegsBring

LEMMA FourLegsBring ==
  ASSUME NEW x \in Legs, NEW y \in Legs, NEW z \in Legs, NEW v \in Legs, NEW a \in Assets
  PROVE  Bring(<<x, y, z, v>>, a,
               Brings(x, a) + (Brings(y, a) + (Brings(z, a) + Brings(v, a))))
<1>1. /\ <<y, z, v>> \in Seq(Legs) /\ <<y, z, v>> # << >>
      /\ Head(<<y, z, v>>) = y /\ Tail(<<y, z, v>>) = <<z, v>>
  OBVIOUS
<1>2. /\ <<x, y, z, v>> \in Seq(Legs) /\ <<x, y, z, v>> # << >>
      /\ Head(<<x, y, z, v>>) = x /\ Tail(<<x, y, z, v>>) = <<y, z, v>>
  OBVIOUS
<1>3. Brings(y, a) \in Int /\ Brings(z, a) \in Int /\ Brings(v, a) \in Int
  BY DEF Brings, Legs
<1> DEFINE m == Brings(z, a) + Brings(v, a)
           n == Brings(y, a) + m
<1>4. m \in Int /\ n \in Int
  BY <1>3
<1>5. Bring(<<z, v>>, a, m)
  BY TwoLegsBring
<1> HIDE DEF m
<1>6. Bring(<<y, z, v>>, a, n)
  BY <1>1, <1>4, <1>5, MoreLegsBring
<1> HIDE DEF n
<1>7. Bring(<<x, y, z, v>>, a, Brings(x, a) + n)
  BY <1>2, <1>4, <1>6, MoreLegsBring
<1> QED BY <1>7 DEF n, m


(* What an operation says that it brings in is what its legs bring. *)
BringsInflow(op) == \A b \in Assets : Bring(op.legs, b, op.inflow[b])

LEMMA LegBrings ==
  ASSUME NEW u \in Users, NEW a \in Assets, NEW x \in Int, NEW y \in Int, NEW z \in Int,
         NEW b \in Assets
  PROVE  Brings(Leg(u, a, x, y, z), b) = IF a = b THEN x + y ELSE 0
BY DEF Brings, Leg

LEMMA OneLegInflow ==
  ASSUME NEW u \in Users, NEW a \in Assets, NEW x \in Int, NEW y \in Int, NEW z \in Int
  PROVE  BringsInflow(Operation(<<u>>, <<Leg(u, a, x, y, z)>>, a, x + y))
<1> DEFINE op == Operation(<<u>>, <<Leg(u, a, x, y, z)>>, a, x + y)
<1> SUFFICES ASSUME NEW b \in Assets PROVE Bring(op.legs, b, op.inflow[b])
  BY DEF BringsInflow
<1>1. Bring(<<Leg(u, a, x, y, z)>>, b, Brings(Leg(u, a, x, y, z), b))
  BY LegType, OneLegBrings
<1>2. /\ op.legs = <<Leg(u, a, x, y, z)>>
      /\ op.inflow[b] = Brings(Leg(u, a, x, y, z), b)
  BY LegBrings DEF Operation
<1> QED BY <1>1, <1>2

LEMMA TransferInflow ==
  ASSUME NEW u \in Users, NEW to \in Users, NEW a \in Assets, NEW n \in Int
  PROVE  BringsInflow(InternalTransfer(u, to, a, n))
<1> DEFINE op == InternalTransfer(u, to, a, n)
           x == Leg(u, a, -n, 0, n)
           y == Leg(to, a, n, 0, n)
<1> SUFFICES ASSUME NEW b \in Assets PROVE Bring(op.legs, b, op.inflow[b])
  BY DEF BringsInflow
<1>1. x \in Legs /\ y \in Legs /\ Brings(x, b) + Brings(y, b) = 0
  BY LegType, LegBrings
<1>2. op.legs = <<x, y>> /\ op.inflow[b] = 0
  BY DEF InternalTransfer, Operation
<1> HIDE DEF x, y, op
<1>3. Bring(<<x, y>>, b, Brings(x, b) + Brings(y, b))
  BY <1>1, TwoLegsBring
<1> QED BY <1>1, <1>2, <1>3

LEMMA FourLegs ==
  ASSUME NEW x \in Legs, NEW y \in Legs, NEW z \in Legs, NEW v \in Legs
  PROVE  <<x, y>> \o <<z, v>> = <<x, y, z, v>>
<1> DEFINE s == <<x, y>>
           t == <<z, v>>
<1>1. s \in Seq(Legs) /\ t \in Seq(Legs) /\ Len(s) = 2 /\ Len(t) = 2
      /\ s[1] = x /\ s[2] = y /\ t[1] = z /\ t[2] = v
  OBVIOUS
<1> HIDE DEF s, t
<1>2. /\ s \o t \in Seq(Legs) /\ Len(s \o t) = Len(s) + Len(t)
      /\ \A i \in 1..Len(s) + Len(t) :
           (s \o t)[i] = IF i <= Len(s) THEN s[i] ELSE t[i - Len(s)]
  BY <1>1, ConcatProperties
<1>3. Len(s \o t) = 4
      /\ (s \o t)[1] = x /\ (s \o t)[2] = y /\ (s \o t)[3] = z /\ (s \o t)[4] = v
  BY <1>1, <1>2
<1>4. s \o t = [i \in 1..4 |-> (s \o t)[i]]
  BY <1>2, <1>3, LenProperties
<1>5. <<x, y, z, v>> = [i \in 1..4 |-> <<x, y, z, v>>[i]]
  OBVIOUS
<1>6. ASSUME NEW i \in 1..4
      PROVE  (s \o t)[i] = <<x, y, z, v>>[i]
  <2>1. i = 1 \/ i = 2 \/ i = 3 \/ i = 4
    OBVIOUS
  <2> QED BY <1>3, <2>1
<1>7. s \o t = <<x, y, z, v>>
  BY <1>4, <1>5, <1>6
<1> QED BY <1>7 DEF s, t

(* A trade brings in minus the fees, in the quote asset. *)
LEMMA SettlementInflow ==
  ASSUME NEW s \in Users, NEW b \in Users, NEW m, NEW k,
         NEW pair \in Assets \X Assets, pair[1] # pair[2],
         NEW p \in Int, NEW q \in Int, NEW fees, fees[1] \in Int, fees[2] \in Int
  PROVE  BringsInflow(SettleTrade(s, b, m, k, pair, p, q, fees))
<1> DEFINE op == SettleTrade(s, b, m, k, pair, p, q, fees)
           base == pair[1]
           quote == pair[2]
           sf == fees[1]
           bf == fees[2]
           w == p * q
           x == Leg(s, base, 0, -q, -q)
           y == Leg(s, quote, w - sf, 0, w - sf)
           z == Leg(b, quote, 0, -(w + bf), -(w + bf))
           v == Leg(b, base, q, 0, q)
<1> SUFFICES ASSUME NEW a \in Assets PROVE Bring(op.legs, a, op.inflow[a])
  BY DEF BringsInflow
<1>1. /\ base \in Assets /\ quote \in Assets /\ base # quote
      /\ sf \in Int /\ bf \in Int /\ w \in Int
  OBVIOUS
<1>2. /\ op.legs = IF m = s THEN <<x, y>> \o <<z, v>> ELSE <<z, v>> \o <<x, y>>
      /\ op.inflow[a] = IF a = quote THEN -(sf + bf) ELSE 0
  BY DEF SettleTrade, Operation
<1> HIDE DEF op, w, base, quote, sf, bf
<1>3. /\ x \in Legs /\ y \in Legs /\ z \in Legs /\ v \in Legs
  BY <1>1, LegType
<1>4. /\ Brings(x, a) = IF base = a THEN 0 + -q ELSE 0
      /\ Brings(y, a) = IF quote = a THEN (w - sf) + 0 ELSE 0
      /\ Brings(z, a) = IF quote = a THEN 0 + -(w + bf) ELSE 0
      /\ Brings(v, a) = IF base = a THEN q + 0 ELSE 0
  BY <1>1, LegBrings
<1> HIDE DEF x, y, z, v
<1>5. /\ Bring(<<x, y, z, v>>, a, Brings(x, a) + (Brings(y, a) + (Brings(z, a) + Brings(v, a))))
      /\ Bring(<<z, v, x, y>>, a, Brings(z, a) + (Brings(v, a) + (Brings(x, a) + Brings(y, a))))
  BY <1>3, FourLegsBring
<1>6. /\ Brings(x, a) + (Brings(y, a) + (Brings(z, a) + Brings(v, a))) = op.inflow[a]
      /\ Brings(z, a) + (Brings(v, a) + (Brings(x, a) + Brings(y, a))) = op.inflow[a]
  BY <1>1, <1>2, <1>4
<1>7. <<x, y>> \o <<z, v>> = <<x, y, z, v>> /\ <<z, v>> \o <<x, y>> = <<z, v, x, y>>
  BY <1>3, FourLegs
<1> QED BY <1>2, <1>5, <1>6, <1>7

(* Whatever is asked for brings in what it says. *)
LEMMA AskedInflow ==
  ASSUME NEW op \in Asked
  PROVE  BringsInflow(op)
<1> USE AmountsAssumption
<1>1. CASE \E u \in Users, a \in Assets, n \in Amounts :
             op \in {Credit(u, a, n), Debit(u, a, n), Lock(u, a, n), Unlock(u, a, n)}
  <2> PICK u \in Users, a \in Assets, n \in Amounts :
        op \in {Credit(u, a, n), Debit(u, a, n), Lock(u, a, n), Unlock(u, a, n)}
    BY <1>1
  <2>1. /\ n \in Int /\ -n \in Int /\ 0 \in Int
        /\ n + 0 = n /\ -n + 0 = -n /\ -n + n = 0 /\ n + -n = 0
    OBVIOUS
  <2>2. /\ BringsInflow(Operation(<<u>>, <<Leg(u, a, n, 0, n)>>, a, n + 0))
        /\ BringsInflow(Operation(<<u>>, <<Leg(u, a, -n, 0, -n)>>, a, -n + 0))
        /\ BringsInflow(Operation(<<u>>, <<Leg(u, a, -n, n, n)>>, a, -n + n))
        /\ BringsInflow(Operation(<<u>>, <<Leg(u, a, n, -n, n)>>, a, n + -n))
    BY <2>1, OneLegInflow
  <2> QED BY <2>1, <2>2 DEF Credit, Debit, Lock, Unlock
<1>2. CASE \E u \in Users, to \in Users, a \in Assets, n \in Amounts :
             op = InternalTransfer(u, to, a, n)
  BY <1>2, TransferInflow
<1>3. CASE \E t \in Trades, p \in Pairs, n \in Amounts, f \in Fees \X Fees :
             \/ op = SettleTrade(t[1], t[2], t[1], t[2], p, n, 1, f)
             \/ op = SettleTrade(t[1], t[2], t[2], t[1], p, n, 1, f)
  <2> PICK t \in Trades, p \in Pairs, n \in Amounts, f \in Fees \X Fees :
             \/ op = SettleTrade(t[1], t[2], t[1], t[2], p, n, 1, f)
             \/ op = SettleTrade(t[1], t[2], t[2], t[1], p, n, 1, f)
    BY <1>3
  <2>1. /\ t[1] \in Users /\ t[2] \in Users
        /\ p \in Assets \X Assets /\ p[1] # p[2]
        /\ n \in Int /\ f[1] \in Int /\ f[2] \in Int
    BY PairsAssumption DEF Trades
  <2> QED BY <2>1, SettlementInflow
<1> QED BY <1>1, <1>2, <1>3 DEF Asked

-----------------------------------------------------------------------------
(* What operations do to the locked part of a wallet *)

(* The legs add n to what is locked in w, whatever is in the wallets. *)
Locks(moves, w, n) ==
  \A table \in [Wallets -> Account] : Applied(table, moves)[w].locked = table[w].locked + n

LegLocks(leg, w) == IF leg.wallet = w THEN leg.locked ELSE 0

LEMMA NoLegLocks ==
  ASSUME NEW w \in Wallets
  PROVE  Locks(<< >>, w, 0)
<1> SUFFICES ASSUME NEW table \in [Wallets -> Account]
             PROVE  Applied(table, << >>)[w].locked = table[w].locked + 0
  BY DEF Locks
<1>1. << >> \in Seq(Legs)
  OBVIOUS
<1>2. Applied(table, << >>) = table
  BY <1>1, AppliedType
<1>3. table[w].locked \in Int
  BY DEF Account
<1> QED BY <1>2, <1>3

LEMMA MoreLegsLock ==
  ASSUME NEW moves \in Seq(Legs), moves # << >>, NEW w \in Wallets, NEW n \in Int,
         Locks(Tail(moves), w, n)
  PROVE  Locks(moves, w, LegLocks(Head(moves), w) + n)
<1> SUFFICES ASSUME NEW table \in [Wallets -> Account]
             PROVE  Applied(table, moves)[w].locked
                      = table[w].locked + (LegLocks(Head(moves), w) + n)
  BY DEF Locks
<1> DEFINE leg == Head(moves)
           next == LegApplied(table, leg)
<1>1. leg \in Legs /\ Applied(table, moves) = Applied(next, Tail(moves))
  BY AppliedFirst
<1>2. next \in [Wallets -> Account]
  BY <1>1, LegAppliedType
<1>3. next[w].locked = table[w].locked + LegLocks(leg, w)
      /\ table[w].locked \in Int /\ LegLocks(leg, w) \in Int
  <2>1. table[w] \in Account
    OBVIOUS
  <2>2. next[w] = AfterLeg(w, table[w], leg)
    BY DEF LegApplied
  <2>3. table[w].locked \in Int /\ leg.locked \in Int
    BY <1>1, <2>1 DEF Account, Legs
  <2> HIDE DEF leg, next
  <2> QED BY <2>2, <2>3 DEF AfterLeg, Moved, LegLocks
<1> HIDE DEF next, leg
<1>4. Applied(next, Tail(moves))[w].locked = next[w].locked + n
  BY <1>2 DEF Locks
<1> QED BY <1>1, <1>3, <1>4 DEF leg

LEMMA OneLegLocks ==
  ASSUME NEW leg \in Legs, NEW w \in Wallets
  PROVE  Locks(<<leg>>, w, LegLocks(leg, w))
<1>1. /\ <<leg>> \in Seq(Legs) /\ <<leg>> # << >>
      /\ Head(<<leg>>) = leg /\ Tail(<<leg>>) = << >>
  OBVIOUS
<1>2. LegLocks(leg, w) \in Int /\ LegLocks(leg, w) + 0 = LegLocks(leg, w) /\ 0 \in Int
  BY DEF LegLocks, Legs
<1> DEFINE moves == <<leg>>
<1>3. /\ moves \in Seq(Legs) /\ moves # << >> /\ Head(moves) = leg
      /\ Locks(Tail(moves), w, 0)
  BY <1>1, NoLegLocks
<1> HIDE DEF moves
<1>4. Locks(moves, w, LegLocks(Head(moves), w) + 0)
  BY <1>2, <1>3, MoreLegsLock
<1>5. Locks(moves, w, LegLocks(leg, w))
  BY <1>2, <1>3, <1>4
<1> QED BY <1>5 DEF moves

LEMMA FourLegsLock ==
  ASSUME NEW x \in Legs, NEW y \in Legs, NEW z \in Legs, NEW v \in Legs, NEW w \in Wallets
  PROVE  Locks(<<x, y, z, v>>, w,
               LegLocks(x, w) + (LegLocks(y, w) + (LegLocks(z, w) + LegLocks(v, w))))
<1>1. /\ <<y, z, v>> \in Seq(Legs) /\ <<y, z, v>> # << >>
      /\ Head(<<y, z, v>>) = y /\ Tail(<<y, z, v>>) = <<z, v>>
  OBVIOUS
<1>2. /\ <<x, y, z, v>> \in Seq(Legs) /\ <<x, y, z, v>> # << >>
      /\ Head(<<x, y, z, v>>) = x /\ Tail(<<x, y, z, v>>) = <<y, z, v>>
  OBVIOUS
<1>0. /\ <<z, v>> \in Seq(Legs) /\ <<z, v>> # << >>
      /\ Head(<<z, v>>) = z /\ Tail(<<z, v>>) = <<v>>
  OBVIOUS
<1>3. LegLocks(y, w) \in Int /\ LegLocks(z, w) \in Int /\ LegLocks(v, w) \in Int
  BY DEF LegLocks, Legs
<1> DEFINE m == LegLocks(z, w) + LegLocks(v, w)
           n == LegLocks(y, w) + m
<1>4. m \in Int /\ n \in Int
  BY <1>3
<1>5. Locks(<<z, v>>, w, m)
  BY <1>0, <1>3, OneLegLocks, MoreLegsLock
<1> HIDE DEF m
<1>6. Locks(<<y, z, v>>, w, n)
  BY <1>1, <1>4, <1>5, MoreLegsLock
<1> HIDE DEF n
<1>7. Locks(<<x, y, z, v>>, w, LegLocks(x, w) + n)
  BY <1>2, <1>4, <1>6, MoreLegsLock
<1> QED BY <1>7 DEF n, m

(* A settlement takes what the seller sells and what the buyer pays. *)
LEMMA SettlementLocks ==
  ASSUME NEW s \in Users, NEW b \in Users, NEW m, NEW k,
         NEW pair \in Assets \X Assets, pair[1] # pair[2],
         NEW p \in Int, NEW q \in Int, NEW fees, fees[1] \in Int, fees[2] \in Int,
         NEW w \in Wallets
  PROVE  Locks(SettleTrade(s, b, m, k, pair, p, q, fees).legs, w,
               IF w = <<s, pair[1]>> THEN -q
               ELSE IF w = <<b, pair[2]>> THEN -(p * q + fees[2]) ELSE 0)
<1> DEFINE op == SettleTrade(s, b, m, k, pair, p, q, fees)
           base == pair[1]
           quote == pair[2]
           sf == fees[1]
           bf == fees[2]
           c == p * q
           x == Leg(s, base, 0, -q, -q)
           y == Leg(s, quote, c - sf, 0, c - sf)
           z == Leg(b, quote, 0, -(c + bf), -(c + bf))
           v == Leg(b, base, q, 0, q)
           n == IF w = <<s, base>> THEN -q
                ELSE IF w = <<b, quote>> THEN -(c + bf) ELSE 0
<1>1. /\ base \in Assets /\ quote \in Assets /\ base # quote
      /\ sf \in Int /\ bf \in Int /\ c \in Int
  OBVIOUS
<1>2. op.legs = IF m = s THEN <<x, y>> \o <<z, v>> ELSE <<z, v>> \o <<x, y>>
  BY DEF SettleTrade, Operation
<1>n. n = IF w = <<s, pair[1]>> THEN -q
          ELSE IF w = <<b, pair[2]>> THEN -(p * q + fees[2]) ELSE 0
  OBVIOUS
<1> HIDE DEF op, c, base, quote, sf, bf
<1>3. /\ x \in Legs /\ y \in Legs /\ z \in Legs /\ v \in Legs
  BY <1>1, LegType
<1>4. /\ LegLocks(x, w) = IF w = <<s, base>> THEN -q ELSE 0
      /\ LegLocks(y, w) = 0 /\ LegLocks(v, w) = 0
      /\ LegLocks(z, w) = IF w = <<b, quote>> THEN -(c + bf) ELSE 0
  BY DEF LegLocks, Leg
<1> HIDE DEF x, y, z, v
<1>5. /\ Locks(<<x, y, z, v>>, w,
               LegLocks(x, w) + (LegLocks(y, w) + (LegLocks(z, w) + LegLocks(v, w))))
      /\ Locks(<<z, v, x, y>>, w,
               LegLocks(z, w) + (LegLocks(v, w) + (LegLocks(x, w) + LegLocks(y, w))))
  BY <1>3, FourLegsLock
<1>6. /\ LegLocks(x, w) + (LegLocks(y, w) + (LegLocks(z, w) + LegLocks(v, w))) = n
      /\ LegLocks(z, w) + (LegLocks(v, w) + (LegLocks(x, w) + LegLocks(y, w))) = n
  <2>1. <<s, base>> # <<b, quote>>
    BY <1>1
  <2>2. -q \in Int /\ -(c + bf) \in Int
    BY <1>1
  <2> QED BY <1>4, <2>1, <2>2
<1>7. <<x, y>> \o <<z, v>> = <<x, y, z, v>> /\ <<z, v>> \o <<x, y>> = <<z, v, x, y>>
  BY <1>3, FourLegs
<1> HIDE DEF n
<1>8. Locks(op.legs, w, n)
  BY <1>2, <1>5, <1>6, <1>7
<1> QED BY <1>8, <1>n DEF op
=============================================================================
