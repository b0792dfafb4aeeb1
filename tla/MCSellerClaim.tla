------------------------------ MODULE MCSellerClaim ------------------------------
(***************************************************************************)
(* Small stretches of history for SellerClaim.  Their logs follow the      *)
(* contracts' accounting: the end balance of an account is its opening     *)
(* balance plus its deposits less its settlements and withdrawals, and the *)
(* volume counter of a seller is the sum of all its settlements.           *)
(***************************************************************************)
EXTENDS ClaimRules

D == 1   \* Deposits
F == 2   \* a funder
S == 3   \* a seller
B == 4   \* a buyer
R == 5   \* a relay, a second buyer or an outsider

Transfer(block, tx, from, to, amount, signer) ==
  [block |-> block, tx |-> tx, kind |-> "transfer", from |-> from, to |-> to,
   amount |-> amount, signer |-> signer]
DepositedLog(block, tx, buyer, amount, signer) ==
  [block |-> block, tx |-> tx, kind |-> "deposited", from |-> Zero, to |-> buyer,
   amount |-> amount, signer |-> signer]
Settlement(block, tx, buyer, seller, amount) ==
  [block |-> block, tx |-> tx, kind |-> "settled", from |-> buyer, to |-> seller,
   amount |-> amount, signer |-> seller]
Deposit(block, tx, payer, buyer, amount, signer) ==
  <<Transfer(block, tx, payer, DepositsAddress, amount, signer),
    DepositedLog(block, tx, buyer, amount, signer)>>

None == [a \in Addresses |-> 0]
Only(x, amount) == [None EXCEPT ![x] = amount]

\* A history of the given logs.
History(logs, opening, withdrawn, staked) ==
  LET sum(kind, a) == MapThenSumSet(LAMBDA i : logs[i].amount,
                        {i \in DOMAIN logs : logs[i].kind = kind
                           /\ (IF kind = "settled" THEN logs[i].from ELSE logs[i].to) = a})
      sold(a) == MapThenSumSet(LAMBDA i : logs[i].amount,
                   {i \in DOMAIN logs : logs[i].kind = "settled" /\ logs[i].to = a})
  IN [logs |-> logs, opening |-> opening,
      end |-> [a \in Addresses |->
                 opening[a] + sum("deposited", a) - sum("settled", a) - withdrawn[a]],
      agent |-> [a \in Addresses |-> a \in staked],
      volume |-> [a \in Addresses |-> sold(a)]]

\* A loop F -> B -> S -> R -> F with a direct payment besides: B pays its first
\* funding in itself, the second is a deposit by F.
LoopHistory(first, settled, hop, back, direct, open, out) ==
  History(
    <<Transfer(2, 1, F, B, first, F)>> \o Deposit(2, 2, B, B, first, B)
      \o Deposit(3, 1, F, B, 10, F)
      \o <<Settlement(4, 1, B, S, settled), Transfer(5, 1, S, R, hop, S),
           Transfer(6, 1, R, F, back, R), Transfer(6, 2, S, F, direct, S)>>,
    Only(B, open), Only(B, out), {S})

\* Two buyers, one funded too late for its first settlement, in the same block; the
\* third hop may come too late, and the last transfer is after the period.
TwoBuyers(early, late, last) ==
  History(
    Deposit(2, 1, F, B, 10, F)
      \o <<Settlement(3, 1, R, S, 4)>> \o Deposit(3, 2, F, R, late, F)
      \o <<Settlement(4, 1, R, S, late), Settlement(4, 2, B, S, early),
           Transfer(5, 1, S, B, 8, S), Transfer(6, 1, B, R, 8, B), Transfer(last, 1, R, F, 8, R),
           Transfer(9, 1, S, F, 9, S)>>,
    Only(R, 4), None, {S})

\* A seller that funds its own buyer, through another wallet or with a deposit that
\* someone else signs.
SelfHistory(signer) ==
  History(
    <<Transfer(2, 1, S, B, 10, S)>> \o Deposit(2, 2, S, B, 10, signer)
      \o <<Settlement(4, 1, B, S, 10), Transfer(5, 1, S, R, 10, S)>>,
    None, None, {S})

\* One transaction with two deposits of the same amount for the same buyer.
TwoDeposits ==
  History(
    Deposit(2, 1, F, B, 10, F) \o Deposit(2, 1, F, B, 10, F)
      \o <<Settlement(4, 1, B, S, 20), Transfer(5, 1, S, F, 6, S)>>,
    None, None, {S})

\* A buyer that settles from its opening balance and keeps what it was given.
KeptInWallet ==
  History(<<Transfer(2, 1, F, B, 10, F), Settlement(4, 1, B, S, 10), Transfer(5, 1, S, F, 9, S)>>,
          Only(B, 10), None, {S})

\* Amounts that do not fit together in AmountMax, and a seller that is not staked.
BigHistory ==
  History(<<Transfer(2, 1, F, B, 30, F), Transfer(2, 2, F, B, 20, F),
            Settlement(4, 1, B, S, 30), Settlement(5, 1, B, S, 20),
            Transfer(6, 1, S, F, 30, S), Transfer(6, 2, S, F, 20, S)>>,
          Only(B, 50), None, {})

\* A pair F, S: each deposits for itself or the other, an outsider may add some, and
\* they settle both ways.
PairHistory(soldA, soldB, outside, signer, open, out) ==
  History(
    Deposit(2, 1, F, F, 10, F) \o Deposit(3, 1, S, S, soldA, signer)
      \o Deposit(3, 2, R, S, outside, R)
      \o <<Settlement(4, 1, S, F, soldA), Settlement(5, 1, F, S, soldB)>>,
    Only(F, open), Only(F, out), {F})

Sound(h) == \A a \in Addresses : h.end[a] >= 0

LoopHistories ==
  {LoopHistory(10, accounts[1], hops[1], hops[2], 2, accounts[2], accounts[3]) :
     accounts \in {<<20, 0, 0>>, <<18, 0, 1>>, <<20, 1, 0>>, <<20, 2, 1>>, <<20, 2, 0>>},
     hops \in {<<14, 4>>, <<14, 3>>, <<15, 4>>, <<3, 8>>}}
PairHistories ==
  {PairHistory(sold[1], sold[2], outside, signer, open, out) :
     sold \in {<<10, 10>>, <<8, 10>>, <<10, 8>>, <<10, 7>>}, outside \in {1, 2},
     signer \in {S, R}, open \in {0, 1}, out \in {0, 2}}

MCHistories ==
  {h \in LoopHistories \cup PairHistories
              \cup {TwoBuyers(10, late, last) : late \in {8, 9}, last \in {7, 8}}
              \cup {SelfHistory(signer) : signer \in {S, B}}
              \cup {TwoDeposits, KeptInWallet, BigHistory} : Sound(h)}

Loop(target, seller, funder, buyers) ==
  [kind |-> "closed-loop", target |-> target, seller |-> seller, funder |-> funder,
   buyers |-> buyers]
PairOf(target, a, b) == [kind |-> "reciprocal", target |-> target, a |-> a, b |-> b]

MCClaims ==
  {Loop(S, S, F, {B}), Loop(S, S, F, {B, R}), Loop(F, S, F, {B}), Loop(S, S, S, {B}),
   Loop(S, S, F, {}), Loop(S, S, F, {F}), Loop(S, S, F, {Zero, B}), Loop(S, S, F, {S, B, R}),
   PairOf(F, F, S), PairOf(S, F, S), PairOf(B, F, S), PairOf(F, S, F)}

ASSUME CountersAddUp

=============================================================================
