------------------------------ MODULE MCSnapshot ------------------------------
(***************************************************************************)
(* Small stretches of history for Snapshot: their logs, the analysis of    *)
(* the scan (cases, known return paths, traced addresses) and the end      *)
(* balances that follow from opening balances, deposits and settlements.   *)
(***************************************************************************)
EXTENDS SnapshotRules

F == 2   \* a funder
S == 3   \* a seller
B == 4   \* a buyer
R == 5   \* a relay or a second buyer
X == 6   \* another wallet
Y == 7   \* another wallet
MCAddresses == 0 .. 7

Transfer(block, tx, from, to, amount) ==
  [block |-> block, tx |-> tx, kind |-> "transfer", from |-> from, to |-> to,
   amount |-> amount, signer |-> from]
SignedDeposit(block, tx, payer, buyer, amount, signer) ==
  <<[Transfer(block, tx, payer, DepositsAddress, amount) EXCEPT !.signer = signer],
    [block |-> block, tx |-> tx, kind |-> "deposited", from |-> 0, to |-> buyer,
     amount |-> amount, signer |-> signer]>>
Deposit(block, tx, payer, buyer, amount) == SignedDeposit(block, tx, payer, buyer, amount, payer)
Settlement(block, tx, buyer, seller, amount) ==
  [block |-> block, tx |-> tx, kind |-> "settled", from |-> buyer, to |-> seller,
   amount |-> amount, signer |-> seller]

None == [a \in MCAddresses |-> 0]
Only(x, amount) == [None EXCEPT ![x] = amount]

History(logs, opening, known, traced, cases) ==
  LET sum(kind, a) == MapThenSumSet(LAMBDA i : logs[i].amount,
                        {i \in DOMAIN logs : logs[i].kind = kind
                           /\ (IF kind = "settled" THEN logs[i].from ELSE logs[i].to) = a})
  IN [logs |-> logs, known |-> known, traced |-> traced, cases |-> cases,
      end |-> [a \in MCAddresses |-> opening[a] + sum("deposited", a) - sum("settled", a)]]

Loop(seller, funder, buyers, volume) ==
  [kind |-> "closed-loop", seller |-> seller, funder |-> funder, buyers |-> buyers,
   count |-> Cardinality(buyers), volume |-> volume]
PairOf(a, b, soldA, soldB) ==
  [kind |-> "reciprocal", a |-> a, b |-> b, soldA |-> soldA, soldB |-> soldB]

\* A second deposit and a settlement of it in one block.
SameBlock ==
  History(Deposit(2, 1, F, B, 10) \o <<Settlement(3, 1, B, S, 5)>> \o Deposit(5, 1, F, B, 1)
            \o <<Settlement(5, 2, B, S, 6), Transfer(6, 1, S, F, 6)>>,
          None, {}, {}, {Loop(S, F, {B}, 11)})

\* Returns that are known without log indices, and others to be found in the traces: one
\* of two hops and one of three.  Two known paths share a transfer; with tx = 1 their
\* second hops look the same.
Relays(direct, tx) ==
  History(Deposit(2, 1, F, B, 20) \o <<Settlement(3, 1, B, S, 20), Transfer(4, 1, S, F, direct)>>
            \o <<Transfer(4, 2, S, R, 4), Transfer(5, 1, R, F, 2), Transfer(5, tx, R, F, 2)>>
            \o <<Transfer(5, 3, S, X, 4), Transfer(6, 1, X, F, 3)>>
            \o <<Transfer(5, 4, S, Y, 6), Transfer(6, 2, Y, R, 5), Transfer(7, 1, R, F, 5)>>,
          None, {<<5, 6>>, <<5, 7>>}, {X, Y, F}, {Loop(S, F, {B}, 20)})

\* Two buyers that settle more than they were given, from opening balances, once in the
\* block of the first funding, and then are given more.
TwoBuyers(late) ==
  History(Deposit(2, 1, F, B, 10) \o <<Settlement(2, 2, B, S, 3), Settlement(3, 1, B, S, 8)>>
            \o <<Settlement(3, 2, B, S, 4), Transfer(3, 3, F, R, 6)>>
            \o Deposit(4, 1, R, R, 6) \o Deposit(4, 2, F, B, 5)
            \o <<Settlement(5, 1, B, S, 9), Settlement(5, 2, R, S, late)>>
            \o <<Transfer(6, 1, S, F, 11), Transfer(6, 2, S, F, 4), Transfer(7, 1, S, F, 1)>>,
          [Only(B, 9) EXCEPT ![R] = 4], {}, {}, {Loop(S, F, {B, R}, 21 + late)})

\* The first settlement does not fit its ledger: a return in the block of the second, and
\* maybe before it, is now in that of the first selected one.
Dropped(before) ==
  LET settles == <<Settlement(4, 2, B, S, 8)>> IN
  History(Deposit(2, 1, F, B, 10) \o <<Settlement(3, 1, B, S, 30)>>
            \o (IF before THEN <<Transfer(4, 1, S, F, 20)>> \o settles
                ELSE settles \o <<Transfer(4, 3, S, F, 20)>>),
          Only(B, 30), {}, {}, {Loop(S, F, {B}, 38)})

\* One settlement does not fit; the returns cover what is left of it exactly.
Exact ==
  History(Deposit(2, 1, F, B, 8) \o <<Settlement(3, 1, B, S, 8), Settlement(4, 1, B, S, 2)>>
            \o <<Transfer(5, 1, S, F, 2), Transfer(6, 1, S, F, 1)>>,
          Only(B, 2), {}, {}, {Loop(S, F, {B}, 10)})

\* One of two returns cannot be told from another: how much can still be proved depends on
\* the policy.
Ambiguous ==
  History(Deposit(2, 1, F, B, 20) \o <<Settlement(3, 1, B, S, 10), Settlement(4, 1, B, S, 6)>>
            \o <<Settlement(4, 2, B, S, 4), Transfer(5, 1, S, F, 5), Transfer(5, 2, S, R, 5)>>
            \o <<Transfer(6, 1, R, F, 5), Transfer(6, 1, R, F, 5)>>,
          None, {<<7, 8>>}, {}, {Loop(S, F, {B}, 20)})

\* A funding before the period and one someone else signed.
Odd(block, signer) ==
  History(SignedDeposit(block, 1, F, B, 10, signer)
            \o <<Settlement(3, 1, B, S, 7), Settlement(4, 1, B, S, 3), Transfer(5, 1, S, F, 6)>>,
          None, {}, {}, {Loop(S, F, {B}, 10)})

\* A seller that funds its buyer, a pair, and a closed loop.
Several(sold) ==
  History(<<Transfer(2, 1, S, B, 6)>> \o Deposit(2, 2, B, B, 6) \o Deposit(2, 3, F, F, 5)
            \o Deposit(2, 4, F, R, 4)
            \o <<Settlement(3, 1, B, S, 6), Settlement(3, 2, F, X, 5), Settlement(4, 1, X, F, sold)>>
            \o <<Settlement(4, 2, R, Y, 4), Transfer(5, 1, Y, F, 2)>>,
          Only(X, sold), {}, {},
          {Loop(S, S, {B}, 6), PairOf(F, X, sold, 5), Loop(Y, F, {R}, 4)})

\* A case whose returns the scan does not bear out.
Unreturned ==
  History(Deposit(2, 1, F, B, 10) \o <<Settlement(3, 1, B, S, 10), Transfer(4, 1, S, F, 2)>>,
          None, {}, {}, {Loop(S, F, {B}, 10)})

MCHistories ==
  {SameBlock, Relays(2, 2), Relays(3, 1), TwoBuyers(6), TwoBuyers(10), Dropped(FALSE),
   Dropped(TRUE), Exact, Ambiguous, Odd(1, F), Odd(2, B), Several(5), Several(3),
   Unreturned}
=============================================================================
