------------------------------ MODULE ReturnPaths ------------------------------
(***************************************************************************)
(* Choosing return paths (scripts/return-path-selection.mjs): which of the *)
(* known ways value went back from a seller to a funder are counted, and   *)
(* how more of them are found in the traces of the addresses involved.     *)
(*                                                                         *)
(* A log is its place in history.logs, in the order of the chain; a block  *)
(* number stands for the block's timestamp too.  A path is its hops and    *)
(* whether their log indices are known: the paths of the discovery report  *)
(* name transactions only.  Where the code orders by the text of a         *)
(* transaction hash, the order of the model is arbitrary and fixed.        *)
(***************************************************************************)
EXTENDS Integers, Sequences, FiniteSetsExt, Folds

CONSTANTS
  DepositsAddress, \* the protocol's Deposits contract
  PathSeconds,     \* T_PATH_SECONDS
  MaxReturns       \* MAX_RETURN_PATHS

VARIABLE history   \* logs, end balances, the analysis of the scan and its traces

Keys == 1 .. Len(history.logs)
Log(i) == history.logs[i]
Time(i) == Log(i).block
Entries(s) == {s[n] : n \in DOMAIN s}

AmountOf(S) == MapThenSumSet(LAMBDA i : Log(i).amount, S)
SameTx(i, j) == Log(i).block = Log(j).block /\ Log(i).tx = Log(j).tx
Transfers == {i \in Keys : Log(i).kind = "transfer"}

\* The log index is 0 where it is unknown: hops of one transaction then have one key.
TransferKey(i, located) == <<Log(i).block, Log(i).tx, IF located THEN i ELSE 0>>
PathKeys(p) == {TransferKey(i, p.located) : i \in Entries(p.hops)}

Credit(p) == Min({Log(i).amount : i \in Entries(p.hops)})
Returned(paths) == MapThenSumSet(Credit, paths)

\* Mutant of RequiredReturn: rounded down.
RequiredReturnFloor(volume, bps) == (volume * bps) \div 10000

\* The least return that covers volume at bps, rounded up.
RequiredReturn(volume, bps) == (volume * bps + 9999) \div 10000

RhoHopBps == 2800
Retains(next, previous) == Log(next).amount * 10000 >= Log(previous).amount * RhoHopBps

-----------------------------------------------------------------------------
(* Selection among known paths *)

\* With unknown log indices two hops of one transaction have no order.
Precedes(i, j, located) == i < j /\ (located \/ ~SameTx(i, j))

\* A continuous path of at most nine different transfers, each later than the one
\* before and forwarding enough of it, within the window and after the time given.
ValidReturn(p, after) ==
  LET hops == p.hops IN
  /\ Len(hops) \in 1 .. 9 /\ Cardinality(PathKeys(p)) = Len(hops)
  /\ Time(hops[1]) > after
  /\ \A i \in Entries(hops) : Log(i).amount > 0 /\ Log(i).from # Log(i).to
  /\ \A n \in 2 .. Len(hops) :
       /\ Log(hops[n - 1]).to = Log(hops[n]).from
       /\ Precedes(hops[n - 1], hops[n], p.located)
       /\ Retains(hops[n], hops[n - 1])
  /\ Time(hops[Len(hops)]) - Time(hops[1]) <= PathSeconds

\* Mutant of SelectReturns: paths that share a transfer are both counted.
SelectOverlapping(candidates, required, after, most, reserved) ==
  LET valid == {p \in candidates : ValidReturn(p, after)}
      last(S) == CHOOSE p \in S : \A q \in S : Credit(p) <= Credit(q)
      count(p, chosen) ==
        IF Cardinality(chosen.paths) >= most \/ chosen.returned >= chosen.required THEN chosen
        ELSE [chosen EXCEPT !.paths = @ \cup {p}, !.returned = @ + Credit(p),
                            !.used = @ \cup PathKeys(p)]
  IN MapThenFoldSet(count, [paths |-> {}, returned |-> 0, required |-> required, used |-> reserved],
                    LAMBDA p : p, last, valid)

\* From the largest credit down, every valid path whose transfers are still free,
\* until enough has been returned.
SelectReturns(candidates, required, after, most, reserved) ==
  LET valid == {p \in candidates : ValidReturn(p, after)}
      last(S) == CHOOSE p \in S : \A q \in S : Credit(p) <= Credit(q)
      count(p, chosen) ==
        IF \/ Cardinality(chosen.paths) >= most \/ chosen.returned >= chosen.required
           \/ PathKeys(p) \cap chosen.used # {}
        THEN chosen
        ELSE [chosen EXCEPT !.paths = @ \cup {p}, !.returned = @ + Credit(p),
                            !.used = @ \cup PathKeys(p)]
  IN MapThenFoldSet(count, [paths |-> {}, returned |-> 0, required |-> required, used |-> reserved],
                    LAMBDA p : p, last, valid)

-----------------------------------------------------------------------------
(* Discovery in the traces: seller -> relay -> [intermediary ->] funder *)

\* A payment to a relay and what the relay forwarded of it, if its trace is complete;
\* credit is what a path that starts so can return.
Prefix(hops) == [hops |-> hops, credit |-> Min({Log(hops[1]).amount, Log(hops[2]).amount})]
Payments(seller, funder, after) ==
  {Prefix(hops) : hops \in
     {pre \in Transfers \X Transfers :
        /\ Log(pre[1]).from = seller /\ Log(pre[1]).to \notin {seller, funder}
        /\ Log(pre[1]).to \in history.traced
        /\ Log(pre[1]).amount > 0 /\ Time(pre[1]) > after
        /\ Log(pre[2]).from = Log(pre[1]).to
        /\ Time(pre[2]) - Time(pre[1]) \in 1 .. PathSeconds
        /\ Log(pre[2]).amount > 0 /\ Retains(pre[2], pre[1])}}

\* The order of prefixes: by credit, then by the place of the first and second hop.
ComesAfter(p, q) ==
  \/ p.credit < q.credit
  \/ /\ p.credit = q.credit
     /\ p.hops[1] > q.hops[1] \/ (p.hops[1] = q.hops[1] /\ p.hops[2] >= q.hops[2])

Finishes(pre, funder, used) ==
  {k \in Transfers :
     /\ Log(k).from = Log(pre.hops[2]).to /\ Log(k).to = funder
     /\ Time(k) > Time(pre.hops[2]) /\ Time(k) - Time(pre.hops[1]) <= PathSeconds
     /\ Log(k).amount > 0 /\ Retains(k, pre.hops[2]) /\ TransferKey(k, TRUE) \notin used}

\* The finish that returns most, the first of those.
BestFinish(pre, finishes) ==
  LET credit(k) == Min({pre.credit, Log(k).amount})
      best == {k \in finishes : \A l \in finishes : credit(l) <= credit(k)}
  IN Min(best)

\* Paths of two or three hops found greedily; the hops reserved or used are not taken.
Discover(seller, funder, after, required, most, reserved) ==
  LET last(S) == CHOOSE p \in S : \A q \in S : ComesAfter(p, q)
      take(hops, found) ==
        LET p == [hops |-> hops, located |-> TRUE] IN
        IF PathKeys(p) \cap found.used # {} THEN found
        ELSE [found EXCEPT !.paths = @ \cup {p}, !.returned = @ + Credit(p),
                           !.used = @ \cup PathKeys(p)]
      extend(pre, found) ==
        LET finishes == Finishes(pre, funder, found.used) IN
        IF Cardinality(found.paths) >= most \/ found.returned >= found.required THEN found
        ELSE IF Log(pre.hops[2]).to = funder THEN take(pre.hops, found)
        ELSE IF finishes = {} THEN found
        ELSE take(Append(pre.hops, BestFinish(pre, finishes)), found)
  IN MapThenFoldSet(extend, [paths |-> {}, returned |-> 0, required |-> required, used |-> reserved],
                    LAMBDA p : p, last, Payments(seller, funder, after)).paths

=============================================================================
