-------------------------- MODULE MCMaterialization --------------------------
\* Two claims over blocks 1 to 3, of which 3 ends the period.  The first needs two receipts and
\* a transaction of block 2, which earlier plans may have left in two entries.
EXTENDS Materialization

At2(receipts, transactions) ==
  [block |-> 2, receipts |-> receipts, transactions |-> transactions]
OnlyReceipt(block) == [block |-> block, receipts |-> {0}, transactions |-> {}]
End == [block |-> 3, receipts |-> {}, transactions |-> {}]

MCTargets == <<<<OnlyReceipt(1), At2({0, 1}, {0}), End>>, <<At2({1}, {}), End>>>>
MCEarlier == {OnlyReceipt(1), At2({0}, {0})}
=============================================================================
