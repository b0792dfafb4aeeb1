-------------------------------- MODULE PaidOnce --------------------------------
(***************************************************************************)
(* What paid production proving promises the requester, whichever script   *)
(* drives it: each seller is charged for at most one network request, and  *)
(* a seller's proof is the proof of a request that was charged.            *)
(* Nothing else about the scripts, their files or their failures shows.    *)
(***************************************************************************)
EXTENDS Naturals

CONSTANT Sellers

VARIABLES
  spent,    \* [Sellers -> Nat]: requests charged for the seller
  proved    \* [Sellers -> BOOLEAN]: the seller has its production artifact

Init ==
  /\ spent = [s \in Sellers |-> 0]
  /\ proved = [s \in Sellers |-> FALSE]

Pay(s) ==
  /\ spent[s] = 0
  /\ spent' = [spent EXCEPT ![s] = 1]
  /\ UNCHANGED proved

Prove(s) ==
  /\ spent[s] = 1 /\ ~proved[s]
  /\ proved' = [proved EXCEPT ![s] = TRUE]
  /\ UNCHANGED spent

Next == \E s \in Sellers : Pay(s) \/ Prove(s)

Spec == Init /\ [][Next]_<<spent, proved>>

=============================================================================
