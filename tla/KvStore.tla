------------------------------- MODULE KvStore -------------------------------
(***************************************************************************)
(* What a KV cache promises: a slot for every layer and position, which    *)
(* holds the keys and values of the token last written to it, and can be   *)
(* read up to a position.                                                  *)
(***************************************************************************)
EXTENDS Integers

CONSTANTS Layers, Positions, Writes, Blank
(* Writes are the sequences of tokens written at once, Blank is what a     *)
(* slot holds that was never written.                                      *)

VARIABLES slots, read
storeVars == <<slots, read>>

StoreInit ==
  /\ slots = [l \in Layers |-> [p \in Positions |-> Blank]]
  /\ read = << >>

(* A run of slots from p on is written, in one layer.                      *)
StoreWrite(l, p, ws) ==
  /\ \A i \in DOMAIN ws : p + i - 1 \in Positions
  /\ UNCHANGED read
  /\ slots' = [slots EXCEPT ![l] = [q \in Positions |->
                 IF q - p + 1 \in DOMAIN ws THEN ws[q - p + 1] ELSE @[q]]]

StoreRead(l, p) ==
  /\ read' = [i \in 1 .. (p + 1) |-> slots[l][i - 1]]
  /\ UNCHANGED slots

StoreNext ==
  \E l \in Layers, p \in Positions :
    StoreRead(l, p) \/ \E ws \in Writes : StoreWrite(l, p, ws)

StoreSpec == StoreInit /\ [][StoreNext]_storeVars
=============================================================================
