----------------------------- MODULE DurableStore -----------------------------
(***************************************************************************)
(* What a store that is saved as a whole promises, whoever implements it:  *)
(* its clients see one value for each object; a save takes all the values  *)
(* there are, or none; and when the store is lost, everything goes back to *)
(* the last save together.                                                 *)
(***************************************************************************)
CONSTANTS
  Objects, \* what is stored
  Values   \* what an object may hold

VARIABLES
  visible, \* the value of each object as its users see it
  saved    \* the values of the last save

storeVars == <<visible, saved>>

Init ==
  /\ visible \in [Objects -> Values]
  /\ saved = visible

\* A user changes one object.
Update ==
  \E o \in Objects, v \in Values :
    /\ visible' = [visible EXCEPT ![o] = v]
    /\ UNCHANGED saved

\* Everything is saved at once.
Save == saved' = visible /\ UNCHANGED visible

\* Everything goes back to the last save.
Revert == visible' = saved /\ UNCHANGED saved

Next == Update \/ Save \/ Revert

Spec == Init /\ [][Next]_storeVars
=============================================================================
