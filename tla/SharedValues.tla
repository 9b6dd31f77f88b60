------------------------------ MODULE SharedValues ------------------------------
(***************************************************************************)
(* What SharedComponentStore promises the holders of its indices: a value  *)
(* has one index as long as it is referenced, and the index keeps it.      *)
(***************************************************************************)
EXTENDS Naturals

CONSTANTS
  Index, Value,
  MaxReferences   \* references one call adds or drops

VARIABLES
  refs,   \* per index: the references to its value, 0 if it has none
  value   \* per index: its value, if it has one

Live == {i \in Index : refs[i] > 0}

\* One more reference to a value: at the index it has, or at a new one.
InsertKnown(v) ==
  \E i \in Live : value[i] = v /\ refs' = [refs EXCEPT ![i] = @ + 1] /\ UNCHANGED value

InsertUnknown(v) ==
  /\ \A i \in Live : value[i] # v
  /\ \E i \in Index \ Live :
       refs' = [refs EXCEPT ![i] = 1] /\ value' = [value EXCEPT ![i] = v]

\* More references, or fewer; the value goes with its last one.
Recount ==
  \E i \in Live, n \in 0 .. MaxReferences :
    /\ refs' = [refs EXCEPT ![i] = n]
    /\ \A j \in Index : value'[j] = value[j] \/ (j = i /\ n = 0)

SharedInit(zero, default) ==
  refs = [i \in Index |-> IF i = zero THEN 1 ELSE 0] /\ value[zero] = default

SharedNext == Recount \/ \E v \in Value : InsertKnown(v) \/ InsertUnknown(v)
================================================================================
