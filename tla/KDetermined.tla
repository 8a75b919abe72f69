----------------------------- MODULE KDetermined -----------------------------
(***************************************************************************)
(* What promises promise (promises.texi): "A given promise cannot         *)
(* determine different values on different occasions that it is forced".   *)
(*                                                                         *)
(* A promise is made, at some time determines an object, and stays so; a   *)
(* call to force returns what the promise has determined.                  *)
(***************************************************************************)
CONSTANTS Promises, Objects, Unmade, Undetermined

VARIABLES
    value,     \* what each promise has determined
    results    \* what calls to force have returned: <<promise, object>>

Init ==
    /\ value = [p \in Promises |-> Unmade]
    /\ results = {}

Made(p) == value[p] = Unmade /\ value'[p] \in {Undetermined} \cup Objects

Determines(p) == value[p] = Undetermined /\ value'[p] \in Objects

\* One step makes or determines promises; those it determines, it determines to
\* be the same object.  Forces return what has been determined.
Next ==
    /\ value' \in [Promises -> {Unmade, Undetermined} \cup Objects]
    /\ \A p \in Promises : value'[p] = value[p] \/ Made(p) \/ Determines(p)
    /\ \A p, q \in Promises : Determines(p) /\ Determines(q) => value'[p] = value'[q]
    /\ results \subseteq results'
    /\ \A r \in results' \ results :
         \E p \in Promises : value'[p] \in Objects /\ r = <<p, value'[p]>>

Spec == Init /\ [][Next]_<<value, results>>

=============================================================================
