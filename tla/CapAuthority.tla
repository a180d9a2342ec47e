----------------------------- MODULE CapAuthority -----------------------------
(***************************************************************************)
(* What attenuation promises, with no table and no capability objects: an  *)
(* authority is granted whole for a kind or narrowed from one that exists, *)
(* keeps its name and its extent for ever, and an effect happens only      *)
(* under an authority that permits it.                                     *)
(***************************************************************************)
CONSTANTS Kind, Target, Root, NoEffect

VARIABLES
  avail,   \* name -> [kind, targets, from], the authorities in existence
  effect   \* [by, kind, target], the effect of the last step, or NoEffect

Whole(k) == [kind |-> k, targets |-> Target[k], from |-> Root]

Init == avail = [n \in {} |-> Root] /\ effect = NoEffect

\* The names a step adds; what exists is never taken back or changed.
New == DOMAIN avail' \ DOMAIN avail
Keeps == \A n \in DOMAIN avail : n \in DOMAIN avail' /\ avail'[n] = avail[n]

Grant ==
  /\ Keeps
  /\ \A n \in New : \E k \in Kind : avail'[n] = Whole(k)
  /\ effect' = NoEffect

Narrow(p) ==
  /\ Keeps
  /\ \A n \in New : /\ avail'[n].from = p
                    /\ avail'[n].kind = avail[p].kind
                    /\ avail'[n].targets \subseteq avail[p].targets
  /\ effect' = NoEffect

Act(p, t) ==
  /\ t \in avail[p].targets
  /\ effect' = [by |-> p, kind |-> avail[p].kind, target |-> t]
  /\ UNCHANGED avail

Next ==
  \/ Grant
  \/ \E p \in DOMAIN avail : Narrow(p) \/ \E t \in avail[p].targets : Act(p, t)

Spec == Init /\ [][Next]_<<avail, effect>>
===============================================================================
