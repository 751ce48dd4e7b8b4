------------------------------ MODULE SlotPool ------------------------------
(***************************************************************************)
(* What max_concurrent_runs promises, without runs, handlers or locks: a   *)
(* pool of Size slots.  A holder takes a free slot or is handed one by     *)
(* another holder, keeps it until it gives it up, and never has one again. *)
(***************************************************************************)
EXTENDS Naturals, FiniteSets

CONSTANTS
    Holder,  \* who may hold a slot
    Size     \* how many slots there are

VARIABLES
    holders,  \* who holds one
    past      \* who has held one

vars == <<holders, past>>

Init == holders = {} /\ past = {}

Fresh(r) == r \in Holder \ (holders \cup past)

(* Admission against a free slot. *)
Acquire(r) ==
    /\ Fresh(r)
    /\ Cardinality(holders) < Size
    /\ holders' = holders \cup {r}
    /\ UNCHANGED past

(* Admission against the slot of the run that is continued. *)
HandOver(p, r) ==
    /\ Fresh(r)
    /\ p \in holders
    /\ holders' = (holders \ {p}) \cup {r}
    /\ past' = past \cup {p}

(* One sweep may end several runs. *)
Release(S) ==
    /\ S # {}
    /\ holders' = holders \ S
    /\ past' = past \cup S

Next ==
    \/ \E r \in Holder : Acquire(r)
    \/ \E p \in holders, r \in Holder : HandOver(p, r)
    \/ \E S \in SUBSET holders : Release(S)

Spec == Init /\ [][Next]_vars

(* The promise itself. *)
Bounded == Cardinality(holders) <= Size

=============================================================================
