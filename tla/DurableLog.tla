----------------------------- MODULE DurableLog -----------------------------
(***************************************************************************)
(* What the ordinary-message spool promises the rest of the server,        *)
(* whatever files it keeps: a record whose durable receipt was issued is   *)
(* held for replay until its replay has converged, and records are let go  *)
(* in the order in which they were written, never one over the head of an  *)
(* earlier one.  RealtimeSpool, SpoolPipeline and RecallSpool are shown to *)
(* implement this module.                                                  *)
(***************************************************************************)
EXTENDS Naturals

CONSTANT Records        \* numbers that name records in the order they are written

VARIABLES held,         \* receipted records a restart would still replay
          settled       \* records whose effects have converged in MySQL

vars == <<held, settled>>

Init == held = {} /\ settled = {}

(* Sets of held records that may be let go: settled, and the oldest held. *)
Released == {S \in SUBSET (held \cap settled) :
                \A a \in S, b \in held : b < a => b \in S}

(* `append` returned a DurableSpoolReceipt for r; the sync_all behind it    *)
(* may also have made an earlier checkpoint durable.                        *)
Hold(r) == /\ r \notin held
           /\ \E S \in Released : held' = (held \ S) \cup {r}
           /\ UNCHANGED settled

(* MySQL committed the records of S, a batch or one alone, and every        *)
(* required hook of theirs converged.                                       *)
Settle(S) == settled' = settled \cup S /\ UNCHANGED held

(* A durable checkpoint lets the oldest settled records go. *)
Release == /\ \E S \in Released : held' = held \ S
           /\ UNCHANGED settled

Next == \/ \E r \in Records : Hold(r)
        \/ \E S \in SUBSET Records : Settle(S)
        \/ Release

Spec == Init /\ [][Next]_vars
=============================================================================
