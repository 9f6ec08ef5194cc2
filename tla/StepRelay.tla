------------------------------ MODULE StepRelay ------------------------------
(***************************************************************************)
(* What workflows and their confirmations promise, with no stores, records *)
(* or commands: a workflow is in one hand, which carries out its steps one *)
(* after the other, or offers it once to whoever confirms.  Whoever is     *)
(* granted it goes on where the one before stopped, and a workflow that    *)
(* failed or was dropped is never taken up again.                          *)
(***************************************************************************)
EXTENDS Naturals

CONSTANTS Workflow, Steps

VARIABLES
    hand,       \* workflow -> not opened yet, held, offered or over
    tried,      \* workflow -> steps that were carried out
    done        \* workflow -> steps that succeeded

relay == <<hand, tried, done>>

RelayInit ==
    /\ hand = [w \in Workflow |-> "new"]
    /\ tried = [w \in Workflow |-> {}]
    /\ done = [w \in Workflow |-> {}]

Pass(w, from, to) ==
    /\ hand[w] = from
    /\ hand' = [hand EXCEPT ![w] = to]
    /\ UNCHANGED <<tried, done>>

Open(w) == Pass(w, "new", "held")

Offer(w) == Pass(w, "held", "offered")

Grant(w) == Pass(w, "offered", "held")

(* the next step, once, after which the holder goes on or it is over *)
Carry(w, i) ==
    /\ hand[w] = "held" /\ i \notin tried[w]
    /\ \A j \in 1..(i - 1) : j \in done[w]
    /\ tried' = [tried EXCEPT ![w] = @ \cup {i}]
    /\ \/ done' = [done EXCEPT ![w] = @ \cup {i}] /\ UNCHANGED hand
       \/ hand' = [hand EXCEPT ![w] = "over"] /\ UNCHANGED done

(* the last step was carried out, or nobody may be granted it any more *)
Drop(dropped) ==
    /\ \A w \in dropped : hand[w] \in {"held", "offered"}
    /\ hand' = [w \in Workflow |-> IF w \in dropped THEN "over" ELSE hand[w]]
    /\ UNCHANGED <<tried, done>>

RelayNext ==
    \/ \E w \in Workflow :
         \/ Open(w) \/ Offer(w) \/ Grant(w)
         \/ \E i \in 1..Steps : Carry(w, i)
    \/ \E dropped \in SUBSET Workflow : Drop(dropped)

RelaySpec == RelayInit /\ [][RelayNext]_relay

----------------------------------------------------------------------------
(* nobody holds a workflow one of whose steps failed, nor is it on offer *)
OverAfterFailure ==
    \A w \in Workflow : tried[w] \subseteq done[w] \/ hand[w] = "over"
=============================================================================
