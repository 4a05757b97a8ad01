------------------------------ MODULE GatedWork ------------------------------
(***************************************************************************)
(* What the Agent Manager promises of a run, apart from files, lanes,      *)
(* reviewers and restores: nothing is worked on before the plan is         *)
(* confirmed; a packet is opened only when everything it needs is kept; it *)
(* is closed by one decision, and sent back for another try only by one of *)
(* an attempt before the MaxTries-th; and when one is undone, exactly the  *)
(* packets that need it are left out, in the same step.  Closed packets    *)
(* stay closed.  A crash loses attempts, and they count.                   *)
(***************************************************************************)
EXTENDS Naturals

CONSTANTS Packet, MaxTries

VARIABLES
  confirmed,   \* the plan passed its gate
  needs,       \* needs[p]: the packets p waits for, fixed by the confirmation
  phase,       \* phase[p]
  tries        \* tries[p]: how many times p was opened

gwvars == <<confirmed, needs, phase, tries>>

Phase == {"waiting", "open", "kept", "undone", "left-out"}

Closed(p) == phase[p] \in {"kept", "undone", "left-out"}

GWInit ==
  /\ confirmed = FALSE
  /\ needs = [p \in Packet |-> {}]
  /\ phase = [p \in Packet |-> "waiting"]
  /\ tries = [p \in Packet |-> 0]

\* Any number of packets may open in the step that leaves the phases at ph.
OpenSome(ph, ready) ==
  \E S \in SUBSET {p \in Packet : ph[p] = "waiting"} :
    /\ \A p \in S : \A q \in ready[p] : ph[q] = "kept"
    /\ phase' = [p \in Packet |-> IF p \in S THEN "open" ELSE ph[p]]
    /\ tries' = [p \in Packet |-> IF p \in S THEN tries[p] + 1 ELSE tries[p]]

\* The plan is confirmed; packets that need no work are kept as they are.
Confirm ==
  /\ ~confirmed /\ confirmed'
  /\ needs' \in [Packet -> SUBSET Packet]
  /\ \E K \in SUBSET Packet :
       OpenSome([p \in Packet |-> IF p \in K THEN "kept" ELSE phase[p]], needs')

Open == OpenSome(phase, needs)

Keep(p) == phase[p] = "open" /\ OpenSome([phase EXCEPT ![p] = "kept"], needs)

SendBack(p) ==
  /\ phase[p] = "open" /\ tries[p] < MaxTries
  /\ OpenSome([phase EXCEPT ![p] = "waiting"], needs)

UndoAndLeaveOut(p) ==
  /\ phase[p] = "open"
  /\ \E ph \in [Packet -> Phase] :
       LET lost == {q \in Packet : ph[q] \in {"undone", "left-out"}}
       IN  /\ ph[p] = "undone"
           /\ \A q \in Packet \ {p} : \/ ph[q] = phase[q]
                                      \/ phase[q] = "waiting" /\ ph[q] = "left-out"
           /\ \A q \in Packet : phase[q] = "waiting" =>
                (ph[q] = "left-out" <=> needs[q] \cap lost # {})
           /\ OpenSome(ph, needs)

\* A crash takes the work of some open packets with it.
Lose ==
  \E S \in SUBSET {p \in Packet : phase[p] = "open"} :
    /\ phase' = [p \in Packet |-> IF p \in S THEN "waiting" ELSE phase[p]]
    /\ UNCHANGED tries

GWNext ==
  \/ Confirm
  \/ /\ confirmed /\ UNCHANGED <<confirmed, needs>>
     /\ \/ Open \/ Lose
        \/ \E p \in Packet : Keep(p) \/ SendBack(p) \/ UndoAndLeaveOut(p)

GWSpec == GWInit /\ [][GWNext]_gwvars
=============================================================================
