----------------------------- MODULE MCLaneFill -----------------------------
(***************************************************************************)
(* The loops over a plan: those that fill the lanes and cascade a failure, *)
(* on four packets, the fourth the brief's: the first two independent, the *)
(* third after the second, each file shared by two packets; and those that *)
(* order the packets, on every graph of three threads.                     *)
(***************************************************************************)
EXTENDS LaneFill, PlanOrder, TLC

VARIABLE loops         \* which of them a behaviour is of: "lanes" or "order"

\* The other loops rest, on one input.
PlanningInit ==
  /\ loops \in {"lanes", "order"}
  /\ LFInit /\ OrderInit
  /\ loops # "lanes" => input = [NoRun EXCEPT !.status = "running"]
  /\ loops # "order" => planned = [u \in {CHOOSE t \in Thread : TRUE} |-> {}]

PlanningNext ==
  \/ loops = "lanes" /\ LFNext /\ UNCHANGED <<orderVars, loops>>
  \/ loops = "order" /\ OrderNext /\ UNCHANGED <<lfvars, loops>>

PlanningSpec == PlanningInit /\ [][PlanningNext]_<<lfvars, orderVars, loops>>

CONSTANTS p1, p2, p3, p4, f1, f2, f3, t1, t2, t3, x1

MCReads == p1 :> {f1} @@ p2 :> {f2, f3} @@ p3 :> {f1, f2} @@ p4 :> {f3}
MCDeclared == p1 :> {} @@ p2 :> {f2} @@ p3 :> {f2} @@ p4 :> {}
MCDeps == p1 :> {} @@ p2 :> {} @@ p3 :> {p2} @@ p4 :> {p3}
MCAfter == p1 :> {} @@ p2 :> {} @@ p3 :> {p1} @@ p4 :> {}
MCOrder == p1 :> 2 @@ p2 :> 1 @@ p3 :> 3 @@ p4 :> 4
MCBest == t1 :> 2 @@ t2 :> 1 @@ t3 :> 3
=============================================================================
