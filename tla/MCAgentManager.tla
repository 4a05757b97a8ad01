--------------------------- MODULE MCAgentManager ---------------------------
(***************************************************************************)
(* Small plans for the Agent Manager: two packets on a file each, and a    *)
(* third that follows the second and touches both files, so that it        *)
(* conflicts with a packet it does not depend on.                          *)
(***************************************************************************)
EXTENDS AgentManager, TLC

CONSTANTS p1, p2, p3, p4, f1, f2, f3, c1

\* What is left of a per-packet table when a run has fewer packets.
Among(table) == [p \in Packet |-> table[p]]

MCReads == Among(p1 :> {f1} @@ p2 :> {f2} @@ p3 :> {f1, f2} @@ p4 :> {f3})
MCOrder == Among(p1 :> 1 @@ p2 :> 2 @@ p3 :> 3 @@ p4 :> 4)

\* The fourth, where a run has it, is one the brief proposes, on a new file.
MCDeps == Among(p1 :> {} @@ p2 :> {} @@ p3 :> {p2} @@ p4 :> {})

\* The brief narrows the third packet to one file and orders it last.
MCDeclared == Among(p1 :> {} @@ p2 :> {} @@ p3 :> {f2} @@ p4 :> {})
MCAfter == Among(p1 :> {} @@ p2 :> {} @@ p3 :> {p1} @@ p4 :> {})

\* A plan whose call graph is cyclic.
MCCyclicDeps == Among(p1 :> {p2} @@ p2 :> {p1} @@ p3 :> {})

MCNothing == [p \in Packet |-> {}]
=============================================================================
