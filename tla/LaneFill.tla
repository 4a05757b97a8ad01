------------------------------ MODULE LaneFill ------------------------------
(***************************************************************************)
(* The two loops of work_run.ts, step by step, against what WorkRun says   *)
(* they compute: startablePackets picks one packet at a time through       *)
(* nextRunnablePacket, cascadeSkips marks one packet at a time until a     *)
(* pass changes nothing.  Both run on the same arbitrary run.              *)
(***************************************************************************)
EXTENDS WorkRun

VARIABLES
  input,    \* the run both loops are given
  picked,   \* startablePackets: out
  marked    \* cascadeSkips: the run as marked so far

lfvars == <<input, picked, marked>>

\* Any mixture of packet statuses in a running run, with or without a brief.
LFInit ==
  /\ \E b \in {"none", "ready"}, s \in [Packet -> PacketStatus] :
       input = [NoRun EXCEPT !.status = "running", !.brief = b, !.packet = s]
  /\ picked = {}
  /\ marked = input

Pick ==
  /\ Cardinality(InFlight(input)) + Cardinality(picked) < Lanes
  /\ \E p \in NextRunnable(input, picked) : picked' = picked \cup {p}
  /\ UNCHANGED <<input, marked>>

\* nextRunnablePacket returns nothing, or the lanes are full.
PickedOut ==
  \/ Cardinality(InFlight(input)) + Cardinality(picked) >= Lanes
  \/ NextRunnable(input, picked) = {}

Doomed(r) == {p \in InRun(r) : r.packet[p] = "pending" /\ DependsOn(r, p) \cap Dead(r) # {}}

Mark ==
  /\ \E p \in Doomed(marked) : marked' = [marked EXCEPT !.packet[p] = "skipped"]
  /\ UNCHANGED <<input, picked>>

LFNext == Pick \/ Mark

LFSpec == LFInit /\ [][LFNext]_lfvars

\* When startablePackets can pick no more it has picked StartablePackets, and
\* exactly one set fills the lanes by FillsLanes' account; when cascadeSkips has
\* nothing left to mark it has skipped exactly the packets CascadeSkips does,
\* whatever the order it met them in (work_run.ts).
LoopsMeetTheirClosedForms ==
  /\ PickedOut => /\ picked = StartablePackets(input)
                  /\ {S \in SUBSET Packet : FillsLanes(input, S)} = {picked}
  /\ Doomed(marked) = {} => marked = CascadeSkips(input)
=============================================================================
