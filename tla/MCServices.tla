----------------------------- MODULE MCServices -----------------------------
(***************************************************************************)
(* A small instance of the services.                                       *)
(***************************************************************************)
EXTENDS Services, TLC

-----------------------------------------------------------------------------
(* LiveMap: three files; one is edited and its edit undone, one is created *)
(* and the same rejection deletes it, and one is changed from outside.     *)

CONSTANTS f1, f2, f3, edit, create, reject

MCKind == edit :> "edit" @@ create :> "create" @@ reject :> "restore"
MCTouches == edit :> {f1} @@ create :> {f2} @@ reject :> {f1, f2}
MCRestoreTo == [p \in Patch |-> f1 :> 1 @@ f2 :> 0 @@ f3 :> 1]

Of(patches, external, breaks, failures, readers) ==
  [patches |-> patches, external |-> external, breaks |-> breaks,
   failures |-> failures, readers |-> readers]

\* The patches together, then two of them, and one with an external edit or a
\* rewrite that does not parse, with a reader of evidence or a failure; the
\* failure meets a reader with a single edit.
MCBudgets ==
  {Of({edit, create, reject}, 0, 0, 0, 0),
   Of({edit, create}, 0, 0, 1, 0), Of({edit, create}, 0, 0, 0, 1),
   Of({create}, 1, 0, 1, 0), Of({edit}, 1, 0, 0, 1),
   Of({edit, reject}, 0, 1, 0, 1), Of({edit}, 0, 0, 1, 1)}

(* PipelineCache: one file calls the other; two texts have the same        *)
(* methods and the third has others.                                       *)

MCTexts == {f1 :> 1 @@ f2 :> 2}
MCCalls == f1 :> [t \in Text |-> {f2}] @@ f2 :> [t \in Text |-> {}]
MCMethods == 1 :> 1 @@ 2 :> 1 @@ 3 :> 2

(* HookedRun: trees of two files, with and without the second.             *)

MCTrees == {f1 :> 1 @@ f2 :> 2, f1 :> 1 @@ f2 :> Nothing}

(* BuildRun: the third item builds on the first.                           *)

CONSTANTS i1, i2, i3

MCNeeds == i1 :> {} @@ i2 :> {} @@ i3 :> {i1}
MCRank == i1 :> 1 @@ i2 :> 2 @@ i3 :> 3

(* BriefStore: two lines, each with a citation of its own.                 *)

CONSTANTS l1, l2

MCCites == l1 :> {f1} @@ l2 :> {f2}

(* PlanLedger: the two wordings differ in the name of a function.          *)

MCRenamings == {1 :> 2 @@ 2 :> 2}

(* ThreadRun: code that calls what nothing is known of, code that also has *)
(* an effect, and code that only has the effect.                           *)

MCOffenses == 1 :> {"unprovable"} @@ 2 :> {"unprovable", "effect"} @@ 3 :> {"effect"}
=============================================================================
