---------------------------- MODULE MCImportJobs ----------------------------
(***************************************************************************)
(* Small instances of ImportJobs.  Overlap: a statement with one charge    *)
(* and one that lists the same charge twice, as real statements list two   *)
(* identical purchases of one day.  Again: a statement with a repeated     *)
(* charge submitted twice, with different retention choices.               *)
(***************************************************************************)
EXTENDS ImportJobs, TLC

CONSTANTS u1, u2, a, b, r1, r2

OverlapChecksums == u1 :> u1 @@ u2 :> u2
OverlapRows == u1 :> <<a>> @@ u2 :> <<b, a, a>>

AgainChecksums == u1 :> u1 @@ u2 :> u1
AgainRows == u1 :> <<a, a>> @@ u2 :> <<a, a>>

Retentions == u1 :> "delete_after_import" @@ u2 :> "retain"

AllFaults == {"unlink", "database", "crash"}

\* Database sessions of their own: a request can be overtaken anywhere.
AnyPoint == LoopPoints

\* Requests are interchangeable; used by runs that check invariants only.
RequestSymmetry == Permutations(Requests)
=============================================================================
