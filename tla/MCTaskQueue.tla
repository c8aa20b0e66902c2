---------------------------- MODULE MCTaskQueue ----------------------------
(***************************************************************************)
(* Instances of TaskQueue for TLC: which types the rows have.              *)
(***************************************************************************)
EXTENDS TaskQueue, TLC

CONSTANTS t1, t2

\* A task whose handler retries and checks its row, beside a row that also has
\* a goroutine of its own.
Mixed == {t1, t2}
MixedKind == t1 :> "history_sync" @@ t2 :> "metadata_sync"

\* Two gap recoveries of one channel: coalescing may delete a queued row.
Gaps == {t1, t2}
GapsKind == t1 :> "gap_recovery" @@ t2 :> "gap_recovery"

ClientSymmetry == Permutations(Client)
=============================================================================
