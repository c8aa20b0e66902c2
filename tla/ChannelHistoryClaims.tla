------------------------ MODULE ChannelHistoryClaims ------------------------
(***************************************************************************)
(* What the repository's documents and tests say of stored messages,       *)
(* stated over ChannelHistory.  The code disagrees with each of them       *)
(* (README, "Findings").                                                   *)
(***************************************************************************)
EXTENDS ChannelHistory

\* "SyncListenBacklogSyncsListenChannelToHistoryCursor"
\* (history/service_test.go:344): a backlog sync that ends without an error has
\* stored every message between the cursor it found and the newest one it saw.
BacklogReachesCursor ==
    [][(/\ sync # IdleSync /\ sync' = IdleSync /\ UNCHANGED faults
        /\ sync.kind = "backlog" /\ sync.floor > 0) =>
          \A m \in (sync.floor + 1)..claimed :
             stored'[m] # NotStored \/ m \in Service \/ version[m] = Erased]_vars

\* "Message is marked deleted=1" (docs/TASKS.md:540): a stored message that was
\* deleted does not come back into the search results.
DeletedStaysDeleted ==
    [][\A m \in Msg : stored[m] = Erased => stored'[m] = Erased]_vars
=============================================================================
