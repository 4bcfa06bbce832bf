----------------------------- MODULE MCSyncLocks -----------------------------
(* Either parser of the sc channel: Streaming is FALSE in the .cfg. *)
EXTENDS SyncLocks

VARIABLE isStreamingEnabled     \* which of the two; it does not change

Stream == INSTANCE SyncLocks WITH Streaming <- TRUE

MCInit == Init /\ isStreamingEnabled \in BOOLEAN

MCNext ==
    /\ \/ ~isStreamingEnabled /\ Next
       \/ isStreamingEnabled /\ Stream!Next
    /\ UNCHANGED isStreamingEnabled

\* The steps of procsc() are steps of the streaming parser too.
MCSpec == MCInit /\ [][MCNext]_<<vars, isStreamingEnabled>> /\ Stream!Fairness
=============================================================================
