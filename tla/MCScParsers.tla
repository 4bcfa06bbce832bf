----------------------------- MODULE MCScParsers -----------------------------
(* Either parser of the sc channel: procsc() as the .cfg has it, and the         *)
(* streaming one with new shares instead of moves and with streams cut twice.    *)
EXTENDS MCScChannel, ScParser

Stream == INSTANCE ScChannel WITH
    Streaming <- TRUE,
    Kinds <- {"u", "n", "s"},
    Batches <- MCBatchesNoMove,
    MaxAborts <- 2,
    MaxReloads <- 0

MCInit == Init /\ isStreamingEnabled \in BOOLEAN

MCNext ==
    /\ \/ ~isStreamingEnabled /\ Next
       \/ isStreamingEnabled /\ Stream!Next
    /\ UNCHANGED isStreamingEnabled

MCSpec == MCInit /\ [][MCNext]_<<vars, isStreamingEnabled>>
=============================================================================
