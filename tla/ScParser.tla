------------------------------- MODULE ScParser -------------------------------
(* Which parser of the sc channel a client runs, and what the app may rely on    *)
(* with either of them.                                                          *)
EXTENDS ScChannel

VARIABLE isStreamingEnabled     \* ScStreamingParser, not procsc(); it does not change

\* sequencetag_update(): when the app is told a tag, the packets that carry it or
\* an earlier one are applied.  After a restart the tag comes from the state cache,
\* where a streaming client may have committed that of a packet it was about to apply.
ReportedTagsApplied ==
    [][reported' # reported =>
         TagsApplied' \/ (isStreamingEnabled /\ used'.restarts > used.restarts)]_vars
=============================================================================
