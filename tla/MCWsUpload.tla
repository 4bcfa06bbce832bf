----------------------------- MODULE MCWsUpload -----------------------------
EXTENDS WsUpload, TLC

CONSTANTS short, exact      \* a file of two chunks, and one of a full chunk

MCN == (short :> 2) @@ (exact :> 1)
=============================================================================
