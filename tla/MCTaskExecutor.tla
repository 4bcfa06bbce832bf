---------------------------- MODULE MCTaskExecutor ----------------------------
EXTENDS TaskExecutor

TwoWorkers == {[min |-> 0, max |-> 2], [min |-> 1, max |-> 2]}
FewerWorkers == {[min |-> 0, max |-> 2], [min |-> 0, max |-> 1]}
=============================================================================
