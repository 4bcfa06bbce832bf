---------------------------- MODULE MCScChannel ----------------------------
EXTENDS ScChannel

MCBatches == {<<"u">>, <<"m", "p">>, <<"p", "u", "u">>}
MCBatchesNoMove == {<<"u">>, <<"u", "p">>, <<"p", "u", "u">>}
NoBatches == {}
=============================================================================
