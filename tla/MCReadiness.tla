---- MODULE MCReadiness ----
EXTENDS Readiness
MCActionSets == {<<"source", "graph">>, <<"candidate">>}
====
