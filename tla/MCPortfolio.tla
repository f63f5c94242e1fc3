---- MODULE MCPortfolio ----
EXTENDS Portfolio
MCCollides == {{1, 2}}
MCBlocks == {<<1, 2>>}
MCBlockSets == {{}, MCBlocks, {<<1, 2>>, <<2, 1>>}}

\* Two issues that compete in their last generation, or one that blocks the other, and
\* one change; or one issue with a change and a plan, or with two changes, next to one
\* that is held or delivered.
MCScenarios ==
    {[done |-> {}, held |-> {}, last |-> {1, 2}, blocks |-> {}, changes |-> 1, plans |-> 1],
     [done |-> {}, held |-> {}, last |-> {}, blocks |-> MCBlocks, changes |-> 1, plans |-> 1],
     [done |-> {}, held |-> {2}, last |-> {2}, blocks |-> {}, changes |-> 1, plans |-> 0],
     [done |-> {2}, held |-> {}, last |-> {2}, blocks |-> {}, changes |-> 0, plans |-> 1]}
====
