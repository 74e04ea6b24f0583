---------------------------- MODULE MCScheduler ----------------------------
EXTENDS Scheduler

CONSTANTS r1, r2, op

MCReplicas == {r1, r2}
MCOperators == {op}

Plain == [overlap |-> FALSE, server |-> FALSE, background |-> FALSE,
          repeat |-> FALSE, singleton |-> FALSE, tenants |-> 1,
          incidents |-> 1, commands |-> 0]

Overlapping == [Plain EXCEPT !.overlap = TRUE]
OneServer == [Plain EXCEPT !.server = TRUE]

MCSetups ==
    {[Overlapping EXCEPT !.commands = 1],
     [Overlapping EXCEPT !.background = TRUE, !.commands = 1],
     [Overlapping EXCEPT !.background = TRUE, !.tenants = 2, !.incidents = 0],
     [Overlapping EXCEPT !.server = TRUE],
     OneServer,
     [OneServer EXCEPT !.repeat = TRUE],
     [Plain EXCEPT !.singleton = TRUE],
     [Plain EXCEPT !.singleton = TRUE, !.commands = 1, !.incidents = 0],
     [Plain EXCEPT !.singleton = TRUE, !.tenants = 2, !.incidents = 0]}

MCBoth == {[Overlapping EXCEPT !.server = TRUE, !.incidents = 0]}
MCCleared == {[Overlapping EXCEPT !.commands = 1]}
=============================================================================
