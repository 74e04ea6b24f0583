------------------------------ MODULE MCOutbox ------------------------------
EXTENDS Outbox, TLC

CONSTANTS s1, r1, r2

MCServices == {s1}
MCReplicas == {r1, r2}

\* One listener for every event, one for the second event only.
MCListeners == <<{1, 2}, {2}>>

\* The second event occurs with the first, before it, or one or the other.
Together == <<{2}, {2}>>
Backdated == <<{2}, {1}>>
Either == <<{2}, {1, 2}>>

Options == [locks |-> TRUE, batch |-> 2, stamps |-> Together, incidents |-> 0, retries |-> 0]

MCSetups == {[Options EXCEPT !.incidents = 2],
             [Options EXCEPT !.batch = 1, !.stamps = Backdated, !.incidents = 1, !.retries = 1],
             [Options EXCEPT !.locks = FALSE, !.stamps = Either]}
=============================================================================
