----------------------------- MODULE MCMemories -----------------------------
EXTENDS Memories

CONSTANTS m1, m2, t1, t2, c1, c2, w1, k1, j1, j2

TwoMems == {m1, m2}
TwoTexts == {t1, t2}
TwoClients == {c1, c2}
OneWorker == {w1}
OneKey == {k1}
TwoJobs == {j1, j2}

\* The bulk job asked for: an update of one memory and the deletion of another.
Bulks == {<<[mem |-> m1, op |-> "update", text |-> t2], [mem |-> m2, op |-> "delete", text |-> NoText]>>}
=============================================================================
