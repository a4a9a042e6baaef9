----------------------------- MODULE MCStkAgent -----------------------------
EXTENDS StkAgent

CONSTANTS s1, s2, a1, a2

OneSlot   == {s1}
TwoSlots  == {s1, s2}
OneAgent  == {a1}
TwoAgents == {a1, a2}

OneDefault  == [s \in OneSlot |-> a1]
TwoDefaults == [s \in TwoSlots |-> IF s = s1 THEN a1 ELSE a2]

\* One method per shape of reply, and one of each kind of argument checking.
TwoMethods == {"ShowInformation", "RequestSelection"}
AllMethods == DOMAIN ReplyShape

AnyWord == {NoMsg, Wild}
Zero    == {NoMsg}
=============================================================================
