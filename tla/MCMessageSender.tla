-------------------------- MODULE MCMessageSender --------------------------
(***************************************************************************)
(* Small instances of MessageSender for TLC.                               *)
(***************************************************************************)
EXTENDS MessageSender, TLC

CONSTANTS k1, k2, m1, m2, m3, w1, w2, a1, a2

OneKey == [m \in Msgs |-> k1]
OneApi == [w \in Workers |-> a1]
OwnApi == [w \in Workers |-> IF w = w1 THEN a1 ELSE a2]

\* Kinds of faults that come together.
AllMixes == {{"crash", "call", "unheard", "database"}, {"crash", "call", "refused", "database"},
             {"call", "refused", "unheard"}, {"stall", "unheard"}}
CrashesOrErrors == {{"crash"}, {"call", "refused"}}
CrashAndRefusal == {{"crash", "refused"}}

\* Workers behind the same API node are interchangeable, and so are messages
\* sent from the same key.
Interchangeable == Permutations(Workers) \cup Permutations(Msgs)

=============================================================================
