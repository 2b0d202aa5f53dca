------------------------------ MODULE SingleUse -------------------------------
(***************************************************************************)
(* What the login service promises: a challenge is issued once, opens at   *)
(* most one session, and only while it is outstanding.  An outstanding     *)
(* challenge may lapse at any time.                                        *)
(***************************************************************************)
EXTENDS Naturals, FiniteSets

CONSTANT Challenges

VARIABLES outstanding,   \* challenges that can still open a session
          closed,        \* challenges that no longer can
          opened         \* number of sessions each challenge has opened

vars == <<outstanding, closed, opened>>

Init ==
    /\ outstanding = {}
    /\ closed = {}
    /\ opened = [c \in Challenges |-> 0]

Issue(c) ==
    /\ c \notin outstanding \union closed
    /\ outstanding' = outstanding \union {c}
    /\ UNCHANGED <<closed, opened>>

Login(c) ==
    /\ c \in outstanding
    /\ outstanding' = outstanding \ {c}
    /\ closed' = closed \union {c}
    /\ opened' = [opened EXCEPT ![c] = @ + 1]

Lapse(lapsed) ==
    /\ lapsed # {} /\ lapsed \subseteq outstanding
    /\ outstanding' = outstanding \ lapsed
    /\ closed' = closed \union lapsed
    /\ UNCHANGED opened

Next ==
    \/ \E c \in Challenges : Issue(c) \/ Login(c)
    \/ \E lapsed \in SUBSET outstanding : Lapse(lapsed)

Spec == Init /\ [][Next]_vars
=============================================================================
