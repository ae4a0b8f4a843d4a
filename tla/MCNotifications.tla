--------------------------- MODULE MCNotifications -----------------------------
EXTENDS Notifications

CONSTANTS w1, s1, e1

\* An emergency is withdrawn and comes back.
MCFeed == [startUp |-> <<{}, {s1}, {}>>, emergency |-> <<{}, {e1}, {}, {e1}>>]
=============================================================================
