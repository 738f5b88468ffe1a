---------------------------- MODULE MCScheduler ----------------------------
\* Instances of Scheduler for TLC.
EXTENDS Scheduler, TLC

CONSTANTS o1, o2, s1, s2

\* One org with more sessions than a page, and one with a page.
TwoAndOne == o1 :> {s1, s2} @@ o2 :> {s1}

\* A violation may be found in one session of the first.
OneSuspect == o1 :> {s1} @@ o2 :> {}

\* The first asks for the floor and for less, the second for less.
FloorOrLess == o1 :> {0, 1} @@ o2 :> {0}
=============================================================================
