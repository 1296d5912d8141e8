---------------------------- MODULE MCRatingSync ----------------------------
(***************************************************************************)
(* Instances of RatingSync for TLC: users u1 and u2, songs s1 and s2, tag  *)
(* order o1, library 1.  A .cfg picks a set of configurations, a set of    *)
(* file contents and the failures that may happen.  Record fields are      *)
(* written in the order TLC keeps them in, so that its workers do not have *)
(* to sort the values they share.                                          *)
(***************************************************************************)
EXTENDS RatingSyncInv

CONSTANTS u1, u2, s1, s2, o1

Read(n) == [result |-> "TagFound", stars |-> n]
Untagged == [result |-> "TagAbsent", stars |-> 0]

Same(reading) == [o \in Orders |-> reading]
TwoRatings == {Same(Read(3)), Same(Read(5))}
TagOrNothing == {Same(Read(3)), Same(Untagged)}
OneFile == {Same(Read(3))}

Overwrite(o) == [clear |-> TRUE, order |-> o, skip |-> FALSE]
Keep(o) == [clear |-> FALSE, order |-> o, skip |-> TRUE]

User(u, st) == [name |-> u, settings |-> st]
Plugin1(list) ==
    [libraries |-> <<[id |-> 1, users |-> list]>>,
     incremental |-> TRUE, dryRun |-> FALSE]
Dry(c) == [c EXCEPT !.dryRun = TRUE]
Full(c) == [c EXCEPT !.incremental = FALSE]

OneUser == {Plugin1(<<User(u1, Overwrite(o1))>>)}
TwoUsers == {Plugin1(<<User(u1, Overwrite(o1)), User(u2, Overwrite(o1))>>)}

\* Settings, users and libraries come and go.
ManyConfigs ==
    LET base == Plugin1(<<User(u1, Overwrite(o1))>>) IN
    {base, Dry(base),
     Full(Plugin1(<<User(None, Keep(o1)), User(u1, Keep(o1))>>)),
     Plugin1(<<User(u2, Overwrite(o1))>>),
     [base EXCEPT !.libraries = <<>>]}

DryOrNot == LET c == Plugin1(<<User(u1, Overwrite(o1))>>) IN {c, Dry(c)}

HomeO1 == [l \in Libraries |-> [u \in Users |-> o1]]
ListS1 == [l \in Libraries |-> <<s1>>]
ListS12 == [l \in Libraries |-> <<s1, s2>>]
=============================================================================
