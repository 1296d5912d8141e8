---------------------------- MODULE RatingLedger ----------------------------
(***************************************************************************)
(* What nd-rating-sync promises its users, without callbacks, pages,       *)
(* cursors, times or crashes: a ledger of the ratings that are due and of  *)
(* the songs each pair trusts, which an incremental sweep passes over.     *)
(* Only a song that is not due is ever trusted.  The plugin makes a song   *)
(* due in one case alone: the file was saved between reading it and        *)
(* writing its rating; then nobody trusts it.                              *)
(***************************************************************************)
CONSTANTS Libraries, Users, Songs, Files, Settings

VARIABLES
    files,     \* the files of the songs, and whether Navidrome has them
    due,       \* due[u][s]: the settings of u that ask s another rating
    trusted,   \* trusted[l][u][s]: those under which a sweep passes over s
    late       \* ratings on their way whose file was saved since it was read

ledgerVars == <<files, due, trusted, late>>

Init ==
    /\ files \in [Songs -> Files]
    /\ due \in [Users -> [Songs -> SUBSET Settings]]
    /\ trusted = [l \in Libraries |-> [u \in Users |-> [s \in Songs |-> {}]]]
    /\ late = {}

\* A song gets the rating its file asks for, or a person answers for it; or
\* a rating on its way is lost.
Settle(u, s) ==
    /\ due' = [due EXCEPT ![u][s] = due'[u][s]]
    /\ due'[u][s] \subseteq due[u][s]
    /\ late' \subseteq late
    /\ UNCHANGED <<files, trusted>>

\* A file is saved or imported: its song may be due, so nobody trusts it, and
\* a rating on its way to it is late.
Save(s) ==
    /\ files' = [files EXCEPT ![s] = files'[s]]
    /\ files' # files
    /\ due' = [u \in Users |-> [due[u] EXCEPT ![s] = due'[u][s]]]
    /\ \A u \in Users : due'[u][s] \subseteq Settings
    /\ trusted' = [l \in Libraries |-> [u \in Users |->
                      [trusted[l][u] EXCEPT ![s] = {}]]]
    /\ late' \subseteq late \union (Users \X {s})

\* A late rating arrives.  Nobody trusts the song.
WriteLate(u, s) ==
    /\ <<u, s>> \in late
    /\ \A l \in Libraries : trusted[l][u][s] = {}
    /\ due' = [due EXCEPT ![u][s] = due'[u][s]]
    /\ due'[u][s] \subseteq Settings
    /\ late' = late \ {<<u, s>>}
    /\ UNCHANGED <<files, trusted>>

\* A pair has been finished: what it trusts from now on is not due.
Trust(l, u) ==
    /\ trusted' = [trusted EXCEPT ![l][u] = trusted'[l][u]]
    /\ \A s \in Songs : trusted'[l][u][s] \subseteq Settings \ due[u][s]
    /\ UNCHANGED <<files, due, late>>

\* Pairs that are no longer configured lose their trust altogether.
Forget(gone) ==
    /\ trusted' = [l \in Libraries |-> [u \in Users |->
                      IF <<l, u>> \in gone THEN [s \in Songs |-> {}]
                      ELSE trusted[l][u]]]
    /\ UNCHANGED <<files, due, late>>

Next ==
    \/ \E u \in Users, s \in Songs : Settle(u, s)
    \/ \E s \in Songs : Save(s)
    \/ \E u \in Users, s \in Songs : WriteLate(u, s)
    \/ \E l \in Libraries, u \in Users : Trust(l, u)
    \/ \E gone \in SUBSET (Libraries \X Users) : Forget(gone)

Spec == Init /\ [][Next]_ledgerVars

=============================================================================
