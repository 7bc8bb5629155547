----------------------------- MODULE Directory -----------------------------
(***************************************************************************)
(* What the hosts table promises to the rest of the system: a directory of *)
(* host names.  A name has at most one entry, an entry keeps its ID and    *)
(* its name for as long as it lives, and the ID of an entry that was       *)
(* deleted never stands for a host again (AUTOINCREMENT): agents keep the  *)
(* ID they were given, and the hub finds connections by it.                *)
(***************************************************************************)
CONSTANTS Ids, Names

VARIABLES
    entries,    \* the live entries, as pairs of an ID and a name
    spent       \* the IDs given out so far

vars == <<entries, spent>>

Listed(n) == \E i \in Ids : <<i, n>> \in entries

Add(i, n) ==
    /\ i \notin spent
    /\ ~Listed(n)
    /\ entries' = entries \cup {<<i, n>>}
    /\ spent' = spent \cup {i}

Remove(i, n) ==
    /\ <<i, n>> \in entries
    /\ entries' = entries \ {<<i, n>>}
    /\ UNCHANGED spent

\* The directory is kept on disk and may hold entries from the start.
Init ==
    /\ spent \subseteq Ids
    /\ entries \subseteq spent \X Names
    /\ \A e, f \in entries : e[1] = f[1] \/ e[2] = f[2] => e = f

Next == \E i \in Ids, n \in Names : Add(i, n) \/ Remove(i, n)

Spec == Init /\ [][Next]_vars

=============================================================================
