-------------------------------- MODULE MCSite --------------------------------
(* Site for TLC: two questions, two archives, two members of the faculty. *)
EXTENDS Site

CONSTANTS text, tab, author, admin, task, home, lab, phone, vpn  \* model values

\* Two full pages and a short one; a single row.
MCRows == [q \in Question |-> IF q = text THEN 4 ELSE 1]

entry(key, is, words) == [key |-> key, is |-> is, text |-> words]

\* Two pairs, one with an input that is empty; a pair whose output is
\* overwritten by one that is empty.
MCArchives ==
    {<<entry("1", {"in"}, "text"), entry("1", {"out"}, "text"),
       entry("2", {"out"}, "text"), entry("2", {"in"}, "empty")>>,
     <<entry("1", {"in"}, "text"), entry("1", {"out"}, "text"),
       entry("1", {"in", "out"}, "empty")>>}
=============================================================================
