--------------------------- MODULE ServerImportMC ---------------------------
(* Instances of ServerImport small enough for TLC.                         *)
EXTENDS ServerImport

CONSTANTS a, b, x, y

Row(k, c) == [key |-> k, content |-> c]
Stored(i, k, c) == [id |-> i, key |-> k, content |-> c]

\* A file with a new and perhaps a known address, one that names an address twice, and
\* one that does not validate.
MCFiles == {<<Row(a, y), Row(b, x)>>, <<Row(a, x), Row(a, y)>>, <<Row(BadKey, x)>>}
\* Nothing, and a list that has an address twice.
MCLists == {{}, {Stored(1, a, x), Stored(2, a, y)}}

=============================================================================
