----------------------------- MODULE WebTableMC -----------------------------
(* Instances of WebTable small enough for TLC.                             *)
EXTENDS WebTable

\* A server with samples; the cases differ in what follows.
Plain(i, protocol, g) ==
    [id |-> i, protocol |-> protocol, trusted |-> FALSE, enabled |-> TRUE, probed |-> TRUE,
     success |-> TRUE, samples |-> 9, coverage |-> 9, average_ms |-> 20 * (i % 2), p95_ms |-> 30,
     availability |-> 90, success_rate |-> 90 + i, grade |-> g, pollution |-> "matched",
     words |-> {"resolver"}]

\* A trusted one whose answers differ, a good one, two that fail, one that lies, and one that
\* was never probed.
Trusted == [Plain(1, "udp", "E") EXCEPT !.trusted = TRUE, !.pollution = "polluted"]
Good == Plain(2, "udp", "A")
Failing == [Plain(5, "https", "unavailable") EXCEPT !.success = FALSE, !.success_rate = 0,
               !.average_ms = 0, !.p95_ms = 0, !.availability = 10, !.pollution = "unknown"]
Dying == [Failing EXCEPT !.id = 6, !.availability = 40]
Lying == [Plain(4, "https", "F") EXCEPT !.pollution = "polluted", !.words = {}]
New == [Plain(3, "udp", "none") EXCEPT !.probed = FALSE, !.success = FALSE, !.samples = 0,
           !.coverage = 0, !.pollution = "none", !.words = {}]
Slower == [Good EXCEPT !.grade = "C", !.pollution = "suspicious", !.average_ms = 70]

MCServers == {Trusted, Good, Failing, Dying, Lying, New, Slower}
MCLists == {{Trusted, Good, Failing, Dying, Lying, New}, {Trusted, Slower, New}}

MCStored == {[protocol |-> p, pollution |-> {}, grade |-> g] :
                p \in {{}, {"https"}}, g \in {{}, {"F"}}}

=============================================================================
