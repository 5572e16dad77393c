-------------------------- MODULE MCMirrorConfig --------------------------
(* Small instances of MirrorConfig for TLC. *)
EXTENDS MirrorConfig

CONSTANTS docker, ghcr, other, m1, m2, user

MCEntries == {docker, ghcr, other}
MCHosts == {m1, m2, user}

Dir(d, g, o) == [e \in MCEntries |-> CASE e = docker -> d [] e = ghcr -> g [] e = other -> o]

\* Nothing there; one registry with a mirror of its own; two, and an entry that is no registry.
ParsableOriginals == {Dir(Absent, Absent, Absent), Dir({user}, Absent, Absent), Dir({user}, {user, m1}, NoFile)}
UserOriginals == {Dir({user}, Absent, NoFile)}
\* A file that only sets the server, one that does not parse.
OddOriginals == {Dir(NoTable, {user}, Absent), Dir({user}, Garbage, NoFile)}
AllOriginals == ParsableOriginals \cup OddOriginals

Args(rs, ms, app, ok) == [registries |-> rs, mirrors |-> ms, append |-> app, valid |-> ok]

\* Replace, append, a later chart that mirrors fewer registries elsewhere, a URL typo.
AllInvocations == {Args({docker, ghcr}, {m1}, FALSE, TRUE), Args({docker, ghcr}, {m1}, TRUE, TRUE),
                   Args({docker}, {m2}, TRUE, TRUE), Args({docker}, {m2}, TRUE, FALSE)}
AppendInvocations == {Args({docker}, {m1}, TRUE, TRUE)}
=============================================================================
