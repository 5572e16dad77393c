----------------------------- MODULE MCRegistry -----------------------------
(* Small instances of Registry for TLC. *)
EXTENDS Registry, TLC

CONSTANTS n1, n2, n3, old

\* A node stands for its present identity too; old is one n1 had before a restart.
PresentID == [n \in Nodes |-> n]
RecordAddress == [p \in PeerIDs |-> IF p = old THEN n1 ELSE p]

Request(path, method, kind, name) == [path |-> path, method |-> method, kind |-> kind, name |-> name]

Tag(tag) == <<"docker.io/library/app", tag>>

\* One of each route, and each kind of reference.
AllRequests == {
  Request("other", "GET", "Blob", <<>>), Request("ref", "POST", "Blob", <<>>),
  Request("v2", "GET", "Blob", <<>>), Request("unparsable", "GET", "Blob", <<>>),
  Request("ref", "GET", "Blob", <<>>), Request("ref", "HEAD", "Blob", <<>>),
  Request("ref", "GET", "Manifest", <<>>), Request("ref", "GET", "Manifest", Tag("latest")),
  Request("ref", "HEAD", "Manifest", Tag("v1"))}
BlobRequest == {Request("ref", "GET", "Blob", <<>>)}
\* A registry with a port.
PortRequest == {Request("ref", "GET", "Manifest", <<"localhost", "5000/app", "latest">>)}

\* Nodes with one identity are interchangeable.
NodeSymmetry == Permutations({n2, n3})
=============================================================================
