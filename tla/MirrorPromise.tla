--------------------------- MODULE MirrorPromise ---------------------------
(***************************************************************************)
(* What the registry promises to a client that asks it to mirror, with no  *)
(* word of lookups, channels, headers or retries: it asks one peer at a    *)
(* time, it follows no provider record twice, it gives one answer, and the *)
(* content it passes on comes from a peer that held it when it was asked.  *)
(* A peer may be asked again: as often as there are records that lead to   *)
(* it, of the identities it has had.                                       *)
(***************************************************************************)
CONSTANTS
  Peers, NoPeer,
  Providers,  \* the identities that provider records are of
  Address     \* identity -> the peer its record leads to

VARIABLES
  content,  \* peers that hold what the client asks for
  peer,     \* the peer that is being asked, or NoPeer
  offer,    \* what that peer has answered: "none" yet, "content", "refusal"
  asked,    \* providers whose records were followed so far
  answer    \* what the client got: "none" yet, "content" of a peer, "own" word of the node

vars == <<content, peer, offer, asked, answer>>

Init ==
  /\ content \subseteq Peers
  /\ peer = NoPeer /\ offer = "none" /\ asked = {} /\ answer = "none"

\* Peers come to hold the content, and cease to.
Hold == content' \subseteq Peers /\ UNCHANGED <<peer, offer, asked, answer>>

Ask(p) ==
  /\ answer = "none" /\ peer = NoPeer /\ p \notin asked
  /\ peer' = Address[p] /\ asked' = asked \cup {p}
  /\ UNCHANGED <<content, offer, answer>>

Offer ==
  /\ peer # NoPeer /\ offer = "none"
  /\ \/ peer \in content /\ offer' = "content"
     \/ offer' = "refusal"
  /\ UNCHANGED <<content, peer, asked, answer>>

Relay ==
  /\ offer = "content" /\ answer = "none" /\ answer' = "content"
  /\ peer' = NoPeer /\ offer' = "none"
  /\ UNCHANGED <<content, asked>>

\* The peer refuses, fails or is given up.
Drop ==
  /\ peer # NoPeer /\ peer' = NoPeer /\ offer' = "none"
  /\ UNCHANGED <<content, asked, answer>>

OwnAnswer ==
  /\ peer = NoPeer /\ answer = "none" /\ answer' = "own"
  /\ UNCHANGED <<content, peer, offer, asked>>

Next == Hold \/ (\E p \in Providers : Ask(p)) \/ Offer \/ Relay \/ Drop \/ OwnAnswer

Spec == Init /\ [][Next]_vars
=============================================================================
