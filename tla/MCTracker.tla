----------------------------- MODULE MCTracker -----------------------------
(* Small instances of Tracker for TLC. *)
EXTENDS Tracker

CONSTANTS d1, d2, b

Name(tag, dgst) == [tag |-> tag, dgst |-> dgst, repo |-> "docker.io/library/app"]

MCDigests == {d1, d2, b}
MCIdentifiers == [d \in MCDigests |-> IF d = b THEN <<b>> ELSE <<d, b>>]

\* Two tags that can share a target, and a name with a digest.
SharedNames == {Name("v1", None), Name("latest", None), Name("", d1)}
TwoNames == {Name("latest", None), Name("", d1)}
OneName == {Name("latest", None)}

\* Names with a digest are only ever bound to it.
SharedBindings == {nd \in Names \X {d1, d2} : nd[1].dgst \in {None, nd[2]}}

\* One image that comes and goes.
OneBinding == OneName \X {d1}

\* A tag and a name with a digest that can share a target, and a tag that shares none.
MixedBindings ==
  {<<Name("v1", None), d1>>, <<Name("", d1), d1>>,
   <<Name("latest", None), d2>>, <<Name("latest", None), b>>}
=============================================================================
