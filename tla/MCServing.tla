----------------------------- MODULE MCServing -----------------------------
(* A small instance of Serving for TLC. *)
EXTENDS Serving

CONSTANTS c1, c2, idx, man, other, conf, layer, att

Doc(type, form, children, size, sources) ==
  [type |-> type, form |-> form, children |-> children, size |-> size, sources |-> sources]

\* An index of two platforms, where only the second says what it is. One of its layers
\* is an attestation, which is JSON.
Image ==
  [d \in {idx, man, other, conf, layer, att} |->
     CASE d = idx -> Doc("index", "json", <<man, other>>, 2, {"docker.io"})
       [] d = man -> Doc("manifest", "json", <<conf, layer>>, 1, {"docker.io", "ghcr.io"})
       [] d = other -> Doc("manifest", "typed", <<conf, att>>, 1, {"docker.io"})
       [] d = conf -> Doc("config", "image", <<>>, 1, {"docker.io"})
       [] d = layer -> Doc("layer", "binary", <<>>, 3, {})
       [] d = att -> Doc("layer", "json", <<>>, 1, {"docker.io"})]

App == {"app"}
ImageStores == {[n \in App |-> d] : d \in {idx, man, None}}
ImageLocals == {{idx, man, conf, layer}, {idx, man, other, conf, layer, att}}

Request(op, method, name, d) == [op |-> op, method |-> method, name |-> name, dgst |-> d]
Tasks == <<
  Request("walk", "", "app", None), Request("manifest", "GET", "app", None),
  Request("manifest", "HEAD", None, man), Request("manifest", "GET", None, other),
  Request("manifest", "GET", None, conf), Request("manifest", "GET", None, layer),
  Request("blob", "HEAD", None, conf), Request("blob", "GET", None, layer),
  Request("manifest", "GET", None, att)>>

\* An int of four bits: 2 KBps wraps to a negative rate, 4 KBps to none.
Factor == [Bps |-> 1, KBps |-> 4]
SomeSpeeds == {None, [v |-> 1, unit |-> "Bps"], [v |-> 3, unit |-> "Bps"],
               [v |-> 2, unit |-> "KBps"], [v |-> 4, unit |-> "KBps"]}

Workload(i, j, speed_, files) ==
  [task |-> [c \in Calls |-> IF c = c1 THEN Tasks[i] ELSE Tasks[j]],
   speed |-> speed_, contentPath |-> files]

\* Any two tasks, and two transfers at any speed.
SomeWorkloads ==
  {Workload(p[1], p[2], None, files) : p \in {q \in (1 .. 9) \X (1 .. 9) : q[1] <= q[2]}, files \in BOOLEAN}
  \cup {Workload(8, 8, s, files) : s \in SomeSpeeds, files \in BOOLEAN}
=============================================================================
