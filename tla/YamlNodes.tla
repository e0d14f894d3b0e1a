----------------------------- MODULE YamlNodes -----------------------------
(***************************************************************************)
(* A YAML document as the resolver handles it: nodes with a kind, a scalar *)
(* value (a sequence of the words a conversion can tell apart, empty for   *)
(* the empty string), the keys of a mapping in their order and the nodes   *)
(* under them.  A copy of a node is the node: nothing refers to it.        *)
(***************************************************************************)
EXTENDS SequencesExt, FiniteSetsExt, TLC

OrElse(a, b) == IF a # <<>> THEN a ELSE b

\* The sequence itself, evaluated once by TLC.
Evaluated(s) == s \o <<>>

NoNode == [kind |-> "none", value |-> <<>>, keys |-> <<>>, items |-> <<>>]
Scalar(v) == [NoNode EXCEPT !.kind = "scalar", !.value = v]
List(s) == [NoNode EXCEPT !.kind = "sequence", !.items = Evaluated(s)]
Entries(pairs) == [NoNode EXCEPT !.kind = "mapping",
                     !.keys = Evaluated([i \in DOMAIN pairs |-> pairs[i][1]]),
                     !.items = Evaluated([i \in DOMAIN pairs |-> pairs[i][2]])]

\* Keys of a mapping are distinct.
NodeHas(n, k) == k \in ToSet(n.keys)
NodeGet(n, k) == IF NodeHas(n, k) THEN n.items[CHOOSE i \in DOMAIN n.keys : n.keys[i] = k] ELSE NoNode

\* dst with the entries of src: those that are in both become with(old, new),
\* the others are appended.
Joined(dst, src, with(_, _)) ==
  LET keys == dst.keys \o SelectSeq(src.keys, LAMBDA k : ~ NodeHas(dst, k))
      entry(k) == IF NodeHas(src, k) THEN with(NodeGet(dst, k), NodeGet(src, k)) ELSE NodeGet(dst, k)
  IN  IF dst.kind # "mapping" \/ src.kind # "mapping" THEN dst
      ELSE Entries(Evaluated([i \in DOMAIN keys |-> <<keys[i], entry(keys[i])>>]))

NodeSet(n, k, v) == Joined(n, Entries(<< <<k, v>> >>), LAMBDA old, new : new)
OverlayMappingFields(dst, src) == Joined(dst, src, LAMBDA old, new : new)
=============================================================================
