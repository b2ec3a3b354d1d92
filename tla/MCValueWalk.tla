---------------------------- MODULE MCValueWalk -----------------------------
(* Small instances of ValueWalk: all values of three parts.                *)
EXTENDS ValueWalk

CONSTANT MaxParts

Containers == {"map", "slice", "object", "pointer", "array", "struct"}

\* An array or a struct lies inside one holder, and not inside itself.
InPlace(v) ==
  \A n \in Nodes :
    v.kind[n] \in {"array", "struct"} =>
      /\ n # v.root
      /\ Cardinality({h \in Nodes \X (1 .. MaxParts) :
                        h[2] \in DOMAIN v.kids[h[1]] /\ v.kids[h[1]][h[2]] = n}) <= 1
      /\ \A i \in DOMAIN v.kids[n] : v.kids[n][i] # n

Held(kind) ==
  IF kind \in Containers THEN UNION {[1 .. k -> Nodes] : k \in 0 .. MaxParts} ELSE {<<>>}

ValuesOf(walk, kinds) ==
  {v \in [walk : {walk}, root : {1}, kind : [Nodes -> kinds],
          kids : [Nodes -> UNION {[1 .. k -> Nodes] : k \in 0 .. MaxParts}]] :
     /\ v.kind[1] \in {"map", "object"}
     /\ \A n \in Nodes : v.kids[n] \in Held(v.kind[n])
     /\ InPlace(v)}

MCValues ==
  ValuesOf("options", {"map", "object", "pointer", "array", "leaf"})
    \union ValuesOf("result", {"map", "pointer", "struct", "utf8", "number"})
=============================================================================
