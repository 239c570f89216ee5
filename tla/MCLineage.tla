------------------------------- MODULE MCLineage -------------------------------
(***************************************************************************)
(* Any graph of up to four nodes and six edges, and the one of the        *)
(* enterprise.                                                             *)
(***************************************************************************)
EXTENDS Lineage, TLC

CONSTANTS a1, a2, b1, b2   \* two assets and two other nodes

Atlas == INSTANCE AtlasLineage

MCNames == {a1, a2, b1, b2}
MCAtlasNodes == Atlas!Nodes
MCAtlasEdges == Atlas!Edges
MCFocusNodes == {Atlas!RootCauseFocusNode[c] : c \in DOMAIN Atlas!RootCauseFocusNode}
MCIsAsset ==
  [n \in {a1, a2, b1, b2} \cup Atlas!Nodes |-> n \in {a1, a2} \cup Atlas!Assets]

Symmetry == Permutations({a1, a2}) \cup Permutations({b1, b2})
===============================================================================
