------------------------------ MODULE Asteroid ------------------------------
(***************************************************************************)
(* Growing the mesh a PoScan attempt scans: consensus/obj-asteroid.        *)
(*                                                                         *)
(* Two of its algorithms decide whether every node grows the same, closed  *)
(* body: icosphere(), which subdivides an icosahedron through a cache of   *)
(* edge midpoints, and shuffled_perm(), which draws the table the relief   *)
(* is looked up in.  Vertices are their indices and faces triples of them; *)
(* coordinates, and the sculpting that moves vertices along their radius,  *)
(* change neither and are left out.  A draw of the generator stands for    *)
(* the index the product of a unit float and a length truncates to.        *)
(***************************************************************************)
EXTENDS Integers, Sequences, FiniteSets, SequencesExt

CONSTANTS
    SUBDIVISIONS,   \* how often the icosahedron is subdivided
    N               \* entries of the permutation table, 256 in the code

VARIABLES
    level,      \* subdivisions done
    made,       \* vertices.len()
    faces,      \* the faces of this level, triples of vertices
    new_faces,  \* the faces made of the first ones so far
    midpoint,   \* the cache of this level, from edges to vertices
    p,          \* the table being shuffled, a function on 0 .. N - 1
    i           \* the next position to swap, -1 once the mesh is returned

meshVars == <<level, made, faces, new_faces, midpoint>>
permVars == <<p, i>>
growVars == <<meshVars, permVars>>

-----------------------------------------------------------------------------
Icosahedron ==
    <<<<0, 11, 5>>, <<0, 5, 1>>, <<0, 1, 7>>, <<0, 7, 10>>, <<0, 10, 11>>,
      <<1, 5, 9>>, <<5, 11, 4>>, <<11, 10, 2>>, <<10, 7, 6>>, <<7, 1, 8>>,
      <<3, 9, 4>>, <<3, 4, 2>>, <<3, 2, 6>>, <<3, 6, 8>>, <<3, 8, 9>>,
      <<4, 9, 5>>, <<2, 4, 11>>, <<6, 2, 10>>, <<8, 6, 7>>, <<9, 8, 1>>>>

Identity == [k \in 0 .. N - 1 |-> k]

GrowInit ==
    /\ level = 0
    /\ made = 12
    /\ faces = Icosahedron
    /\ new_faces = <<>>
    /\ midpoint = [edge \in {} |-> 0]
    /\ p = Identity
    /\ i = N - 1

(* Mutant: the two faces of an edge look its midpoint up under two keys. *)
edge_key_directed(a, b) == <<a, b>>

edge_key(a, b) == IF a < b THEN <<a, b>> ELSE <<b, a>>

(* The cache and the vertex count after asking for the midpoints of a        *)
(* sequence of edges, and the midpoints themselves.                          *)
get_mid(grown, edge) ==
    LET key == edge_key(edge[1], edge[2])
    IN  IF key \in DOMAIN grown.cache
        THEN [grown EXCEPT !.mids = Append(@, grown.cache[key])]
        ELSE [cache |-> [k \in DOMAIN grown.cache \cup {key} |->
                            IF k = key THEN grown.made ELSE grown.cache[k]],
              made  |-> grown.made + 1,
              mids  |-> Append(grown.mids, grown.made)]

(* One turn of the loop over the faces of a level. *)
Subdivide ==
    /\ level < SUBDIVISIONS
    /\ Len(new_faces) < 4 * Len(faces)
    /\ LET f == faces[Len(new_faces) \div 4 + 1]
           grown == FoldLeft(get_mid, [cache |-> midpoint, made |-> made, mids |-> <<>>],
                             <<<<f[1], f[2]>>, <<f[2], f[3]>>, <<f[3], f[1]>>>>)
           a == grown.mids[1]
           b == grown.mids[2]
           c == grown.mids[3]
       IN  /\ midpoint' = grown.cache
           /\ made' = grown.made
           /\ new_faces' = new_faces \o <<<<f[1], a, c>>, <<f[2], b, a>>,
                                          <<f[3], c, b>>, <<a, b, c>>>>
    /\ UNCHANGED <<level, faces, permVars>>

(* The end of a level: its faces replace the former ones. *)
EndLevel ==
    /\ level < SUBDIVISIONS
    /\ Len(new_faces) = 4 * Len(faces)
    /\ faces' = new_faces
    /\ new_faces' = <<>>
    /\ midpoint' = [edge \in {} |-> 0]
    /\ level' = level + 1
    /\ UNCHANGED <<made, permVars>>

(* `((rng.unit() * (i as f64 + 1.0)) as usize).min(i)`: the product may      *)
(* round up to i + 1.                                                        *)
picked(k, draw) == IF draw < k THEN draw ELSE k

(* Mutant: the entry is copied, not swapped. *)
swap_copied(k, j) == [p EXCEPT ![k] = p[j]]

swap(k, j) == [p EXCEPT ![k] = p[j], ![j] = p[k]]

(* One turn of the Fisher-Yates loop, which sculpt() enters with the blank   *)
(* finished.                                                                 *)
Shuffle(draw) ==
    /\ level = SUBDIVISIONS
    /\ i > 0
    /\ p' = swap(i, picked(i, draw))
    /\ i' = i - 1
    /\ UNCHANGED meshVars

(* The vertices are moved and the mesh returned; the table goes away. *)
Return ==
    /\ i = 0
    /\ p' = Identity
    /\ i' = -1
    /\ UNCHANGED meshVars

Grow ==
    \/ Subdivide
    \/ EndLevel
    \/ \E draw \in 0 .. i + 1 : Shuffle(draw)
    \/ Return

(* The table mirrored to twice its length. *)
perm(k) == p[k % N]

(* The positions one octave of noise() reads for a cell. *)
Lookups(xi, yi, zi) ==
    LET a == perm(xi) + yi
        b == perm(xi + 1) + yi
        corners == {perm(a) + zi, perm(a + 1) + zi, perm(b) + zi, perm(b + 1) + zi}
    IN  {xi, xi + 1, a, a + 1, b, b + 1} \cup corners \cup {c + 1 : c \in corners}

-----------------------------------------------------------------------------
Edges == {<<faces[k][j], faces[k][(j % 3) + 1]>> : k \in DOMAIN faces, j \in 1 .. 3}

(* "The mesh comes out welded with no cracks": after every level each edge   *)
(* belongs to exactly two faces, which run through it in opposite            *)
(* directions, every vertex is used, and the surface is a sphere by Euler's  *)
(* formula, so the volume integrals of the scan see a closed body.           *)
Watertight ==
    new_faces = <<>> /\ i >= 0 =>
        /\ Cardinality(Edges) = 3 * Len(faces)
        /\ \A e \in Edges : <<e[2], e[1]>> \in Edges
        /\ {e[1] : e \in Edges} = 0 .. made - 1
        /\ 2 * (made + Len(faces)) = Cardinality(Edges) + 4

(* The table stays a permutation of its positions through the shuffle, and   *)
(* "corner lookups never need a wrap-around mask": whatever the cell, noise  *)
(* reads inside the mirrored table.                                          *)
LookupsInside ==
    /\ {p[k] : k \in DOMAIN p} = 0 .. N - 1
    /\ \A xi, yi, zi \in 0 .. N - 1 : Lookups(xi, yi, zi) \subseteq 0 .. 2 * N - 1
=============================================================================
