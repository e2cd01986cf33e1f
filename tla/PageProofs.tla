---------------------------- MODULE PageProofs -----------------------------
(***************************************************************************)
(* Proofs about the daemon's page-facing data: Terrain, the cache of tiles *)
(* the loop flies over, Wire, the frames of the socket, and Specs, the     *)
(* build specifications the daemon sends, for any tiles, frames and specs. *)
(***************************************************************************)
EXTENDS Terrain, Specs, NaturalsInduction, WellFoundedInduction, FiniteSetTheorems,
        SequenceTheorems, TLAPS

(* Induction on the numbers, without an operator parameter.                *)

\* A set of numbers that is not empty has a least element.
LEMMA LeastOf ==
    ASSUME NEW T \in SUBSET Nat, T # {}
    PROVE  \E x \in T : \A y \in T : x <= y
<1> DEFINE R == OpToRel(<, Nat)
<1>1. IsWellFoundedOn(R, Nat)
    BY NatLessThanWellFounded
<1>2. PICK x \in T : \A y \in T : ~(<<y, x>> \in R)
    BY <1>1, WFMin
<1>3. \A y \in T : ~(y < x)
    BY <1>2, Zenon DEF OpToRel
<1> HIDE DEF R
<1> QED BY <1>3

\* Induction, over a set: what holds of zero and of the successors holds of all numbers.
LEMMA InductionOf ==
    ASSUME NEW S, 0 \in S, \A n \in Nat : n \in S => n + 1 \in S
    PROVE  Nat \subseteq S
<1> DEFINE T == Nat \ S
<1>1. SUFFICES ASSUME T # {} PROVE FALSE
    OBVIOUS
<1>2. PICK x \in T : \A y \in T : x <= y
    BY <1>1, LeastOf
<1>3. x # 0 /\ x - 1 \in Nat
    BY <1>2
<1>4. x - 1 \in S
    BY <1>2, <1>3
<1>5. x \in S
    BY <1>3, <1>4
<1> QED BY <1>2, <1>5

(* Terrain: the tiles the loop keeps.                                      *)

\* The runs of a frame are stored one after the other: StoredAll is a recursion that
\* ends.
LEMMA StoredInTurn ==
    ASSUME NEW runs \in Runs
    PROVE  \E f : /\ f = [i \in 0..Len(runs) |-> IF i = 0 THEN [zoom |-> zoom, tiles |-> tiles]
                                                 ELSE Stored(f[i - 1], runs[i])]
                  /\ StoredAll(runs) = f[Len(runs)]
<1> DEFINE base == [zoom |-> zoom, tiles |-> tiles]
           Solves(f, n) == f = [i \in 0..n |-> IF i = 0 THEN base ELSE Stored(f[i - 1], runs[i])]
           S == {n \in Nat : \E f : Solves(f, n)}
<1> HIDE DEF base
<1>1. 0 \in S
  <2>1. Solves([i \in 0..0 |-> base], 0)
      OBVIOUS
  <2> QED BY <2>1
<1>2. ASSUME NEW n \in Nat, n \in S PROVE n + 1 \in S
  <2>1. PICK f : Solves(f, n)
      BY <1>2
  <2> DEFINE g == [i \in 0..(n + 1) |-> IF i = n + 1 THEN Stored(f[n], runs[n + 1]) ELSE f[i]]
             h == [i \in 0..(n + 1) |-> IF i = 0 THEN base ELSE Stored(g[i - 1], runs[i])]
  <2>2. ASSUME NEW i \in 0..(n + 1) PROVE g[i] = h[i]
    <3>1. CASE i = n + 1
      <4>1. i # 0 /\ n \in 0..(n + 1) /\ n # n + 1 /\ i - 1 = n
          BY <3>1
      <4>2. g[n] = f[n]
          BY <4>1
      <4> QED BY <3>1, <4>1, <4>2
    <3>2. CASE i # n + 1
      <4>1. i \in 0..n
          BY <3>2
      <4>2. g[i] = f[i]
          BY <3>2
      <4>3. f[i] = IF i = 0 THEN base ELSE Stored(f[i - 1], runs[i])
          BY <2>1, <4>1
      <4>4. CASE i = 0
          BY <4>2, <4>3, <4>4
      <4>5. CASE i # 0
        <5>1. i - 1 \in 0..(n + 1) /\ i - 1 # n + 1
            BY <4>1, <4>5
        <5>2. g[i - 1] = f[i - 1]
            BY <5>1
        <5> QED BY <4>2, <4>3, <4>5, <5>2
      <4> QED BY <4>4, <4>5
    <3> QED BY <3>1, <3>2
  <2>3. g = h
      BY <2>2
  <2>4. Solves(g, n + 1)
      BY <2>3
  <2> HIDE DEF g, h
  <2>5. \E k : Solves(k, n + 1)
      BY <2>4
  <2> QED BY <2>5
<1> HIDE DEF S
<1>3. Len(runs) \in S
    BY <1>1, <1>2, InductionOf, LenProperties DEF Runs
<1> QED BY <1>3 DEF S, base, StoredAll

------------------------------------------------------------------------------
(* The ground under the vehicle.                                           *)

\* Every tile within the world, with the origin of the frame it came in.
Ground == {t \in [z : Zooms, x : Nat, from : Int] : InWorld(t)}

\* What a frame that is anchored to a place can bring.
Brought == {t \in [z : Zooms, x : Nat, from : {job.frame.origin}] : InWorld(t)}

\* No two tiles of a set have the same coordinate.
OnePerCoord(S) == \A t, u \in S : Coord(t) = Coord(u) => t = u

\* The variables have their types, and the vehicle is within the world of the place
\* that it was flown from.
GroundTypes ==
    /\ origin \in Sites \cup {NoSite} /\ zoom \in Zooms \cup {NoZoom}
    /\ tiles \in SUBSET Ground
    /\ IsFiniteSet(tiles) /\ Cardinality(tiles) <= MaxResident
    /\ off \in (1 - Size)..(Size - 1) /\ ned \in (1 - Size)..(Size - 1)
    /\ stale \in BOOLEAN /\ raced \in BOOLEAN /\ kept \in Nat
    /\ job \in [stage : {"none", "checked", "read"}, frame : Frames, at : Sites \cup {NoSite}]
    /\ last \in SUBSET Coords /\ asked \in SUBSET Coords
    /\ unanswered \in Nat /\ slow \in BOOLEAN
    /\ belief \in Sites \cup {NoSite} /\ news \in Sites \cup {NoSite}
    /\ wire \in Seq(Frames)

\* The tiles are of one zoom, and one to a coordinate, as in the map that the code
\* keeps them in.
MapInv == OnePerCoord(tiles) /\ \A t \in tiles : t.z = zoom

\* The origin is no further than it can have crept from where a frame was anchored.
Nearby(from) == Far(from, origin) <= (1 + kept) * Tolerance

\* As long as nothing raced, the tiles and the frame that is being ingested are of a
\* place that the origin has crept away from; without an origin there are neither.
AnchorInv ==
    /\ origin = NoSite => tiles = {} /\ job.stage = "none"
    /\ raced = FALSE => /\ \A t \in tiles : Nearby(t.from)
                        /\ job.stage # "none" => Nearby(job.frame.origin)

\* The inductive invariant of the cache: its types, its map and its anchors.
GroundInv == GroundTypes /\ MapInv /\ AnchorInv

\* What there is while the runs of a frame are stored: tiles of before and of the frame.
Holding(held) ==
    /\ held \in [zoom : Zooms \cup {NoZoom}, tiles : SUBSET (tiles \cup Brought)]
    /\ IsFiniteSet(held.tiles) /\ OnePerCoord(held.tiles)
    /\ \A t \in held.tiles : t.z = held.zoom

\* The tiles of the zoom so far are replaced and never removed.
Covering(held) ==
    held.zoom = zoom /\ \A t \in tiles : \E u \in held.tiles : Coord(u) = Coord(t)

\* A place is a number, of a cell of the world, and the cells of a zoom are numbers.
LEMMA SiteNumbers ==
    /\ Sites \subseteq Nat /\ \A site \in Sites : Home(site) \in 0..(Size - 1)
    /\ NoSite \notin Sites /\ NoSite = -1 /\ NoSite \in Int
    /\ \A z \in Zooms : Width(z) \in Nat
    /\ Zooms = {1, 2} /\ NoZoom = 0 /\ Coarse = 1 /\ Fine = 2
BY TerrainAssumption DEF NoSite, Width, Zooms, NoZoom, Coarse, Fine

\* The tiles of a run that are accepted are finitely many, at different coordinates.
LEMMA AcceptedFew ==
    ASSUME NEW run \in [z : Zooms, xs : SUBSET Nat, ok : BOOLEAN]
    PROVE  /\ AcceptedTiles(run) \in SUBSET Brought
           /\ IsFiniteSet(AcceptedTiles(run)) /\ OnePerCoord(AcceptedTiles(run))
           /\ \A t \in AcceptedTiles(run) : t.z = run.z
<1> DEFINE A == AcceptedTiles(run)
           w == Width(run.z)
           f == [t \in A |-> t.x]
<1>1. \A t \in A : /\ t.z = run.z /\ t.x \in run.xs /\ t.from = job.frame.origin
                   /\ t.x < Width(t.z) /\ t = [z |-> t.z, x |-> t.x, from |-> t.from]
  <2> SUFFICES ASSUME NEW t \in A
               PROVE  /\ t.z = run.z /\ t.x \in run.xs /\ t.from = job.frame.origin
                      /\ t.x < Width(t.z) /\ t = [z |-> t.z, x |-> t.x, from |-> t.from]
      OBVIOUS
  <2>1. PICK x \in run.xs : /\ Valid([z |-> run.z, x |-> x], run.ok, Home(job.at))
                            /\ t = [z |-> run.z, x |-> x, from |-> job.frame.origin]
      BY DEF AcceptedTiles
  <2>2. x < Width(run.z)
      BY <2>1 DEF Valid
  <2>3. t = [z |-> run.z, x |-> x, from |-> job.frame.origin]
      BY <2>1
  <2>4. t.z = run.z /\ t.x = x /\ t.from = job.frame.origin
      BY <2>3
  <2> QED BY <2>2, <2>3, <2>4
<1>2. w \in Nat
    BY SiteNumbers
<1>3. A \in SUBSET Brought
  <2>1. \A t \in A : t.z \in Zooms /\ t.x \in Nat
      BY <1>1
  <2> HIDE DEF A
  <2> QED BY <1>1, <2>1 DEF Brought, InWorld
<1>4. \A t \in A : t.x \in 0..w
    BY <1>1, <1>2
<1>5. \A t, u \in A : t.x = u.x => t = u
    BY <1>1
<1> HIDE DEF A, w
<1>6. f \in Injection(A, 0..w)
    BY <1>4, <1>5 DEF Injection, IsInjective
<1>7. IsFiniteSet(0..w)
    BY <1>2, FS_Interval
<1>8. IsFiniteSet(A)
    BY <1>6, <1>7, FS_Injection
<1>9. OnePerCoord(A)
    BY <1>5 DEF OnePerCoord, Coord
<1> QED BY <1>1, <1>3, <1>8, <1>9 DEF A

\* Storing a run keeps the tiles of one zoom and one to a coordinate, and covers what the
\* tiles of its zoom covered.
LEMMA StoredHolds ==
    ASSUME NEW held, Holding(held), NEW run \in [z : Zooms, xs : SUBSET Nat, ok : BOOLEAN]
    PROVE  /\ Holding(Stored(held, run))
           /\ run.z = zoom /\ Covering(held) => Covering(Stored(held, run))
<1> DEFINE A == AcceptedTiles(run)
           K == {t \in held.tiles : held.zoom = run.z /\ Coord(t) \notin {Coord(a) : a \in A}}
           s == Stored(held, run)
<1>1. /\ A \in SUBSET Brought /\ IsFiniteSet(A) /\ OnePerCoord(A)
      /\ \A t \in A : t.z = run.z
    BY AcceptedFew
<1>2. /\ A = {} => s = held
      /\ A # {} => s = [zoom |-> run.z, tiles |-> K \cup A]
    BY DEF Stored
<1>3. /\ K \in SUBSET held.tiles
      /\ \A t \in K : held.zoom = run.z /\ \A a \in A : Coord(t) # Coord(a)
      /\ \A t \in held.tiles : held.zoom = run.z => t \in K \/ \E a \in A : Coord(a) = Coord(t)
    OBVIOUS
<1> HIDE DEF A, K, s
<1>4. CASE A = {}
    BY <1>2, <1>4 DEF s
<1>5. CASE A # {}
  <2>1. s.zoom = run.z /\ s.tiles = K \cup A
      BY <1>2, <1>5
  <2>2. IsFiniteSet(K)
      BY <1>3, FS_Subset DEF Holding
  <2>3. IsFiniteSet(K \cup A)
      BY <1>1, <2>2, FS_Union
  <2>4. OnePerCoord(K \cup A)
      BY <1>1, <1>3 DEF OnePerCoord, Holding
  <2>5. \A t \in K \cup A : t.z = run.z
      BY <1>1, <1>3 DEF Holding
  <2>6. K \cup A \in SUBSET (tiles \cup Brought)
      BY <1>1, <1>3 DEF Holding
  <2>7. s \in [zoom : Zooms \cup {NoZoom}, tiles : SUBSET (tiles \cup Brought)]
      BY <1>2, <1>5, <2>6
  <2>8. Holding(s)
      BY <2>1, <2>3, <2>4, <2>5, <2>7 DEF Holding
  <2>9. ASSUME run.z = zoom, Covering(held) PROVE Covering(s)
    <3>1. ASSUME NEW t \in tiles PROVE \E u \in K \cup A : Coord(u) = Coord(t)
      <4>1. PICK v \in held.tiles : Coord(v) = Coord(t)
          BY <2>9 DEF Covering
      <4>2. v \in K \/ \E a \in A : Coord(a) = Coord(v)
          BY <1>3, <2>9 DEF Covering
      <4> QED BY <4>1, <4>2
    <3> QED BY <2>1, <2>9, <3>1 DEF Covering
  <2> QED BY <2>8, <2>9 DEF s
<1> QED BY <1>4, <1>5

\* So do all the runs of a frame.
LEMMA StoredAllHolds ==
    ASSUME GroundTypes, MapInv, NEW runs \in Runs
    PROVE  /\ Holding(StoredAll(runs))
           /\ (\A i \in 1..Len(runs) : runs[i].z = zoom) => Covering(StoredAll(runs))
<1> DEFINE base == [zoom |-> zoom, tiles |-> tiles]
<1>1. PICK f : /\ f = [i \in 0..Len(runs) |-> IF i = 0 THEN base ELSE Stored(f[i - 1], runs[i])]
               /\ StoredAll(runs) = f[Len(runs)]
    BY StoredInTurn
<1>2. Len(runs) \in Nat
      /\ \A i \in 1..Len(runs) : runs[i] \in [z : Zooms, xs : SUBSET Nat, ok : BOOLEAN]
    BY LenProperties, ElementOfSeq DEF Runs
<1>3. Holding(base) /\ Covering(base)
    BY DEF GroundTypes, MapInv, Holding, Covering
<1> DEFINE n == Len(runs)
           Same == \A i \in 1..n : runs[i].z = zoom
           S == {k \in Nat : k <= n => Holding(f[k]) /\ (Same => Covering(f[k]))}
<1> HIDE DEF base
<1>4. f[0] = base /\ \A k \in Nat : k + 1 <= n => f[k + 1] = Stored(f[k], runs[k + 1])
  <2>1. \A i \in 0..n : f[i] = IF i = 0 THEN base ELSE Stored(f[i - 1], runs[i])
      BY <1>1
  <2>2. 0 \in 0..n /\ \A k \in Nat : k + 1 <= n => k + 1 \in 0..n /\ k + 1 # 0 /\ (k + 1) - 1 = k
      BY <1>2
  <2> HIDE DEF n
  <2>3. f[0] = base
      BY <2>1, <2>2
  <2>4. ASSUME NEW k \in Nat, k + 1 <= n PROVE f[k + 1] = Stored(f[k], runs[k + 1])
      BY <2>1, <2>2, <2>4
  <2> QED BY <2>3, <2>4
<1> HIDE DEF n
<1>5. 0 \in S
    BY <1>3, <1>4
<1>6. ASSUME NEW k \in Nat, k \in S PROVE k + 1 \in S
  <2> SUFFICES ASSUME k + 1 <= n
               PROVE  Holding(f[k + 1]) /\ (Same => Covering(f[k + 1]))
      OBVIOUS
  <2>1. k <= n /\ k + 1 \in 1..n
      BY <1>2 DEF n
  <2>2. Holding(f[k]) /\ (Same => Covering(f[k]))
      BY <1>6, <2>1
  <2>3. runs[k + 1] \in [z : Zooms, xs : SUBSET Nat, ok : BOOLEAN]
      BY <1>2, <2>1 DEF n
  <2>4. f[k + 1] = Stored(f[k], runs[k + 1])
      BY <1>4
  <2>5. Same => runs[k + 1].z = zoom
      BY <2>1
  <2> HIDE DEF Same, S
  <2> QED BY <2>2, <2>3, <2>4, <2>5, StoredHolds
<1> HIDE DEF S
<1>7. n \in S
    BY <1>2, <1>5, <1>6, InductionOf DEF n
<1> QED BY <1>1, <1>2, <1>7 DEF S, n

\* Eviction keeps the bound and, of the tiles of one zoom, one that is underfoot.
LEMMA Evicted ==
    ASSUME GroundTypes, NEW held, Holding(held), EvictToBound(held)
    PROVE  /\ tiles' \in SUBSET held.tiles
           /\ IsFiniteSet(tiles') /\ Cardinality(tiles') <= MaxResident
           /\ \A t \in held.tiles :
                  (t.x = CellOf(Home(origin) + off, held.zoom)) => \E u \in tiles' : Coord(u) = Coord(t)
<1> DEFINE H == held.tiles
           c == CellOf(Home(origin) + off, held.zoom)
<1>1. IsFiniteSet(H) /\ Cardinality(H) \in Nat
    BY FS_CardinalityType DEF Holding
<1>2. MaxResident \in Nat /\ MaxResident > 0
    BY TerrainAssumption
<1>3. CASE Cardinality(H) <= MaxResident
    BY <1>1, <1>3 DEF EvictToBound
<1>4. CASE ~(Cardinality(H) <= MaxResident)
  <2>1. PICK drop \in Evictions(H, c) : tiles' = H \ drop
      BY <1>4 DEF EvictToBound
  <2>2. /\ drop \in SUBSET H /\ Cardinality(drop) = Cardinality(H) - MaxResident
      BY <2>1 DEF Evictions, kSubset
  <2>8. \A d \in drop, k \in H \ drop : Far(d.x, c) >= Far(k.x, c)
      BY <2>1 DEF Evictions
  <2>3. IsFiniteSet(H \ drop) /\ Cardinality(H \ drop) = Cardinality(H) - Cardinality(H \cap drop)
      BY <1>1, FS_Difference
  <2>4. H \cap drop = drop
      BY <2>2
  <2>5. Cardinality(H \ drop) = MaxResident
    <3> HIDE DEF H, c
    <3> QED BY <1>1, <1>2, <2>2, <2>3, <2>4
  <2>6. H \ drop # {}
    <3>1. H \ drop = {} => MaxResident = 0
        BY <2>5, FS_EmptySet
    <3> QED BY <1>2, <3>1
  <2>7. ASSUME NEW t \in H, t.x = c
        PROVE  \E u \in H \ drop : Coord(u) = Coord(t)
    <3>1. CASE t \in H \ drop
        BY <3>1
    <3>2. CASE t \in drop
      <4>1. PICK k \in H \ drop : TRUE
          BY <2>6
      <4>2. Far(t.x, c) >= Far(k.x, c)
          BY <2>8, <3>2
      <4>3. t.x \in Nat /\ k.x \in Nat /\ t.z = held.zoom /\ k.z = held.zoom
          BY <4>1 DEF Holding, GroundTypes, Ground, Brought
      <4>4. k.x = t.x
          BY <2>7, <4>2, <4>3 DEF Far
      <4> QED BY <4>1, <4>3, <4>4 DEF Coord
    <3> QED BY <3>1, <3>2
  <2> QED BY <1>2, <2>1, <2>3, <2>5, <2>7
<1> QED BY <1>3, <1>4

\* The ring around the vehicle is of coordinates, however far a new origin moved it.
LEMMA RingCoords ==
    ASSUME GroundTypes
    PROVE  MissingAroundVehicle \in SUBSET Coords
<1> SUFFICES ASSUME zoom # NoZoom, origin # NoSite PROVE Ring \in SUBSET Coords
    BY DEF MissingAroundVehicle
<1> SUFFICES ASSUME NEW d \in -Radius..Radius
             PROVE  [z |-> zoom, x |-> IF Centre + d < 0 THEN 0 ELSE Centre + d] \in Coords
    BY DEF Ring
<1>1. zoom \in Zooms /\ Home(origin) \in 0..(Size - 1) /\ off \in (1 - Size)..(Size - 1)
    BY SiteNumbers DEF GroundTypes
<1>2. Size \in Nat /\ Size > 1 /\ Size % 2 = 0 /\ Radius \in Nat
    BY TerrainAssumption
<1>3. Centre \in Int /\ Centre <= 2 * Width(zoom)
    BY <1>1, <1>2, SiteNumbers DEF Centre, CellOf, Width
<1>4. Width(zoom) \in Nat
    BY <1>1, SiteNumbers
<1> DEFINE x == IF Centre + d < 0 THEN 0 ELSE Centre + d
           w == Width(zoom)
           c == Centre
<1>5. x \in 0..(2 * w + Radius)
  <2> HIDE DEF w, c
  <2> QED BY <1>2, <1>3, <1>4 DEF w, c
<1> HIDE DEF x
<1>6. [z |-> zoom, x |-> x] \in [z : {zoom}, x : 0..(2 * Width(zoom) + Radius)]
    BY <1>5
<1> QED BY <1>1, <1>6 DEF Coords, x

\* A frame that is accepted is of a place nearby.
LEMMA Near ==
    ASSUME GroundTypes, origin # NoSite, NEW from \in Int, SamePlace(origin, from)
    PROVE  Nearby(from)
<1>1. origin \in Int /\ kept \in Nat /\ Tolerance \in Nat
    BY SiteNumbers, TerrainAssumption DEF GroundTypes
<1>2. Far(from, origin) \in Int /\ Far(from, origin) <= Tolerance
    BY <1>1 DEF SamePlace, Far
<1>3. kept * Tolerance >= 0 /\ (1 + kept) * Tolerance = Tolerance + kept * Tolerance
    BY <1>1
<1>4. kept * Tolerance \in Int
    BY <1>1
<1> QED BY <1>1, <1>2, <1>3, <1>4 DEF Nearby

\* Far is a distance.
LEMMA Triangle ==
    \A p, q, r \in Int : /\ Far(p, r) <= Far(p, q) + Far(q, r)
                         /\ Far(p, q) \in Int
BY DEF Far

\* A place that is nearby remains so while the origin moves within the tolerance.
LEMMA Creeps ==
    ASSUME GroundTypes, origin # NoSite, NEW from \in Int, Nearby(from),
           origin' \in Sites, SamePlace(origin, origin'), kept' = kept + 1
    PROVE  Nearby(from)'
<1> DEFINE b == kept * Tolerance
<1>1. origin \in Int /\ origin' \in Int /\ kept \in Nat /\ Tolerance \in Nat
    BY SiteNumbers, TerrainAssumption DEF GroundTypes
<1>2. b \in Int /\ (1 + kept) * Tolerance = Tolerance + b
      /\ (1 + kept') * Tolerance = Tolerance + Tolerance + b
    BY <1>1
<1> HIDE DEF b
<1>3. Far(from, origin) <= Tolerance + b
  <2>1. Far(from, origin) <= (1 + kept) * Tolerance
      BY Nearby(from) DEF Nearby
  <2> QED BY <1>2, <2>1
<1>4. Far(origin, origin') <= Tolerance
    BY SamePlace(origin, origin') DEF SamePlace
<1>5. Far(from, origin') <= Tolerance + Tolerance + b
  <2>1. b \in Int
      BY <1>2
  <2>2. /\ Far(from, origin') <= Far(from, origin) + Far(origin, origin')
        /\ Far(from, origin) \in Int /\ Far(origin, origin') \in Int
        /\ Far(from, origin') \in Int
      BY <1>1, Triangle
  <2> QED BY <1>1, <1>3, <1>4, <2>1, <2>2
<1> QED BY <1>2, <1>5 DEF Nearby

\* At the start there is no ground.
LEMMA GroundInit == TerrainInit => GroundInv
<1> SUFFICES ASSUME TerrainInit PROVE GroundInv
    OBVIOUS
<1> USE DEF TerrainInit
<1>1. IsFiniteSet(tiles) /\ Cardinality(tiles) <= MaxResident
    BY FS_EmptySet, TerrainAssumption
<1>2. job \in [stage : {"none", "checked", "read"}, frame : Frames, at : Sites \cup {NoSite}]
    BY SiteNumbers DEF NoJob, Nowhere, Frames, Runs
<1>3. 0 \in (1 - Size)..(Size - 1)
    BY TerrainAssumption
<1>4. wire \in Seq(Frames)
    OBVIOUS
<1>5. GroundTypes
    BY <1>1, <1>2, <1>3, <1>4 DEF GroundTypes, NoJob
<1> QED BY <1>5 DEF GroundInv, MapInv, AnchorInv, OnePerCoord, NoJob

\* Every step of the cache, the loop, the ticker and the browser keeps the invariant.
LEMMA GroundStep == GroundInv /\ [TerrainNext]_terrainVars => GroundInv'
<1> SUFFICES ASSUME GroundInv, [TerrainNext]_terrainVars PROVE GroundInv'
    OBVIOUS
<1> USE DEF GroundInv, cache, place, need, browser
<1>a. TerrainAssumption
    BY TerrainAssumption
<1>1. ASSUME NEW site \in Sites, SetOrigin(site) PROVE GroundInv'
  <2>1. \/ tiles' = {} /\ zoom' = NoZoom
        \/ UNCHANGED <<tiles, zoom>>
      BY <1>1 DEF SetOrigin
  <2>2. /\ origin' = site /\ off' = 0 /\ stale' = TRUE /\ news' = site
        /\ raced' = (raced \/ (Discarded(site) /\ job.stage # "none"))
        /\ kept' = IF origin = NoSite \/ Discarded(site) THEN 0 ELSE kept + 1
        /\ UNCHANGED <<ned, job, last, unanswered, slow, asked, belief, wire>>
      BY <1>1 DEF SetOrigin
  <2>3. raced' \in BOOLEAN /\ kept' \in Nat
      BY <2>2 DEF GroundTypes, Discarded
  <2>4. 0 \in (1 - Size)..(Size - 1)
      BY TerrainAssumption
  <2>5. GroundTypes'
    <3>1. /\ tiles' \in SUBSET Ground /\ IsFiniteSet(tiles') /\ Cardinality(tiles') <= MaxResident
          /\ zoom' \in Zooms \cup {NoZoom}
      <4>1. CASE tiles' = {} /\ zoom' = NoZoom
        <5>1. IsFiniteSet({}) /\ Cardinality({}) = 0
            BY FS_EmptySet
        <5> QED BY <4>1, <5>1, TerrainAssumption
      <4>2. CASE UNCHANGED <<tiles, zoom>>
          BY <4>2 DEF GroundTypes
      <4> QED BY <2>1, <4>1, <4>2
    <3> QED BY <2>2, <2>3, <2>4, <3>1 DEF GroundTypes
  <2>6. MapInv'
      BY <2>1 DEF MapInv, OnePerCoord
  <2>7. AnchorInv'
    <3>1. CASE origin = NoSite \/ Discarded(site)
      <4>1. tiles' = {} /\ (raced' = FALSE => job'.stage = "none")
          BY <1>1, <2>2, <3>1 DEF SetOrigin, AnchorInv, Discarded
      <4> QED BY <2>2, <4>1, SiteNumbers DEF AnchorInv
    <3>2. CASE ~(origin = NoSite \/ Discarded(site))
      <4>1. UNCHANGED <<tiles, job, raced>> /\ kept' = kept + 1
          BY <1>1, <2>2, <3>2 DEF SetOrigin, GroundTypes
      <4>2. \A from \in Int : Nearby(from) => Nearby(from)'
          BY <2>2, <3>2, <4>1, Creeps DEF GroundTypes, Discarded
      <4>3. /\ \A t \in tiles : t.from \in Int
            /\ job.frame.origin \in Int
          BY DEF GroundTypes, Ground, Frames
      <4> QED BY <2>2, <4>1, <4>2, <4>3, SiteNumbers DEF AnchorInv
    <3> QED BY <3>1, <3>2
  <2> QED BY <2>5, <2>6, <2>7
<1>2. CASE ApplyBuild
  <2>1. 0 \in (1 - Size)..(Size - 1)
      BY TerrainAssumption
  <2> QED BY <1>2, <2>1 DEF ApplyBuild, GroundTypes, MapInv, AnchorInv, Nearby
<1>3. CASE PublishPosition
    BY <1>3 DEF PublishPosition, GroundTypes, MapInv, AnchorInv, Nearby
<1>4. ASSUME NEW d \in {-1, 1}, Fly(d) PROVE GroundInv'
  <2>1. ned' \in (1 - Size)..(Size - 1)
      BY <1>4, SiteNumbers, TerrainAssumption DEF Fly, GroundTypes
  <2> QED BY <1>4, <2>1 DEF Fly, GroundTypes, MapInv, AnchorInv, Nearby
<1>5. CASE TakeFrame
  <2>1. /\ wire # <<>> /\ wire' = Tail(wire) /\ job.stage = "none"
        /\ UNCHANGED <<origin, zoom, tiles, off, ned, stale, last, unanswered, slow, asked, belief,
                       news, raced, kept>>
      BY <1>5 DEF TakeFrame
  <2>2. wire' \in Seq(Frames) /\ Head(wire) \in Frames
      BY <2>1, HeadTailProperties DEF GroundTypes
  <2>3. CASE IsAnchoredTo(Head(wire).origin)
    <3>1. job' = [NoJob EXCEPT !.stage = "checked", !.frame = Head(wire)]
        BY <1>5, <2>3 DEF TakeFrame
    <3>2. /\ job'.stage = "checked" /\ job'.frame = Head(wire)
          /\ job' \in [stage : {"none", "checked", "read"}, frame : Frames,
                      at : Sites \cup {NoSite}]
        BY <2>2, <3>1 DEF NoJob
    <3>3. origin # NoSite /\ Nearby(job'.frame.origin)
        BY <2>2, <2>3, <3>2, Near DEF IsAnchoredTo, GroundTypes, Frames
    <3> QED BY <2>1, <2>2, <3>2, <3>3 DEF GroundTypes, MapInv, AnchorInv, Nearby
  <2>4. CASE ~IsAnchoredTo(Head(wire).origin)
    <3>1. job' = NoJob
        BY <1>5, <2>4 DEF TakeFrame
    <3>2. job' \in [stage : {"none", "checked", "read"}, frame : Frames, at : Sites \cup {NoSite}]
          /\ job'.stage = "none"
        BY <3>1, SiteNumbers DEF NoJob, Nowhere, Frames, Runs
    <3> QED BY <2>1, <2>2, <3>2 DEF GroundTypes, MapInv, AnchorInv, Nearby
  <2> QED BY <2>3, <2>4
<1>6. CASE ReadOrigin
    BY <1>6 DEF ReadOrigin, GroundTypes, MapInv, AnchorInv, Nearby
<1>7. CASE WriteTiles
  <2> DEFINE held == StoredAll(job.frame.runs)
  <2>1. /\ job.stage = "read" /\ zoom' = held.zoom /\ EvictToBound(held) /\ job' = NoJob
        /\ UNCHANGED <<origin, off, ned, stale, last, unanswered, slow, asked, belief, news,
                       wire, raced, kept>>
      BY <1>7 DEF WriteTiles
  <2>2. job.frame.runs \in Runs
      BY DEF GroundTypes, Frames
  <2>3. Holding(held)
      BY <2>2, StoredAllHolds
  <2> HIDE DEF held
  <2>4. /\ tiles' \in SUBSET held.tiles
        /\ IsFiniteSet(tiles') /\ Cardinality(tiles') <= MaxResident
      BY <2>1, <2>3, Evicted
  <2>5. Brought \in SUBSET Ground
    <3>1. job.frame.origin \in Int
        BY DEF GroundTypes, Frames
    <3> QED BY <3>1 DEF Ground, Brought
  <2>6. tiles' \in SUBSET Ground /\ zoom' \in Zooms \cup {NoZoom}
      BY <2>1, <2>3, <2>4, <2>5 DEF Holding, GroundTypes
  <2>7. job' \in [stage : {"none", "checked", "read"}, frame : Frames, at : Sites \cup {NoSite}]
        /\ job'.stage = "none"
      BY <2>1, SiteNumbers DEF NoJob, Nowhere, Frames, Runs
  <2>8. GroundTypes'
      BY <2>1, <2>4, <2>6, <2>7 DEF GroundTypes
  <2>9. MapInv'
      BY <2>1, <2>3, <2>4 DEF MapInv, Holding, OnePerCoord
  <2>10. \A t \in tiles' : t \in tiles \/ t.from = job.frame.origin
      BY <2>3, <2>4 DEF Holding, Brought
  <2>11. AnchorInv'
      BY <2>1, <2>7, <2>10 DEF AnchorInv, Nearby
  <2> QED BY <2>8, <2>9, <2>11
<1>8. CASE NeedTick
  <2> DEFINE coords == MissingAroundVehicle
  <2>1. coords \in SUBSET Coords
      BY RingCoords
  <2>2. /\ last' = coords \/ last' = {}
        /\ asked' = asked \/ asked' = coords
        /\ unanswered' \in {0, unanswered, unanswered + 1}
        /\ slow' \in BOOLEAN
      BY <1>8 DEF NeedTick, GroundTypes
  <2>3. UNCHANGED <<origin, zoom, tiles, off, ned, stale, job, belief, news, wire, raced, kept>>
      BY <1>8 DEF NeedTick
  <2> HIDE DEF coords
  <2> QED BY <2>1, <2>2, <2>3 DEF GroundTypes, MapInv, AnchorInv, Nearby
<1>9. CASE Answer
  <2> DEFINE z == (CHOOSE c \in asked : TRUE).z
             xs == {c.x : c \in {c \in asked : InWorld(c)}}
  <2>1. /\ asked # {} /\ belief # NoSite /\ asked' = {}
        /\ wire' = wire \/ wire' = Append(wire, [origin |-> belief,
                                                 runs |-> <<[z |-> z, xs |-> xs, ok |-> TRUE]>>])
        /\ UNCHANGED <<origin, zoom, tiles, off, ned, stale, job, last, unanswered, slow, belief,
                       news, raced, kept>>
      BY <1>9 DEF Answer
  <2>2. \A c \in asked : c.z \in Zooms /\ c.x \in Nat
      BY SiteNumbers, TerrainAssumption DEF GroundTypes, Coords
  <2>3. z \in Zooms /\ xs \in SUBSET Nat
      BY <2>1, <2>2
  <2> HIDE DEF z, xs
  <2>4. <<[z |-> z, xs |-> xs, ok |-> TRUE]>> \in Runs
      BY <2>3 DEF Runs
  <2>5. [origin |-> belief, runs |-> <<[z |-> z, xs |-> xs, ok |-> TRUE]>>] \in Frames
      BY <2>4, SiteNumbers DEF Frames, GroundTypes
  <2>6. wire' \in Seq(Frames)
      BY <2>1, <2>5, AppendProperties DEF GroundTypes
  <2> QED BY <2>1, <2>6 DEF GroundTypes, MapInv, AnchorInv, Nearby
<1>10. CASE FirstBatch
  <2> DEFINE x == CellOf(Home(news), BrowserZoom)
             run == [z |-> BrowserZoom, xs |-> {x}, ok |-> TRUE]
  <2>1. /\ news # NoSite /\ belief' = news /\ news' = NoSite
        /\ wire' = Append(wire, [origin |-> news, runs |-> <<run>>])
        /\ UNCHANGED <<origin, zoom, tiles, off, ned, stale, job, last, unanswered, slow, asked,
                       raced, kept>>
      BY <1>10 DEF FirstBatch
  <2>2. x \in Nat
      BY <2>1, SiteNumbers, TerrainAssumption DEF CellOf, GroundTypes
  <2>3. run \in [z : Zooms, xs : SUBSET Nat, ok : BOOLEAN]
      BY <2>2, TerrainAssumption
  <2> HIDE DEF run
  <2>4. <<run>> \in Runs
      BY <2>3 DEF Runs
  <2>5. [origin |-> news, runs |-> <<run>>] \in Frames
      BY <2>1, <2>4, SiteNumbers DEF Frames, GroundTypes
  <2>6. wire' \in Seq(Frames)
      BY <2>1, <2>5, AppendProperties DEF GroundTypes
  <2> QED BY <2>1, <2>6 DEF GroundTypes, MapInv, AnchorInv, Nearby
<1>11. ASSUME NEW batch \in Strays, Stray(batch) PROVE GroundInv'
  <2>1. wire' \in Seq(Frames)
      BY <1>11, StraysAssumption, AppendProperties DEF Stray, GroundTypes
  <2> QED BY <1>11, <2>1 DEF Stray, GroundTypes, MapInv, AnchorInv, Nearby
<1>12. CASE Reload
  <2>1. /\ wire' = <<>> /\ asked' = {} /\ last' = {} /\ unanswered' = 0 /\ slow' = FALSE
        /\ UNCHANGED <<origin, zoom, tiles, off, ned, stale, job, belief, news, raced, kept>>
      BY <1>12 DEF Reload
  <2>2. wire' \in Seq(Frames) /\ last' \in SUBSET Coords /\ asked' \in SUBSET Coords
      BY <2>1
  <2>3. GroundTypes'
      BY <2>1, <2>2 DEF GroundTypes
  <2> QED BY <2>1, <2>3 DEF MapInv, AnchorInv, Nearby
<1>13. CASE UNCHANGED terrainVars
    BY <1>13 DEF terrainVars, GroundTypes, MapInv, AnchorInv, Nearby
<1> HIDE DEF GroundInv, cache, place, need, browser
<1>14. CASE TerrainNext
  <2>1. CASE \E site \in Sites : SetOrigin(site)
      BY <1>1, <2>1
  <2>2. CASE \E d \in {-1, 1} : Fly(d)
      BY <1>4, <2>2
  <2>3. CASE \E batch \in Strays : Stray(batch)
      BY <1>11, <2>3
  <2> QED BY <1>14, <1>2, <1>3, <1>5, <1>6, <1>7, <1>8, <1>9, <1>10, <1>12, <2>1, <2>2, <2>3
          DEF TerrainNext
<1> QED BY <1>13, <1>14

\* The ground, its ticker and its browser keep their types, and the cache its bound.
THEOREM TerrainTypeCorrect == TerrainSpec => []TerrainTypeOK
<1>1. ASSUME GroundInv PROVE TerrainTypeOK
  <2>1. \A t \in tiles : Coord(t) \in Coords /\ InWorld(t) /\ t.from \in Int
    <3> SUFFICES ASSUME NEW t \in tiles
                 PROVE  Coord(t) \in Coords /\ InWorld(t) /\ t.from \in Int
        OBVIOUS
    <3>1. t.z \in Zooms /\ t.x \in Nat /\ t.from \in Int /\ InWorld(t)
        BY <1>1 DEF GroundInv, GroundTypes, Ground
    <3>2. t.x \in 0..(2 * Width(t.z) + Radius)
        BY <3>1, SiteNumbers, TerrainAssumption DEF InWorld
    <3> QED BY <3>1, <3>2 DEF Coord, Coords
  <2> QED BY <1>1, <2>1 DEF GroundInv, GroundTypes, TerrainTypeOK
<1> QED BY <1>1, GroundInit, GroundStep, PTL DEF TerrainSpec

\* Tiles are anchored within the tolerance of an origin that the present one has crept
\* away from, unless the cache was emptied under a frame that was being ingested.
THEOREM AnchoredGround == TerrainSpec => []AnchoredUnlessRaced
<1>1. GroundInv => AnchoredUnlessRaced
    BY DEF GroundInv, GroundTypes, AnchorInv, Nearby, AnchoredUnlessRaced
<1> QED BY <1>1, GroundInit, GroundStep, PTL DEF TerrainSpec

\* The tiles are one to a coordinate and of one zoom: what the set of the model holds the
\* map of the code can hold (TerrainCacheInner.tiles).
THEOREM OneTilePerPlace == TerrainSpec => []MapInv
<1>1. GroundInv => MapInv
    BY DEF GroundInv
<1> QED BY <1>1, GroundInit, GroundStep, PTL DEF TerrainSpec

\* Only the write of the tiles ends an ingest that has read the origin.
LEMMA IngestEnds ==
    ASSUME TerrainNext, job.stage = "read", job'.stage = "none"
    PROVE  WriteTiles
<1>1. \A site \in Sites : ~SetOrigin(site)
    BY DEF SetOrigin
<1>2. \A d \in {-1, 1} : ~Fly(d)
    BY DEF Fly
<1>3. \A batch \in Strays : ~Stray(batch)
    BY DEF Stray
<1>4. ~ApplyBuild /\ ~PublishPosition /\ ~TakeFrame /\ ~NeedTick /\ ~Answer /\ ~FirstBatch /\ ~Reload
    BY DEF ApplyBuild, PublishPosition, TakeFrame, NeedTick, Answer, FirstBatch, Reload
<1>5. ASSUME ReadOrigin PROVE FALSE
  <2>1. job.stage = "checked"
      BY <1>5 DEF ReadOrigin
  <2> QED BY <2>1
<1> QED BY <1>1, <1>2, <1>3, <1>4, <1>5 DEF TerrainNext

\* A frame at the zoom that is resident leaves a tile under the vehicle, whatever the
\* bound and however many tiles it brings.
THEOREM GroundUnderfoot == TerrainSpec => UnderfootKept
<1> DEFINE under == [z |-> zoom, x |-> Centre]
<1>1. ASSUME GroundInv, TerrainNext, job.stage = "read", job'.stage = "none",
             \A i \in DOMAIN job.frame.runs : job.frame.runs[i].z = zoom,
             under \in Resident
      PROVE  under \in Resident'
  <2> DEFINE held == StoredAll(job.frame.runs)
             runs == job.frame.runs
  <2>1. zoom' = held.zoom /\ EvictToBound(held)
      BY <1>1, IngestEnds DEF WriteTiles
  <2>2. runs \in Runs
      BY <1>1 DEF GroundInv, GroundTypes, Frames
  <2>3. \A i \in 1..Len(runs) : runs[i].z = zoom
    <3> HIDE DEF runs
    <3>1. DOMAIN runs = 1..Len(runs)
        BY <2>2, LenProperties DEF Runs
    <3> QED BY <1>1, <3>1 DEF runs
  <2>4. Holding(held) /\ Covering(held)
      BY <1>1, <2>2, <2>3, StoredAllHolds DEF GroundInv
  <2> HIDE DEF held, runs
  <2>5. PICK t \in tiles : Coord(t) = under
      BY <1>1 DEF Resident
  <2>6. PICK u \in held.tiles : Coord(u) = under
      BY <2>4, <2>5 DEF Covering
  <2>7. u.x = CellOf(Home(origin) + off, held.zoom)
      BY <2>4, <2>6 DEF Covering, Coord, Centre
  <2>8. PICK v \in tiles' : Coord(v) = Coord(u)
      BY <1>1, <2>1, <2>4, <2>7, Evicted DEF GroundInv
  <2>9. under = Coord(v)
      BY <2>6, <2>8
  <2> QED BY <2>8, <2>9 DEF Resident, Coord
<1>2. GroundInv /\ [TerrainNext]_terrainVars =>
        [(/\ job.stage = "read" /\ job'.stage = "none"
          /\ \A i \in DOMAIN job.frame.runs : job.frame.runs[i].z = zoom) =>
              (under \in Resident => under \in Resident')]_terrainVars
    BY <1>1
<1>3. TerrainSpec => [][(/\ job.stage = "read" /\ job'.stage = "none"
                         /\ \A i \in DOMAIN job.frame.runs : job.frame.runs[i].z = zoom) =>
                             (under \in Resident => under \in Resident')]_terrainVars
    BY <1>2, GroundInit, GroundStep, PTL DEF TerrainSpec
<1> QED BY <1>3 DEF UnderfootKept

(* Wire: the frames of the socket.                                         *)

\* FlattenSeq is a recursion that ends.
LEMMA FlattenInTurn ==
    ASSUME NEW ss, Len(ss) \in Nat, Len(ss) # 0
    PROVE  \E f : /\ f = [i \in 1..Len(ss) |-> IF i = 1 THEN ss[i] ELSE f[i - 1] \o ss[i]]
                  /\ FlattenSeq(ss) = f[Len(ss)]
<1> DEFINE Solves(f, n) == f = [i \in 1..n |-> IF i = 1 THEN ss[i] ELSE f[i - 1] \o ss[i]]
           S == {n \in Nat : \E f : Solves(f, n + 1)}
<1>1. 0 \in S
  <2> DEFINE g == [i \in 1..1 |-> ss[1]]
             h == [i \in 1..1 |-> IF i = 1 THEN ss[i] ELSE g[i - 1] \o ss[i]]
  <2>1. \A i \in 1..1 : i = 1 /\ g[i] = ss[i] /\ h[i] = ss[i]
      OBVIOUS
  <2>2. g = h
      BY <2>1
  <2>3. Solves(g, 1)
      BY <2>2
  <2> HIDE DEF g, h
  <2>4. \E q : Solves(q, 1)
      BY <2>3
  <2>5. 0 \in Nat /\ 0 + 1 = 1
      OBVIOUS
  <2> QED BY <2>4, <2>5
<1>2. ASSUME NEW m \in Nat, m \in S PROVE m + 1 \in S
  <2> DEFINE n == m + 1
  <2>0. n \in Nat /\ n >= 1
      OBVIOUS
  <2>1. PICK f : Solves(f, n)
      BY <1>2
  <2> HIDE DEF n
  <2> DEFINE g == [i \in 1..(n + 1) |-> IF i = n + 1 THEN f[n] \o ss[n + 1] ELSE f[i]]
             h == [i \in 1..(n + 1) |-> IF i = 1 THEN ss[i] ELSE g[i - 1] \o ss[i]]
  <2>2. ASSUME NEW i \in 1..(n + 1) PROVE g[i] = h[i]
    <3>1. CASE i = n + 1
      <4>1. i # 1 /\ n \in 1..(n + 1) /\ n # n + 1 /\ i - 1 = n
          BY <2>0, <3>1
      <4>2. g[n] = f[n]
          BY <4>1
      <4> QED BY <3>1, <4>1, <4>2
    <3>2. CASE i # n + 1
      <4>1. i \in 1..n
          BY <2>0, <3>2
      <4>2. g[i] = f[i]
          BY <3>2
      <4>3. f[i] = IF i = 1 THEN ss[i] ELSE f[i - 1] \o ss[i]
          BY <2>1, <4>1
      <4>4. CASE i = 1
          BY <4>2, <4>3, <4>4
      <4>5. CASE i # 1
        <5>1. i - 1 \in 1..(n + 1) /\ i - 1 # n + 1
            BY <2>0, <4>1, <4>5
        <5>2. g[i - 1] = f[i - 1]
            BY <5>1
        <5> QED BY <4>2, <4>3, <4>5, <5>2
      <4> QED BY <4>4, <4>5
    <3> QED BY <3>1, <3>2
  <2>3. g = h
      BY <2>2
  <2>4. Solves(g, n + 1)
      BY <2>3
  <2> HIDE DEF g, h
  <2>5. \E q : Solves(q, n + 1)
      BY <2>4
  <2> HIDE DEF Solves
  <2>6. m + 1 \in Nat /\ \E q : Solves(q, (m + 1) + 1)
      BY <2>5 DEF n
  <2> QED BY <2>6
<1>3. Nat \subseteq S
  <2> HIDE DEF S
  <2> QED BY <1>1, <1>2, InductionOf
<1> HIDE DEF Solves
<1>4. \E f : Solves(f, Len(ss))
  <2>1. Len(ss) - 1 \in Nat /\ (Len(ss) - 1) + 1 = Len(ss)
      OBVIOUS
  <2>2. Len(ss) - 1 \in S
      BY <1>3, <2>1
  <2>3. \E f : Solves(f, (Len(ss) - 1) + 1)
      BY <2>2
  <2> QED BY <2>1, <2>3
<1> USE DEF Solves
<1> QED BY <1>4 DEF FlattenSeq

\* Blocks of one length, one after the other: where each is found again.
LEMMA FlattenBlocks ==
    ASSUME NEW k \in Nat, NEW ss \in Seq(Seq(Int)), \A i \in 1..Len(ss) : Len(ss[i]) = k
    PROVE  /\ FlattenSeq(ss) \in Seq(Int) /\ Len(FlattenSeq(ss)) = k * Len(ss)
           /\ \A i \in 1..Len(ss), j \in 1..k : FlattenSeq(ss)[k * (i - 1) + j] = ss[i][j]
<1>1. Len(ss) \in Nat /\ \A i \in 1..Len(ss) : ss[i] \in Seq(Int)
    BY LenProperties, ElementOfSeq
<1>2. CASE Len(ss) = 0
  <2>1. ss = <<>>
      BY <1>2, EmptySeq
  <2>2. FlattenSeq(ss) = <<>>
      BY <1>2, <2>1 DEF FlattenSeq
  <2> QED BY <1>2, <2>2
<1>3. CASE Len(ss) # 0
  <2>1. PICK f : /\ f = [i \in 1..Len(ss) |-> IF i = 1 THEN ss[i] ELSE f[i - 1] \o ss[i]]
                 /\ FlattenSeq(ss) = f[Len(ss)]
      BY <1>1, <1>3, FlattenInTurn
  <2> DEFINE N == Len(ss)
             Found(n) == /\ f[n] \in Seq(Int) /\ Len(f[n]) = k * n
                         /\ \A i \in 1..n, j \in 1..k : f[n][k * (i - 1) + j] = ss[i][j]
             T == {m \in Nat : m + 1 <= N => Found(m + 1)}
  <2>2. f[1] = ss[1] /\ \A m \in Nat : m + 2 <= N => f[m + 2] = f[m + 1] \o ss[m + 2]
    <3>1. \A i \in 1..N : f[i] = IF i = 1 THEN ss[i] ELSE f[i - 1] \o ss[i]
        BY <2>1
    <3>2. 1 \in 1..N
        BY <1>1, <1>3
    <3> HIDE DEF N
    <3>3. ASSUME NEW m \in Nat, m + 2 <= N PROVE f[m + 2] = f[m + 1] \o ss[m + 2]
      <4>1. m + 2 \in 1..N /\ m + 2 # 1 /\ (m + 2) - 1 = m + 1
          BY <1>1, <3>3 DEF N
      <4> QED BY <3>1, <4>1
    <3> QED BY <3>1, <3>2, <3>3
  <2>3. 0 \in T
    <3>1. 1 \in 1..N
        BY <1>1, <1>3
    <3>2. f[1] \in Seq(Int) /\ Len(f[1]) = k
        BY <1>1, <2>2, <3>1
    <3>3. k * 1 = k /\ \A i \in 1..1, j \in 1..k : i = 1 /\ k * (i - 1) + j = j
        OBVIOUS
    <3>4. Found(1)
        BY <2>2, <3>2, <3>3
    <3> QED BY <3>4
  <2>4. ASSUME NEW m \in Nat, m \in T PROVE m + 1 \in T
    <3> SUFFICES ASSUME m + 2 <= N PROVE Found(m + 2)
        BY <1>1
    <3> DEFINE p == m + 1
    <3>1. p \in Nat /\ m + 2 = p + 1 /\ p + 1 \in 1..N
        BY <1>1
    <3>2. Found(p)
        BY <1>1, <2>4
    <3>3. f[p + 1] = f[p] \o ss[p + 1]
        BY <2>2, <3>1
    <3> HIDE DEF p
    <3>4. ss[p + 1] \in Seq(Int) /\ Len(ss[p + 1]) = k
        BY <1>1, <3>1
    <3> DEFINE a == f[p]
               b == ss[p + 1]
               kp == k * p
    <3>5. a \in Seq(Int) /\ b \in Seq(Int) /\ Len(a) = kp /\ Len(b) = k /\ kp \in Nat
        BY <3>1, <3>2, <3>4
    <3>6. k * (p + 1) = kp + k
        BY <3>1
    <3> HIDE DEF kp, a, b
    <3>c. /\ a \o b \in Seq(Int) /\ Len(a \o b) = Len(a) + Len(b)
          /\ \A x \in 1..(Len(a) + Len(b)) :
                (a \o b)[x] = IF x <= Len(a) THEN a[x] ELSE b[x - Len(a)]
        BY <3>5, ConcatProperties
    <3>7. /\ a \o b \in Seq(Int) /\ Len(a \o b) = kp + k
          /\ \A x \in 1..(kp + k) : (a \o b)[x] = IF x <= kp THEN a[x] ELSE b[x - kp]
        BY <3>5, <3>c
    <3>8. ASSUME NEW i \in 1..(p + 1), NEW j \in 1..k
          PROVE  (a \o b)[k * (i - 1) + j] = ss[i][j]
      <4> DEFINE x == k * (i - 1) + j
      <4>1. CASE i = p + 1
        <5>1. k * (i - 1) = kp
            BY <3>1, <4>1 DEF kp
        <5>2. x = kp + j /\ x \in 1..(kp + k) /\ ~(x <= kp) /\ x - kp = j
            BY <3>5, <5>1
        <5> HIDE DEF x
        <5>3. (a \o b)[x] = b[j]
            BY <3>7, <5>2
        <5> QED BY <4>1, <5>3 DEF b, x
      <4>2. CASE i # p + 1
        <5>1. i \in 1..p
            BY <3>1, <4>2
        <5>2. k * (i - 1) + k <= kp /\ k * (i - 1) \in Nat
          <6>1. k * (i - 1) + k = k * i
              BY <5>1
          <6>2. \E q \in Nat : p = i + q
              BY <3>1, <5>1
          <6>3. PICK q \in Nat : p = i + q
              BY <6>2
          <6>4. k * p = k * i + k * q /\ k * q \in Nat /\ k * i \in Nat /\ k * (i - 1) \in Nat
              BY <5>1, <6>3
          <6> QED BY <6>1, <6>4 DEF kp
        <5>3. x \in 1..(kp + k) /\ x <= kp
          <6> DEFINE y == k * (i - 1)
          <6>1. y \in Nat /\ y + k <= kp /\ x = y + j
              BY <5>2
          <6> HIDE DEF y, x
          <6> QED BY <3>5, <6>1
        <5>4. a[x] = ss[i][j]
            BY <3>2, <5>1 DEF a
        <5> HIDE DEF x
        <5>5. (a \o b)[x] = a[x]
            BY <3>7, <5>3
        <5> QED BY <5>4, <5>5 DEF x
      <4> QED BY <4>1, <4>2
    <3>9. Found(p + 1)
        BY <3>3, <3>6, <3>7, <3>8 DEF a, b
    <3> QED BY <3>1, <3>9
  <2>5. Nat \subseteq T
    <3> HIDE DEF T
    <3> QED BY <2>3, <2>4, InductionOf
  <2> HIDE DEF Found
  <2>6. Found(N)
    <3>1. N - 1 \in Nat /\ (N - 1) + 1 = N
        BY <1>1, <1>3
    <3>2. N - 1 \in T
        BY <2>5, <3>1
    <3> QED BY <1>1, <3>1, <3>2
  <2> DEFINE F == FlattenSeq(ss)
  <2>7. f[N] = F
      BY <2>1
  <2> HIDE DEF F, N
  <2>8. /\ F \in Seq(Int) /\ Len(F) = k * N
        /\ \A i \in 1..N, j \in 1..k : F[k * (i - 1) + j] = ss[i][j]
      BY <2>6, <2>7 DEF Found
  <2> QED BY <2>8 DEF F, N
<1> QED BY <1>2, <1>3

------------------------------------------------------------------------------
(* Bytes.                                                                  *)

\* The bytes of a value, in their order.
LEMMA LeBytes ==
    ASSUME NEW v \in Int, NEW n \in Nat
    PROVE  Le(v, n) \in Seq(Int) /\ Len(Le(v, n)) = n /\ \A j \in 1..n : Le(v, n)[j] = 256 * v + j
<1>1. Le(v, n) \in [1..n -> Int]
    BY DEF Le
<1>2. Le(v, n) \in Seq(Int) /\ Len(Le(v, n)) = n
    BY <1>1
<1> QED BY <1>2 DEF Le

\* The bytes of a value are at an offset.
Says(d, a, n, v) == \A j \in 1..n : d[a + j] = 256 * v + j

\* A value is read where its bytes are.
LEMMA AtPlaced ==
    ASSUME NEW d \in Seq(Int), NEW a \in Nat, NEW n \in Nat, n >= 1, NEW v \in Nat,
           a + n <= Len(d), Says(d, a, n, v)
    PROVE  At(d, a, n) = v
<1> DEFINE s == SubSeq(d, a + 1, a + n)
<1>1. \A i \in (a + 1)..(a + n) : i \in 1..Len(d)
    OBVIOUS
<1>2. /\ s \in Seq(Int)
      /\ Len(s) = IF a + 1 <= a + n THEN (a + n) - (a + 1) + 1 ELSE 0
      /\ \A i \in 1..((a + n) - (a + 1) + 1) : s[i] = d[(a + 1) + i - 1]
    BY <1>1, SubSeqProperties
<1>3. (a + n) - (a + 1) + 1 = n /\ \A i \in 1..n : (a + 1) + i - 1 = a + i
    OBVIOUS
<1> HIDE DEF s
<1>4. Len(s) = n /\ \A i \in 1..n : s[i] = 256 * v + i
  <2>1. ASSUME NEW i \in 1..n PROVE s[i] = 256 * v + i
    <3>1. s[i] = d[(a + 1) + i - 1] /\ (a + 1) + i - 1 = a + i
        BY <1>2, <1>3
    <3> QED BY <3>1 DEF Says
  <2> QED BY <1>2, <1>3, <2>1
<1>5. (256 * v + 1) \div 256 = v
    OBVIOUS
<1>6. s[1] \div 256 = v
  <2>1. 1 \in 1..n
      OBVIOUS
  <2>2. s[1] = 256 * v + 1
      BY <1>4, <2>1
  <2> QED BY <1>5, <2>2
<1>7. s = Le(v, n)
  <2>1. s \in [1..n -> Int]
      BY <1>2, <1>4, LenProperties
  <2>2. Le(v, n) \in [1..n -> Int] /\ \A i \in 1..n : Le(v, n)[i] = 256 * v + i
      BY DEF Le
  <2> QED BY <1>4, <2>1, <2>2
<1>8. FromLe(s) = v
    BY <1>4, <1>6, <1>7 DEF FromLe
<1> QED BY <1>8 DEF At, s

\* The bytes of a sequence of values: each where four bytes for each before it end.
LEMMA FloatsPlaced ==
    ASSUME NEW vs \in Seq(Nat)
    PROVE  /\ Floats(vs) \in Seq(Int) /\ Len(Floats(vs)) = 4 * Len(vs)
           /\ \A i \in 1..Len(vs), j \in 1..4 : Floats(vs)[4 * (i - 1) + j] = 256 * vs[i] + j
<1> DEFINE ss == [i \in DOMAIN vs |-> Le(vs[i], 4)]
<1>1. DOMAIN vs = 1..Len(vs) /\ Len(vs) \in Nat /\ \A i \in 1..Len(vs) : vs[i] \in Nat
    BY LenProperties, ElementOfSeq
<1>2. ASSUME NEW i \in 1..Len(vs)
      PROVE  /\ Le(vs[i], 4) \in Seq(Int) /\ Len(Le(vs[i], 4)) = 4
             /\ \A j \in 1..4 : Le(vs[i], 4)[j] = 256 * vs[i] + j
  <2>1. vs[i] \in Int /\ 4 \in Nat
      BY <1>1
  <2> QED BY <2>1, LeBytes
<1>3. ss \in [1..Len(vs) -> Seq(Int)]
    BY <1>1, <1>2
<1>4. ss \in Seq(Seq(Int)) /\ Len(ss) = Len(vs)
    BY <1>1, <1>3
<1>5. \A i \in 1..Len(vs) : ss[i] = Le(vs[i], 4)
    BY <1>1
<1> HIDE DEF ss
<1>6. ASSUME NEW i \in 1..Len(ss) PROVE Len(ss[i]) = 4
  <2>1. i \in 1..Len(vs)
      BY <1>4
  <2>2. ss[i] = Le(vs[i], 4) /\ Len(Le(vs[i], 4)) = 4
      BY <1>2, <1>5, <2>1
  <2> QED BY <2>2
<1>7. /\ FlattenSeq(ss) \in Seq(Int) /\ Len(FlattenSeq(ss)) = 4 * Len(ss)
      /\ \A i \in 1..Len(ss), j \in 1..4 : FlattenSeq(ss)[4 * (i - 1) + j] = ss[i][j]
  <2>1. 4 \in Nat /\ \A i \in 1..Len(ss) : Len(ss[i]) = 4
      BY <1>6
  <2> QED BY <1>4, <2>1, FlattenBlocks
<1>8. Floats(vs) = FlattenSeq(ss)
    BY DEF Floats, ss
<1>9. ASSUME NEW i \in 1..Len(vs), NEW j \in 1..4
      PROVE  Floats(vs)[4 * (i - 1) + j] = 256 * vs[i] + j
  <2> DEFINE x == 4 * (i - 1) + j
  <2>1. FlattenSeq(ss)[x] = ss[i][j]
      BY <1>4, <1>7
  <2> HIDE DEF x
  <2>2. Floats(vs)[x] = 256 * vs[i] + j
      BY <1>2, <1>5, <1>8, <2>1
  <2> QED BY <2>2 DEF x
<1>10. Floats(vs) \in Seq(Int) /\ Len(Floats(vs)) = 4 * Len(vs)
    BY <1>4, <1>7, <1>8
<1> QED BY <1>9, <1>10

\* So many tiles of so many samples each, whatever a frame says of their size.
Sized(heights, n, q) ==
    heights \in [1..n -> Seq(Nat)] /\ \A t \in 1..n : Len(heights[t]) = q

\* Each sample of the tiles is where the tiles and the samples before it end.
Sampled(d, body, heights, n, q) ==
    \A t \in 1..n, i \in 1..q, j \in 1..4 :
        d[body + ((4 * q) * (t - 1) + (4 * (i - 1) + j))] = 256 * heights[t][i] + j

\* The samples of the tiles, each where the tiles and the samples before it end.
LEMMA TileBytesPlaced ==
    ASSUME NEW m, NEW n \in Nat, NEW q \in Nat, Sized(m.tiles, n, q)
    PROVE  /\ TileBytes(m) \in Seq(Int) /\ Len(TileBytes(m)) = (4 * q) * n
           /\ Sampled(TileBytes(m), 0, m.tiles, n, q)
<1>0. m.tiles \in [1..n -> Seq(Nat)] /\ \A t \in 1..n : Len(m.tiles[t]) = q
    BY DEF Sized
<1> DEFINE ss == [t \in DOMAIN m.tiles |-> Floats(m.tiles[t])]
           k == 4 * q
           FloatLaid(t, i, j) == Floats(m.tiles[t])[4 * (i - 1) + j] = 256 * m.tiles[t][i] + j
<1>1. ASSUME NEW t \in 1..n
      PROVE  /\ Floats(m.tiles[t]) \in Seq(Int) /\ Len(Floats(m.tiles[t])) = k
             /\ \A i \in 1..q, j \in 1..4 : FloatLaid(t, i, j)
  <2> DEFINE vs == m.tiles[t]
  <2>1. vs \in Seq(Nat) /\ Len(vs) = q
      BY <1>0
  <2> HIDE DEF vs
  <2>2. /\ Floats(vs) \in Seq(Int) /\ Len(Floats(vs)) = 4 * Len(vs)
        /\ \A i \in 1..Len(vs), j \in 1..4 : Floats(vs)[4 * (i - 1) + j] = 256 * vs[i] + j
      BY <2>1, FloatsPlaced
  <2>3. /\ Floats(vs) \in Seq(Int) /\ Len(Floats(vs)) = 4 * q
        /\ \A i \in 1..q, j \in 1..4 : Floats(vs)[4 * (i - 1) + j] = 256 * vs[i] + j
      BY <2>1, <2>2
  <2> QED BY <2>3 DEF vs
<1>2. ss \in [1..n -> Seq(Int)] /\ \A t \in 1..n : ss[t] = Floats(m.tiles[t])
  <2>1. DOMAIN m.tiles = 1..n
      BY <1>0
  <2>2. \A t \in 1..n : Floats(m.tiles[t]) \in Seq(Int)
      BY <1>1
  <2> QED BY <2>1, <2>2
<1>3. ss \in Seq(Seq(Int)) /\ Len(ss) = n
  <2> HIDE DEF ss
  <2> QED BY <1>2
<1>4. k \in Nat /\ \A i \in 1..q, j \in 1..4 : 4 * (i - 1) + j \in 1..k
    OBVIOUS
<1>5. TileBytes(m) = FlattenSeq(ss)
    BY DEF TileBytes
<1> HIDE DEF ss, k
<1>6. /\ FlattenSeq(ss) \in Seq(Int) /\ Len(FlattenSeq(ss)) = k * Len(ss)
      /\ \A t \in 1..Len(ss), x \in 1..k : FlattenSeq(ss)[k * (t - 1) + x] = ss[t][x]
  <2>1. ASSUME NEW t \in 1..Len(ss) PROVE Len(ss[t]) = k
    <3>1. t \in 1..n
        BY <1>3
    <3> QED BY <1>1, <1>2, <3>1
  <2> QED BY <1>3, <1>4, <2>1, FlattenBlocks
<1>7. ASSUME NEW t \in 1..n, NEW i \in 1..q, NEW j \in 1..4
      PROVE  TileBytes(m)[0 + (k * (t - 1) + (4 * (i - 1) + j))] = 256 * m.tiles[t][i] + j
  <2> DEFINE x == 4 * (i - 1) + j
  <2>1. x \in 1..k
      BY <1>4
  <2>2. Floats(m.tiles[t])[x] = 256 * m.tiles[t][i] + j
    <3>1. Floats(m.tiles[t])[4 * (i - 1) + j] = 256 * m.tiles[t][i] + j
      <4> HIDE DEF FloatLaid
      <4>1. FloatLaid(t, i, j)
          BY <1>1
      <4> QED BY <4>1 DEF FloatLaid
    <3> QED BY <3>1
  <2> HIDE DEF x
  <2>3. FlattenSeq(ss)[k * (t - 1) + x] = ss[t][x]
      BY <1>3, <1>6, <2>1
  <2>4. TileBytes(m)[k * (t - 1) + x] = 256 * m.tiles[t][i] + j
      BY <1>2, <1>5, <2>2, <2>3
  <2>5. 0 + (k * (t - 1) + x) = k * (t - 1) + x
      BY <1>4, <2>1
  <2> QED BY <2>4, <2>5 DEF x
<1>8. TileBytes(m) \in Seq(Int) /\ Len(TileBytes(m)) = k * n
    BY <1>3, <1>5, <1>6
<1>9. Sampled(TileBytes(m), 0, m.tiles, n, q)
    BY <1>7 DEF Sampled, k
<1> QED BY <1>8, <1>9 DEF k

\* Tiles are read where their samples are.
LEMMA TilesAtPlaced ==
    ASSUME NEW d \in Seq(Int), NEW start \in Nat, NEW n \in Nat, NEW size \in Nat, NEW q \in Nat,
           q = size * size, NEW heights, Sized(heights, n, q), Sampled(d, start, heights, n, q),
           start + (4 * q) * n <= Len(d)
    PROVE  TilesAt(d, start, n, size) = heights
<1>0. heights \in [1..n -> Seq(Nat)] /\ \A t \in 1..n : Len(heights[t]) = q
    BY DEF Sized
<1>1. \A t \in 1..n : 4 * size * size * (t - 1) = (4 * q) * (t - 1)
  <2>1. 4 * size * size = 4 * q
      BY SMT
  <2> QED BY <2>1
<1>2. ASSUME NEW t \in 1..n
      PROVE  FloatsAt(d, start + 4 * size * size * (t - 1), size * size) = heights[t]
  <2> DEFINE before == (4 * q) * (t - 1)
             all == (4 * q) * n
  <2>1. before \in Nat /\ before + 4 * q <= all
    <3> DEFINE k == 4 * q
    <3>1. k \in Nat
        OBVIOUS
    <3> HIDE DEF k
    <3>2. PICK r \in Nat : n = t + r
        OBVIOUS
    <3>3. k * n = k * t + k * r /\ k * r \in Nat /\ k * (t - 1) + k = k * t /\ k * (t - 1) \in Nat
        BY <3>1, <3>2
    <3> QED BY <3>1, <3>3 DEF k
  <2>2. ASSUME NEW i \in 1..q
        PROVE  At(d, (start + before) + 4 * (i - 1), 4) = heights[t][i]
    <3> DEFINE a == (start + before) + 4 * (i - 1)
    <3>1. heights[t][i] \in Nat
      <4> DEFINE vs == heights[t]
      <4>1. vs \in Seq(Nat) /\ i \in 1..Len(vs)
          BY <1>0
      <4> HIDE DEF vs
      <4>2. vs[i] \in Nat
          BY <4>1, ElementOfSeq
      <4> QED BY <4>2 DEF vs
    <3>2. \A j \in 1..4 : d[start + (before + (4 * (i - 1) + j))] = 256 * heights[t][i] + j
        BY DEF Sampled
    <3> HIDE DEF before, all
    <3>3. a \in Nat /\ a + 4 <= Len(d) /\ \A j \in 1..4 : a + j = start + (before + (4 * (i - 1) + j))
        BY <2>1 DEF all
    <3> HIDE DEF a
    <3>4. \A j \in 1..4 : d[a + j] = 256 * heights[t][i] + j
        BY <3>2, <3>3
    <3>5. At(d, a, 4) = heights[t][i]
      <4>1. 4 \in Nat /\ 4 >= 1
          OBVIOUS
      <4> DEFINE v == heights[t][i]
      <4> HIDE DEF v
      <4>2. v \in Nat /\ \A j \in 1..4 : d[a + j] = 256 * v + j
          BY <3>1, <3>4 DEF v
      <4>3. Says(d, a, 4, v)
          BY <4>2 DEF Says
      <4>4. At(d, a, 4) = v
          BY <3>3, <4>1, <4>2, <4>3, AtPlaced
      <4> QED BY <4>4 DEF v
    <3> QED BY <3>5 DEF a
  <2>3. heights[t] \in Seq(Nat) /\ Len(heights[t]) = q
      BY <1>0
  <2>4. heights[t] = [i \in 1..q |-> heights[t][i]]
      BY <2>3
  <2>5. FloatsAt(d, start + before, q) = [i \in 1..q |-> At(d, (start + before) + 4 * (i - 1), 4)]
      BY DEF FloatsAt
  <2> QED BY <1>1, <2>2, <2>4, <2>5
<1> QED BY <1>0, <1>2 DEF TilesAt

------------------------------------------------------------------------------
(* Elevation tiles.                                                        *)

\* The start of a frame: its tag, the length of its header, and the header.
Headed(d, h) ==
    d \in Seq(Int) /\ d[1] = 24 /\ d[2] = h /\ Says(d, 5, h, 40)

\* A frame of tiles, with so many bytes between its header and its samples.
Laid(d, heights, h, n, pad, q) ==
    LET body == (5 + h) + pad IN
    /\ Headed(d, h)
    /\ Len(d) = body + (4 * q) * n
    /\ Sampled(d, body, heights, n, q)

\* What a frame of tiles consists of.
LEMMA TileFrameFields ==
    ASSUME NEW m \in TileFrames
    PROVE  /\ m.kind = "TerrainTiles" /\ m.header_len \in 1..255 /\ m.coords \in Nat
           /\ m.approximate \in {0, 1, 2} /\ m.tile_size \in Nat
           /\ DOMAIN m = {"kind", "header_len", "coords", "approximate", "tile_size", "tiles"}
           /\ m = [m EXCEPT !.tiles = m.tiles]
           /\ \E q \in Nat : Sized(m.tiles, m.coords, q)
<1>1. PICK h \in HeaderSizes, n \in TileCounts, flags \in {0, 1, 2},
           said \in TileSizes \cup {0}, size \in TileSizes :
        m = [kind |-> "TerrainTiles", header_len |-> h, coords |-> n, approximate |-> flags,
             tile_size |-> said, tiles |-> Samples(n, size)]
    BY DEF TileFrames
<1>2. h \in 1..255 /\ n \in Nat /\ said \in Nat /\ size \in Nat
    BY SizesAssumption
<1>3. size * size \in Nat
    BY <1>2
<1> DEFINE q == size * size
           row(t) == [i \in 1..q |-> 50 + 10 * t + i]
<1>4. \A t \in 1..n : row(t) \in Seq(Nat) /\ Len(row(t)) = q
  <2> HIDE DEF q
  <2>1. ASSUME NEW t \in 1..n PROVE row(t) \in Seq(Nat) /\ Len(row(t)) = q
    <3>1. row(t) \in [1..q -> Nat] /\ q \in Nat
        BY <1>2, <1>3 DEF q
    <3> HIDE DEF row
    <3> QED BY <3>1
  <2> QED BY <2>1
<1>5. Samples(n, size) = [t \in 1..n |-> row(t)]
    BY DEF Samples
<1> HIDE DEF row, q
<1>6. Samples(n, size) \in [1..n -> Seq(Nat)] /\ \A t \in 1..n : Len(Samples(n, size)[t]) = q
    BY <1>4, <1>5
<1>7. Sized(m.tiles, m.coords, q)
    BY <1>1, <1>6 DEF Sized
<1>8. q \in Nat
    BY <1>3 DEF q
<1> HIDE DEF q
<1> QED BY <1>1, <1>2, <1>7, <1>8

\* At most three bytes of padding.
LEMMA PadBounds ==
    ASSUME NEW x \in Nat
    PROVE  Pad(x) \in 0..3
BY DEF Pad

\* Two byte sequences, one after the other.
LEMMA Joined ==
    ASSUME NEW s \in Seq(Int), NEW t \in Seq(Int)
    PROVE  /\ s \o t \in Seq(Int) /\ Len(s \o t) = Len(s) + Len(t)
           /\ Len(s) \in Nat /\ Len(t) \in Nat
           /\ \A i \in 1..Len(s) : (s \o t)[i] = s[i]
           /\ \A i \in 1..Len(t) : (s \o t)[Len(s) + i] = t[i]
<1>1. /\ s \o t \in Seq(Int) /\ Len(s \o t) = Len(s) + Len(t)
      /\ \A i \in 1..(Len(s) + Len(t)) : (s \o t)[i] = IF i <= Len(s) THEN s[i] ELSE t[i - Len(s)]
    BY ConcatProperties
<1>2. Len(s) \in Nat /\ Len(t) \in Nat
    BY LenProperties
<1>3. ASSUME NEW i \in 1..Len(s) PROVE (s \o t)[i] = s[i]
    BY <1>1, <1>2
<1>4. ASSUME NEW i \in 1..Len(t) PROVE (s \o t)[Len(s) + i] = t[i]
  <2>1. Len(s) + i \in 1..(Len(s) + Len(t)) /\ ~(Len(s) + i <= Len(s)) /\ (Len(s) + i) - Len(s) = i
      BY <1>2
  <2>2. (s \o t)[Len(s) + i] = t[(Len(s) + i) - Len(s)]
      BY <1>1, <2>1
  <2> QED BY <2>1, <2>2
<1> QED BY <1>1, <1>2, <1>3, <1>4

\* One sequence after the other is as long as both.
LEMMA JoinedLength ==
    ASSUME NEW s \in Seq(Int), NEW t \in Seq(Int)
    PROVE  /\ s \o t \in Seq(Int) /\ Len(s \o t) = Len(s) + Len(t)
           /\ Len(s) \in Nat /\ Len(t) \in Nat
BY Joined

\* The header of a frame: its tag, its length, and as many bytes.
LEMMA HeaderPlaced ==
    ASSUME NEW m, NEW h \in 1..255, m.header_len = h
    PROVE  Headed(HeaderBytes(m), h) /\ Len(HeaderBytes(m)) = 5 + h
<1> DEFINE a == <<24, h, 0, 0, 0>>
           b == Le(40, h)
<1>1. HeaderBytes(m) = a \o b
    BY DEF HeaderBytes, Tag
<1>2. a \in Seq(Int) /\ Len(a) = 5 /\ a[1] = 24 /\ a[2] = h
    OBVIOUS
<1>3. b \in Seq(Int) /\ Len(b) = h /\ \A j \in 1..h : b[j] = 256 * 40 + j
  <2> DEFINE v == 40
  <2>1. v \in Int /\ h \in Nat
      OBVIOUS
  <2> HIDE DEF v
  <2>2. Le(v, h) \in Seq(Int) /\ Len(Le(v, h)) = h /\ \A j \in 1..h : Le(v, h)[j] = 256 * v + j
      BY <2>1, LeBytes
  <2> QED BY <2>2 DEF v
<1> HIDE DEF a, b
<1>c. a \in Seq(Int) /\ b \in Seq(Int)
    BY <1>2, <1>3
<1>4. /\ a \o b \in Seq(Int) /\ Len(a \o b) = Len(a) + Len(b)
      /\ \A i \in 1..Len(a) : (a \o b)[i] = a[i]
      /\ \A i \in 1..Len(b) : (a \o b)[Len(a) + i] = b[i]
    BY <1>c, Joined
<1>5. (a \o b)[1] = 24 /\ (a \o b)[2] = h
  <2>1. 1 \in 1..Len(a) /\ 2 \in 1..Len(a)
      BY <1>2
  <2> QED BY <1>2, <1>4, <2>1
<1>6. Says(a \o b, 5, h, 40)
  <2>1. \A j \in 1..h : (a \o b)[5 + j] = 256 * 40 + j
      BY <1>2, <1>3, <1>4
  <2> QED BY <2>1 DEF Says
<1> QED BY <1>1, <1>2, <1>3, <1>4, <1>5, <1>6 DEF Headed

\* Bytes after a header leave it where it is.
LEMMA HeadedAfter ==
    ASSUME NEW a, NEW h \in 1..255, Headed(a, h), Len(a) >= 5 + h, NEW b \in Seq(Int)
    PROVE  Headed(a \o b, h)
<1>1. a \in Seq(Int) /\ Len(a) \in Nat
    BY LenProperties DEF Headed
<1>2. a \o b \in Seq(Int) /\ \A i \in 1..Len(a) : (a \o b)[i] = a[i]
    BY <1>1, Joined
<1>3. a[1] = 24 /\ a[2] = h /\ \A j \in 1..h : a[5 + j] = 256 * 40 + j
    BY DEF Headed, Says
<1>4. 1 \in 1..Len(a) /\ 2 \in 1..Len(a) /\ \A j \in 1..h : 5 + j \in 1..Len(a)
    BY <1>1
<1>5. \A j \in 1..h : (a \o b)[5 + j] = 256 * 40 + j
    BY <1>2, <1>3, <1>4
<1> QED BY <1>2, <1>3, <1>4, <1>5 DEF Headed, Says

\* Samples that follow the header, after so many other bytes or none.
LEMMA LaidAfter ==
    ASSUME NEW m, NEW h \in 1..255, NEW n \in Nat, NEW q \in Nat, Sized(m.tiles, n, q),
           NEW a, NEW pad \in Nat, Headed(a, h), Len(a) = (5 + h) + pad
    PROVE  Laid(a \o TileBytes(m), m.tiles, h, n, pad, q)
<1> DEFINE b == TileBytes(m)
           d == a \o b
           all == (4 * q) * n
<1>1. b \in Seq(Int) /\ Len(b) = all /\ Sampled(b, 0, m.tiles, n, q)
    BY TileBytesPlaced
<1> HIDE DEF b, d
<1>2. a \in Seq(Int) /\ Headed(d, h)
  <2>1. a \in Seq(Int)
      BY DEF Headed
  <2>2. b \in Seq(Int) /\ Len(a) >= 5 + h
      BY <1>1
  <2>3. Headed(a \o b, h)
      BY <2>2, HeadedAfter
  <2> QED BY <2>1, <2>3 DEF d
<1>3. Len(d) = Len(a) + Len(b) /\ \A i \in 1..Len(b) : d[Len(a) + i] = b[i]
    BY <1>1, <1>2, Joined DEF d
<1>4. all \in Nat
    OBVIOUS
<1> HIDE DEF all
<1>5. ASSUME NEW t \in 1..n, NEW i \in 1..q, NEW j \in 1..4
      PROVE  d[((5 + h) + pad) + ((4 * q) * (t - 1) + (4 * (i - 1) + j))] = 256 * m.tiles[t][i] + j
  <2> DEFINE x == (4 * q) * (t - 1) + (4 * (i - 1) + j)
  <2>1. x \in 1..all
    <3> DEFINE k == 4 * q
               y == k * (t - 1)
    <3>1. k \in Nat
        OBVIOUS
    <3>2. 4 * (i - 1) + j \in 1..k
        OBVIOUS
    <3>3. y \in Nat /\ y + k <= k * n
      <4> HIDE DEF k
      <4>1. PICK r \in Nat : n = t + r
          OBVIOUS
      <4>2. k * n = k * t + k * r /\ k * r \in Nat /\ k * (t - 1) + k = k * t /\ k * (t - 1) \in Nat
          BY <3>1, <4>1
      <4> QED BY <3>1, <4>2
    <3>4. k * n = all
        BY DEF all
    <3>5. x = y + (4 * (i - 1) + j)
        OBVIOUS
    <3> HIDE DEF k, y, x
    <3> QED BY <1>4, <3>1, <3>2, <3>3, <3>4, <3>5
  <2>2. b[x] = 256 * m.tiles[t][i] + j
    <3>1. b[0 + x] = 256 * m.tiles[t][i] + j
        BY <1>1 DEF Sampled
    <3> HIDE DEF x
    <3>2. 0 + x = x
        BY <2>1
    <3> QED BY <3>1, <3>2
  <2> HIDE DEF x
  <2>3. d[Len(a) + x] = b[x]
      BY <1>1, <1>3, <2>1
  <2>4. d[((5 + h) + pad) + x] = 256 * m.tiles[t][i] + j
    <3>1. Len(a) + x = ((5 + h) + pad) + x
        OBVIOUS
    <3> QED BY <2>2, <2>3, <3>1
  <2> QED BY <2>4 DEF x
<1>6. Len(d) = ((5 + h) + pad) + all
    BY <1>1, <1>3
<1>7. Laid(d, m.tiles, h, n, pad, q)
    BY <1>2, <1>5, <1>6 DEF Laid, Sampled, all
<1> QED BY <1>7 DEF d, b

\* Filler is as many bytes as it says.
LEMMA FillerPlaced ==
    ASSUME NEW k \in Nat
    PROVE  Filler(k) \in Seq(Int) /\ Len(Filler(k)) = k
<1> DEFINE z == [i \in 1..k |-> 0]
<1>1. z \in [1..k -> Int]
    OBVIOUS
<1> HIDE DEF z
<1>2. z \in Seq(Int) /\ Len(z) = k
    BY <1>1
<1> QED BY <1>2 DEF Filler, z

\* Both layouts of a frame.
LEMMA FramesLaid ==
    ASSUME NEW m, NEW h \in 1..255, NEW n \in Nat, NEW q \in Nat,
           m.header_len = h, Sized(m.tiles, n, q)
    PROVE  /\ Laid(TerrainTilesBytes(m), m.tiles, h, n, 0, q)
           /\ Laid(PaddedTilesBytes(m), m.tiles, h, n, Pad(5 + h), q)
<1> DEFINE a == HeaderBytes(m)
           p == Pad(5 + h)
           z == Filler(p)
<1>1. Headed(a, h) /\ Len(a) = 5 + h
    BY HeaderPlaced
<1>2. p \in Nat
    BY PadBounds
<1>3. PaddedTilesBytes(m) = (a \o z) \o TileBytes(m) /\ TerrainTilesBytes(m) = a \o TileBytes(m)
  <2>1. PaddedTilesBytes(m) = (a \o z) \o TileBytes(m)
      BY DEF PaddedTilesBytes
  <2> QED BY <2>1 DEF TerrainTilesBytes
<1> HIDE DEF a, p
<1>4. z \in Seq(Int) /\ Len(z) = p
    BY <1>2, FillerPlaced
<1> HIDE DEF z
<1>5. Laid(a \o TileBytes(m), m.tiles, h, n, 0, q)
  <2>1. Len(a) = (5 + h) + 0 /\ 0 \in Nat
      BY <1>1
  <2> QED BY <1>1, <2>1, LaidAfter
<1>6. Headed(a \o z, h) /\ Len(a \o z) = (5 + h) + p
  <2>1. a \in Seq(Int) /\ Len(a) >= 5 + h
      BY <1>1 DEF Headed
  <2>2. Len(a \o z) = Len(a) + Len(z)
      BY <1>4, <2>1, Joined
  <2> QED BY <1>1, <1>4, <2>1, <2>2, HeadedAfter
<1>7. Laid((a \o z) \o TileBytes(m), m.tiles, h, n, p, q)
    BY <1>2, <1>6, LaidAfter
<1> QED BY <1>3, <1>5, <1>7 DEF p

\* The samples are looked for where they are, or nowhere: there are as many of them as the
\* frame declares, after the header or after its padding.
LEMMA BodyFound ==
    ASSUME NEW d, NEW h \in Nat, NEW n \in Nat, NEW q \in Nat, NEW e \in Nat,
           NEW p \in {0, Pad(5 + h)}, Len(d) = ((5 + h) + p) + (4 * q) * n
    PROVE  /\ \/ BodyStart(d, 5 + h, n * 4 * e * e) = -1
              \/ BodyStart(d, 5 + h, n * 4 * e * e) = (5 + h) + p /\ n * (e * e) = n * q
           /\ n * (e * e) = n * q => BodyStart(d, 5 + h, n * 4 * e * e) = (5 + h) + p
<1> DEFINE P == Pad(5 + h)
           l == Len(d)
           b == n * q
           x == n * (e * e)
           left(y) == IF l > y THEN l - y ELSE 0
           start == IF left(5 + h) = 4 * x THEN 5 + h
                    ELSE IF left((5 + h) + P) = 4 * x THEN (5 + h) + P ELSE -1
<1>1. n * 4 * e * e = 4 * x /\ (4 * q) * n = 4 * b /\ x \in Nat /\ b \in Nat
  <2> DEFINE y == e * e
  <2>1. n * 4 * e * e = 4 * (n * (e * e))
      BY SMT
  <2>2. (4 * q) * n = 4 * (n * q)
      BY SMT
  <2>3. y \in Nat
      BY SMT
  <2>4. n * y \in Nat
    <3> HIDE DEF y
    <3> QED BY <2>3
  <2>5. n * q \in Nat
      BY SMT
  <2> QED BY <2>1, <2>2, <2>4, <2>5
<1>2. BodyStart(d, 5 + h, n * 4 * e * e) = start
  <2> DEFINE z == n * 4 * e * e
  <2>1. z = 4 * x
      BY <1>1
  <2> HIDE DEF z, x
  <2>2. BodyStart(d, 5 + h, z) = start
      BY <2>1 DEF BodyStart, Left
  <2> QED BY <2>2 DEF z
<1>3. P \in 0..3 /\ p \in {0, P}
    BY PadBounds
<1>l. l = ((5 + h) + p) + 4 * b
    BY <1>1
<1> HIDE DEF l, b, x, P
<1>4. /\ left(5 + h) = p + 4 * b
      /\ left((5 + h) + P) = IF p + 4 * b > P THEN (p + 4 * b) - P ELSE 0
    BY <1>1, <1>3, <1>l
<1> HIDE DEF left
<1>5. start = -1 \/ (start = (5 + h) + p /\ x = b)
  <2>1. CASE left(5 + h) = 4 * x
    <3>1. p + 4 * b = 4 * x
        BY <1>1, <1>3, <1>4, <2>1
    <3>2. p = 0 /\ x = b
        BY <1>1, <1>3, <3>1
    <3> QED BY <2>1, <3>2
  <2>2. CASE left(5 + h) # 4 * x /\ left((5 + h) + P) = 4 * x
    <3>1. p = P /\ x = b
        BY <1>1, <1>3, <1>4, <2>2
    <3> QED BY <2>2, <3>1
  <2>3. CASE left(5 + h) # 4 * x /\ left((5 + h) + P) # 4 * x
      BY <2>3
  <2> QED BY <2>1, <2>2, <2>3
<1>6. x = b => start = (5 + h) + p
  <2> SUFFICES ASSUME x = b PROVE start = (5 + h) + p
      OBVIOUS
  <2>1. CASE p = 0
      BY <1>1, <1>4, <2>1
  <2>2. CASE p = P /\ p # 0
    <3>1. left(5 + h) # 4 * x /\ left((5 + h) + P) = 4 * x
        BY <1>1, <1>3, <1>4, <2>2
    <3> QED BY <2>2, <3>1
  <2> QED BY <1>3, <2>1, <2>2
<1> HIDE DEF start
<1> QED BY <1>2, <1>5, <1>6 DEF x, b

\* A frame of tiles in either layout is refused, or it is read as what was sent; it is read
\* when it is complete.
LEMMA TilesRead ==
    ASSUME NEW m \in TileFrames, NEW d \in {TerrainTilesBytes(m), PaddedTilesBytes(m)}
    PROVE  /\ d # <<>> /\ d[1] = 24
           /\ TerrainTilesFrom(d, m) \in {m, Invalid, TooShort}
           /\ Complete(m) => TerrainTilesFrom(d, m) = m
<1> DEFINE h == m.header_len
           n == m.coords
           e == m.tile_size
           heights == m.tiles
<1>1. /\ m.kind = "TerrainTiles" /\ h \in 1..255 /\ n \in Nat /\ e \in Nat
      /\ DOMAIN m = {"kind", "header_len", "coords", "approximate", "tile_size", "tiles"}
      /\ m = [m EXCEPT !.tiles = heights]
    BY TileFrameFields
<1>2. PICK q \in Nat : Sized(heights, n, q)
    BY TileFrameFields
<1>3. \E p \in {0, Pad(5 + h)} : Laid(d, heights, h, n, p, q)
  <2>1. /\ Laid(TerrainTilesBytes(m), heights, h, n, 0, q)
        /\ Laid(PaddedTilesBytes(m), heights, h, n, Pad(5 + h), q)
    <3> HIDE DEF n
    <3> QED BY <1>1, <1>2, FramesLaid
  <2> HIDE DEF heights, h, n
  <2> QED BY <2>1
<1>4. PICK p \in {0, Pad(5 + h)} : Laid(d, heights, h, n, p, q)
    BY <1>3
<1>5. Laid(PaddedTilesBytes(m), heights, h, n, Pad(5 + h), q)
  <2> HIDE DEF n
  <2> QED BY <1>1, <1>2, FramesLaid
<1> DEFINE P == Pad(5 + h)
           all == (4 * q) * n
           start == BodyStart(d, 5 + h, n * 4 * e * e)
           read == [m EXCEPT !.tiles = TilesAt(d, start, n, e)]
<1>6. TerrainTilesFrom(d, m) =
          IF Len(d) > MaxFrame THEN Invalid
          ELSE IF Len(d) < 5 + d[2] THEN TooShort
          ELSE IF \/ At(d, 5, d[2]) = Garbled
                  \/ e = 0
                  \/ m.approximate # 0 /\ m.approximate # n
                  \/ BodyStart(d, 5 + d[2], n * 4 * e * e) < 0
          THEN Invalid
          ELSE IF BodyStart(d, 5 + d[2], n * 4 * e * e) > Len(d) THEN Panicked
          ELSE [m EXCEPT !.tiles = TilesAt(d, BodyStart(d, 5 + d[2], n * 4 * e * e), n, e)]
    BY DEF TerrainTilesFrom
<1>c. Complete(m) => /\ e # 0 /\ m.approximate \in {0, n}
                     /\ \A t \in DOMAIN heights : Len(heights[t]) = e * e
                     /\ Len(PaddedTilesBytes(m)) <= MaxFrame
    BY <1>1 DEF Complete
<1> HIDE DEF h, n, e, heights
<1>7. P \in 0..3 /\ p \in {0, P} /\ all \in Nat
  <2>1. 5 + h \in Nat
      BY <1>1
  <2>2. all \in Nat
    <3> HIDE DEF h
    <3> QED BY <1>1
  <2> QED BY <1>4, <2>1, <2>2, PadBounds
<1>8. Headed(d, h) /\ Len(d) = ((5 + h) + p) + all /\ Sampled(d, (5 + h) + p, heights, n, q)
    BY <1>4 DEF Laid
<1>9. Len(PaddedTilesBytes(m)) = ((5 + h) + P) + all
    BY <1>5 DEF Laid
<1>10. d \in Seq(Int) /\ d[1] = 24 /\ d[2] = h /\ Says(d, 5, h, 40)
    BY <1>8 DEF Headed
<1>11. /\ \/ start = -1
          \/ start = (5 + h) + p /\ n * (e * e) = n * q
       /\ n * (e * e) = n * q => start = (5 + h) + p
  <2>1. h \in Nat /\ p \in {0, Pad(5 + h)}
      BY <1>1, <1>4
  <2> QED BY <1>1, <1>8, <2>1, BodyFound
<1> HIDE DEF P, all, start
<1>12. p \in 0..3
    BY <1>7
<1>l. Len(d) # 0 /\ 5 + h <= Len(d) /\ Len(d) <= Len(PaddedTilesBytes(m))
  <2> DEFINE l == Len(d)
             lp == Len(PaddedTilesBytes(m))
  <2>1. /\ h \in 1..255 /\ p \in 0..3 /\ P \in 0..3 /\ p \in {0, P} /\ all \in Nat
        /\ l = ((5 + h) + p) + all /\ lp = ((5 + h) + P) + all
      BY <1>1, <1>7, <1>8, <1>9, <1>12
  <2> HIDE DEF l, lp
  <2>2. l # 0 /\ 5 + h <= l /\ l <= lp /\ l \in Nat
      BY <2>1
  <2> QED BY <2>2 DEF l, lp
<1>n. Len(d) \in Nat /\ Len(PaddedTilesBytes(m)) \in Nat
  <2>1. d \in Seq(Int) /\ PaddedTilesBytes(m) \in Seq(Int)
      BY <1>5, <1>10 DEF Laid, Headed
  <2> QED BY <2>1, LenProperties
<1>13. At(d, 5, h) = 40
  <2> DEFINE v == 40
  <2>1. v \in Nat /\ 5 \in Nat /\ h \in Nat /\ h >= 1 /\ 5 + h <= Len(d)
    <3>1. h \in 1..255
        BY <1>1
    <3> QED BY <1>l, <3>1
  <2>2. Says(d, 5, h, v)
      BY <1>10
  <2> HIDE DEF v
  <2>3. At(d, 5, h) = v
      BY <1>10, <2>1, <2>2, AtPlaced
  <2> QED BY <2>3 DEF v
<1>14. ASSUME start = (5 + h) + p, n * (e * e) = n * q PROVE TilesAt(d, start, n, e) = heights
  <2>1. start \in Nat
      BY <1>1, <1>12, <1>14
  <2>2. CASE n = 0
    <3>1. TilesAt(d, start, n, e) =
              [t \in {} |-> FloatsAt(d, start + 4 * e * e * (t - 1), e * e)]
      <4>1. 1..n = {}
          BY <2>2
      <4> QED BY <4>1 DEF TilesAt
    <3>2. heights \in [{} -> Seq(Nat)]
      <4>1. 1..n = {}
          BY <2>2
      <4> QED BY <1>2, <4>1 DEF Sized
    <3> QED BY <3>1, <3>2
  <2>3. CASE n # 0
    <3>1. q = e * e
      <4> DEFINE y == e * e
      <4>1. y \in Nat /\ n * y = n * q
          BY <1>1, <1>14
      <4> HIDE DEF y
      <4>2. y = q
        <5>1. ASSUME y < q PROVE FALSE
          <6>1. PICK r \in Nat : q = y + r /\ r > 0
              BY <4>1, <5>1
          <6>2. n * q = n * y + n * r /\ n * r > 0
              BY <1>1, <2>3, <4>1, <6>1
          <6> QED BY <1>1, <4>1, <6>2
        <5>2. ASSUME y > q PROVE FALSE
          <6>1. PICK r \in Nat : y = q + r /\ r > 0
              BY <4>1, <5>2
          <6>2. n * y = n * q + n * r /\ n * r > 0
              BY <1>1, <2>3, <4>1, <6>1
          <6> QED BY <1>1, <4>1, <6>2
        <5> QED BY <4>1, <5>1, <5>2
      <4> QED BY <4>2 DEF y
    <3>2. Sampled(d, start, heights, n, q) /\ start + (4 * q) * n <= Len(d)
      <4>1. start + all <= Len(d)
          BY <1>7, <1>8, <1>14, <2>1
      <4> QED BY <1>8, <1>14, <4>1 DEF all
    <3> QED BY <1>1, <1>2, <1>10, <2>1, <3>1, <3>2, TilesAtPlaced
  <2> QED BY <2>2, <2>3
<1>15. ASSUME start = (5 + h) + p, n * (e * e) = n * q PROVE read = m
    BY <1>1, <1>14, <1>15
<1>16. TerrainTilesFrom(d, m) =
           IF Len(d) > MaxFrame THEN Invalid
           ELSE IF Len(d) < 5 + h THEN TooShort
           ELSE IF e = 0 \/ (m.approximate # 0 /\ m.approximate # n) \/ start < 0 THEN Invalid
           ELSE IF start > Len(d) THEN Panicked
           ELSE read
    BY <1>6, <1>10, <1>13 DEF start, Garbled
<1> HIDE DEF read
<1>p. start = (5 + h) + p => ~(start > Len(d))
  <2> DEFINE l == Len(d)
  <2>1. h \in 1..255 /\ p \in 0..3 /\ all \in Nat /\ l = ((5 + h) + p) + all
      BY <1>1, <1>7, <1>8, <1>12
  <2> HIDE DEF l
  <2>2. start = (5 + h) + p => ~(start > l)
      BY <2>1
  <2> QED BY <2>2 DEF l
<1>17. TerrainTilesFrom(d, m) \in {m, Invalid, TooShort}
    BY <1>11, <1>15, <1>16, <1>p
<1>18. ASSUME Complete(m) PROVE TerrainTilesFrom(d, m) = m
  <2>1. n * (e * e) = n * q
    <3>1. CASE n = 0
      <4>1. e * e \in Nat
          BY <1>1
      <4> DEFINE y == e * e
      <4> HIDE DEF y
      <4>2. n * y = n * q
          BY <3>1, <4>1 DEF y
      <4> QED BY <4>2 DEF y
    <3>2. CASE n # 0
      <4>1. 1 \in 1..n /\ DOMAIN heights = 1..n
          BY <1>1, <1>2, <3>2 DEF Sized
      <4>2. Len(heights[1]) = q /\ Len(heights[1]) = e * e
          BY <1>2, <1>18, <1>c, <4>1 DEF Sized
      <4> QED BY <4>2
    <3> QED BY <3>1, <3>2
  <2>2. start = (5 + h) + p /\ read = m
      BY <1>11, <1>15, <2>1
  <2>3. ~(Len(d) > MaxFrame) /\ ~(Len(d) < 5 + h) /\ ~(start < 0)
    <3>1. MaxFrame \in Nat /\ Len(PaddedTilesBytes(m)) <= MaxFrame
        BY <1>18, <1>c, SizesAssumption
    <3>2. Len(d) <= MaxFrame
        BY <1>l, <1>n, <3>1
    <3>3. h \in 1..255
        BY <1>1
    <3>4. ~(start < 0)
        BY <1>12, <2>2, <3>3
    <3> QED BY <1>l, <1>n, <3>1, <3>2, <3>3, <3>4
  <2> QED BY <1>16, <1>18, <1>c, <1>p, <2>2, <2>3
<1>19. d # <<>>
    BY <1>l
<1> QED BY <1>10, <1>17, <1>18, <1>19

\* A frame begins with its header, and is as long as its parts and k stray bytes.
Strayed(d, h, k, n, q) == Headed(d, h) /\ Len(d) = ((5 + h) + k) + (4 * q) * n

\* A page that errs lays tiles out so.
LEMMA StrayLaid ==
    ASSUME NEW m, NEW h \in 1..255, NEW n \in Nat, NEW q \in Nat,
           m.header_len = h, Sized(m.tiles, n, q), NEW f \in 0..3, NEW t \in 0..3
    PROVE  Strayed(StrayTilesBytes(m, f, t), h, f + t, n, q)
<1> DEFINE a == HeaderBytes(m)
           b == TileBytes(m)
           y == Filler(f)
           z == Filler(t)
           all == (4 * q) * n
<1>1. Headed(a, h) /\ Len(a) = 5 + h
    BY HeaderPlaced
<1>2. b \in Seq(Int) /\ Len(b) = all
    BY TileBytesPlaced
<1>3. y \in Seq(Int) /\ Len(y) = f /\ z \in Seq(Int) /\ Len(z) = t
    BY FillerPlaced
<1>4. StrayTilesBytes(m, f, t) = ((a \o y) \o b) \o z
    BY DEF StrayTilesBytes
<1>5. all \in Nat
    OBVIOUS
<1> HIDE DEF a, b, y, z, all
<1>6. Headed(a \o y, h) /\ a \o y \in Seq(Int) /\ Len(a \o y) = (5 + h) + f
  <2>1. a \in Seq(Int) /\ Len(a) >= 5 + h
      BY <1>1 DEF Headed
  <2>2. Headed(a \o y, h)
      BY <1>1, <1>3, <2>1, HeadedAfter
  <2> QED BY <1>1, <1>3, <2>1, <2>2, JoinedLength
<1> DEFINE c == a \o y
<1> HIDE DEF c
<1>7. Headed(c, h) /\ c \in Seq(Int) /\ Len(c) = (5 + h) + f
    BY <1>6 DEF c
<1>8. Headed(c \o b, h) /\ c \o b \in Seq(Int) /\ Len(c \o b) = ((5 + h) + f) + all
  <2>1. Len(c) >= 5 + h
      BY <1>7
  <2>2. Headed(c \o b, h)
      BY <1>2, <1>7, <2>1, HeadedAfter
  <2> QED BY <1>2, <1>7, <2>2, JoinedLength
<1> DEFINE g == c \o b
<1> HIDE DEF g
<1>9. Headed(g, h) /\ g \in Seq(Int) /\ Len(g) = ((5 + h) + f) + all
    BY <1>8 DEF g
<1>10. Headed(g \o z, h) /\ Len(g \o z) = (((5 + h) + f) + all) + t
  <2>1. Len(g) >= 5 + h
      BY <1>5, <1>9
  <2>2. Headed(g \o z, h)
      BY <1>3, <1>9, <2>1, HeadedAfter
  <2> QED BY <1>3, <1>9, <2>2, JoinedLength
<1>11. StrayTilesBytes(m, f, t) = g \o z
    BY <1>4 DEF g, c
<1>12. Len(g \o z) = ((5 + h) + (f + t)) + all
    BY <1>5, <1>10
<1> QED BY <1>10, <1>11, <1>12, Zenon DEF all, Strayed

\* Where samples begin that are nowhere, or after as many bytes as the filler has, or past
\* the end of a frame that has none.
Astray(d, h, k, n, e) ==
    \/ BodyStart(d, 5 + h, n * 4 * e * e) = -1
    \/ /\ BodyStart(d, 5 + h, n * 4 * e * e) = (5 + h) + Pad(5 + h)
       /\ \/ k = Pad(5 + h)
          \/ n * (e * e) = 0 /\ (5 + h) + Pad(5 + h) > Len(d)

\* Fewer stray bytes than a sample has put the samples there.
LEMMA BodyStray ==
    ASSUME NEW d, NEW h \in Nat, NEW n \in Nat, NEW q \in Nat, NEW e \in Nat,
           NEW k \in 1..3, Strayed(d, h, k, n, q)
    PROVE  Astray(d, h, k, n, e)
<1> DEFINE P == Pad(5 + h)
           l == Len(d)
           b == n * q
           x == n * (e * e)
           left(y) == IF l > y THEN l - y ELSE 0
           start == IF left(5 + h) = 4 * x THEN 5 + h
                    ELSE IF left((5 + h) + P) = 4 * x THEN (5 + h) + P ELSE -1
<1>s. Len(d) = ((5 + h) + k) + (4 * q) * n
    BY DEF Strayed
<1>1. n * 4 * e * e = 4 * x /\ (4 * q) * n = 4 * b /\ x \in Nat /\ b \in Nat
  <2> DEFINE y == e * e
  <2>1. n * 4 * e * e = 4 * (n * (e * e))
      BY SMT
  <2>2. (4 * q) * n = 4 * (n * q)
      BY SMT
  <2>3. y \in Nat
      BY SMT
  <2>4. n * y \in Nat
    <3> HIDE DEF y
    <3> QED BY <2>3
  <2>5. n * q \in Nat
      BY SMT
  <2> QED BY <2>1, <2>2, <2>4, <2>5
<1>2. BodyStart(d, 5 + h, n * 4 * e * e) = start
  <2> DEFINE z == n * 4 * e * e
  <2>1. z = 4 * x
      BY <1>1
  <2> HIDE DEF z, x
  <2>2. BodyStart(d, 5 + h, z) = start
      BY <2>1 DEF BodyStart, Left
  <2> QED BY <2>2 DEF z
<1>3. P \in 0..3
    BY PadBounds
<1>l. l = ((5 + h) + k) + 4 * b
    BY <1>1, <1>s
<1> HIDE DEF l, b, x, P
<1>4. /\ left(5 + h) = k + 4 * b
      /\ left((5 + h) + P) = IF k + 4 * b > P THEN (k + 4 * b) - P ELSE 0
    BY <1>1, <1>3, <1>l
<1> HIDE DEF left
<1>5. left(5 + h) # 4 * x
    BY <1>1, <1>4
<1>6. left((5 + h) + P) = 4 * x => k = P \/ (x = 0 /\ (5 + h) + P > l)
    BY <1>1, <1>3, <1>4, <1>l
<1>7. start = -1 \/ (start = (5 + h) + P /\ (k = P \/ (x = 0 /\ (5 + h) + P > l)))
    BY <1>5, <1>6
<1> HIDE DEF start
<1> QED BY <1>2, <1>7 DEF x, P, l, Astray

\* A frame with a few stray bytes is refused, or it has no tiles and the reader goes past
\* its end, or it is as long as a padded one and is read as if it were.
LEMMA StrayRead ==
    ASSUME NEW m \in TileFrames, NEW f \in 0..3, NEW t \in 0..3, f + t \in 1..3,
           NEW d, d = StrayTilesBytes(m, f, t)
    PROVE  /\ d # <<>> /\ d[1] = 24
           /\ \/ TerrainTilesFrom(d, m) \in {Invalid, TooShort}
              \/ TerrainTilesFrom(d, m) = Panicked /\ m.coords = 0
              \/ /\ Len(d) = Len(PaddedTilesBytes(m))
                 /\ \E x : TerrainTilesFrom(d, m) = [m EXCEPT !.tiles = x]
<1> DEFINE h == m.header_len
           n == m.coords
           e == m.tile_size
           heights == m.tiles
           k == f + t
<1>1. m.kind = "TerrainTiles" /\ h \in 1..255 /\ n \in Nat /\ e \in Nat
    BY TileFrameFields
<1>2. PICK q \in Nat : Sized(heights, n, q)
    BY TileFrameFields
<1> DEFINE P == Pad(5 + h)
           all == (4 * q) * n
           start == BodyStart(d, 5 + h, n * 4 * e * e)
           read == [m EXCEPT !.tiles = TilesAt(d, start, n, e)]
<1>3. Headed(d, h) /\ Len(d) = ((5 + h) + k) + all
  <2>1. m.header_len = h /\ Sized(m.tiles, n, q)
      BY <1>2
  <2> HIDE DEF h, n, e, heights, P, start, read, k, all
  <2>2. h \in 1..255 /\ n \in Nat
      BY <1>1
  <2>3. Strayed(d, h, f + t, n, q)
      BY <2>1, <2>2, StrayLaid
  <2> QED BY <2>3, Zenon DEF k, all, Strayed
<1>4. Len(PaddedTilesBytes(m)) = ((5 + h) + P) + all
  <2>1. Laid(PaddedTilesBytes(m), heights, h, n, Pad(5 + h), q)
    <3> HIDE DEF n
    <3> QED BY <1>1, <1>2, FramesLaid
  <2> QED BY <2>1 DEF Laid
<1>5. TerrainTilesFrom(d, m) =
          IF Len(d) > MaxFrame THEN Invalid
          ELSE IF Len(d) < 5 + d[2] THEN TooShort
          ELSE IF \/ At(d, 5, d[2]) = Garbled
                  \/ e = 0
                  \/ m.approximate # 0 /\ m.approximate # n
                  \/ BodyStart(d, 5 + d[2], n * 4 * e * e) < 0
          THEN Invalid
          ELSE IF BodyStart(d, 5 + d[2], n * 4 * e * e) > Len(d) THEN Panicked
          ELSE [m EXCEPT !.tiles = TilesAt(d, BodyStart(d, 5 + d[2], n * 4 * e * e), n, e)]
    BY DEF TerrainTilesFrom
<1> HIDE DEF h, n, e, heights
<1>6. d \in Seq(Int) /\ d[1] = 24 /\ d[2] = h
    BY <1>3 DEF Headed
<1>7. P \in 0..3 /\ all \in Nat /\ k \in 1..3
  <2>1. 5 + h \in Nat
      BY <1>1
  <2>2. all \in Nat
    <3> HIDE DEF h
    <3> QED BY <1>1, <1>2
  <2> QED BY <2>1, <2>2, PadBounds
<1> HIDE DEF k
<1>8. \/ start = -1
      \/ start = (5 + h) + P /\ (k = P \/ (n * (e * e) = 0 /\ start > Len(d)))
  <2>1. h \in Nat /\ k \in 1..3
      BY <1>1, <1>7
  <2>2. Strayed(d, h, k, n, q)
      BY <1>3, Zenon DEF Strayed
  <2> HIDE DEF all, start, P, read
  <2>3. Astray(d, h, k, n, e)
      BY <1>1, <2>1, <2>2, BodyStray
  <2> QED BY <2>3, Zenon DEF Astray, start, P
<1> HIDE DEF P, all
<1>9. \/ TerrainTilesFrom(d, m) \in {Invalid, TooShort}
      \/ ~(start < 0) /\ e # 0 /\ start > Len(d) /\ TerrainTilesFrom(d, m) = Panicked
      \/ ~(start < 0) /\ ~(start > Len(d)) /\ TerrainTilesFrom(d, m) = read
    BY <1>5, <1>6
<1> HIDE DEF start, read
<1>d. d # <<>>
    BY <1>1, <1>3, <1>7
<1>10. CASE start = -1
    BY <1>6, <1>9, <1>10, <1>d
<1>11. CASE start = (5 + h) + P /\ k = P
  <2>1. Len(d) = Len(PaddedTilesBytes(m)) /\ ~(start > Len(d))
      BY <1>1, <1>3, <1>4, <1>7, <1>11
  <2> QED BY <1>6, <1>9, <1>d, <2>1 DEF read
<1>12. CASE n * (e * e) = 0 /\ start > Len(d)
  <2>1. e # 0 => n = 0
    <3> SUFFICES ASSUME e # 0, n # 0 PROVE FALSE
        OBVIOUS
    <3> DEFINE y == e * e
    <3>1. y \in Nat /\ y > 0
        BY <1>1
    <3> HIDE DEF y
    <3>2. n * y > 0
        BY <1>1, <3>1
    <3> QED BY <1>12, <3>2 DEF y
  <2> QED BY <1>6, <1>9, <1>12, <1>d, <2>1 DEF n
<1> QED BY <1>8, <1>10, <1>11, <1>12

------------------------------------------------------------------------------
(* What kind of message a frame is taken for.                              *)

\* The ways in which a page lays tiles out, right or wrong.
TilesLaid(m, d) ==
    \/ d \in {TerrainTilesBytes(m), PaddedTilesBytes(m)}
    \/ \E f \in 0..3, t \in 0..3 : f + t \in 1..3 /\ d = StrayTilesBytes(m, f, t)

\* A frame that no message is made of.
Rejected(r) == "refused" \in DOMAIN r \/ "panicked" \in DOMAIN r

\* However tiles are laid out, they are rejected or taken for tiles.
LEMMA TilesTaken ==
    ASSUME NEW m \in TileFrames, NEW d, TilesLaid(m, d)
    PROVE  /\ d # <<>> /\ d[1] = 24
           /\ Rejected(TerrainTilesFrom(d, m)) \/ TerrainTilesFrom(d, m).kind = m.kind
<1>1. Rejected(Invalid) /\ Rejected(TooShort) /\ Rejected(Panicked)
    BY DEF Rejected, Invalid, TooShort, Failed, Panicked
<1>2. CASE d \in {TerrainTilesBytes(m), PaddedTilesBytes(m)}
  <2>1. /\ d # <<>> /\ d[1] = 24
        /\ TerrainTilesFrom(d, m) \in {m, Invalid, TooShort}
      BY <1>2, TilesRead
  <2> QED BY <1>1, <2>1
<1>3. ASSUME NEW f \in 0..3, NEW t \in 0..3, f + t \in 1..3, d = StrayTilesBytes(m, f, t)
      PROVE  /\ d # <<>> /\ d[1] = 24
             /\ Rejected(TerrainTilesFrom(d, m)) \/ TerrainTilesFrom(d, m).kind = m.kind
  <2>1. /\ d # <<>> /\ d[1] = 24
        /\ \/ TerrainTilesFrom(d, m) \in {Invalid, TooShort, Panicked}
           \/ \E x : TerrainTilesFrom(d, m) = [m EXCEPT !.tiles = x]
      BY <1>3, StrayRead
  <2>2. \A x : [m EXCEPT !.tiles = x].kind = m.kind
    <3>1. "kind" \in DOMAIN m
        BY TileFrameFields
    <3> QED BY <3>1
  <2> QED BY <1>1, <2>1, <2>2
<1> QED BY <1>2, <1>3 DEF TilesLaid

\* Messages that the page reads by the layout of their type.
Binaries == HandshakeAcks \cup ConnectionStatuses \cup VehicleMessages \cup NshResponses
            \cup CommandAcks \cup TerrainOrigins

\* The kinds of the frames that are written byte by byte.
BinaryKinds == {"HandshakeAck", "ConnectionStatus", "VehicleMessage", "NshResponse",
                "CommandAck", "TerrainOrigin"}

\* The kinds of the frames with a body in JSON.
JsonKinds == {"ConfigResult", "ResetResult", "PreflightStatus", "PreflightApplyResult",
              "SnapshotCaptured", "RestoreResult", "Capabilities", "TerrainNeed"}

\* The kinds of the frames that are a tag alone.
BareKinds == {"Handshake", "Shutdown", "RequestPreflightCheck", "ApplyPreflightParams"}

\* The kinds of the daemon's messages.
LEMMA OutgoingKinds ==
    /\ \A x \in StateUpdates : x.kind = "StateUpdate"
    /\ \A x \in Binaries : x.kind \in BinaryKinds
    /\ \A x \in Json : x.kind \in JsonKinds /\ "kind" \in DOMAIN x
<1>1. \A x \in StateUpdates : x.kind = "StateUpdate"
    BY DEF StateUpdates
<1>2. \A x \in HandshakeAcks \cup ConnectionStatuses \cup VehicleMessages : x.kind \in BinaryKinds
    BY DEF HandshakeAcks, ConnectionStatuses, VehicleMessages, BinaryKinds
<1>3. \A x \in NshResponses \cup CommandAcks \cup TerrainOrigins : x.kind \in BinaryKinds
    BY DEF NshResponses, CommandAcks, TerrainOrigins, BinaryKinds
<1>4. \A x \in ConfigResults \cup ResetResults : x.kind \in JsonKinds /\ "kind" \in DOMAIN x
    BY DEF ConfigResults, ResetResults, JsonKinds
<1>5. \A x \in PreflightStatuses \cup PreflightApplyResults :
          x.kind \in JsonKinds /\ "kind" \in DOMAIN x
    BY DEF PreflightStatuses, PreflightApplyResults, JsonKinds
<1>6. \A x \in SnapshotsCaptured \cup RestoreResults : x.kind \in JsonKinds /\ "kind" \in DOMAIN x
    BY DEF SnapshotsCaptured, RestoreResults, JsonKinds
<1>7. \A x \in DaemonCapabilities \cup TerrainNeeds : x.kind \in JsonKinds /\ "kind" \in DOMAIN x
    BY DEF DaemonCapabilities, TerrainNeeds, JsonKinds
<1>8. \A x \in Binaries : x.kind \in BinaryKinds
    BY <1>2, <1>3 DEF Binaries
<1>9. \A x \in Json : x.kind \in JsonKinds /\ "kind" \in DOMAIN x
    BY <1>4, <1>5, <1>6, <1>7 DEF Json
<1> QED BY <1>1, <1>8, <1>9

\* The kinds of the page's messages.
LEMMA IncomingKinds ==
    /\ \A x \in Commands : x.kind = "Command"
    /\ \A x \in NshCommands : x.kind = "NshCommand"
    /\ \A x \in TileFrames : x.kind = "TerrainTiles"
    /\ \A x \in ConfigureBuilds : x.kind = "ConfigureBuild"
    /\ \A x \in SnapshotsStored : x.kind = "SnapshotStored"
    /\ \A x \in RestoreSnapshots : x.kind = "RestoreSnapshot"
    /\ \A x \in Bare : x.kind \in BareKinds
<1>1. (\A x \in Commands : x.kind = "Command") /\ \A x \in NshCommands : x.kind = "NshCommand"
    BY DEF Commands, NshCommands
<1>2. \A x \in TileFrames : x.kind = "TerrainTiles"
    BY DEF TileFrames
<1>3. \A x \in ConfigureBuilds : x.kind = "ConfigureBuild"
    BY BuildsAssumption DEF ConfigureFields
<1>4. /\ \A x \in SnapshotsStored : x.kind = "SnapshotStored"
      /\ \A x \in RestoreSnapshots : x.kind = "RestoreSnapshot"
    BY DEF SnapshotsStored, RestoreSnapshots
<1>5. \A x \in Bare : x.kind \in BareKinds
    BY DEF Bare, BareKinds
<1> QED BY <1>1, <1>2, <1>3, <1>4, <1>5

\* A frame that says at its start what it is.
Tagged(d, t) == d \in Seq(Int) /\ Len(d) >= 1 /\ d[1] = t

\* What follows does not change it.
LEMMA TaggedBefore ==
    ASSUME NEW a, NEW t, Tagged(a, t), NEW b \in Seq(Int)
    PROVE  Tagged(a \o b, t) /\ Len(a \o b) = Len(a) + Len(b) /\ Len(b) \in Nat
<1>1. a \in Seq(Int) /\ Len(a) >= 1 /\ a[1] = t
    BY DEF Tagged
<1>2. /\ a \o b \in Seq(Int) /\ Len(a \o b) = Len(a) + Len(b) /\ Len(a) \in Nat /\ Len(b) \in Nat
      /\ \A i \in 1..Len(a) : (a \o b)[i] = a[i]
    BY <1>1, Joined
<1>3. 1 \in 1..Len(a)
    BY <1>1, <1>2
<1>4. Len(a \o b) >= 1
    BY <1>1, <1>2
<1> QED BY <1>1, <1>2, <1>3, <1>4 DEF Tagged

\* Strings are bytes.
LEMMA TextBytes == \A x \in Texts : x \in Seq(Int)
<1>1. Le(7, 2) \in Seq(Int)
    BY LeBytes
<1>2. <<>> \in Seq(Int)
    OBVIOUS
<1> QED BY <1>1, <1>2 DEF Texts

\* A value of four bytes, of eight and of two.
LEMMA ValueBytes ==
    ASSUME NEW v \in Nat
    PROVE  Le(v, 2) \in Seq(Int) /\ Le(v, 4) \in Seq(Int) /\ Le(v, 8) \in Seq(Int)
BY LeBytes

\* The daemon's frames of fixed fields and strings start with their tags.
LEMMA BinariesTagged ==
    ASSUME NEW m \in Binaries
    PROVE  m \notin StateUpdates /\ Tagged(OutgoingBytes(m), Tag[m.kind])
<1>0. m \notin StateUpdates
    BY OutgoingKinds DEF BinaryKinds
<1> DEFINE zero == <<0>>
<1>z. zero \in Seq(Int)
    OBVIOUS
<1> HIDE DEF zero
<1>1. CASE m \in HandshakeAcks
  <2>1. /\ m.kind = "HandshakeAck" /\ m.version = <<1, 2, 3>> /\ m.pixhawk_connected \in {0, 1}
        /\ m.serial_port \in Texts
      BY <1>1 DEF HandshakeAcks
  <2> DEFINE a == <<2>>
             b == m.version
             c == <<m.pixhawk_connected>>
             e == m.serial_port
  <2>2. Tagged(a, 2) /\ b \in Seq(Int) /\ c \in Seq(Int) /\ e \in Seq(Int)
      BY <2>1, TextBytes DEF Tagged
  <2>3. OutgoingBytes(m) = (((a \o b) \o c) \o e) \o zero /\ Tag[m.kind] = 2
    <3>1. Tag.HandshakeAck = 2 /\ Tag[m.kind] = 2
        BY <2>1 DEF Tag
    <3>2. OutgoingBytes(m) = HandshakeAckBytes(m)
        BY <2>1 DEF OutgoingBytes
    <3>3. HandshakeAckBytes(m) = (((a \o b) \o c) \o e) \o zero
        BY <3>1 DEF HandshakeAckBytes, zero
    <3> QED BY <3>1, <3>2, <3>3
  <2> HIDE DEF a, b, c, e
  <2>4. Tagged(a \o b, 2)
      BY <2>2, TaggedBefore
  <2>5. Tagged((a \o b) \o c, 2)
      BY <2>2, <2>4, TaggedBefore
  <2>6. Tagged(((a \o b) \o c) \o e, 2)
      BY <2>2, <2>5, TaggedBefore
  <2>7. Tagged((((a \o b) \o c) \o e) \o zero, 2)
      BY <1>z, <2>6, TaggedBefore
  <2> QED BY <1>0, <2>3, <2>7
<1>2. CASE m \in ConnectionStatuses
  <2>1. /\ m.kind = "ConnectionStatus" /\ m.connected \in {0, 1} /\ m.reconnecting \in {0, 1}
        /\ m.retry_count = 4 /\ m.serial_port \in Texts /\ m.fc_model \in {<<>>, Le(8, 2)}
        /\ m.bootloader_suspected \in {0, 1}
      BY <1>2 DEF ConnectionStatuses
  <2> DEFINE a == <<5, m.connected, m.reconnecting, m.retry_count>>
             b == m.serial_port
             c == m.fc_model
             e == <<m.bootloader_suspected>>
  <2>2. Tagged(a, 5) /\ b \in Seq(Int) /\ c \in Seq(Int) /\ e \in Seq(Int)
    <3>1. Le(8, 2) \in Seq(Int)
        BY ValueBytes
    <3>2. Tagged(a, 5)
        BY <2>1 DEF Tagged
    <3>3. c \in Seq(Int)
      <4>1. <<>> \in Seq(Int)
          OBVIOUS
      <4> QED BY <2>1, <3>1, <4>1
    <3>4. b \in Seq(Int) /\ e \in Seq(Int)
        BY <2>1, TextBytes
    <3> QED BY <3>2, <3>3, <3>4
  <2>3. OutgoingBytes(m) = ((((a \o b) \o zero) \o c) \o zero) \o e /\ Tag[m.kind] = 5
    <3>1. Tag.ConnectionStatus = 5 /\ Tag[m.kind] = 5
        BY <2>1 DEF Tag
    <3>2. OutgoingBytes(m) = ConnectionStatusBytes(m)
        BY <2>1 DEF OutgoingBytes
    <3>3. ConnectionStatusBytes(m) = ((((a \o b) \o zero) \o c) \o zero) \o e
        BY <3>1 DEF ConnectionStatusBytes, zero
    <3> QED BY <3>1, <3>2, <3>3
  <2> HIDE DEF a, b, c, e
  <2>4. Tagged(a \o b, 5)
      BY <2>2, TaggedBefore
  <2>5. Tagged((a \o b) \o zero, 5)
      BY <1>z, <2>4, TaggedBefore
  <2>6. Tagged(((a \o b) \o zero) \o c, 5)
      BY <2>2, <2>5, TaggedBefore
  <2>7. Tagged((((a \o b) \o zero) \o c) \o zero, 5)
      BY <1>z, <2>6, TaggedBefore
  <2>8. Tagged(((((a \o b) \o zero) \o c) \o zero) \o e, 5)
      BY <2>2, <2>7, TaggedBefore
  <2> QED BY <1>0, <2>3, <2>8
<1>3. CASE m \in VehicleMessages
  <2>1. m.kind = "VehicleMessage" /\ m.severity \in 0..7 /\ m.timestamp_ms = 33 /\ m.text \in Texts
      BY <1>3 DEF VehicleMessages
  <2> DEFINE a == <<6, m.severity>>
             b == Le(m.timestamp_ms, 4)
             c == m.text
  <2>2. Tagged(a, 6) /\ b \in Seq(Int) /\ c \in Seq(Int)
    <3>1. b \in Seq(Int)
        BY <2>1, ValueBytes
    <3> QED BY <2>1, <3>1, TextBytes DEF Tagged
  <2>3. OutgoingBytes(m) = ((a \o b) \o c) \o zero /\ Tag[m.kind] = 6
    <3>1. Tag.VehicleMessage = 6 /\ Tag[m.kind] = 6
        BY <2>1 DEF Tag
    <3>2. OutgoingBytes(m) = VehicleMessageBytes(m)
        BY <2>1 DEF OutgoingBytes
    <3>3. VehicleMessageBytes(m) = ((a \o b) \o c) \o zero
        BY <3>1 DEF VehicleMessageBytes, zero
    <3> QED BY <3>1, <3>2, <3>3
  <2> HIDE DEF a, b, c
  <2>4. Tagged(a \o b, 6)
      BY <2>2, TaggedBefore
  <2>5. Tagged((a \o b) \o c, 6)
      BY <2>2, <2>4, TaggedBefore
  <2>6. Tagged(((a \o b) \o c) \o zero, 6)
      BY <1>z, <2>5, TaggedBefore
  <2> QED BY <1>0, <2>3, <2>6
<1>4. CASE m \in NshResponses
  <2>1. /\ m.kind = "NshResponse" /\ m.request_id = 34 /\ m.success \in {0, 1}
        /\ m.complete \in {0, 1} /\ m.output \in Texts
      BY <1>4 DEF NshResponses
  <2> DEFINE a == <<4>>
             b == Le(m.request_id, 4)
             c == <<m.success, m.complete>>
             e == m.output
  <2>2. Tagged(a, 4) /\ b \in Seq(Int) /\ c \in Seq(Int) /\ e \in Seq(Int)
    <3>1. b \in Seq(Int)
        BY <2>1, ValueBytes
    <3> QED BY <2>1, <3>1, TextBytes DEF Tagged
  <2>3. OutgoingBytes(m) = (((a \o b) \o c) \o e) \o zero /\ Tag[m.kind] = 4
    <3>1. Tag.NshResponse = 4 /\ Tag[m.kind] = 4
        BY <2>1 DEF Tag
    <3>2. OutgoingBytes(m) = NshResponseBytes(m)
        BY <2>1 DEF OutgoingBytes
    <3>3. NshResponseBytes(m) = (((a \o b) \o c) \o e) \o zero
        BY <3>1 DEF NshResponseBytes, zero
    <3> QED BY <3>1, <3>2, <3>3
  <2> HIDE DEF a, b, c, e
  <2>4. Tagged(a \o b, 4)
      BY <2>2, TaggedBefore
  <2>5. Tagged((a \o b) \o c, 4)
      BY <2>2, <2>4, TaggedBefore
  <2>6. Tagged(((a \o b) \o c) \o e, 4)
      BY <2>2, <2>5, TaggedBefore
  <2>7. Tagged((((a \o b) \o c) \o e) \o zero, 4)
      BY <1>z, <2>6, TaggedBefore
  <2> QED BY <1>0, <2>3, <2>7
<1>5. CASE m \in CommandAcks
  <2>1. m.kind = "CommandAck" /\ m.command_id = 35 /\ m.success \in {0, 1} /\ m.error \in Texts
      BY <1>5 DEF CommandAcks, Texts
  <2> DEFINE a == <<3>>
             b == Le(m.command_id, 4)
             c == <<m.success>>
             e == m.error
             f == IF m.success = 1 THEN <<>> ELSE e \o zero
  <2>2. Tagged(a, 3) /\ b \in Seq(Int) /\ c \in Seq(Int) /\ e \in Seq(Int)
    <3>1. b \in Seq(Int)
        BY <2>1, ValueBytes
    <3> QED BY <2>1, <3>1, TextBytes DEF Tagged
  <2>3. OutgoingBytes(m) = ((a \o b) \o c) \o f /\ Tag[m.kind] = 3
    <3>1. Tag.CommandAck = 3 /\ Tag[m.kind] = 3
        BY <2>1 DEF Tag
    <3>2. OutgoingBytes(m) = CommandAckBytes(m)
        BY <2>1 DEF OutgoingBytes
    <3>3. CommandAckBytes(m) = ((a \o b) \o c) \o f
        BY <3>1 DEF CommandAckBytes, zero
    <3> QED BY <3>1, <3>2, <3>3
  <2> HIDE DEF a, b, c, e
  <2>4. f \in Seq(Int)
      BY <1>z, <2>2, Joined
  <2> HIDE DEF f
  <2>5. Tagged(a \o b, 3)
      BY <2>2, TaggedBefore
  <2>6. Tagged((a \o b) \o c, 3)
      BY <2>2, <2>5, TaggedBefore
  <2>7. Tagged(((a \o b) \o c) \o f, 3)
      BY <2>4, <2>6, TaggedBefore
  <2> QED BY <1>0, <2>3, <2>7
<1>6. CASE m \in TerrainOrigins
  <2>1. /\ m.kind = "TerrainOrigin" /\ m.ref_lat = 36 /\ m.ref_lon = 37 /\ m.ref_alt = 38
        /\ m.source \in 0..2
      BY <1>6 DEF TerrainOrigins
  <2> DEFINE a == <<9>>
             b == Le(m.ref_lat, 8)
             c == Le(m.ref_lon, 8)
             e == Le(m.ref_alt, 4)
             f == <<m.source>>
  <2>2. Tagged(a, 9) /\ b \in Seq(Int) /\ c \in Seq(Int) /\ e \in Seq(Int) /\ f \in Seq(Int)
    <3>1. b \in Seq(Int) /\ c \in Seq(Int) /\ e \in Seq(Int)
        BY <2>1, ValueBytes
    <3> QED BY <2>1, <3>1 DEF Tagged
  <2>3. OutgoingBytes(m) = (((a \o b) \o c) \o e) \o f /\ Tag[m.kind] = 9
    <3>1. Tag.TerrainOrigin = 9 /\ Tag[m.kind] = 9
        BY <2>1 DEF Tag
    <3>2. OutgoingBytes(m) = TerrainOriginBytes(m)
        BY <2>1 DEF OutgoingBytes
    <3>3. TerrainOriginBytes(m) = (((a \o b) \o c) \o e) \o f
        BY <3>1 DEF TerrainOriginBytes
    <3> QED BY <3>1, <3>2, <3>3
  <2> HIDE DEF a, b, c, e, f
  <2>4. Tagged(a \o b, 9)
      BY <2>2, TaggedBefore
  <2>5. Tagged((a \o b) \o c, 9)
      BY <2>2, <2>4, TaggedBefore
  <2>6. Tagged(((a \o b) \o c) \o e, 9)
      BY <2>2, <2>5, TaggedBefore
  <2>7. Tagged((((a \o b) \o c) \o e) \o f, 9)
      BY <2>2, <2>6, TaggedBefore
  <2> QED BY <1>0, <2>3, <2>7
<1> QED BY <1>1, <1>2, <1>3, <1>4, <1>5, <1>6 DEF Binaries

\* So do the page's binary requests; a command for the shell has bytes after its tag.
LEMMA RequestsTagged ==
    /\ \A m \in Commands : Tagged(CommandBytes(m), 16)
    /\ \A m \in NshCommands : Tagged(NshCommandBytes(m), 18) /\ Len(NshCommandBytes(m)) >= 2
<1>1. ASSUME NEW m \in Commands PROVE Tagged(CommandBytes(m), 16)
  <2>1. PICK t \in DOMAIN CommandType, alt \in Option(42), mode \in Option(5) :
            m = [kind |-> "Command", command_id |-> 41, command_type |-> t,
                 takeoff_altitude |-> alt, set_mode_value |-> mode]
      BY DEF Commands
  <2> DEFINE a == <<16>>
             b == Le(41, 4)
             c == <<CommandType[t]>>
             x == IF t = "Takeoff" THEN alt ELSE <<>>
             y == IF t = "SetMode" THEN mode ELSE <<>>
  <2>2. CommandBytes(m) = (((a \o b) \o c) \o Floats(x)) \o y
    <3>1. /\ Meant(m).takeoff_altitude = x /\ Meant(m).set_mode_value = y
          /\ m.command_id = 41 /\ m.command_type = t
        BY <2>1 DEF Meant
    <3>2. Tag.Command = 16
        BY DEF Tag
    <3> HIDE DEF x, y
    <3> QED BY <3>1, <3>2 DEF CommandBytes
  <2>3. x \in {<<>>, <<42>>} /\ y \in {<<>>, <<5>>} /\ CommandType[t] \in Int
      BY DEF Option, CommandType
  <2>4. x \in Seq(Nat) /\ y \in Seq(Int) /\ c \in Seq(Int)
    <3>1. <<>> \in Seq(Nat) /\ <<42>> \in Seq(Nat) /\ <<>> \in Seq(Int) /\ <<5>> \in Seq(Int)
        OBVIOUS
    <3>2. c \in Seq(Int)
      <4> DEFINE v == CommandType[t]
      <4>1. v \in Int
          BY <2>3
      <4> HIDE DEF v
      <4>2. <<v>> \in Seq(Int)
          BY <4>1
      <4> QED BY <4>2 DEF v
    <3> HIDE DEF x, y, c
    <3> QED BY <2>3, <3>1, <3>2
  <2> HIDE DEF x, y
  <2>5. Floats(x) \in Seq(Int) /\ b \in Seq(Int) /\ Tagged(a, 16)
    <3>1. Floats(x) \in Seq(Int)
        BY <2>4, FloatsPlaced
    <3>2. b \in Seq(Int)
        BY ValueBytes
    <3> QED BY <3>1, <3>2 DEF Tagged
  <2> HIDE DEF a, b, c
  <2>6. Tagged(a \o b, 16)
      BY <2>5, TaggedBefore
  <2>7. Tagged((a \o b) \o c, 16)
      BY <2>4, <2>6, TaggedBefore
  <2>8. Tagged(((a \o b) \o c) \o Floats(x), 16)
      BY <2>5, <2>7, TaggedBefore
  <2>9. Tagged((((a \o b) \o c) \o Floats(x)) \o y, 16)
      BY <2>4, <2>8, TaggedBefore
  <2> QED BY <2>2, <2>9
<1>2. ASSUME NEW m \in NshCommands
      PROVE  Tagged(NshCommandBytes(m), 18) /\ Len(NshCommandBytes(m)) >= 2
  <2>1. m.request_id = 43 /\ m.timeout_ms = 44 /\ m.command \in Texts
      BY DEF NshCommands
  <2> DEFINE a == <<18>>
             b == Le(43, 4)
             c == Le(44, 2)
             e == m.command
             zero == <<0>>
             d == ((a \o b) \o c) \o e
  <2>2. NshCommandBytes(m) = d \o zero
    <3>1. Tag.NshCommand = 18
        BY DEF Tag
    <3> QED BY <2>1, <3>1 DEF NshCommandBytes
  <2>3. b \in Seq(Int) /\ c \in Seq(Int) /\ e \in Seq(Int)
      BY <2>1, ValueBytes, TextBytes
  <2>4. zero \in Seq(Int) /\ Len(zero) = 1 /\ Tagged(a, 18)
      BY DEF Tagged
  <2> HIDE DEF a, b, c, e, zero
  <2>5. Tagged(a \o b, 18)
      BY <2>3, <2>4, TaggedBefore
  <2>6. Tagged((a \o b) \o c, 18)
      BY <2>3, <2>5, TaggedBefore
  <2>7. Tagged(d, 18)
      BY <2>3, <2>6, TaggedBefore
  <2> HIDE DEF d
  <2>8. Tagged(d \o zero, 18) /\ Len(d \o zero) = Len(d) + 1
      BY <2>4, <2>7, TaggedBefore
  <2>9. Len(d) >= 1 /\ Len(d) \in Nat
      BY <2>7, LenProperties DEF Tagged
  <2>10. Len(d \o zero) >= 2
      BY <2>8, <2>9
  <2> QED BY <2>2, <2>8, <2>10
<1> QED BY <1>1, <1>2

\* A byte less at the end, or one more, does not change what a frame is.
LEMMA TaggedStill ==
    ASSUME NEW d, NEW t, Tagged(d, t)
    PROVE  Tagged(Append(d, 77), t) /\ (Len(d) >= 2 => Tagged(Front(d), t))
<1>1. d \in Seq(Int) /\ Len(d) >= 1 /\ d[1] = t /\ Len(d) \in Nat
    BY LenProperties DEF Tagged
<1>2. Tagged(Append(d, 77), t)
  <2>1. /\ Append(d, 77) \in Seq(Int) /\ Len(Append(d, 77)) = Len(d) + 1
        /\ \A i \in 1..Len(d) : Append(d, 77)[i] = d[i]
      BY <1>1, AppendProperties
  <2>2. 1 \in 1..Len(d) /\ Len(d) + 1 >= 1
      BY <1>1
  <2> QED BY <1>1, <2>1, <2>2 DEF Tagged
<1>3. ASSUME Len(d) >= 2 PROVE Tagged(Front(d), t)
  <2> DEFINE k == Len(d) - 1
             s == SubSeq(d, 1, k)
  <2>1. Front(d) = s
      BY DEF Front
  <2>2. k \in Nat /\ 1 <= k /\ k <= Len(d)
      BY <1>1, <1>3
  <2> HIDE DEF k
  <2>3. \A i \in 1..k : i \in 1..Len(d)
      BY <1>1, <2>2
  <2>4. /\ s \in Seq(Int) /\ Len(s) = IF 1 <= k THEN k - 1 + 1 ELSE 0
        /\ \A i \in 1..(k - 1 + 1) : s[i] = d[1 + i - 1]
      BY <1>1, <2>2, <2>3, SubSeqProperties
  <2> HIDE DEF s
  <2>5. Len(s) >= 1 /\ s[1] = d[1]
    <3>1. 1 \in 1..(k - 1 + 1) /\ 1 + 1 - 1 = 1
        BY <2>2
    <3> QED BY <2>2, <2>4, <3>1
  <2> QED BY <1>1, <2>1, <2>4, <2>5 DEF Tagged
<1> QED BY <1>2, <1>3

\* The page takes a frame for the kind that its tag names.
LEMMA BrowserKind ==
    ASSUME NEW m \in Binaries, NEW d, Tagged(d, Tag[m.kind])
    PROVE  BrowserRead(d).kind = m.kind
<1>1. m.kind \in BinaryKinds /\ d[1] = Tag[m.kind]
    BY OutgoingKinds DEF Tagged
<1>2. /\ Tag.HandshakeAck = 2 /\ Tag.ConnectionStatus = 5 /\ Tag.VehicleMessage = 6
      /\ Tag.NshResponse = 4 /\ Tag.CommandAck = 3 /\ Tag.TerrainOrigin = 9
    BY DEF Tag
<1>3. CASE m.kind = "HandshakeAck"
    BY <1>1, <1>2, <1>3 DEF BrowserRead
<1>4. CASE m.kind = "ConnectionStatus"
    BY <1>1, <1>2, <1>4 DEF BrowserRead
<1>5. CASE m.kind = "VehicleMessage"
    BY <1>1, <1>2, <1>5 DEF BrowserRead
<1>6. CASE m.kind = "NshResponse"
    BY <1>1, <1>2, <1>6 DEF BrowserRead
<1>7. CASE m.kind = "CommandAck"
    BY <1>1, <1>2, <1>7 DEF BrowserRead
<1>8. CASE m.kind = "TerrainOrigin"
    BY <1>1, <1>2, <1>8 DEF BrowserRead
<1> QED BY <1>1, <1>3, <1>4, <1>5, <1>6, <1>7, <1>8 DEF BinaryKinds

\* A message of JSON says its kind, and a reader of its keys finds it.
LEMMA JsonKind ==
    ASSUME NEW m, NEW keys, "kind" \in DOMAIN m, "kind" \in keys, "kind" \notin MayBeAbsent(m.kind)
    PROVE  /\ Len(JsonBytes(m)) = 2 /\ JsonBytes(m)[1] = Tag[m.kind]
           /\ JsonBytes(m)[2].kind = m.kind
           /\ JsonBytes(m) # <<>>
           /\ \/ JsonFrom(JsonBytes(m), keys) = Invalid
              \/ JsonFrom(JsonBytes(m), keys).kind = m.kind
<1> DEFINE body == [key \in {k \in DOMAIN m : k \in MayBeAbsent(m.kind) => m[k] # <<>>} |-> m[key]]
           d == JsonBytes(m)
<1>1. d = <<Tag[m.kind], body>>
    BY DEF JsonBytes
<1>2. "kind" \in DOMAIN body /\ body.kind = m.kind
    OBVIOUS
<1> HIDE DEF body
<1>3. Len(d) = 2 /\ d[1] = Tag[m.kind] /\ d[2] = body /\ d # <<>>
    BY <1>1
<1> HIDE DEF d
<1>4. ~(Len(d) < 2)
    BY <1>3
<1>5. \/ JsonFrom(d, keys) = Invalid
      \/ JsonFrom(d, keys) =
            [key \in keys |-> IF key \in DOMAIN d[2] THEN d[2][key] ELSE DefaultOf(key)]
    BY <1>4 DEF JsonFrom
<1>6. JsonFrom(d, keys) = Invalid \/ JsonFrom(d, keys).kind = m.kind
    BY <1>2, <1>3, <1>5
<1> QED BY <1>2, <1>3, <1>6 DEF d

\* How a peer of some version lays a message out: a tag first, or the body of its JSON, or
\* tiles in one of their two layouts.
Framed(m, d) ==
    /\ m \in Binaries \cup Commands \cup NshCommands => Tagged(d, Tag[m.kind])
    /\ m \in Bare => d = <<Tag[m.kind]>>
    /\ m \in Json \cup ConfigureBuilds \cup SnapshotsStored \cup RestoreSnapshots
            => d = JsonBytes(m)
    /\ m \in TileFrames => TilesLaid(m, d)

\* No message of the page is one of the daemon's.
LEMMA Apart == \A m \in Incoming : m \notin Outgoing
<1>1. \A m \in Outgoing : m.kind \in {"StateUpdate"} \cup BinaryKinds \cup JsonKinds
    BY OutgoingKinds DEF Outgoing, Binaries
<1>2. \A m \in Incoming :
          m.kind \in {"Command", "NshCommand", "TerrainTiles", "ConfigureBuild", "SnapshotStored",
                      "RestoreSnapshot"} \cup BareKinds
    BY IncomingKinds DEF Incoming
<1> QED BY <1>1, <1>2 DEF BinaryKinds, JsonKinds, BareKinds

\* A peer of this version frames what it sends.
LEMMA ThisVersionFrames ==
    ASSUME NEW m \in Outgoing \cup Incoming
    PROVE  Framed(m, ThisVersion(m))
<1>1. ASSUME m \in Binaries PROVE Tagged(ThisVersion(m), Tag[m.kind])
  <2>1. m \in Outgoing
      BY <1>1 DEF Binaries, Outgoing
  <2> QED BY <1>1, <2>1, BinariesTagged DEF ThisVersion
<1>2. ASSUME m \in Json PROVE ThisVersion(m) = JsonBytes(m)
  <2>1. m \in Outgoing /\ m.kind \in JsonKinds
      BY <1>2, OutgoingKinds DEF Outgoing
  <2>2. OutgoingBytes(m) = JsonBytes(m)
      BY <2>1 DEF OutgoingBytes, JsonKinds
  <2> QED BY <2>1, <2>2 DEF ThisVersion
<1>3. ASSUME m \in Incoming PROVE ThisVersion(m) = PageBytes(m)
    BY <1>3, Apart DEF ThisVersion
<1>4. ASSUME m \in Commands PROVE Tagged(ThisVersion(m), Tag[m.kind])
  <2>1. m \in Incoming /\ m.kind = "Command" /\ Tag.Command = 16
      BY <1>4, IncomingKinds DEF Incoming, Tag
  <2>2. PageBytes(m) = CommandBytes(m)
      BY <2>1 DEF PageBytes
  <2> QED BY <1>3, <1>4, <2>1, <2>2, RequestsTagged
<1>5. ASSUME m \in NshCommands PROVE Tagged(ThisVersion(m), Tag[m.kind])
  <2>1. m \in Incoming /\ m.kind = "NshCommand" /\ Tag.NshCommand = 18
      BY <1>5, IncomingKinds DEF Incoming, Tag
  <2>2. PageBytes(m) = NshCommandBytes(m)
      BY <2>1 DEF PageBytes
  <2> QED BY <1>3, <1>5, <2>1, <2>2, RequestsTagged
<1>6. ASSUME m \in TileFrames PROVE ThisVersion(m) = TerrainTilesBytes(m)
  <2>1. m \in Incoming /\ m.kind = "TerrainTiles"
      BY <1>6, IncomingKinds DEF Incoming
  <2>2. PageBytes(m) = TerrainTilesBytes(m)
      BY <2>1 DEF PageBytes
  <2> QED BY <1>3, <2>1, <2>2
<1>7. ASSUME m \in ConfigureBuilds \cup SnapshotsStored \cup RestoreSnapshots
      PROVE  ThisVersion(m) = JsonBytes(m)
  <2>1. m \in Incoming /\ m.kind \in {"ConfigureBuild", "SnapshotStored", "RestoreSnapshot"}
      BY <1>7, IncomingKinds DEF Incoming
  <2>2. PageBytes(m) = JsonBytes(m)
      BY <2>1 DEF PageBytes
  <2> QED BY <1>3, <2>1, <2>2
<1>8. ASSUME m \in Bare PROVE ThisVersion(m) = <<Tag[m.kind]>>
  <2>1. m \in Incoming /\ m.kind \in BareKinds
      BY <1>8, IncomingKinds DEF Incoming
  <2>2. PageBytes(m) = <<Tag[m.kind]>>
      BY <2>1 DEF PageBytes, BareKinds
  <2> QED BY <1>3, <2>1, <2>2
<1>9. ASSUME m \in TileFrames PROVE TilesLaid(m, ThisVersion(m))
    BY <1>6, <1>9 DEF TilesLaid
<1> QED BY <1>1, <1>2, <1>4, <1>5, <1>7, <1>8, <1>9 DEF Framed

\* What a message of a kind is.
LEMMA ByKind ==
    ASSUME NEW m \in Outgoing \cup Incoming
    PROVE  /\ m.kind = "TerrainTiles" => m \in TileFrames
           /\ m.kind = "ConfigureBuild" => m \in ConfigureBuilds
           /\ m.kind = "NshCommand" => m \in NshCommands
           /\ m.kind \in {"TerrainTiles", "StateUpdate", "Command", "NshCommand", "ConnectionStatus"}
                => m \notin Json \cup ConfigureBuilds \cup SnapshotsStored \cup RestoreSnapshots
                            \cup Bare
           /\ m.kind \in {"StateUpdate", "Command", "NshCommand", "ConnectionStatus"}
                => m \notin TileFrames
           /\ m.kind \in {"StateUpdate", "TerrainTiles"}
                => m \notin Binaries \cup Commands \cup NshCommands
<1>1. \/ m \in StateUpdates \/ m \in Binaries \/ m \in Json \/ m \in Commands \/ m \in NshCommands
      \/ m \in TileFrames \/ m \in ConfigureBuilds \/ m \in SnapshotsStored
      \/ m \in RestoreSnapshots \/ m \in Bare
    BY DEF Outgoing, Incoming, Binaries
<1> QED BY <1>1, OutgoingKinds, IncomingKinds DEF BinaryKinds, JsonKinds, BareKinds

\* The ways in which a peer of some version lays a message out.
LaidOut(m, d) ==
    \/ d = ThisVersion(m)
    \/ m.kind = "TerrainTiles" /\ TilesLaid(m, d)
    \/ /\ m.kind = "StateUpdate"
       /\ \E n \in {85, 86, 87, 95} :
             n < Len(OutgoingBytes(m)) /\ d = SubSeq(OutgoingBytes(m), 1, n)
    \/ /\ m.kind \in {"StateUpdate", "Command", "NshCommand", "ConnectionStatus"}
       /\ Complete(m)
       /\ m.kind = "StateUpdate" => m.board_stall # <<>>
       /\ d = Append(ThisVersion(m), 77)
    \/ m.kind = "NshCommand" /\ d = Front(PageBytes(m))

\* However it is laid out, a message is framed as its kind is.
LEMMA LaidOutFrames ==
    ASSUME NEW m \in Outgoing \cup Incoming, NEW d, LaidOut(m, d)
    PROVE  Framed(m, d)
<1>1. CASE d = ThisVersion(m)
    BY <1>1, ThisVersionFrames
<1>2. CASE m.kind = "TerrainTiles" /\ TilesLaid(m, d)
    BY <1>2, ByKind DEF Framed
<1>3. CASE m.kind = "StateUpdate"
    BY <1>3, ByKind DEF Framed
<1>4. CASE /\ m.kind \in {"StateUpdate", "Command", "NshCommand", "ConnectionStatus"}
           /\ d = Append(ThisVersion(m), 77)
  <2>1. ASSUME m \in Binaries \cup Commands \cup NshCommands
        PROVE  Tagged(Append(ThisVersion(m), 77), Tag[m.kind])
    <3>1. Tagged(ThisVersion(m), Tag[m.kind])
        BY <2>1, ThisVersionFrames DEF Framed
    <3> QED BY <3>1, TaggedStill
  <2> QED BY <1>4, <2>1, ByKind DEF Framed
<1>5. CASE m.kind = "NshCommand" /\ d = Front(PageBytes(m))
  <2>1. m \in NshCommands
      BY <1>5, ByKind
  <2>2. PageBytes(m) = NshCommandBytes(m) /\ Tag[m.kind] = 18
      BY <1>5 DEF PageBytes, Tag
  <2>3. Tagged(Front(NshCommandBytes(m)), 18)
      BY <2>1, RequestsTagged, TaggedStill
  <2> QED BY <1>5, <2>2, <2>3, ByKind DEF Framed
<1> QED BY <1>1, <1>2, <1>3, <1>4, <1>5 DEF LaidOut

\* What is on the wire is the message as some peer lays it out, and what was made of it is
\* what its reader makes of that.
WireInv ==
    /\ sent \in Outgoing \cup Incoming
    /\ frame # <<>> => LaidOut(sent, frame) /\ Framed(sent, frame)
    /\ got = <<>> \/ (frame # <<>> /\ got = <<Reader>>)

\* Nothing is on the wire yet.
LEMMA WireInit == Init => WireInv
BY DEF Init, WireInv

\* Every peer, older or newer, lays out what it sends in one of those ways.
LEMMA WireStep == WireInv /\ [Next]_vars => WireInv'
<1> SUFFICES ASSUME WireInv, [Next]_vars PROVE WireInv'
    OBVIOUS
<1>1. sent' = sent /\ sent \in Outgoing \cup Incoming
    BY DEF Next, vars, Write, WritePadded, WriteStray, WriteOld, WriteNew, WriteUnterminated, Read,
           WireInv
<1>2. frame = <<>> => got = <<>>
    BY DEF WireInv
<1>3. ASSUME frame = <<>>, got' = got, LaidOut(sent, frame') PROVE WireInv'
  <2>1. Framed(sent, frame')
      BY <1>1, <1>3, LaidOutFrames
  <2> QED BY <1>1, <1>2, <1>3, <2>1 DEF WireInv
<1>4. CASE Write
    BY <1>3, <1>4 DEF Write, LaidOut
<1>5. CASE WritePadded
    BY <1>3, <1>5 DEF WritePadded, LaidOut, TilesLaid
<1>s. ASSUME NEW filler \in 0..3, NEW tail \in 0..3, WriteStray(filler, tail) PROVE WireInv'
    BY <1>3, <1>s DEF WriteStray, LaidOut, TilesLaid
<1>6. ASSUME NEW n \in {MinSize - 1, MinSize, LegacySize, LoadSize}, WriteOld(n) PROVE WireInv'
  <2>1. n \in {85, 86, 87, 95}
      BY DEF MinSize, LegacySize, LoadSize
  <2> QED BY <1>3, <1>6, <2>1 DEF WriteOld, LaidOut
<1>7. CASE WriteNew
    BY <1>3, <1>7 DEF WriteNew, LaidOut
<1>8. CASE WriteUnterminated
    BY <1>3, <1>8 DEF WriteUnterminated, LaidOut
<1>9. ASSUME frame' = frame PROVE Reader' = Reader
    BY <1>1, <1>9 DEF Reader
<1>10. CASE Read
  <2>1. frame # <<>> /\ got' = <<Reader>> /\ frame' = frame
      BY <1>10 DEF Read
  <2> QED BY <1>1, <1>9, <2>1 DEF WireInv
<1>11. CASE UNCHANGED vars
  <2>1. got' = got /\ frame' = frame
      BY <1>11 DEF vars
  <2> QED BY <1>1, <1>9, <2>1 DEF WireInv
<1> QED BY <1>4, <1>5, <1>s, <1>6, <1>7, <1>8, <1>10, <1>11 DEF Next

\* A request of the page is read as one of its kind.
LEMMA IncomingKind ==
    ASSUME NEW m \in Incoming, NEW d, d # <<>>, Framed(m, d)
    PROVE  Rejected(IncomingFrom(d, m)) \/ IncomingFrom(d, m).kind = m.kind
<1> USE DEF Rejected
<1>t. /\ Tag.Command = 16 /\ Tag.NshCommand = 18 /\ Tag.TerrainTiles = 24 /\ Tag.ConfigureBuild = 19
      /\ Tag.SnapshotStored = 22 /\ Tag.RestoreSnapshot = 23 /\ Tag.Handshake = 17
      /\ Tag.Shutdown = 7 /\ Tag.RequestPreflightCheck = 20 /\ Tag.ApplyPreflightParams = 21
    BY DEF Tag
<1>f. /\ "refused" \in DOMAIN TooShort /\ "refused" \in DOMAIN UnknownType
      /\ "refused" \in DOMAIN Invalid /\ "refused" \in DOMAIN Failed("InvalidCommandType")
    BY DEF TooShort, UnknownType, Invalid, Failed
<1>1. CASE m \in Commands
  <2>1. d[1] = 16 /\ m.kind = "Command"
      BY <1>1, <1>t, IncomingKinds DEF Framed, Tagged
  <2>2. IncomingFrom(d, m) = CommandFrom(d)
      BY <1>t, <2>1 DEF IncomingFrom
  <2>3. \/ CommandFrom(d) \in {TooShort, UnknownType, Invalid, Failed("InvalidCommandType")}
        \/ CommandFrom(d).kind = "Command"
      BY DEF CommandFrom
  <2> QED BY <1>f, <2>1, <2>2, <2>3
<1>2. CASE m \in NshCommands
  <2>1. d[1] = 18 /\ m.kind = "NshCommand"
      BY <1>2, <1>t, IncomingKinds DEF Framed, Tagged
  <2>2. IncomingFrom(d, m) = NshCommandFrom(d)
      BY <1>t, <2>1 DEF IncomingFrom
  <2>3. NshCommandFrom(d) \in {TooShort, UnknownType} \/ NshCommandFrom(d).kind = "NshCommand"
      BY DEF NshCommandFrom
  <2> QED BY <1>f, <2>1, <2>2, <2>3
<1>3. CASE m \in TileFrames
  <2>1. TilesLaid(m, d)
      BY <1>3 DEF Framed
  <2>2. d[1] = 24 /\ (Rejected(TerrainTilesFrom(d, m)) \/ TerrainTilesFrom(d, m).kind = m.kind)
      BY <1>3, <2>1, TilesTaken
  <2>3. IncomingFrom(d, m) = TerrainTilesFrom(d, m)
      BY <1>t, <2>2 DEF IncomingFrom
  <2> QED BY <2>2, <2>3
<1>4. CASE m \in ConfigureBuilds
  <2> DEFINE c == CHOOSE x \in ConfigureBuilds : TRUE
  <2>1. c \in ConfigureBuilds
      BY <1>4
  <2>2. "kind" \in DOMAIN c /\ "kind" \in DOMAIN m /\ m.kind = "ConfigureBuild"
      BY <1>4, <2>1, BuildsAssumption, IncomingKinds DEF ConfigureFields
  <2>3. "kind" \notin MayBeAbsent(m.kind)
      BY <2>2 DEF MayBeAbsent
  <2>4. d = JsonBytes(m)
      BY <1>4 DEF Framed
  <2> HIDE DEF c
  <2>5. /\ d[1] = Tag[m.kind]
        /\ JsonFrom(d, DOMAIN c) = Invalid \/ JsonFrom(d, DOMAIN c).kind = m.kind
      BY <2>2, <2>3, <2>4, JsonKind
  <2>6. IncomingFrom(d, m) = JsonFrom(d, DOMAIN c)
      BY <1>t, <2>2, <2>5 DEF IncomingFrom, ConfigureBuildFrom, c
  <2> QED BY <1>f, <2>5, <2>6
<1>5. CASE m \in SnapshotsStored
  <2> DEFINE keys == {"kind", "board_identity", "stored", "error"}
  <2>2. "kind" \in keys /\ "kind" \in DOMAIN m /\ m.kind = "SnapshotStored"
      BY <1>5 DEF SnapshotsStored
  <2>3. "kind" \notin MayBeAbsent(m.kind)
      BY <2>2 DEF MayBeAbsent
  <2>4. d = JsonBytes(m)
      BY <1>5 DEF Framed
  <2> HIDE DEF keys
  <2>5. /\ d[1] = Tag[m.kind]
        /\ JsonFrom(d, keys) = Invalid \/ JsonFrom(d, keys).kind = m.kind
      BY <2>2, <2>3, <2>4, JsonKind
  <2>6. IncomingFrom(d, m) = JsonFrom(d, keys)
      BY <1>t, <2>2, <2>5 DEF IncomingFrom, SnapshotStoredFrom, keys
  <2> QED BY <1>f, <2>5, <2>6
<1>6. CASE m \in RestoreSnapshots
  <2> DEFINE keys == {"kind", "board_identity", "params"}
  <2>2. "kind" \in keys /\ "kind" \in DOMAIN m /\ m.kind = "RestoreSnapshot"
      BY <1>6 DEF RestoreSnapshots
  <2>3. "kind" \notin MayBeAbsent(m.kind)
      BY <2>2 DEF MayBeAbsent
  <2>4. d = JsonBytes(m)
      BY <1>6 DEF Framed
  <2> HIDE DEF keys
  <2>5. /\ d[1] = Tag[m.kind]
        /\ JsonFrom(d, keys) = Invalid \/ JsonFrom(d, keys).kind = m.kind
      BY <2>2, <2>3, <2>4, JsonKind
  <2>6. IncomingFrom(d, m) = JsonFrom(d, keys)
      BY <1>t, <2>2, <2>5 DEF IncomingFrom, RestoreSnapshotFrom, keys
  <2> QED BY <1>f, <2>5, <2>6
<1>7. CASE m \in Bare
  <2>1. d[1] = Tag[m.kind] /\ m.kind \in BareKinds
      BY <1>7, IncomingKinds DEF Framed
  <2> DEFINE r == CHOOSE x \in Bare : Tag[x.kind] = d[1]
  <2>2. r \in Bare /\ Tag[r.kind] = d[1]
      BY <1>7, <2>1
  <2>3. r.kind \in BareKinds
      BY <2>2, IncomingKinds
  <2>4. d[1] \notin {16, 18, 24, 19, 22, 23}
      BY <1>t, <2>1 DEF BareKinds
  <2>5. IncomingFrom(d, m) = r
      BY <1>7, <1>t, <2>1, <2>4 DEF IncomingFrom
  <2> HIDE DEF r
  <2>6. r.kind = m.kind
      BY <1>t, <2>1, <2>2, <2>3 DEF BareKinds
  <2> QED BY <2>5, <2>6
<1> QED BY <1>1, <1>2, <1>3, <1>4, <1>5, <1>6, <1>7 DEF Incoming

\* A frame is refused, or it is read as a message of the kind that was sent.
LEMMA ReaderKind ==
    ASSUME sent \in Outgoing \cup Incoming, frame # <<>>, Framed(sent, frame)
    PROVE  Rejected(Reader) \/ Reader.kind = sent.kind
<1> USE DEF Rejected
<1>f. /\ "refused" \in DOMAIN TooShort /\ "refused" \in DOMAIN UnknownType
      /\ "refused" \in DOMAIN Invalid
    BY DEF TooShort, UnknownType, Invalid, Failed
<1>1. CASE sent \in Incoming
    BY <1>1, IncomingKind DEF Reader
<1>2. CASE sent \in StateUpdates
  <2>1. sent \notin Incoming /\ sent.kind = "StateUpdate"
      BY <1>2, Apart, OutgoingKinds DEF Outgoing
  <2>2. Reader = StateUpdateFrom(frame)
      BY <2>1 DEF Reader
  <2>3. \A load, stall : StateUpdateOf(frame, load, stall).kind = "StateUpdate"
      BY DEF StateUpdateOf
  <2>4. \/ StateUpdateFrom(frame) \in {TooShort, UnknownType}
        \/ \E load, stall : StateUpdateFrom(frame) = StateUpdateOf(frame, load, stall)
    <3> DEFINE load == Len(frame) >= LoadSize
               stall == IF Len(frame) >= StallSize THEN <<frame[96]>> ELSE <<>>
               u == StateUpdateOf(frame, load, stall)
    <3>1. u = StateUpdateOf(frame, load, stall)
        OBVIOUS
    <3>2. StateUpdateFrom(frame) \in {TooShort, UnknownType, u}
        BY DEF StateUpdateFrom
    <3> HIDE DEF u, load, stall
    <3> QED BY <3>1, <3>2
  <2> QED BY <1>f, <2>1, <2>2, <2>3, <2>4
<1>3. CASE sent \in Json
  <2>1. sent \notin Incoming /\ sent.kind \in JsonKinds /\ "kind" \in DOMAIN sent
      BY <1>3, Apart, OutgoingKinds DEF Outgoing
  <2>2. Reader = JsonFrom(JsonBytes(sent), DOMAIN sent)
      BY <1>3, <2>1 DEF Reader, Framed, JsonKinds
  <2>3. "kind" \notin MayBeAbsent(sent.kind)
      BY <2>1 DEF MayBeAbsent, JsonKinds
  <2> QED BY <1>f, <2>1, <2>2, <2>3, JsonKind
<1>4. CASE sent \in Binaries
  <2>1. sent \in Outgoing
      BY <1>4 DEF Outgoing, Binaries
  <2>2. sent \notin Incoming /\ sent.kind # "StateUpdate" /\ sent \notin Json
      BY <1>4, <2>1, Apart, OutgoingKinds DEF BinaryKinds, JsonKinds
  <2>3. Reader = BrowserRead(frame)
      BY <2>2 DEF Reader
  <2> QED BY <1>4, <2>3, BrowserKind DEF Framed
<1> QED BY <1>1, <1>2, <1>3, <1>4 DEF Outgoing, Binaries

\* What is accepted is of the kind that was sent.
KindKept == Accepted => got[1].kind = sent.kind

\* A message is never taken for one of another kind, whatever the version of its sender: a
\* command for a build, a build for a parameter restore (Message::from_bytes and the readers
\* it dispatches to).
THEOREM NeverAnotherKind == Spec => []KindKept
<1>1. WireInv => KindKept
  <2> SUFFICES ASSUME WireInv, Accepted PROVE got[1].kind = sent.kind
      BY DEF KindKept
  <2>1. got # <<>> /\ ~Rejected(got[1])
      BY DEF Accepted, Rejected
  <2>2. frame # <<>> /\ got[1] = Reader
      BY <2>1 DEF WireInv
  <2> QED BY <2>1, <2>2, ReaderKind DEF WireInv
<1> QED BY <1>1, WireInit, WireStep, PTL DEF Spec

\* The reader knows a frame of tiles by its tag.
LEMMA TilesReader ==
    ASSUME sent \in TileFrames, TilesLaid(sent, frame)
    PROVE  Reader = TerrainTilesFrom(frame, sent)
<1>1. frame # <<>> /\ frame[1] = 24
    BY TilesTaken
<1>2. sent \in Incoming
    BY DEF Incoming
<1>3. Reader = IncomingFrom(frame, sent)
    BY <1>2 DEF Reader
<1>4. /\ Tag.Command = 16 /\ Tag.NshCommand = 18 /\ Tag.TerrainTiles = 24 /\ Tag.ConfigureBuild = 19
      /\ Tag.SnapshotStored = 22 /\ Tag.RestoreSnapshot = 23
    BY DEF Tag
<1>5. IncomingFrom(frame, sent) = TerrainTilesFrom(frame, sent)
    BY <1>1, <1>4 DEF IncomingFrom
<1> QED BY <1>3, <1>5

\* Tiles that were read were in one of the two layouts, or as long as in one.
LEMMA TilesFound == WireInv => TilesPlacedOnce
<1> SUFFICES ASSUME WireInv, got # <<>>, sent.kind = "TerrainTiles"
             PROVE  /\ (Placed /\ Complete(sent)) => got[1] = sent
                    /\ Accepted => (Placed /\ got[1] = sent) \/ Shifted
                    /\ got[1] = Panicked => ~Placed /\ sent.coords = 0
    BY DEF TilesPlacedOnce
<1>1. sent \in TileFrames /\ frame # <<>> /\ got = <<Reader>> /\ TilesLaid(sent, frame)
    BY ByKind DEF WireInv, Framed
<1>2. got[1] = TerrainTilesFrom(frame, sent)
    BY <1>1, TilesReader
<1>3. Rejected(Invalid) /\ Rejected(TooShort) /\ Rejected(Panicked)
    BY DEF Rejected, Invalid, TooShort, Failed, Panicked
<1>4. Accepted => ~Rejected(got[1])
    BY DEF Accepted, Rejected
<1>5. CASE Placed
  <2>1. got[1] \in {sent, Invalid, TooShort} /\ (Complete(sent) => got[1] = sent)
      BY <1>1, <1>2, <1>5, TilesRead DEF Placed
  <2>2. Panicked \notin {sent, Invalid, TooShort}
    <3>1. "refused" \notin DOMAIN Panicked /\ "kind" \notin DOMAIN Panicked
        BY DEF Panicked
    <3>2. "refused" \in DOMAIN Invalid /\ "refused" \in DOMAIN TooShort
        BY DEF Invalid, TooShort, Failed
    <3>3. "kind" \in DOMAIN sent
        BY <1>1, TileFrameFields
    <3> QED BY <3>1, <3>2, <3>3
  <2> QED BY <1>3, <1>4, <1>5, <2>1, <2>2
<1>6. CASE ~Placed
  <2>1. PICK f \in 0..3, t \in 0..3 : f + t \in 1..3 /\ frame = StrayTilesBytes(sent, f, t)
      BY <1>1, <1>6 DEF TilesLaid, Placed
  <2>2. \/ got[1] \in {Invalid, TooShort}
        \/ got[1] = Panicked /\ sent.coords = 0
        \/ Len(frame) = Len(PaddedTilesBytes(sent)) /\ \E x : got[1] = [sent EXCEPT !.tiles = x]
      BY <1>1, <1>2, <2>1, StrayRead
  <2>3. Accepted => Shifted
      BY <1>3, <1>4, <1>6, <2>2 DEF Shifted
  <2>4. got[1] = Panicked => sent.coords = 0
    <3>1. "refused" \notin DOMAIN Panicked /\ "kind" \notin DOMAIN Panicked
        BY DEF Panicked
    <3>2. "refused" \in DOMAIN Invalid /\ "refused" \in DOMAIN TooShort
        BY DEF Invalid, TooShort, Failed
    <3>3. "kind" \in DOMAIN sent
        BY <1>1, TileFrameFields
    <3>4. \A x : "kind" \in DOMAIN [sent EXCEPT !.tiles = x]
        BY <3>3
    <3> QED BY <2>2, <3>1, <3>2, <3>4
  <2> QED BY <1>6, <2>3, <2>4
<1> QED BY <1>5, <1>6

\* The socket goes on while a build is put together.
LEMMA WireOfBuild == (SpecsInit => Init) /\ ([ConfigureNext]_allVars => [Next]_vars)
<1>1. SpecsInit => Init
    BY DEF SpecsInit
<1>2. SpecsNext => UNCHANGED vars
    BY DEF SpecsNext, Begin, ResolveLocation, FetchFails, FetchMotor, FetchProp, FetchFrame,
           FetchEsc, FetchFc, FetchBattery, FetchGps, Compute
<1>3. UNCHANGED allVars => UNCHANGED vars
    BY DEF allVars
<1> QED BY <1>1, <1>2, <1>3 DEF ConfigureNext

\* For every header, count and size of tiles: in both layouts of the page the daemon takes
\* the tiles that were sent, sample by sample; a few stray bytes it refuses, unless they are
\* as many as the filler, and it goes past the end only where there are no tiles
\* (TerrainTiles::from_bytes).
THEOREM TilesInPlace == ConfigureSpec => []TilesPlacedOnce
BY WireInit, WireStep, WireOfBuild, TilesFound, PTL DEF ConfigureSpec

------------------------------------------------------------------------------
(* Every field in its place.                                               *)

\* A frame holds so many bytes at an offset.
Part(d, p, b) == p + Len(b) <= Len(d) /\ \A j \in 1..Len(b) : d[p + j] = b[j]

\* A frame holds what it is, and what it was before a byte was appended.
LEMMA PartOfAll ==
    ASSUME NEW d \in Seq(Int)
    PROVE  /\ Part(d, 0, d) /\ Len(d) \in Nat
           /\ Append(d, 77) \in Seq(Int) /\ Part(Append(d, 77), 0, d)
           /\ Len(Append(d, 77)) = Len(d) + 1
<1>1. Len(d) \in Nat
    BY LenProperties
<1>2. /\ Append(d, 77) \in Seq(Int) /\ Len(Append(d, 77)) = Len(d) + 1
      /\ \A i \in 1..Len(d) : Append(d, 77)[i] = d[i]
    BY AppendProperties
<1>3. \A i \in 1..Len(d) : 0 + i = i
    BY <1>1
<1> QED BY <1>1, <1>2, <1>3 DEF Part

\* Of two byte sequences one after the other it holds both, wherever they are,
LEMMA PartsFrom ==
    ASSUME NEW d \in Seq(Int), NEW p \in Nat, NEW a \in Seq(Int), NEW b \in Seq(Int),
           Part(d, p, a \o b)
    PROVE  Part(d, p, a) /\ Part(d, p + Len(a), b)
<1>1. /\ Len(a \o b) = Len(a) + Len(b) /\ Len(a) \in Nat /\ Len(b) \in Nat
      /\ \A i \in 1..Len(a) : (a \o b)[i] = a[i]
      /\ \A i \in 1..Len(b) : (a \o b)[Len(a) + i] = b[i]
    BY Joined
<1>2. /\ Len(d) \in Nat /\ p + Len(a \o b) <= Len(d)
      /\ \A j \in 1..Len(a \o b) : d[p + j] = (a \o b)[j]
    BY LenProperties DEF Part
<1>3. (p + Len(a)) + Len(b) <= Len(d) /\ p + Len(a) <= Len(d)
    BY <1>1, <1>2
<1>4. ASSUME NEW j \in 1..Len(a) PROVE d[p + j] = a[j]
  <2>1. j \in 1..Len(a \o b)
      BY <1>1
  <2> QED BY <1>1, <1>2, <2>1
<1>5. ASSUME NEW j \in 1..Len(b) PROVE d[(p + Len(a)) + j] = b[j]
  <2>1. Len(a) + j \in 1..Len(a \o b) /\ p + (Len(a) + j) = (p + Len(a)) + j
      BY <1>1
  <2>2. d[p + (Len(a) + j)] = (a \o b)[Len(a) + j]
      BY <1>2, <2>1
  <2> QED BY <1>1, <2>1, <2>2
<1> QED BY <1>3, <1>4, <1>5 DEF Part

\* and at its beginning.
LEMMA Parts2 ==
    ASSUME NEW d \in Seq(Int), NEW a \in Seq(Int), NEW b \in Seq(Int), Part(d, 0, a \o b)
    PROVE  Part(d, 0, a) /\ Part(d, Len(a), b)
<1>1. Part(d, 0, a) /\ Part(d, 0 + Len(a), b)
  <2>1. 0 \in Nat
      OBVIOUS
  <2> QED BY <2>1, PartsFrom
<1>2. 0 + Len(a) = Len(a)
    BY LenProperties
<1> QED BY <1>1, <1>2

\* Of three.
LEMMA Parts3 ==
    ASSUME NEW d \in Seq(Int), NEW a \in Seq(Int), NEW b \in Seq(Int), NEW c \in Seq(Int),
           Part(d, 0, (a \o b) \o c)
    PROVE  Part(d, 0, a) /\ Part(d, Len(a), b) /\ Part(d, Len(a) + Len(b), c)
<1>1. a \o b \in Seq(Int) /\ Len(a \o b) = Len(a) + Len(b)
    BY Joined
<1>2. Part(d, 0, a \o b) /\ Part(d, Len(a \o b), c)
    BY <1>1, Parts2
<1>3. Part(d, 0, a) /\ Part(d, Len(a), b)
    BY <1>2, Parts2
<1> QED BY <1>1, <1>2, <1>3

\* Of four.
LEMMA Parts4 ==
    ASSUME NEW d \in Seq(Int), NEW a \in Seq(Int), NEW b \in Seq(Int), NEW c \in Seq(Int),
           NEW e \in Seq(Int), Part(d, 0, ((a \o b) \o c) \o e)
    PROVE  /\ Part(d, 0, a) /\ Part(d, Len(a), b) /\ Part(d, Len(a) + Len(b), c)
           /\ Part(d, (Len(a) + Len(b)) + Len(c), e)
<1>1. a \o b \in Seq(Int) /\ Len(a \o b) = Len(a) + Len(b)
    BY Joined
<1>2. Part(d, 0, a \o b) /\ Part(d, Len(a \o b), c) /\ Part(d, Len(a \o b) + Len(c), e)
    BY <1>1, Parts3
<1>3. Part(d, 0, a) /\ Part(d, Len(a), b)
    BY <1>2, Parts2
<1> QED BY <1>1, <1>2, <1>3

\* Of five.
LEMMA Parts5 ==
    ASSUME NEW d \in Seq(Int), NEW a \in Seq(Int), NEW b \in Seq(Int), NEW c \in Seq(Int),
           NEW e \in Seq(Int), NEW f \in Seq(Int), Part(d, 0, (((a \o b) \o c) \o e) \o f)
    PROVE  /\ Part(d, 0, a) /\ Part(d, Len(a), b) /\ Part(d, Len(a) + Len(b), c)
           /\ Part(d, (Len(a) + Len(b)) + Len(c), e)
           /\ Part(d, ((Len(a) + Len(b)) + Len(c)) + Len(e), f)
<1>1. a \o b \in Seq(Int) /\ Len(a \o b) = Len(a) + Len(b)
    BY Joined
<1>2. /\ Part(d, 0, a \o b) /\ Part(d, Len(a \o b), c) /\ Part(d, Len(a \o b) + Len(c), e)
      /\ Part(d, (Len(a \o b) + Len(c)) + Len(e), f)
    BY <1>1, Parts4
<1>3. Part(d, 0, a) /\ Part(d, Len(a), b)
    BY <1>2, Parts2
<1> QED BY <1>1, <1>2, <1>3

\* Of six.
LEMMA Parts6 ==
    ASSUME NEW d \in Seq(Int), NEW a \in Seq(Int), NEW b \in Seq(Int), NEW c \in Seq(Int),
           NEW e \in Seq(Int), NEW f \in Seq(Int), NEW g \in Seq(Int),
           Part(d, 0, ((((a \o b) \o c) \o e) \o f) \o g)
    PROVE  /\ Part(d, 0, a) /\ Part(d, Len(a), b) /\ Part(d, Len(a) + Len(b), c)
           /\ Part(d, (Len(a) + Len(b)) + Len(c), e)
           /\ Part(d, ((Len(a) + Len(b)) + Len(c)) + Len(e), f)
           /\ Part(d, (((Len(a) + Len(b)) + Len(c)) + Len(e)) + Len(f), g)
<1>1. a \o b \in Seq(Int) /\ Len(a \o b) = Len(a) + Len(b)
    BY Joined
<1>2. /\ Part(d, 0, a \o b) /\ Part(d, Len(a \o b), c) /\ Part(d, Len(a \o b) + Len(c), e)
      /\ Part(d, (Len(a \o b) + Len(c)) + Len(e), f)
      /\ Part(d, ((Len(a \o b) + Len(c)) + Len(e)) + Len(f), g)
    BY <1>1, Parts5
<1>3. Part(d, 0, a) /\ Part(d, Len(a), b)
    BY <1>2, Parts2
<1> QED BY <1>1, <1>2, <1>3

\* A value is read off its bytes, a byte and two and three are themselves.
LEMMA PartValue ==
    ASSUME NEW d \in Seq(Int), NEW p \in Nat, NEW v \in Nat, NEW n \in Nat, n >= 1,
           Part(d, p, Le(v, n))
    PROVE  At(d, p, n) = v
<1>1. Le(v, n) \in Seq(Int) /\ Len(Le(v, n)) = n /\ \A j \in 1..n : Le(v, n)[j] = 256 * v + j
    BY LeBytes
<1>2. p + n <= Len(d) /\ \A j \in 1..n : d[p + j] = Le(v, n)[j]
    BY <1>1 DEF Part
<1>3. Says(d, p, n, v)
    BY <1>1, <1>2 DEF Says
<1> QED BY <1>2, <1>3, AtPlaced

\* So is a sequence of values of four bytes.
LEMMA PartFloats ==
    ASSUME NEW d \in Seq(Int), NEW p \in Nat, NEW vs \in Seq(Nat), Part(d, p, Floats(vs))
    PROVE  /\ FloatsAt(d, p, Len(vs)) = vs
           /\ \A i \in 1..Len(vs) : At(d, p + 4 * (i - 1), 4) = vs[i]
<1> DEFINE n == Len(vs)
           F == Floats(vs)
<1>1. n \in Nat /\ vs = [i \in 1..n |-> vs[i]] /\ \A i \in 1..n : vs[i] \in Nat
    BY LenProperties, ElementOfSeq
<1>2. /\ F \in Seq(Int) /\ Len(F) = 4 * n
      /\ \A i \in 1..n, j \in 1..4 : F[4 * (i - 1) + j] = 256 * vs[i] + j
    BY FloatsPlaced
<1>3. p + Len(F) <= Len(d) /\ \A j \in 1..Len(F) : d[p + j] = F[j]
    BY DEF Part
<1>a. n \in Nat /\ Len(F) = 4 * n /\ p + Len(F) <= Len(d) /\ Len(d) \in Nat
    BY <1>1, <1>2, <1>3, LenProperties
<1> HIDE DEF n, F
<1>4. ASSUME NEW i \in 1..n PROVE At(d, p + 4 * (i - 1), 4) = vs[i]
  <2> DEFINE a == p + 4 * (i - 1)
  <2>1. a \in Nat /\ a + 4 <= Len(d)
      BY <1>a
  <2>2. ASSUME NEW j \in 1..4 PROVE d[a + j] = 256 * vs[i] + j
    <3> DEFINE x == 4 * (i - 1) + j
    <3>1. x \in 1..Len(F) /\ a + j = p + x
        BY <1>a
    <3>2. F[x] = 256 * vs[i] + j
        BY <1>2
    <3> HIDE DEF x, a
    <3>3. d[p + x] = F[x]
        BY <1>3, <3>1
    <3> QED BY <3>1, <3>2, <3>3
  <2> DEFINE v == vs[i]
  <2>3. v \in Nat
      BY <1>1
  <2>4. Says(d, a, 4, v)
      BY <2>2 DEF Says
  <2> HIDE DEF a, v
  <2>5. 4 \in Nat /\ 4 >= 1
      OBVIOUS
  <2>6. At(d, a, 4) = v
      BY <2>1, <2>3, <2>4, <2>5, AtPlaced
  <2> QED BY <2>6 DEF a, v
<1>5. FloatsAt(d, p, n) = vs
    BY <1>1, <1>4 DEF FloatsAt
<1> QED BY <1>4, <1>5 DEF n

\* Bytes none of which ends a string.
Unended(x) == x \in Seq(Int) /\ \A i \in 1..Len(x) : x[i] # 0

\* A string is read up to its terminator, or to the end of the frame.
LEMMA PartText ==
    ASSUME NEW d \in Seq(Int), NEW p \in Nat, NEW x \in Seq(Int), Unended(x),
           Part(d, p, x), Len(d) = p + Len(x) \/ Part(d, p + Len(x), << 0 >>)
    PROVE  TextAt(d, p) = x
<1> DEFINE n == Len(d) - p
           k == Len(x)
           rest == SubSeq(d, p + 1, Len(d))
           Z == {i \in 1..n : rest[i] = 0}
<1>1. Len(d) \in Nat /\ k \in Nat /\ p + k <= Len(d) /\ \A j \in 1..k : d[p + j] = x[j]
    BY LenProperties DEF Part
<1>2. /\ rest \in Seq(Int) /\ Len(rest) = n /\ n \in Nat /\ k <= n
      /\ \A i \in 1..n : rest[i] = d[p + i]
  <2>1. \A i \in (p + 1)..Len(d) : i \in 1..Len(d)
      BY <1>1
  <2>2. /\ rest \in Seq(Int)
        /\ Len(rest) = IF p + 1 <= Len(d) THEN Len(d) - (p + 1) + 1 ELSE 0
        /\ \A i \in 1..(Len(d) - (p + 1) + 1) : rest[i] = d[(p + 1) + i - 1]
      BY <1>1, <2>1, SubSeqProperties
  <2>3. Len(d) - (p + 1) + 1 = n /\ \A i \in 1..n : (p + 1) + i - 1 = p + i
      BY <1>1
  <2> HIDE DEF rest
  <2>4. Len(rest) = n /\ n \in Nat /\ k <= n
      BY <1>1, <2>2
  <2>5. ASSUME NEW i \in 1..n PROVE rest[i] = d[p + i]
    <3>1. rest[i] = d[(p + 1) + i - 1] /\ (p + 1) + i - 1 = p + i
        BY <2>2, <2>3
    <3> QED BY <3>1
  <2> QED BY <2>2, <2>4, <2>5
<1>3. x = [i \in 1..k |-> x[i]]
    BY LenProperties
<1> HIDE DEF rest, n
<1>4. ASSUME NEW i \in 1..k PROVE rest[i] = x[i] /\ rest[i] # 0
  <2>1. i \in 1..n
      BY <1>1, <1>2
  <2>2. rest[i] = d[p + i]
      BY <1>2, <2>1
  <2>3. d[p + i] = x[i]
      BY <1>1
  <2>4. x[i] # 0
      BY DEF Unended
  <2> QED BY <2>2, <2>3, <2>4
<1>5. Contains(rest, 0) <=> Z # {}
    BY <1>2 DEF Contains
<1>6. SelectInSeq(rest, LAMBDA b : b = 0) =
          IF Z # {} THEN CHOOSE i \in Z : \A j \in Z : i <= j ELSE 0
    BY <1>2 DEF SelectInSeq, Min
<1>7. CASE Len(d) = p + k
  <2>1. n = k /\ Z = {}
      BY <1>1, <1>2, <1>4, <1>7 DEF n
  <2>2. TextAt(d, p) = rest
      BY <1>5, <2>1 DEF TextAt, rest
  <2>3. rest = [i \in 1..k |-> rest[i]]
      BY <1>2, <2>1
  <2> QED BY <1>3, <1>4, <2>2, <2>3
<1>8. CASE Part(d, p + k, <<0>>)
  <2>1. (p + k) + 1 <= Len(d) /\ d[(p + k) + 1] = 0
    <3>1. Len(<<0>>) = 1 /\ <<0>>[1] = 0 /\ 1 \in 1..1
        OBVIOUS
    <3> QED BY <1>8, <3>1 DEF Part
  <2>2. k + 1 \in 1..n /\ rest[k + 1] = 0
    <3>1. k + 1 \in 1..n /\ p + (k + 1) = (p + k) + 1
        BY <1>1, <2>1 DEF n
    <3> QED BY <1>2, <2>1, <3>1
  <2>3. k + 1 \in Z /\ \A j \in Z : k + 1 <= j
    <3>1. ASSUME NEW j \in Z PROVE k + 1 <= j
      <4>1. j \in 1..n /\ j \notin 1..k
          BY <1>4
      <4> QED BY <1>1, <1>2, <4>1
    <3> QED BY <2>2, <3>1
  <2>4. (CHOOSE i \in Z : \A j \in Z : i <= j) = k + 1
    <3>1. \A i \in Z : i \in Nat
        BY <1>2
    <3> HIDE DEF Z
    <3>2. \A i \in Z : (\A j \in Z : i <= j) => i = k + 1
        BY <1>1, <2>3, <3>1
    <3> QED BY <2>3, <3>2
  <2>5. SelectInSeq(rest, LAMBDA b : b = 0) = k + 1
    <3> HIDE DEF rest, Z
    <3> QED BY <1>6, <2>3, <2>4
  <2>6. TextAt(d, p) = SubSeq(rest, 1, (k + 1) - 1)
      BY <1>5, <2>3, <2>5 DEF TextAt, rest
  <2>7. (k + 1) - 1 = k
      BY <1>1
  <2> DEFINE t == SubSeq(rest, 1, k)
  <2> HIDE DEF rest
  <2>8. /\ t \in Seq(Int) /\ Len(t) = IF 1 <= k THEN k - 1 + 1 ELSE 0
        /\ \A i \in 1..(k - 1 + 1) : t[i] = rest[1 + i - 1]
    <3>1. \A i \in 1..k : i \in 1..Len(rest)
        BY <1>1, <1>2
    <3> QED BY <1>1, <1>2, <3>1, SubSeqProperties
  <2> HIDE DEF t
  <2>9. Len(t) = k /\ \A i \in 1..k : t[i] = x[i]
    <3>1. Len(t) = k
        BY <1>1, <2>8
    <3>2. ASSUME NEW i \in 1..k PROVE t[i] = x[i]
      <4>1. i \in 1..(k - 1 + 1) /\ 1 + i - 1 = i
          BY <1>1
      <4> QED BY <1>4, <2>8, <4>1
    <3> QED BY <3>1, <3>2
  <2>10. t = [i \in 1..k |-> t[i]]
      BY <1>1, <2>8, <2>9
  <2>11. t = x
      BY <1>3, <2>9, <2>10
  <2> QED BY <2>6, <2>7, <2>11 DEF t
<1> QED BY <1>7, <1>8

\* A byte is read where it was put, and so are two and three and four of them.
LEMMA PartByte ==
    ASSUME NEW d, NEW p \in Nat, NEW v, Part(d, p, <<v>>)
    PROVE  d[p + 1] = v
BY DEF Part

\* What a reader makes of a frame: it refuses it, or it says of each field what was sent or
\* what stands for a value it was not told.
Faithful(r) ==
    \/ "refused" \in DOMAIN r
    \/ /\ DOMAIN r = DOMAIN sent
       /\ \A field \in DOMAIN sent : r[field] = Said(sent)[field] \/ r[field] \in Unknown(field)

\* A body of JSON gives back every value that was written, and for one that was not the
\* default of its key.
LEMMA JsonRead ==
    ASSUME NEW m, NEW r, r = JsonFrom(JsonBytes(m), DOMAIN m), "refused" \notin DOMAIN r
    PROVE  /\ DOMAIN r = DOMAIN m
           /\ \A key \in DOMAIN m :
                 \/ r[key] = m[key]
                 \/ key \in MayBeAbsent(m.kind) /\ m[key] = <<>> /\ r[key] = DefaultOf(key)
<1> DEFINE body == [key \in {k \in DOMAIN m : k \in MayBeAbsent(m.kind) => m[k] # <<>>} |-> m[key]]
           d == JsonBytes(m)
           keys == DOMAIN m
<1>1. d = <<Tag[m.kind], body>>
    BY DEF JsonBytes
<1>2. \A key \in keys :
          /\ key \in DOMAIN body => body[key] = m[key]
          /\ key \notin DOMAIN body => key \in MayBeAbsent(m.kind) /\ m[key] = <<>>
    OBVIOUS
<1> HIDE DEF body
<1>3. Len(d) = 2 /\ d[2] = body
    BY <1>1
<1> HIDE DEF d
<1>4. ~(Len(d) < 2)
    BY <1>3
<1>5. "refused" \in DOMAIN Invalid
    BY DEF Invalid, Failed
<1> HIDE DEF keys
<1>6. r = [key \in keys |-> IF key \in DOMAIN d[2] THEN d[2][key] ELSE DefaultOf(key)]
    BY <1>4, <1>5 DEF JsonFrom, d, keys
<1>7. DOMAIN r = keys
    BY <1>6
<1>8. ASSUME NEW key \in keys
      PROVE  \/ r[key] = m[key]
             \/ key \in MayBeAbsent(m.kind) /\ m[key] = <<>> /\ r[key] = DefaultOf(key)
    BY <1>2, <1>3, <1>6, <1>8
<1> QED BY <1>7, <1>8 DEF keys

\* A message of JSON whose defaults are all of nothing is read as it was sent.
LEMMA JsonFaithful ==
    ASSUME sent.kind \in JsonKinds \cup {"SnapshotStored", "RestoreSnapshot"}
    PROVE  Faithful(JsonFrom(JsonBytes(sent), DOMAIN sent))
<1> DEFINE r == JsonFrom(JsonBytes(sent), DOMAIN sent)
<1>1. SUFFICES ASSUME "refused" \notin DOMAIN r PROVE Faithful(r)
    BY DEF Faithful
<1>2. Said(sent) = sent
    BY DEF Said, JsonKinds
<1>3. \A key \in MayBeAbsent(sent.kind) : DefaultOf(key) = <<>>
    BY DEF MayBeAbsent, DefaultOf, JsonKinds
<1>4. /\ DOMAIN r = DOMAIN sent
      /\ \A key \in DOMAIN sent : r[key] = sent[key]
    BY <1>1, <1>3, JsonRead
<1> HIDE DEF r
<1> QED BY <1>2, <1>4 DEF Faithful

\* Of a build, what was left out is read as its default.
LEMMA BuildFaithful ==
    ASSUME sent \in ConfigureBuilds
    PROVE  Faithful(ConfigureBuildFrom(JsonBytes(sent)))
<1> DEFINE c == CHOOSE x \in ConfigureBuilds : TRUE
           r == JsonFrom(JsonBytes(sent), DOMAIN sent)
<1>1. c \in ConfigureBuilds
    OBVIOUS
<1>2. DOMAIN c = DOMAIN sent /\ sent.kind = "ConfigureBuild"
    BY <1>1, BuildsAssumption DEF ConfigureFields
<1>3. {"landed_state", "battery_terminal_voltage", "battery_current_a", "board_stall"}
          \cap DOMAIN sent = {}
    BY BuildsAssumption DEF ConfigureFields
<1> HIDE DEF c
<1>4. ConfigureBuildFrom(JsonBytes(sent)) = r
    BY <1>2 DEF ConfigureBuildFrom, c
<1>5. SUFFICES ASSUME "refused" \notin DOMAIN r PROVE Faithful(r)
    BY <1>4 DEF Faithful
<1>6. Said(sent) = sent
    BY <1>2 DEF Said
<1>7. /\ DOMAIN r = DOMAIN sent
      /\ \A key \in DOMAIN sent : r[key] = sent[key] \/ (sent[key] = <<>> /\ r[key] = DefaultOf(key))
    BY <1>5, JsonRead
<1>8. ASSUME NEW key \in DOMAIN sent, sent[key] = <<>> PROVE Unknown(key) = {DefaultOf(key)}
    BY <1>2, <1>3, <1>8 DEF Unknown
<1> HIDE DEF r
<1> QED BY <1>6, <1>7, <1>8 DEF Faithful

\* No byte of a value is a terminator.
LEMMA ValueUnended ==
    ASSUME NEW v \in Nat, NEW n \in Nat, v >= 1
    PROVE  Unended(Le(v, n))
<1>1. Le(v, n) \in Seq(Int) /\ Len(Le(v, n)) = n /\ \A j \in 1..n : Le(v, n)[j] = 256 * v + j
    BY LeBytes
<1>2. ASSUME NEW i \in 1..Len(Le(v, n)) PROVE Le(v, n)[i] # 0
  <2>1. i \in 1..n /\ Le(v, n)[i] = 256 * v + i
      BY <1>1
  <2> QED BY <2>1
<1> QED BY <1>1, <1>2 DEF Unended

\* So it is of a string, and of the model of a board.
LEMMA TextUnended ==
    \A x \in Texts \cup {<<>>, Le(8, 2)} : x \in Seq(Int) /\ Len(x) \in Nat /\ Unended(x)
<1>1. Unended(Le(7, 2)) /\ Unended(Le(8, 2))
    BY ValueUnended
<1>2. <<>> \in Seq(Int) /\ \A i \in 1..Len(<<>>) : <<>>[i] # 0
    OBVIOUS
<1>3. \A x \in Texts \cup {<<>>, Le(8, 2)} : Unended(x)
    BY <1>1, <1>2 DEF Texts, Unended
<1> QED BY <1>3, LenProperties DEF Unended

\* The acknowledgement of a handshake is read field by field.
LEMMA HandshakeAckRead ==
    ASSUME NEW m \in HandshakeAcks, NEW d \in Seq(Int), Part(d, 0, OutgoingBytes(m))
    PROVE  BrowserRead(d) = m
<1> DEFINE a == <<2>>
           b == <<1, 2, 3>>
           c == <<m.pixhawk_connected>>
           e == m.serial_port
           zero == <<0>>
<1>1. /\ m = [kind |-> "HandshakeAck", version |-> b, pixhawk_connected |-> m.pixhawk_connected,
              serial_port |-> e]
      /\ m.pixhawk_connected \in {0, 1} /\ e \in Texts /\ m.kind = "HandshakeAck" /\ m.version = b
    BY DEF HandshakeAcks
<1>2. OutgoingBytes(m) = (((a \o b) \o c) \o e) \o zero
  <2>1. OutgoingBytes(m) = HandshakeAckBytes(m) /\ Tag.HandshakeAck = 2
      BY <1>1 DEF OutgoingBytes, Tag
  <2> QED BY <1>1, <2>1 DEF HandshakeAckBytes
<1>3. /\ a \in Seq(Int) /\ Len(a) = 1 /\ b \in Seq(Int) /\ Len(b) = 3 /\ zero \in Seq(Int)
      /\ c \in Seq(Int) /\ Len(c) = 1
    BY <1>1
<1>4. e \in Seq(Int) /\ Len(e) \in Nat /\ Unended(e)
    BY <1>1, TextUnended
<1>5. b[1] = 1 /\ b[2] = 2 /\ b[3] = 3
    OBVIOUS
<1> DEFINE v == m.pixhawk_connected
<1> HIDE DEF a, b, e, zero
<1>6. /\ Part(d, 0, a) /\ Part(d, Len(a), b) /\ Part(d, Len(a) + Len(b), c)
      /\ Part(d, (Len(a) + Len(b)) + Len(c), e)
      /\ Part(d, ((Len(a) + Len(b)) + Len(c)) + Len(e), zero)
  <2> HIDE DEF c
  <2>1. Part(d, 0, (((a \o b) \o c) \o e) \o zero)
      BY <1>2
  <2>2. a \in Seq(Int) /\ b \in Seq(Int) /\ c \in Seq(Int) /\ e \in Seq(Int) /\ zero \in Seq(Int)
      BY <1>3, <1>4
  <2> QED BY <2>1, <2>2, Parts5
<1> HIDE DEF v
<1>7. /\ Part(d, 0, a) /\ Part(d, 1, b) /\ Part(d, 4, <<v>>) /\ Part(d, 5, e)
      /\ Part(d, 5 + Len(e), zero)
    BY <1>3, <1>6 DEF v
<1>8. d[1] = 2 /\ d[5] = v
  <2>1. d[0 + 1] = 2
      BY <1>7, PartByte DEF a
  <2>2. d[4 + 1] = v
      BY <1>7, PartByte
  <2> QED BY <2>1, <2>2
<1>9. SubSeq(d, 2, 4) = b
  <2>1. 1 + Len(b) <= Len(d) /\ \A j \in 1..Len(b) : d[1 + j] = b[j]
      BY <1>7 DEF Part
  <2>2. d[2] = b[1] /\ d[3] = b[2] /\ d[4] = b[3] /\ Len(d) \in Nat /\ 4 <= Len(d)
    <3>1. d[1 + 1] = b[1] /\ d[1 + 2] = b[2] /\ d[1 + 3] = b[3]
        BY <1>3, <2>1
    <3>2. Len(d) \in Nat /\ 4 <= Len(d)
        BY <1>3, <2>1, LenProperties
    <3> QED BY <3>1, <3>2
  <2> DEFINE s == SubSeq(d, 2, 4)
  <2>3. /\ s \in Seq(Int) /\ Len(s) = IF 2 <= 4 THEN 4 - 2 + 1 ELSE 0
        /\ \A i \in 1..(4 - 2 + 1) : s[i] = d[2 + i - 1]
    <3>1. \A i \in 2..4 : i \in 1..Len(d)
        BY <2>2
    <3> QED BY <3>1, SubSeqProperties
  <2> HIDE DEF s
  <2>4. Len(s) = 3 /\ s[1] = d[2] /\ s[2] = d[3] /\ s[3] = d[4]
      BY <2>3
  <2>5. Len(b) = 3 /\ b \in Seq(Int)
      BY <1>3
  <2>6. \A i \in 1..3 : s[i] = b[i]
      BY <2>2, <2>4
  <2>7. s = b
      BY <2>3, <2>4, <2>5, <2>6, SeqEqual
  <2> QED BY <2>7 DEF s
<1>10. TextAt(d, 5) = e
  <2>1. 5 \in Nat
      OBVIOUS
  <2> QED BY <1>4, <1>7, <2>1, PartText DEF zero
<1>11. BrowserRead(d) = [kind |-> "HandshakeAck", version |-> SubSeq(d, 2, 4),
                         pixhawk_connected |-> d[5], serial_port |-> TextAt(d, 5)]
    BY <1>8 DEF BrowserRead, Tag
<1> QED BY <1>1, <1>8, <1>9, <1>10, <1>11 DEF v

\* Bytes that follow one another are read one by one: two of them,
LEMMA PartBytes2 ==
    ASSUME NEW d, NEW p \in Nat, NEW v, NEW w, Part(d, p, <<v, w>>)
    PROVE  d[p + 1] = v /\ d[p + 2] = w
BY DEF Part

\* and four.
LEMMA PartBytes4 ==
    ASSUME NEW d, NEW p \in Nat, NEW v, NEW w, NEW x, NEW y, Part(d, p, <<v, w, x, y>>)
    PROVE  d[p + 1] = v /\ d[p + 2] = w /\ d[p + 3] = x /\ d[p + 4] = y
BY DEF Part

\* Values of four bytes, of eight and of two have so many.
LEMMA ValueSized ==
    ASSUME NEW v \in Nat
    PROVE  /\ Le(v, 2) \in Seq(Int) /\ Len(Le(v, 2)) = 2
           /\ Le(v, 4) \in Seq(Int) /\ Len(Le(v, 4)) = 4
           /\ Le(v, 8) \in Seq(Int) /\ Len(Le(v, 8)) = 8
<1>1. Le(v, 2) \in Seq(Int) /\ Le(v, 4) \in Seq(Int) /\ Le(v, 8) \in Seq(Int)
    BY ValueBytes
<1>2. \A n \in Nat : Len(Le(v, n)) = n
    BY LeBytes
<1>3. 2 \in Nat /\ 4 \in Nat /\ 8 \in Nat
    OBVIOUS
<1>4. Len(Le(v, 2)) = 2 /\ Len(Le(v, 4)) = 4 /\ Len(Le(v, 8)) = 8
    BY <1>2, <1>3
<1> QED BY <1>1, <1>4

\* So is a message of the vehicle.
LEMMA VehicleMessageRead ==
    ASSUME NEW m \in VehicleMessages, NEW d \in Seq(Int), Part(d, 0, OutgoingBytes(m))
    PROVE  BrowserRead(d) = m
<1> DEFINE a == <<6, m.severity>>
           b == Le(33, 4)
           c == m.text
           zero == <<0>>
<1>1. /\ m = [kind |-> "VehicleMessage", severity |-> m.severity, timestamp_ms |-> 33,
              text |-> m.text]
      /\ m.kind = "VehicleMessage" /\ m.severity \in 0..7 /\ m.timestamp_ms = 33 /\ m.text \in Texts
    BY DEF VehicleMessages
<1>2. OutgoingBytes(m) = ((a \o b) \o c) \o zero
  <2>1. OutgoingBytes(m) = VehicleMessageBytes(m) /\ Tag.VehicleMessage = 6
      BY <1>1 DEF OutgoingBytes, Tag
  <2> QED BY <1>1, <2>1 DEF VehicleMessageBytes
<1>3. /\ a \in Seq(Int) /\ Len(a) = 2
      /\ zero \in Seq(Int) /\ Len(zero) = 1
    BY <1>1
<1>v. /\ b \in Seq(Int) /\ Len(b) = 4
    BY ValueSized
<1>t. /\ c \in Seq(Int) /\ Len(c) \in Nat /\ Unended(c)
    BY <1>1, TextUnended
<1>p. /\ Part(d, 0, a)
      /\ Part(d, Len(a), b)
      /\ Part(d, Len(a) + Len(b), c)
      /\ Part(d, (Len(a) + Len(b)) + Len(c), zero)
  <2> HIDE DEF a, b, c, zero
  <2>1. Part(d, 0, ((a \o b) \o c) \o zero)
      BY <1>2
  <2>2. /\ a \in Seq(Int)
        /\ b \in Seq(Int)
        /\ c \in Seq(Int)
        /\ zero \in Seq(Int)
      BY <1>3, <1>v, <1>t
  <2> QED BY <2>1, <2>2, Parts4
<1>q. /\ Part(d, 0, a)
      /\ Part(d, 2, b)
      /\ Part(d, 6, c)
      /\ Part(d, 6 + Len(c), zero)
  <2> HIDE DEF a, b, c, zero
  <2> QED BY <1>p, <1>3, <1>v, <1>t
<1>r0. d[1] = 6 /\ d[2] = m.severity
  <2>1. d[0 + 1] = 6 /\ d[0 + 2] = m.severity
      BY <1>q, PartBytes2 DEF a
  <2> QED BY <2>1
<1>r1. At(d, 2, 4) = 33
  <2>1. 2 \in Nat /\ 33 \in Nat /\ 4 \in Nat /\ 4 >= 1
      BY <1>1
  <2> QED BY <1>q, <2>1, PartValue DEF b
<1>r2. TextAt(d, 6) = c
  <2> HIDE DEF c
  <2>1. 6 \in Nat /\ Part(d, (6) + Len(c), <<0>>)
    <3>1. (6) + Len(c) = 6 + Len(c)
        BY <1>t
    <3> QED BY <1>q, <1>t, <3>1 DEF zero
  <2> QED BY <1>q, <1>t, <2>1, PartText
<1>z. BrowserRead(d) = [kind |-> "VehicleMessage", severity |-> d[2],
                        timestamp_ms |-> At(d, 2, 4), text |-> TextAt(d, 6)]
    BY <1>r0 DEF BrowserRead, Tag
<1> QED BY <1>1, <1>r0, <1>r1, <1>r2, <1>z

\* So is a response of the shell.
LEMMA NshResponseRead ==
    ASSUME NEW m \in NshResponses, NEW d \in Seq(Int), Part(d, 0, OutgoingBytes(m))
    PROVE  BrowserRead(d) = m
<1> DEFINE a == <<4>>
           b == Le(34, 4)
           c == <<m.success, m.complete>>
           e == m.output
           zero == <<0>>
<1>1. /\ m = [kind |-> "NshResponse", request_id |-> 34, success |-> m.success,
              complete |-> m.complete, output |-> m.output]
      /\ m.kind = "NshResponse" /\ m.request_id = 34 /\ m.success \in {0, 1} /\ m.complete \in {0, 1}
      /\ m.output \in Texts
    BY DEF NshResponses
<1>2. OutgoingBytes(m) = (((a \o b) \o c) \o e) \o zero
  <2>1. OutgoingBytes(m) = NshResponseBytes(m) /\ Tag.NshResponse = 4
      BY <1>1 DEF OutgoingBytes, Tag
  <2> QED BY <1>1, <2>1 DEF NshResponseBytes
<1>3. /\ a \in Seq(Int) /\ Len(a) = 1
      /\ c \in Seq(Int) /\ Len(c) = 2
      /\ zero \in Seq(Int) /\ Len(zero) = 1
    BY <1>1
<1>v. /\ b \in Seq(Int) /\ Len(b) = 4
    BY ValueSized
<1>t. /\ e \in Seq(Int) /\ Len(e) \in Nat /\ Unended(e)
    BY <1>1, TextUnended
<1>p. /\ Part(d, 0, a)
      /\ Part(d, Len(a), b)
      /\ Part(d, Len(a) + Len(b), c)
      /\ Part(d, (Len(a) + Len(b)) + Len(c), e)
      /\ Part(d, ((Len(a) + Len(b)) + Len(c)) + Len(e), zero)
  <2> HIDE DEF a, b, c, e, zero
  <2>1. Part(d, 0, (((a \o b) \o c) \o e) \o zero)
      BY <1>2
  <2>2. /\ a \in Seq(Int)
        /\ b \in Seq(Int)
        /\ c \in Seq(Int)
        /\ e \in Seq(Int)
        /\ zero \in Seq(Int)
      BY <1>3, <1>v, <1>t
  <2> QED BY <2>1, <2>2, Parts5
<1>q. /\ Part(d, 0, a)
      /\ Part(d, 1, b)
      /\ Part(d, 5, c)
      /\ Part(d, 7, e)
      /\ Part(d, 7 + Len(e), zero)
  <2> HIDE DEF a, b, c, e, zero
  <2> QED BY <1>p, <1>3, <1>v, <1>t
<1>r0. d[1] = 4
  <2>1. d[0 + 1] = 4
      BY <1>q, PartByte DEF a
  <2> QED BY <2>1
<1>r1. At(d, 1, 4) = 34
  <2>1. 1 \in Nat /\ 34 \in Nat /\ 4 \in Nat /\ 4 >= 1
      BY <1>1
  <2> QED BY <1>q, <2>1, PartValue DEF b
<1>r2. d[6] = m.success /\ d[7] = m.complete
  <2>1. d[5 + 1] = m.success /\ d[5 + 2] = m.complete
      BY <1>q, PartBytes2 DEF c
  <2> QED BY <2>1
<1>r3. TextAt(d, 7) = e
  <2> HIDE DEF e
  <2>1. 7 \in Nat /\ Part(d, (7) + Len(e), <<0>>)
    <3>1. (7) + Len(e) = 7 + Len(e)
        BY <1>t
    <3> QED BY <1>q, <1>t, <3>1 DEF zero
  <2> QED BY <1>q, <1>t, <2>1, PartText
<1>z. BrowserRead(d) = [kind |-> "NshResponse", request_id |-> At(d, 1, 4), success |-> d[6],
                        complete |-> d[7], output |-> TextAt(d, 7)]
    BY <1>r0 DEF BrowserRead, Tag
<1> QED BY <1>1, <1>r0, <1>r1, <1>r2, <1>r3, <1>z

\* So is an origin of the terrain.
LEMMA TerrainOriginRead ==
    ASSUME NEW m \in TerrainOrigins, NEW d \in Seq(Int), Part(d, 0, OutgoingBytes(m))
    PROVE  BrowserRead(d) = m
<1> DEFINE a == <<9>>
           b == Le(36, 8)
           c == Le(37, 8)
           e == Le(38, 4)
           f == <<m.source>>
<1>1. /\ m = [kind |-> "TerrainOrigin", ref_lat |-> 36, ref_lon |-> 37, ref_alt |-> 38,
              source |-> m.source]
      /\ m.kind = "TerrainOrigin" /\ m.ref_lat = 36 /\ m.ref_lon = 37 /\ m.ref_alt = 38
      /\ m.source \in 0..2
    BY DEF TerrainOrigins
<1>2. OutgoingBytes(m) = (((a \o b) \o c) \o e) \o f
  <2>1. OutgoingBytes(m) = TerrainOriginBytes(m) /\ Tag.TerrainOrigin = 9
      BY <1>1 DEF OutgoingBytes, Tag
  <2> QED BY <1>1, <2>1 DEF TerrainOriginBytes
<1>3. /\ a \in Seq(Int) /\ Len(a) = 1
      /\ f \in Seq(Int) /\ Len(f) = 1
    BY <1>1
<1>v. /\ b \in Seq(Int) /\ Len(b) = 8
      /\ c \in Seq(Int) /\ Len(c) = 8
      /\ e \in Seq(Int) /\ Len(e) = 4
    BY ValueSized
<1>p. /\ Part(d, 0, a)
      /\ Part(d, Len(a), b)
      /\ Part(d, Len(a) + Len(b), c)
      /\ Part(d, (Len(a) + Len(b)) + Len(c), e)
      /\ Part(d, ((Len(a) + Len(b)) + Len(c)) + Len(e), f)
  <2> HIDE DEF a, b, c, e, f
  <2>1. Part(d, 0, (((a \o b) \o c) \o e) \o f)
      BY <1>2
  <2>2. /\ a \in Seq(Int)
        /\ b \in Seq(Int)
        /\ c \in Seq(Int)
        /\ e \in Seq(Int)
        /\ f \in Seq(Int)
      BY <1>3, <1>v
  <2> QED BY <2>1, <2>2, Parts5
<1>q. /\ Part(d, 0, a)
      /\ Part(d, 1, b)
      /\ Part(d, 9, c)
      /\ Part(d, 17, e)
      /\ Part(d, 21, f)
  <2> HIDE DEF a, b, c, e, f
  <2> QED BY <1>p, <1>3, <1>v
<1>r0. d[1] = 9
  <2>1. d[0 + 1] = 9
      BY <1>q, PartByte DEF a
  <2> QED BY <2>1
<1>r1. At(d, 1, 8) = 36
  <2>1. 1 \in Nat /\ 36 \in Nat /\ 8 \in Nat /\ 8 >= 1
      BY <1>1
  <2> QED BY <1>q, <2>1, PartValue DEF b
<1>r2. At(d, 9, 8) = 37
  <2>1. 9 \in Nat /\ 37 \in Nat /\ 8 \in Nat /\ 8 >= 1
      BY <1>1
  <2> QED BY <1>q, <2>1, PartValue DEF c
<1>r3. At(d, 17, 4) = 38
  <2>1. 17 \in Nat /\ 38 \in Nat /\ 4 \in Nat /\ 4 >= 1
      BY <1>1
  <2> QED BY <1>q, <2>1, PartValue DEF e
<1>r4. d[22] = m.source
  <2>1. d[21 + 1] = m.source
      BY <1>q, PartByte DEF f
  <2> QED BY <2>1
<1>z. BrowserRead(d) = [kind |-> "TerrainOrigin", ref_lat |-> At(d, 1, 8), ref_lon |-> At(d, 9, 8),
                        ref_alt |-> At(d, 17, 4), source |-> d[22]]
    BY <1>r0 DEF BrowserRead, Tag
<1> QED BY <1>1, <1>r0, <1>r1, <1>r2, <1>r3, <1>r4, <1>z

\* So is the status of the link, with its two strings.
LEMMA ConnectionStatusRead ==
    ASSUME NEW m \in ConnectionStatuses, NEW d \in Seq(Int), Part(d, 0, OutgoingBytes(m))
    PROVE  BrowserRead(d) = m
<1> DEFINE a == <<5, m.connected, m.reconnecting, m.retry_count>>
           b == m.serial_port
           zero == <<0>>
           c == m.fc_model
           e == <<m.bootloader_suspected>>
<1>1. /\ m = [kind |-> "ConnectionStatus", connected |-> m.connected,
              reconnecting |-> m.reconnecting, retry_count |-> m.retry_count,
              serial_port |-> m.serial_port, fc_model |-> m.fc_model,
              bootloader_suspected |-> m.bootloader_suspected]
      /\ m.kind = "ConnectionStatus" /\ m.connected \in {0, 1} /\ m.reconnecting \in {0, 1}
      /\ m.retry_count = 4 /\ m.serial_port \in Texts /\ m.fc_model \in {<<>>, Le(8, 2)}
      /\ m.bootloader_suspected \in {0, 1}
    BY DEF ConnectionStatuses
<1>2. OutgoingBytes(m) = ((((a \o b) \o zero) \o c) \o zero) \o e
  <2>1. OutgoingBytes(m) = ConnectionStatusBytes(m) /\ Tag.ConnectionStatus = 5
      BY <1>1 DEF OutgoingBytes, Tag
  <2> QED BY <1>1, <2>1 DEF ConnectionStatusBytes
<1>3. /\ a \in Seq(Int) /\ Len(a) = 4
      /\ zero \in Seq(Int) /\ Len(zero) = 1
      /\ e \in Seq(Int) /\ Len(e) = 1
    BY <1>1
<1>t. /\ b \in Seq(Int) /\ Len(b) \in Nat /\ Unended(b)
      /\ c \in Seq(Int) /\ Len(c) \in Nat /\ Unended(c)
    BY <1>1, TextUnended
<1>p. /\ Part(d, 0, a)
      /\ Part(d, Len(a), b)
      /\ Part(d, Len(a) + Len(b), zero)
      /\ Part(d, (Len(a) + Len(b)) + Len(zero), c)
      /\ Part(d, ((Len(a) + Len(b)) + Len(zero)) + Len(c), zero)
      /\ Part(d, (((Len(a) + Len(b)) + Len(zero)) + Len(c)) + Len(zero), e)
  <2> HIDE DEF a, b, zero, c, e
  <2>1. Part(d, 0, ((((a \o b) \o zero) \o c) \o zero) \o e)
      BY <1>2
  <2>2. /\ a \in Seq(Int)
        /\ b \in Seq(Int)
        /\ zero \in Seq(Int)
        /\ c \in Seq(Int)
        /\ e \in Seq(Int)
      BY <1>3, <1>t
  <2> QED BY <2>1, <2>2, Parts6
<1>q. /\ Part(d, 0, a)
      /\ Part(d, 4, b)
      /\ Part(d, 4 + Len(b), zero)
      /\ Part(d, 5 + Len(b), c)
      /\ Part(d, (5 + Len(b)) + Len(c), zero)
      /\ Part(d, (6 + Len(b)) + Len(c), e)
  <2> HIDE DEF a, b, zero, c, e
  <2> QED BY <1>p, <1>3, <1>t
<1>r0. d[1] = 5 /\ d[2] = m.connected /\ d[3] = m.reconnecting /\ d[4] = m.retry_count
  <2>1. d[0 + 1] = 5 /\ d[0 + 2] = m.connected /\ d[0 + 3] = m.reconnecting /\ d[0 + 4] = m.retry_count
      BY <1>q, PartBytes4 DEF a
  <2> QED BY <2>1
<1>r1. TextAt(d, 4) = b
  <2> HIDE DEF b, c
  <2>1. 4 \in Nat /\ Part(d, (4) + Len(b), <<0>>)
    <3>1. (4) + Len(b) = 4 + Len(b)
        BY <1>t
    <3> QED BY <1>q, <1>t, <3>1 DEF zero
  <2> QED BY <1>q, <1>t, <2>1, PartText
<1>r3. TextAt(d, 5 + Len(b)) = c
  <2> HIDE DEF b, c
  <2>1. 5 + Len(b) \in Nat /\ Part(d, (5 + Len(b)) + Len(c), <<0>>)
    <3>1. (5 + Len(b)) + Len(c) = (5 + Len(b)) + Len(c)
        BY <1>t
    <3> QED BY <1>q, <1>t, <3>1 DEF zero
  <2> QED BY <1>q, <1>t, <2>1, PartText
<1>r5. d[(7 + Len(b)) + Len(c)] = m.bootloader_suspected
  <2> HIDE DEF b, c
  <2>0. (6 + Len(b)) + Len(c) \in Nat
      BY <1>t
  <2>1. d[((6 + Len(b)) + Len(c)) + 1] = m.bootloader_suspected
      BY <1>q, <2>0, PartByte DEF e
  <2> QED BY <2>1, <1>t
<1>z. BrowserRead(d) = [kind |-> "ConnectionStatus", connected |-> d[2], reconnecting |-> d[3],
                        retry_count |-> d[4], serial_port |-> TextAt(d, 4),
                        fc_model |-> TextAt(d, 5 + Len(TextAt(d, 4))),
                        bootloader_suspected |->
                            d[7 + Len(TextAt(d, 4)) + Len(TextAt(d, 5 + Len(TextAt(d, 4))))]]
    BY <1>r0 DEF BrowserRead, Tag
<1> QED BY <1>1, <1>r0, <1>r1, <1>r3, <1>r5, <1>z

\* So is the acknowledgement of a command, with an error or without.
LEMMA CommandAckRead ==
    ASSUME NEW m \in CommandAcks, NEW d \in Seq(Int), Part(d, 0, OutgoingBytes(m))
    PROVE  BrowserRead(d) = m
<1> DEFINE a == <<3>>
           b == Le(35, 4)
           c == <<m.success>>
           e == m.error
           zero == <<0>>
           f == IF m.success = 1 THEN <<>> ELSE e \o zero
<1>1. /\ m = [kind |-> "CommandAck", command_id |-> 35, success |-> m.success, error |-> m.error]
      /\ m.kind = "CommandAck" /\ m.command_id = 35 /\ m.success \in {0, 1} /\ m.error \in Texts
      /\ m.success = 1 => m.error = <<>>
    BY DEF CommandAcks, Texts
<1>2. OutgoingBytes(m) = ((a \o b) \o c) \o f
  <2>1. OutgoingBytes(m) = CommandAckBytes(m) /\ Tag.CommandAck = 3
      BY <1>1 DEF OutgoingBytes, Tag
  <2> QED BY <1>1, <2>1 DEF CommandAckBytes
<1>3. /\ a \in Seq(Int) /\ Len(a) = 1 /\ c \in Seq(Int) /\ Len(c) = 1
      /\ zero \in Seq(Int) /\ Len(zero) = 1
    BY <1>1
<1>v. b \in Seq(Int) /\ Len(b) = 4
    BY ValueSized
<1>t. e \in Seq(Int) /\ Len(e) \in Nat /\ Unended(e)
    BY <1>1, TextUnended
<1>f. f \in Seq(Int)
  <2>1. <<>> \in Seq(Int)
      OBVIOUS
  <2>2. e \o zero \in Seq(Int)
    <3> HIDE DEF e, zero
    <3> QED BY <1>3, <1>t, Joined
  <2> HIDE DEF e, zero
  <2> QED BY <2>1, <2>2
<1>p. /\ Part(d, 0, a) /\ Part(d, Len(a), b) /\ Part(d, Len(a) + Len(b), c)
      /\ Part(d, (Len(a) + Len(b)) + Len(c), f)
  <2> HIDE DEF a, b, c, e, zero, f
  <2>1. Part(d, 0, ((a \o b) \o c) \o f)
      BY <1>2
  <2> QED BY <2>1, <1>3, <1>v, <1>f, Parts4
<1>q. Part(d, 0, a) /\ Part(d, 1, b) /\ Part(d, 5, c) /\ Part(d, 6, f)
  <2> HIDE DEF a, b, c, e, zero, f
  <2> QED BY <1>p, <1>3, <1>v
<1>r0. d[1] = 3
  <2>1. d[0 + 1] = 3
      BY <1>q, PartByte DEF a
  <2> QED BY <2>1
<1>r1. At(d, 1, 4) = 35
  <2>1. 1 \in Nat /\ 35 \in Nat /\ 4 \in Nat /\ 4 >= 1
      OBVIOUS
  <2> QED BY <1>q, <2>1, PartValue DEF b
<1>r2. d[6] = m.success
  <2>1. d[5 + 1] = m.success
      BY <1>q, PartByte DEF c
  <2> QED BY <2>1
<1>r3. (IF d[6] = 1 THEN <<>> ELSE TextAt(d, 6)) = m.error
  <2>1. CASE m.success = 1
      BY <1>1, <1>r2, <2>1
  <2>2. CASE m.success # 1
    <3>1. Part(d, 6, e \o zero)
        BY <1>q, <2>2
    <3>2. TextAt(d, 6) = e
      <4> HIDE DEF e
      <4>1. 6 \in Nat
          OBVIOUS
      <4>2. Part(d, 6, e) /\ Part(d, 6 + Len(e), zero)
        <5> HIDE DEF zero
        <5> QED BY <1>3, <1>t, <3>1, <4>1, PartsFrom
      <4> QED BY <1>t, <4>1, <4>2, PartText
    <3> QED BY <1>r2, <2>2, <3>2
  <2> QED BY <2>1, <2>2
<1>z. BrowserRead(d) = [kind |-> "CommandAck", command_id |-> At(d, 1, 4), success |-> d[6],
                        error |-> IF d[6] = 1 THEN <<>> ELSE TextAt(d, 6)]
    BY <1>r0 DEF BrowserRead, Tag
<1> QED BY <1>1, <1>r1, <1>r2, <1>r3, <1>z

\* The page reads what the daemon wrote field by field, and bytes that follow it do not
\* change that.
LEMMA BinariesRead ==
    ASSUME NEW m \in Binaries, NEW d \in Seq(Int), Part(d, 0, OutgoingBytes(m))
    PROVE  BrowserRead(d) = m
BY HandshakeAckRead, ConnectionStatusRead, VehicleMessageRead, NshResponseRead, CommandAckRead,
   TerrainOriginRead DEF Binaries

\* What is left of a sequence when the byte that was added is taken away.
LEMMA FrontOf ==
    ASSUME NEW s \in Seq(Int), NEW t \in Seq(Int), Len(t) = 1
    PROVE  Front(s \o t) = s
<1> DEFINE all == s \o t
           k == Len(s)
           f == SubSeq(all, 1, k)
<1>0. all \in Seq(Int) /\ Len(all) = k + 1 /\ k \in Nat
    BY JoinedLength
<1>1. /\ all \in Seq(Int) /\ Len(all) = k + 1 /\ k \in Nat /\ \A i \in 1..k : all[i] = s[i]
    BY <1>0, Joined
<1>2. k = Len(all) - 1
    BY <1>1
<1> HIDE DEF all
<1>3. Front(all) = f
    BY <1>2 DEF Front
<1>4. f \in Seq(Int) /\ Len(f) = k /\ \A i \in 1..k : f[i] = all[i]
  <2> HIDE DEF k
  <2>1. \A i \in 1..k : i \in 1..Len(all)
      BY <1>1
  <2>2. /\ f \in Seq(Int) /\ Len(f) = IF 1 <= k THEN k - 1 + 1 ELSE 0
        /\ \A i \in 1..(k - 1 + 1) : f[i] = all[1 + i - 1]
      BY <1>1, <2>1, SubSeqProperties
  <2> HIDE DEF f
  <2>3. Len(f) = k
      BY <1>1, <2>2
  <2>4. ASSUME NEW i \in 1..k PROVE f[i] = all[i]
    <3>1. i \in 1..(k - 1 + 1) /\ 1 + i - 1 = i
        BY <1>1
    <3> QED BY <2>2, <3>1
  <2> QED BY <2>2, <2>3, <2>4
<1> HIDE DEF f
<1>5. f = s
    BY <1>1, <1>4, SeqEqual
<1> QED BY <1>3, <1>5 DEF all

\* A command for the shell is read whether it is terminated, ends with the frame or is
\* followed by what a newer page appends.
LEMMA NshCommandRead ==
    ASSUME NEW m \in NshCommands, NEW d,
           d \in {NshCommandBytes(m), Append(NshCommandBytes(m), 77), Front(NshCommandBytes(m))}
    PROVE  NshCommandFrom(d) \in {TooShort, m}
<1> DEFINE a == <<18>>
           b == Le(43, 4)
           c == Le(44, 2)
           e == m.command
           zero == <<0>>
           body == ((a \o b) \o c) \o e
           all == body \o zero
<1>1. /\ m = [kind |-> "NshCommand", request_id |-> 43, timeout_ms |-> 44, command |-> m.command]
      /\ m.request_id = 43 /\ m.timeout_ms = 44 /\ e \in Texts
    BY DEF NshCommands
<1>2. NshCommandBytes(m) = all
  <2>1. Tag.NshCommand = 18
      BY DEF Tag
  <2> QED BY <1>1, <2>1 DEF NshCommandBytes
<1>3. a \in Seq(Int) /\ Len(a) = 1 /\ zero \in Seq(Int) /\ Len(zero) = 1
    OBVIOUS
<1>v. b \in Seq(Int) /\ Len(b) = 4 /\ c \in Seq(Int) /\ Len(c) = 2
    BY ValueSized
<1>t. e \in Seq(Int) /\ Len(e) \in Nat /\ Unended(e)
    BY <1>1, TextUnended
<1>4. body \in Seq(Int) /\ Len(body) = 7 + Len(e)
  <2> HIDE DEF a, b, c, e
  <2>1. a \o b \in Seq(Int) /\ Len(a \o b) = Len(a) + Len(b)
      BY <1>3, <1>v, JoinedLength
  <2> DEFINE x == a \o b
  <2> HIDE DEF x
  <2>2. x \o c \in Seq(Int) /\ Len(x \o c) = Len(x) + Len(c)
      BY <1>v, <2>1, JoinedLength DEF x
  <2> DEFINE y == x \o c
  <2> HIDE DEF y
  <2>3. y \o e \in Seq(Int) /\ Len(y \o e) = Len(y) + Len(e)
      BY <1>t, <2>2, JoinedLength DEF y
  <2>4. Len(y) + Len(e) = 7 + Len(e)
    <3>1. Len(x) = 5
        BY <1>3, <1>v, <2>1 DEF x
    <3>2. Len(y) = 7
        BY <1>v, <2>2, <3>1 DEF y
    <3> QED BY <3>2
  <2>5. y \o e = ((a \o b) \o c) \o e
      BY DEF x, y
  <2> QED BY <2>3, <2>4, <2>5
<1>5. all \in Seq(Int) /\ Len(all) = 8 + Len(e) /\ Part(all, 0, body) /\ Part(all, Len(body), zero)
  <2> HIDE DEF body, e, zero
  <2>1. all \in Seq(Int) /\ Len(all) = Len(body) + Len(zero)
      BY <1>3, <1>4, Joined
  <2>2. Part(all, 0, all)
      BY <2>1, PartOfAll
  <2>3. Part(all, 0, body) /\ Part(all, Len(body), zero)
      BY <1>3, <1>4, <2>1, <2>2, Parts2
  <2> QED BY <1>3, <1>4, <1>t, <2>1, <2>3
<1>6. /\ d \in Seq(Int) /\ Part(d, 0, body)
      /\ Len(d) = 7 + Len(e) \/ Part(d, 7 + Len(e), zero)
  <2>1. CASE d = all
    <3> HIDE DEF body, e, zero, all
    <3> QED BY <1>4, <1>5, <2>1
  <2>2. CASE d = Append(all, 77)
    <3> HIDE DEF e, all, a, b, c
    <3>1. d \in Seq(Int) /\ Part(d, 0, all)
        BY <1>5, <2>2, PartOfAll
    <3>2. Part(d, 0, body) /\ Part(d, Len(body), zero)
      <4> HIDE DEF body, zero
      <4> QED BY <1>3, <1>4, <3>1, Parts2 DEF all
    <3> HIDE DEF body
    <3> QED BY <1>4, <3>1, <3>2
  <2>3. CASE d = Front(all)
    <3> HIDE DEF e, a, b, c, body
    <3>1. d = body
      <4>1. Front(body \o zero) = body
        <5> HIDE DEF zero
        <5> QED BY <1>3, <1>4, FrontOf
      <4> QED BY <2>3, <4>1
    <3>2. Part(d, 0, body)
        BY <1>4, <3>1, PartOfAll
    <3> QED BY <1>4, <3>1, <3>2
  <2> QED BY <1>2, <2>1, <2>2, <2>3
<1>7. /\ Part(d, 0, a) /\ Part(d, 1, b) /\ Part(d, 5, c) /\ Part(d, 7, e)
  <2> HIDE DEF a, b, c, e
  <2>1. /\ Part(d, 0, a) /\ Part(d, Len(a), b) /\ Part(d, Len(a) + Len(b), c)
        /\ Part(d, (Len(a) + Len(b)) + Len(c), e)
      BY <1>3, <1>v, <1>t, <1>6, Parts4
  <2> QED BY <1>3, <1>v, <2>1
<1>8. d[1] = 18
  <2>1. d[0 + 1] = 18
      BY <1>7, PartByte DEF a
  <2> QED BY <2>1
<1>9. At(d, 1, 4) = 43 /\ At(d, 5, 2) = 44
  <2>1. 1 \in Nat /\ 43 \in Nat /\ 4 \in Nat /\ 4 >= 1 /\ 5 \in Nat /\ 44 \in Nat /\ 2 \in Nat /\ 2 >= 1
      OBVIOUS
  <2>2. At(d, 1, 4) = 43
      BY <1>6, <1>7, <2>1, PartValue DEF b
  <2>3. At(d, 5, 2) = 44
      BY <1>6, <1>7, <2>1, PartValue DEF c
  <2> QED BY <2>2, <2>3
<1>10. TextAt(d, 7) = e
  <2> HIDE DEF e, body
  <2>1. 7 \in Nat
      OBVIOUS
  <2> QED BY <1>t, <1>6, <1>7, <2>1, PartText
<1>11. \/ NshCommandFrom(d) = TooShort
       \/ NshCommandFrom(d) = [kind |-> "NshCommand", request_id |-> At(d, 1, 4),
                               timeout_ms |-> At(d, 5, 2), command |-> TextAt(d, 7)]
    BY <1>8 DEF NshCommandFrom, Tag
<1> QED BY <1>1, <1>9, <1>10, <1>11

\* A command is read as what it says; one that lacks the value its type requires is
\* refused, unless another byte stands in its place.
LEMMA CommandRead ==
    ASSUME NEW m \in Commands, NEW d,
           \/ d = CommandBytes(m)
           \/ Complete(m) /\ d = Append(CommandBytes(m), 77)
    PROVE  CommandFrom(d) \in {TooShort, Invalid, Meant(m)}
<1>1. PICK t \in DOMAIN CommandType, alt \in Option(42), mode \in Option(5) :
          m = [kind |-> "Command", command_id |-> 41, command_type |-> t,
               takeoff_altitude |-> alt, set_mode_value |-> mode]
    BY DEF Commands
<1> DEFINE a == <<16>>
           b == Le(41, 4)
           c == <<CommandType[t]>>
           x == IF t = "Takeoff" THEN alt ELSE <<>>
           y == IF t = "SetMode" THEN mode ELSE <<>>
           f == Floats(x)
           all == (((a \o b) \o c) \o f) \o y
<1>2. CommandBytes(m) = all
  <2>1. /\ Meant(m).takeoff_altitude = x /\ Meant(m).set_mode_value = y
        /\ m.command_id = 41 /\ m.command_type = t
      BY <1>1 DEF Meant
  <2>2. Tag.Command = 16
      BY DEF Tag
  <2> HIDE DEF x, y
  <2>3. CommandBytes(m) = (((<<Tag.Command>> \o Le(m.command_id, 4))
                               \o <<CommandType[m.command_type]>>)
                              \o Floats(Meant(m).takeoff_altitude)) \o Meant(m).set_mode_value
      BY DEF CommandBytes
  <2> QED BY <2>1, <2>2, <2>3
<1>3. Meant(m) = [kind |-> "Command", command_id |-> 41, command_type |-> t,
                  takeoff_altitude |-> x, set_mode_value |-> y]
  <2>1. m.command_type = t /\ m.takeoff_altitude = alt /\ m.set_mode_value = mode
      BY <1>1
  <2>2. Meant(m) = [m EXCEPT !.takeoff_altitude = x, !.set_mode_value = y]
      BY <2>1 DEF Meant
  <2> HIDE DEF x, y
  <2> QED BY <1>1, <2>2
<1>4. /\ x \in {<<>>, <<42>>} /\ y \in {<<>>, <<5>>} /\ CommandType[t] \in Int
      /\ t # "Takeoff" => x = <<>>
      /\ t # "SetMode" => y = <<>>
    BY DEF Option, CommandType
<1>5. Complete(m) => (t = "Takeoff" => x # <<>>) /\ (t = "SetMode" => y # <<>>)
    BY <1>1 DEF Complete
<1>6. \A u \in DOMAIN CommandType : CommandType[u] = CommandType[t] => u = t
    BY DEF CommandType
<1>7. /\ <<>> \in Seq(Nat) /\ <<42>> \in Seq(Nat) /\ <<>> \in Seq(Int) /\ <<5>> \in Seq(Int)
      /\ Len(<<>>) = 0 /\ Len(<<42>>) = 1 /\ Len(<<5>>) = 1 /\ <<42>>[1] = 42
    OBVIOUS
<1> DEFINE v == CommandType[t]
<1> HIDE DEF x, y, v
<1>8. x \in Seq(Nat) /\ Len(x) \in {0, 1} /\ y \in Seq(Int) /\ Len(y) \in {0, 1}
    BY <1>4, <1>7
<1>9. a \in Seq(Int) /\ Len(a) = 1 /\ <<v>> \in Seq(Int) /\ Len(<<v>>) = 1
    BY <1>4 DEF v
<1>10. b \in Seq(Int) /\ Len(b) = 4
    BY ValueSized
<1>11. f \in Seq(Int) /\ Len(f) = 4 * Len(x)
    BY <1>8, FloatsPlaced
<1>12. c = <<v>>
    BY DEF v
<1> HIDE DEF a, b, c, f
<1>13. c \in Seq(Int) /\ Len(c) = 1
    BY <1>9, <1>12
<1>14. all \in Seq(Int) /\ Len(all) = (6 + Len(f)) + Len(y)
  <2>1. a \o b \in Seq(Int) /\ Len(a \o b) = Len(a) + Len(b)
      BY <1>9, <1>10, JoinedLength
  <2> DEFINE p == a \o b
  <2> HIDE DEF p
  <2>2. p \o c \in Seq(Int) /\ Len(p \o c) = Len(p) + Len(c)
      BY <1>13, <2>1, JoinedLength DEF p
  <2> DEFINE q == p \o c
  <2> HIDE DEF q
  <2>3. q \o f \in Seq(Int) /\ Len(q \o f) = Len(q) + Len(f)
      BY <1>11, <2>2, JoinedLength DEF q
  <2> DEFINE r == q \o f
  <2> HIDE DEF r
  <2>4. r \o y \in Seq(Int) /\ Len(r \o y) = Len(r) + Len(y)
      BY <1>8, <2>3, JoinedLength DEF r
  <2>5. Len(p) = 5
      BY <1>9, <1>10, <2>1 DEF p
  <2>6. Len(q) = 6
      BY <1>13, <2>2, <2>5 DEF q
  <2>7. Len(r) = 6 + Len(f)
      BY <2>3, <2>6 DEF r
  <2>8. r \o y = all
      BY DEF p, q, r
  <2> QED BY <2>4, <2>7, <2>8
<1>15. d \in Seq(Int) /\ Part(d, 0, all)
  <2> HIDE DEF all
  <2> QED BY <1>2, <1>14, PartOfAll
<1>16. /\ Part(d, 0, a) /\ Part(d, 1, b) /\ Part(d, 5, <<v>>) /\ Part(d, 6, f)
       /\ Part(d, 6 + Len(f), y)
  <2>1. /\ Part(d, 0, a) /\ Part(d, Len(a), b) /\ Part(d, Len(a) + Len(b), c)
        /\ Part(d, (Len(a) + Len(b)) + Len(c), f)
        /\ Part(d, ((Len(a) + Len(b)) + Len(c)) + Len(f), y)
      BY <1>8, <1>9, <1>10, <1>11, <1>13, <1>15, Parts5
  <2> QED BY <1>9, <1>10, <1>12, <1>13, <2>1
<1>17. d[1] = 16 /\ d[6] = v
  <2>1. d[0 + 1] = 16
      BY <1>16, PartByte DEF a
  <2>2. d[5 + 1] = v
      BY <1>16, PartByte
  <2> QED BY <2>1, <2>2
<1>18. At(d, 1, 4) = 41
  <2>1. 1 \in Nat /\ 41 \in Nat /\ 4 \in Nat /\ 4 >= 1
      OBVIOUS
  <2> QED BY <1>15, <1>16, <2>1, PartValue DEF b
<1>19. (CHOOSE u \in DOMAIN CommandType : CommandType[u] = d[6]) = t
    BY <1>6, <1>17 DEF v
<1>20. ~\A u \in DOMAIN CommandType : CommandType[u] # d[6]
    BY <1>17 DEF v
<1> DEFINE said == [kind |-> "Command", command_id |-> At(d, 1, 4), command_type |-> t,
                    takeoff_altitude |-> IF t = "Takeoff" THEN <<At(d, 6, 4)>> ELSE <<>>,
                    set_mode_value |-> IF t = "SetMode" THEN <<d[7]>> ELSE <<>>]
           lacks == (t = "Takeoff" /\ Len(d) < 10) \/ (t = "SetMode" /\ Len(d) < 7)
<1>21. CommandFrom(d) = IF Len(d) < 6 THEN TooShort ELSE IF lacks THEN Invalid ELSE said
    BY <1>17, <1>19, <1>20 DEF CommandFrom, Tag
<1>22. CASE t = "Takeoff"
  <2>1. y = <<>>
      BY <1>4, <1>22
  <2>2. CASE x = <<42>>
    <3>1. At(d, 6, 4) = 42
      <4>1. Part(d, 6, Floats(<<42>>)) /\ 6 \in Nat
          BY <1>16, <2>2 DEF f
      <4>2. \A i \in 1..Len(<<42>>) : At(d, 6 + 4 * (i - 1), 4) = <<42>>[i]
          BY <1>7, <1>15, <4>1, PartFloats
      <4>3. 1 \in 1..Len(<<42>>) /\ 6 + 4 * (1 - 1) = 6
          BY <1>7
      <4>4. At(d, 6 + 4 * (1 - 1), 4) = <<42>>[1]
          BY <4>2, <4>3
      <4> QED BY <1>7, <4>3, <4>4
    <3>2. said = Meant(m)
        BY <1>3, <1>18, <1>22, <2>1, <2>2, <3>1
    <3> HIDE DEF said, lacks
    <3> QED BY <1>21, <3>2
  <2>3. CASE x = <<>>
    <3>1. d = all
        BY <1>2, <1>5, <1>22, <2>3
    <3>2. Len(d) = 6
        BY <1>7, <1>11, <1>14, <2>1, <2>3, <3>1
    <3>3. lacks
        BY <1>22, <3>2
    <3> HIDE DEF said, lacks
    <3> QED BY <1>21, <3>3
  <2> QED BY <1>4, <2>2, <2>3
<1>23. CASE t = "SetMode"
  <2>1. x = <<>> /\ Len(f) = 0
      BY <1>4, <1>7, <1>11, <1>23
  <2>2. CASE y = <<5>>
    <3>1. d[7] = 5
      <4>1. Part(d, 6, <<5>>) /\ 6 \in Nat
          BY <1>16, <2>1, <2>2
      <4>2. d[6 + 1] = 5
          BY <4>1, PartByte
      <4> QED BY <4>2
    <3>2. said = Meant(m)
        BY <1>3, <1>18, <1>23, <2>1, <2>2, <3>1
    <3> HIDE DEF said, lacks
    <3> QED BY <1>21, <3>2
  <2>3. CASE y = <<>>
    <3>1. d = all
        BY <1>2, <1>5, <1>23, <2>3
    <3>2. Len(d) = 6
        BY <1>7, <1>14, <2>1, <2>3, <3>1
    <3>3. lacks
        BY <1>23, <3>2
    <3> HIDE DEF said, lacks
    <3> QED BY <1>21, <3>3
  <2> QED BY <1>4, <2>2, <2>3
<1>24. CASE t # "Takeoff" /\ t # "SetMode"
  <2>1. x = <<>> /\ y = <<>>
      BY <1>4, <1>24
  <2>2. said = Meant(m)
      BY <1>3, <1>18, <1>24, <2>1
  <2> HIDE DEF said, lacks
  <2> QED BY <1>21, <2>2
<1> QED BY <1>22, <1>23, <1>24

------------------------------------------------------------------------------
(* The state frame.                                                        *)

\* What every version of the daemon writes.
FirstBytes(m) ==
    <<1>> \o Le(m.timestamp_us, 8) \o Floats(m.position_ned)
    \o Floats(m.velocity_ned) \o Floats(m.quaternion_wxyz)
    \o Floats(m.angular_velocity) \o Floats(m.motor_rpms) \o Le(m.battery_voltage, 4)
    \o <<m.battery_percent, m.armed, m.flight_mode>> \o Le(m.packets_per_sec, 2)

\* The values of a state, of the model's few.
LEMMA StateValues ==
    ASSUME NEW m \in StateUpdates
    PROVE  /\ m.timestamp_us = 11 /\ m.battery_voltage = 29 /\ m.packets_per_sec = 30
           /\ m.position_ned = <<12, 13, 14>> /\ m.velocity_ned = <<15, 16, 17>>
           /\ m.quaternion_wxyz = <<18, 19, 20, 21>> /\ m.angular_velocity = <<22, 23, 24>>
           /\ m.motor_rpms = <<25, 26, 27, 28>>
           /\ m.battery_percent \in Int /\ m.armed \in Int /\ m.flight_mode \in Int
           /\ m.landed_state \in {0, 1} /\ m.kind = "StateUpdate"
           /\ m.battery_terminal_voltage \in {<<>>, <<31>>}
           /\ m.battery_current_a \in {<<>>, <<32>>}
           /\ m.board_stall \in {<<>>, <<0>>, <<1>>}
BY DEF StateUpdates, Option

\* The vectors of a state are bytes in their number.
LEMMA StateVectors ==
    ASSUME NEW m \in StateUpdates
    PROVE  /\ m.position_ned \in Seq(Nat) /\ Len(m.position_ned) = 3
           /\ m.velocity_ned \in Seq(Nat) /\ Len(m.velocity_ned) = 3
           /\ m.quaternion_wxyz \in Seq(Nat) /\ Len(m.quaternion_wxyz) = 4
           /\ m.angular_velocity \in Seq(Nat) /\ Len(m.angular_velocity) = 3
           /\ m.motor_rpms \in Seq(Nat) /\ Len(m.motor_rpms) = 4
<1>1. /\ <<12, 13, 14>> \in Seq(Nat) /\ Len(<<12, 13, 14>>) = 3
      /\ <<15, 16, 17>> \in Seq(Nat) /\ Len(<<15, 16, 17>>) = 3
      /\ <<22, 23, 24>> \in Seq(Nat) /\ Len(<<22, 23, 24>>) = 3
    OBVIOUS
<1>2. /\ <<18, 19, 20, 21>> \in Seq(Nat) /\ Len(<<18, 19, 20, 21>>) = 4
      /\ <<25, 26, 27, 28>> \in Seq(Nat) /\ Len(<<25, 26, 27, 28>>) = 4
    OBVIOUS
<1> QED BY <1>1, <1>2, StateValues

\* A vector of so many values takes four bytes for each.
LEMMA VectorBytes ==
    ASSUME NEW vs \in Seq(Nat), NEW n \in Nat, Len(vs) = n
    PROVE  Floats(vs) \in Seq(Int) /\ Len(Floats(vs)) = 4 * n
BY FloatsPlaced

\* Three bytes that follow one another are read one by one.
LEMMA PartBytes3 ==
    ASSUME NEW d, NEW p \in Nat, NEW v, NEW w, NEW x, Part(d, p, <<v, w, x>>)
    PROVE  d[p + 1] = v /\ d[p + 2] = w /\ d[p + 3] = x
BY DEF Part

\* So many bytes they are, and where they are read the fields are found.
LEMMA FirstRead ==
    ASSUME NEW m \in StateUpdates
    PROVE  /\ FirstBytes(m) \in Seq(Int) /\ Len(FirstBytes(m)) = 86
           /\ \A d \in Seq(Int) : Part(d, 0, FirstBytes(m)) =>
                 /\ d[1] = 1 /\ At(d, 1, 8) = m.timestamp_us
                 /\ FloatsAt(d, 9, 3) = m.position_ned /\ FloatsAt(d, 21, 3) = m.velocity_ned
                 /\ FloatsAt(d, 33, 4) = m.quaternion_wxyz
                 /\ FloatsAt(d, 49, 3) = m.angular_velocity
                 /\ FloatsAt(d, 61, 4) = m.motor_rpms /\ At(d, 77, 4) = m.battery_voltage
                 /\ d[82] = m.battery_percent /\ d[83] = m.armed /\ d[84] = m.flight_mode
                 /\ At(d, 84, 2) = m.packets_per_sec
<1> DEFINE a == <<1>>
           b == Le(m.timestamp_us, 8)
           c == Floats(m.position_ned)
           e == Floats(m.velocity_ned)
           f == Floats(m.quaternion_wxyz)
           g == Floats(m.angular_velocity)
           h == Floats(m.motor_rpms)
           i == Le(m.battery_voltage, 4)
           j == <<m.battery_percent, m.armed, m.flight_mode>>
           k == Le(m.packets_per_sec, 2)
<1>1. FirstBytes(m) = ((((((((a \o b) \o c) \o e) \o f) \o g) \o h) \o i) \o j) \o k
    BY DEF FirstBytes
<1>2. a \in Seq(Int) /\ Len(a) = 1 /\ j \in Seq(Int) /\ Len(j) = 3
  <2>1. m.battery_percent \in Int /\ m.armed \in Int /\ m.flight_mode \in Int
      BY StateValues
  <2> QED BY <2>1
<1>3. /\ b \in Seq(Int) /\ Len(b) = 8 /\ i \in Seq(Int) /\ Len(i) = 4
      /\ k \in Seq(Int) /\ Len(k) = 2
  <2>1. m.timestamp_us \in Nat /\ m.battery_voltage \in Nat /\ m.packets_per_sec \in Nat
      BY StateValues
  <2> QED BY <2>1, ValueSized
<1>4. /\ c \in Seq(Int) /\ Len(c) = 4 * 3 /\ e \in Seq(Int) /\ Len(e) = 4 * 3
      /\ f \in Seq(Int) /\ Len(f) = 4 * 4 /\ g \in Seq(Int) /\ Len(g) = 4 * 3
      /\ h \in Seq(Int) /\ Len(h) = 4 * 4
  <2>1. 3 \in Nat /\ 4 \in Nat
      OBVIOUS
  <2>2. c \in Seq(Int) /\ Len(c) = 4 * 3
      BY <2>1, StateVectors, VectorBytes
  <2>3. e \in Seq(Int) /\ Len(e) = 4 * 3
      BY <2>1, StateVectors, VectorBytes
  <2>4. f \in Seq(Int) /\ Len(f) = 4 * 4
      BY <2>1, StateVectors, VectorBytes
  <2>5. g \in Seq(Int) /\ Len(g) = 4 * 3
      BY <2>1, StateVectors, VectorBytes
  <2>6. h \in Seq(Int) /\ Len(h) = 4 * 4
      BY <2>1, StateVectors, VectorBytes
  <2> QED BY <2>2, <2>3, <2>4, <2>5, <2>6
<1> HIDE DEF a, b, c, e, f, g, h, i, j, k
<1> DEFINE x1 == a
<1>x1. x1 \in Seq(Int) /\ Len(x1) = 1
    BY <1>2
<1> HIDE DEF x1
<1> DEFINE x2 == x1 \o b
<1>x2. x2 \in Seq(Int) /\ Len(x2) = 9
  <2>1. x2 \in Seq(Int) /\ Len(x2) = Len(x1) + Len(b)
      BY <1>2, <1>3, <1>4, <1>x1, JoinedLength
  <2>2. Len(b) = 8
      BY <1>2, <1>3, <1>4
  <2> HIDE DEF x2
  <2> QED BY <1>x1, <2>1, <2>2
<1> HIDE DEF x2
<1> DEFINE x3 == x2 \o c
<1>x3. x3 \in Seq(Int) /\ Len(x3) = 21
  <2>1. x3 \in Seq(Int) /\ Len(x3) = Len(x2) + Len(c)
      BY <1>2, <1>3, <1>4, <1>x2, JoinedLength
  <2>2. Len(c) = 12
      BY <1>2, <1>3, <1>4
  <2> HIDE DEF x3
  <2> QED BY <1>x2, <2>1, <2>2
<1> HIDE DEF x3
<1> DEFINE x4 == x3 \o e
<1>x4. x4 \in Seq(Int) /\ Len(x4) = 33
  <2>1. x4 \in Seq(Int) /\ Len(x4) = Len(x3) + Len(e)
      BY <1>2, <1>3, <1>4, <1>x3, JoinedLength
  <2>2. Len(e) = 12
      BY <1>2, <1>3, <1>4
  <2> HIDE DEF x4
  <2> QED BY <1>x3, <2>1, <2>2
<1> HIDE DEF x4
<1> DEFINE x5 == x4 \o f
<1>x5. x5 \in Seq(Int) /\ Len(x5) = 49
  <2>1. x5 \in Seq(Int) /\ Len(x5) = Len(x4) + Len(f)
      BY <1>2, <1>3, <1>4, <1>x4, JoinedLength
  <2>2. Len(f) = 16
      BY <1>2, <1>3, <1>4
  <2> HIDE DEF x5
  <2> QED BY <1>x4, <2>1, <2>2
<1> HIDE DEF x5
<1> DEFINE x6 == x5 \o g
<1>x6. x6 \in Seq(Int) /\ Len(x6) = 61
  <2>1. x6 \in Seq(Int) /\ Len(x6) = Len(x5) + Len(g)
      BY <1>2, <1>3, <1>4, <1>x5, JoinedLength
  <2>2. Len(g) = 12
      BY <1>2, <1>3, <1>4
  <2> HIDE DEF x6
  <2> QED BY <1>x5, <2>1, <2>2
<1> HIDE DEF x6
<1> DEFINE x7 == x6 \o h
<1>x7. x7 \in Seq(Int) /\ Len(x7) = 77
  <2>1. x7 \in Seq(Int) /\ Len(x7) = Len(x6) + Len(h)
      BY <1>2, <1>3, <1>4, <1>x6, JoinedLength
  <2>2. Len(h) = 16
      BY <1>2, <1>3, <1>4
  <2> HIDE DEF x7
  <2> QED BY <1>x6, <2>1, <2>2
<1> HIDE DEF x7
<1> DEFINE x8 == x7 \o i
<1>x8. x8 \in Seq(Int) /\ Len(x8) = 81
  <2>1. x8 \in Seq(Int) /\ Len(x8) = Len(x7) + Len(i)
      BY <1>2, <1>3, <1>4, <1>x7, JoinedLength
  <2>2. Len(i) = 4
      BY <1>2, <1>3, <1>4
  <2> HIDE DEF x8
  <2> QED BY <1>x7, <2>1, <2>2
<1> HIDE DEF x8
<1> DEFINE x9 == x8 \o j
<1>x9. x9 \in Seq(Int) /\ Len(x9) = 84
  <2>1. x9 \in Seq(Int) /\ Len(x9) = Len(x8) + Len(j)
      BY <1>2, <1>3, <1>4, <1>x8, JoinedLength
  <2>2. Len(j) = 3
      BY <1>2, <1>3, <1>4
  <2> HIDE DEF x9
  <2> QED BY <1>x8, <2>1, <2>2
<1> HIDE DEF x9
<1> DEFINE x10 == x9 \o k
<1>x10. x10 \in Seq(Int) /\ Len(x10) = 86
  <2>1. x10 \in Seq(Int) /\ Len(x10) = Len(x9) + Len(k)
      BY <1>2, <1>3, <1>4, <1>x9, JoinedLength
  <2>2. Len(k) = 2
      BY <1>2, <1>3, <1>4
  <2> HIDE DEF x10
  <2> QED BY <1>x9, <2>1, <2>2
<1> HIDE DEF x10
<1>5. FirstBytes(m) = x10
    BY <1>1 DEF x1, x2, x3, x4, x5, x6, x7, x8, x9, x10
<1>6. ASSUME NEW d \in Seq(Int), Part(d, 0, x10)
      PROVE  /\ d[1] = 1 /\ At(d, 1, 8) = m.timestamp_us
             /\ FloatsAt(d, 9, 3) = m.position_ned /\ FloatsAt(d, 21, 3) = m.velocity_ned
             /\ FloatsAt(d, 33, 4) = m.quaternion_wxyz
             /\ FloatsAt(d, 49, 3) = m.angular_velocity
             /\ FloatsAt(d, 61, 4) = m.motor_rpms /\ At(d, 77, 4) = m.battery_voltage
             /\ d[82] = m.battery_percent /\ d[83] = m.armed /\ d[84] = m.flight_mode
             /\ At(d, 84, 2) = m.packets_per_sec
  <2>10. Part(d, 0, x9) /\ Part(d, 84, k)
    <3>1. Part(d, 0, x9 \o k)
        BY <1>6 DEF x10
    <3>2. Part(d, 0, x9) /\ Part(d, Len(x9), k)
        BY <1>2, <1>3, <1>4, <1>x9, <3>1, Parts2
    <3> QED BY <1>x9, <3>2
  <2>9. Part(d, 0, x8) /\ Part(d, 81, j)
    <3>1. Part(d, 0, x8 \o j)
        BY <2>10 DEF x9
    <3>2. Part(d, 0, x8) /\ Part(d, Len(x8), j)
        BY <1>2, <1>3, <1>4, <1>x8, <3>1, Parts2
    <3> QED BY <1>x8, <3>2
  <2>8. Part(d, 0, x7) /\ Part(d, 77, i)
    <3>1. Part(d, 0, x7 \o i)
        BY <2>9 DEF x8
    <3>2. Part(d, 0, x7) /\ Part(d, Len(x7), i)
        BY <1>2, <1>3, <1>4, <1>x7, <3>1, Parts2
    <3> QED BY <1>x7, <3>2
  <2>7. Part(d, 0, x6) /\ Part(d, 61, h)
    <3>1. Part(d, 0, x6 \o h)
        BY <2>8 DEF x7
    <3>2. Part(d, 0, x6) /\ Part(d, Len(x6), h)
        BY <1>2, <1>3, <1>4, <1>x6, <3>1, Parts2
    <3> QED BY <1>x6, <3>2
  <2>6. Part(d, 0, x5) /\ Part(d, 49, g)
    <3>1. Part(d, 0, x5 \o g)
        BY <2>7 DEF x6
    <3>2. Part(d, 0, x5) /\ Part(d, Len(x5), g)
        BY <1>2, <1>3, <1>4, <1>x5, <3>1, Parts2
    <3> QED BY <1>x5, <3>2
  <2>5. Part(d, 0, x4) /\ Part(d, 33, f)
    <3>1. Part(d, 0, x4 \o f)
        BY <2>6 DEF x5
    <3>2. Part(d, 0, x4) /\ Part(d, Len(x4), f)
        BY <1>2, <1>3, <1>4, <1>x4, <3>1, Parts2
    <3> QED BY <1>x4, <3>2
  <2>4. Part(d, 0, x3) /\ Part(d, 21, e)
    <3>1. Part(d, 0, x3 \o e)
        BY <2>5 DEF x4
    <3>2. Part(d, 0, x3) /\ Part(d, Len(x3), e)
        BY <1>2, <1>3, <1>4, <1>x3, <3>1, Parts2
    <3> QED BY <1>x3, <3>2
  <2>3. Part(d, 0, x2) /\ Part(d, 9, c)
    <3>1. Part(d, 0, x2 \o c)
        BY <2>4 DEF x3
    <3>2. Part(d, 0, x2) /\ Part(d, Len(x2), c)
        BY <1>2, <1>3, <1>4, <1>x2, <3>1, Parts2
    <3> QED BY <1>x2, <3>2
  <2>2. Part(d, 0, x1) /\ Part(d, 1, b)
    <3>1. Part(d, 0, x1 \o b)
        BY <2>3 DEF x2
    <3>2. Part(d, 0, x1) /\ Part(d, Len(x1), b)
        BY <1>2, <1>3, <1>4, <1>x1, <3>1, Parts2
    <3> QED BY <1>x1, <3>2
  <2>11. d[1] = 1
    <3>1. Part(d, 0, <<1>>) /\ 0 \in Nat
        BY <2>2 DEF x1, a
    <3>2. d[0 + 1] = 1
        BY <3>1, PartByte
    <3> QED BY <3>2
  <2>12. At(d, 1, 8) = m.timestamp_us
    <3>1. 1 \in Nat /\ m.timestamp_us \in Nat /\ 8 \in Nat /\ 8 >= 1
        BY StateValues
    <3> QED BY <2>2, <3>1, PartValue DEF b
  <2>13. At(d, 77, 4) = m.battery_voltage
    <3>1. 77 \in Nat /\ m.battery_voltage \in Nat /\ 4 \in Nat /\ 4 >= 1
        BY StateValues
    <3> QED BY <2>8, <3>1, PartValue DEF i
  <2>14. At(d, 84, 2) = m.packets_per_sec
    <3>1. 84 \in Nat /\ m.packets_per_sec \in Nat /\ 2 \in Nat /\ 2 >= 1
        BY StateValues
    <3> QED BY <2>10, <3>1, PartValue DEF k
  <2>15. FloatsAt(d, 9, 3) = m.position_ned
    <3>1. m.position_ned \in Seq(Nat) /\ Len(m.position_ned) = 3 /\ 9 \in Nat
        BY StateVectors
    <3>2. FloatsAt(d, 9, Len(m.position_ned)) = m.position_ned
        BY <2>3, <3>1, PartFloats DEF c
    <3> QED BY <3>1, <3>2
  <2>16. FloatsAt(d, 21, 3) = m.velocity_ned
    <3>1. m.velocity_ned \in Seq(Nat) /\ Len(m.velocity_ned) = 3 /\ 21 \in Nat
        BY StateVectors
    <3>2. FloatsAt(d, 21, Len(m.velocity_ned)) = m.velocity_ned
        BY <2>4, <3>1, PartFloats DEF e
    <3> QED BY <3>1, <3>2
  <2>17. FloatsAt(d, 33, 4) = m.quaternion_wxyz
    <3>1. m.quaternion_wxyz \in Seq(Nat) /\ Len(m.quaternion_wxyz) = 4 /\ 33 \in Nat
        BY StateVectors
    <3>2. FloatsAt(d, 33, Len(m.quaternion_wxyz)) = m.quaternion_wxyz
        BY <2>5, <3>1, PartFloats DEF f
    <3> QED BY <3>1, <3>2
  <2>18. FloatsAt(d, 49, 3) = m.angular_velocity
    <3>1. m.angular_velocity \in Seq(Nat) /\ Len(m.angular_velocity) = 3 /\ 49 \in Nat
        BY StateVectors
    <3>2. FloatsAt(d, 49, Len(m.angular_velocity)) = m.angular_velocity
        BY <2>6, <3>1, PartFloats DEF g
    <3> QED BY <3>1, <3>2
  <2>19. FloatsAt(d, 61, 4) = m.motor_rpms
    <3>1. m.motor_rpms \in Seq(Nat) /\ Len(m.motor_rpms) = 4 /\ 61 \in Nat
        BY StateVectors
    <3>2. FloatsAt(d, 61, Len(m.motor_rpms)) = m.motor_rpms
        BY <2>7, <3>1, PartFloats DEF h
    <3> QED BY <3>1, <3>2
  <2>20. d[82] = m.battery_percent /\ d[83] = m.armed /\ d[84] = m.flight_mode
    <3>1. Part(d, 81, <<m.battery_percent, m.armed, m.flight_mode>>) /\ 81 \in Nat
        BY <2>9 DEF j
    <3>2. d[81 + 1] = m.battery_percent /\ d[81 + 2] = m.armed /\ d[81 + 3] = m.flight_mode
        BY <3>1, PartBytes3
    <3> QED BY <3>2
  <2> QED BY <2>11, <2>12, <2>13, <2>14, <2>15, <2>16, <2>17, <2>18, <2>19, <2>20
<1> QED BY <1>5, <1>6, <1>x10

\* A frame that agrees with another as far as both go.
Cut(d, whole) == d \in Seq(Int) /\ \A i \in 1..Len(d) : i <= Len(whole) => d[i] = whole[i]

\* A sequence of so many elements.
Long(s, n) == Len(s) = n

\* What it is long enough for it holds.
LEMMA CutPart ==
    ASSUME NEW whole \in Seq(Int), NEW d, Cut(d, whole), NEW n \in Nat, Long(d, n),
           NEW p \in Nat, NEW b \in Seq(Int), NEW l \in Nat, Long(b, l),
           Part(whole, p, b), p + l <= n
    PROVE  Part(d, p, b)
<1>0. p + Len(b) <= Len(d)
    BY DEF Long
<1>1. /\ Len(d) \in Nat /\ Len(whole) \in Nat /\ Len(b) \in Nat
      /\ \A i \in 1..Len(d) : i <= Len(whole) => d[i] = whole[i]
    BY LenProperties DEF Cut
<1>2. p + Len(b) <= Len(whole) /\ \A j \in 1..Len(b) : whole[p + j] = b[j]
    BY DEF Part
<1>3. ASSUME NEW j \in 1..Len(b) PROVE d[p + j] = b[j]
  <2>1. p + j \in 1..Len(d) /\ p + j <= Len(whole)
      BY <1>0, <1>1, <1>2
  <2> QED BY <1>1, <1>2, <2>1
<1> QED BY <1>0, <1>3 DEF Part

\* A frame agrees with what it is the beginning of, and with what it continues.
LEMMA CutsOf ==
    ASSUME NEW whole \in Seq(Int)
    PROVE  /\ Cut(whole, whole)
           /\ Cut(Append(whole, 77), whole) /\ Len(Append(whole, 77)) = Len(whole) + 1
           /\ \A n \in Nat : n <= Len(whole)
                  => Cut(SubSeq(whole, 1, n), whole) /\ Len(SubSeq(whole, 1, n)) = n
<1>1. Len(whole) \in Nat
    BY LenProperties
<1>2. Cut(whole, whole)
    BY DEF Cut
<1>3. Cut(Append(whole, 77), whole) /\ Len(Append(whole, 77)) = Len(whole) + 1
  <2>1. /\ Append(whole, 77) \in Seq(Int) /\ Len(Append(whole, 77)) = Len(whole) + 1
        /\ \A i \in 1..Len(whole) : Append(whole, 77)[i] = whole[i]
      BY AppendProperties
  <2> DEFINE d == Append(whole, 77)
  <2> HIDE DEF d
  <2>2. ASSUME NEW i \in 1..Len(d), i <= Len(whole) PROVE d[i] = whole[i]
    <3>1. i \in 1..Len(whole)
        BY <1>1, <2>1, <2>2 DEF d
    <3> QED BY <2>1, <3>1 DEF d
  <2> QED BY <2>1, <2>2 DEF Cut, d
<1>4. ASSUME NEW n \in Nat, n <= Len(whole)
      PROVE  Cut(SubSeq(whole, 1, n), whole) /\ Len(SubSeq(whole, 1, n)) = n
  <2> DEFINE d == SubSeq(whole, 1, n)
  <2>1. \A i \in 1..n : i \in 1..Len(whole)
      BY <1>1, <1>4
  <2>2. /\ d \in Seq(Int) /\ Len(d) = IF 1 <= n THEN n - 1 + 1 ELSE 0
        /\ \A i \in 1..(n - 1 + 1) : d[i] = whole[1 + i - 1]
      BY <2>1, SubSeqProperties
  <2> HIDE DEF d
  <2>3. Len(d) = n
      BY <2>2
  <2>4. ASSUME NEW i \in 1..Len(d) PROVE d[i] = whole[i]
    <3>1. i \in 1..(n - 1 + 1) /\ 1 + i - 1 = i
        BY <2>3
    <3> QED BY <2>2, <3>1
  <2>5. Cut(d, whole)
      BY <2>2, <2>4 DEF Cut
  <2> QED BY <2>3, <2>5 DEF d
<1> QED BY <1>2, <1>3, <1>4

\* The load as a frame says it, a value that is unknown included.
Load(m) == <<OrNaN(m.battery_terminal_voltage), OrNaN(m.battery_current_a)>>

\* The first bytes and the landed state, then the load, then the stall flag.
StateLaid(m, whole) ==
    /\ whole \in Seq(Int) /\ Len(whole) \in {87, 95, 96}
    /\ Part(whole, 0, FirstBytes(m)) /\ Part(whole, 86, <<m.landed_state>>)
    /\ Len(whole) # 87 => Part(whole, 87, Floats(Load(m)))
    /\ m.board_stall # <<>> => Len(whole) = 96 /\ Part(whole, 95, m.board_stall)
    /\ m.board_stall = <<>> => Len(whole) # 96
    /\ Load(m) \in Seq(Nat) /\ Len(Load(m)) = 2

\* Two sequences of one element, one after the other.
LEMMA TwoJoined ==
    ASSUME NEW a \in Seq(Int), NEW b \in Seq(Int), Len(a) = 1, Len(b) = 1
    PROVE  a \o b = <<a[1], b[1]>>
<1>1. /\ a \o b \in Seq(Int) /\ Len(a \o b) = Len(a) + Len(b)
      /\ \A i \in 1..Len(a) : (a \o b)[i] = a[i]
      /\ \A i \in 1..Len(b) : (a \o b)[Len(a) + i] = b[i]
    BY Joined
<1> DEFINE c == a \o b
<1> HIDE DEF c
<1>2. c \in Seq(Int) /\ Len(c) = 2
    BY <1>1 DEF c
<1>3. c[1] = a[1] /\ c[2] = b[1]
  <2>1. 1 \in 1..Len(a) /\ 1 \in 1..Len(b) /\ Len(a) + 1 = 2
      OBVIOUS
  <2> QED BY <1>1, <2>1 DEF c
<1>4. c = <<c[1], c[2]>>
    BY <1>2
<1> QED BY <1>3, <1>4 DEF c

\* A daemon of this version writes the load when the stall flag follows it or both of its
\* values are known.
LEMMA StateIsLaid ==
    ASSUME NEW m \in StateUpdates, NEW whole, whole = StateUpdateBytes(m)
    PROVE  StateLaid(m, whole)
<1> DEFINE first == FirstBytes(m)
           l == <<m.landed_state>>
           w == Load(m)
           x == Floats(w)
           s == m.board_stall
           both == m.battery_terminal_voltage # <<>> /\ m.battery_current_a # <<>>
           tail == IF s # <<>> THEN x \o s ELSE IF both THEN x ELSE <<>>
<1>1. /\ s \in {<<>>, <<0>>, <<1>>}
      /\ m.battery_terminal_voltage \in {<<>>, <<31>>} /\ m.battery_current_a \in {<<>>, <<32>>}
    BY StateValues
<1>2. w \in Seq(Nat) /\ Len(w) = 2
  <2>1. OrNaN(m.battery_terminal_voltage) \in Nat /\ OrNaN(m.battery_current_a) \in Nat
      BY <1>1 DEF OrNaN, NaN
  <2> QED BY <2>1 DEF Load
<1>3. both => m.battery_terminal_voltage \o m.battery_current_a = w
  <2> HAVE both
  <2>1. m.battery_terminal_voltage = <<31>> /\ m.battery_current_a = <<32>>
      BY <1>1
  <2>2. OrNaN(<<31>>) = 31 /\ OrNaN(<<32>>) = 32
    <3>1. <<31>> # <<>> /\ <<32>> # <<>> /\ <<31>>[1] = 31 /\ <<32>>[1] = 32
        OBVIOUS
    <3> QED BY <3>1 DEF OrNaN
  <2>3. w = <<31, 32>>
      BY <2>1, <2>2 DEF Load
  <2>4. <<31>> \o <<32>> = <<31, 32>>
    <3>1. <<31>> \in Seq(Int) /\ <<32>> \in Seq(Int) /\ Len(<<31>>) = 1 /\ Len(<<32>>) = 1
        OBVIOUS
    <3> QED BY <3>1, TwoJoined
  <2> QED BY <2>1, <2>3, <2>4
<1>4. whole = (first \o l) \o tail
  <2>1. Tag.StateUpdate = 1
      BY DEF Tag
  <2>2. LegacyBytes(m) = first \o l
      BY <2>1 DEF LegacyBytes, FirstBytes
  <2> DEFINE rest == IF s # <<>> THEN x \o s
                     ELSE IF both THEN Floats(m.battery_terminal_voltage \o m.battery_current_a)
                     ELSE <<>>
  <2>3. whole = LegacyBytes(m) \o rest
      BY DEF StateUpdateBytes, Load
  <2>4. rest = tail
    <3>1. CASE s # <<>>
        BY <3>1
    <3>2. CASE s = <<>> /\ both
        BY <1>3, <3>2
    <3>3. CASE s = <<>> /\ ~both
        BY <3>3
    <3> QED BY <3>1, <3>2, <3>3
  <2> HIDE DEF rest, tail, first, l
  <2> QED BY <2>2, <2>3, <2>4
<1>5. first \in Seq(Int) /\ Len(first) = 86
    BY FirstRead
<1>6. l \in Seq(Int) /\ Len(l) = 1
  <2>1. m.landed_state \in Int
      BY StateValues
  <2> QED BY <2>1
<1>7. x \in Seq(Int) /\ Len(x) = 8
  <2>1. x \in Seq(Int) /\ Len(x) = 4 * 2
    <3>1. 2 \in Nat
        OBVIOUS
    <3> HIDE DEF w
    <3> QED BY <1>2, <3>1, VectorBytes
  <2> HIDE DEF x
  <2> QED BY <2>1
<1>8. /\ s \in Seq(Int) /\ (s # <<>> => Len(s) = 1)
      /\ <<>> \in Seq(Int) /\ Len(<<>>) = 0
  <2>1. /\ <<>> \in Seq(Int) /\ Len(<<>>) = 0 /\ <<0>> \in Seq(Int) /\ Len(<<0>>) = 1
        /\ <<1>> \in Seq(Int) /\ Len(<<1>>) = 1
      OBVIOUS
  <2> HIDE DEF s
  <2> QED BY <1>1, <2>1
<1>s. s \in Seq(Int) /\ x \in Seq(Int)
    BY <1>7, <1>8
<1> HIDE DEF first, l, w, x, s, both
<1>u. s # <<>> => Len(s) = 1
    BY <1>8
<1>n. Len(<<>>) = 0 /\ <<>> \in Seq(Int)
    BY <1>8
<1>e. Len(x) = 8
    BY <1>7
<1>9. /\ tail \in Seq(Int)
      /\ s # <<>> => Len(tail) = 9 /\ tail = x \o s
      /\ s = <<>> => (tail = x /\ Len(tail) = 8) \/ (tail = <<>> /\ Len(tail) = 0)
  <2>1. x \o s \in Seq(Int) /\ Len(x \o s) = Len(x) + Len(s)
      BY <1>s, JoinedLength
  <2>2. CASE s # <<>>
    <3>1. tail = x \o s
        BY <2>2
    <3> HIDE DEF tail
    <3>2. Len(s) = 1
        BY <1>u, <2>2
    <3>3. Len(x \o s) = 9
        BY <1>e, <2>1, <3>2
    <3> QED BY <2>1, <2>2, <3>1, <3>3
  <2>3. CASE s = <<>> /\ both
    <3>1. tail = x
        BY <2>3
    <3> HIDE DEF tail
    <3> QED BY <1>s, <1>e, <2>3, <3>1
  <2>4. CASE s = <<>> /\ ~both
    <3>1. tail = <<>>
        BY <2>4
    <3> HIDE DEF tail
    <3> QED BY <1>n, <2>4, <3>1
  <2> QED BY <2>2, <2>3, <2>4
<1> HIDE DEF tail
<1>10. first \o l \in Seq(Int) /\ Len(first \o l) = 87
  <2>1. first \o l \in Seq(Int) /\ Len(first \o l) = Len(first) + Len(l)
      BY <1>5, <1>6, JoinedLength
  <2> QED BY <1>5, <1>6, <2>1
<1>11. whole \in Seq(Int) /\ Len(whole) = 87 + Len(tail) /\ Part(whole, 0, whole)
  <2> DEFINE legacy == first \o l
  <2>0. legacy \in Seq(Int) /\ Len(legacy) = 87 /\ whole = legacy \o tail
      BY <1>4, <1>10
  <2> HIDE DEF legacy
  <2>1. legacy \o tail \in Seq(Int) /\ Len(legacy \o tail) = Len(legacy) + Len(tail)
      BY <1>9, <2>0, JoinedLength
  <2>2. whole \in Seq(Int) /\ Len(whole) = 87 + Len(tail)
      BY <2>0, <2>1
  <2> QED BY <2>2, PartOfAll
<1>y. whole \in Seq(Int)
    BY <1>11
<1>12. Part(whole, 0, first) /\ Part(whole, 86, l) /\ Part(whole, 87, tail)
  <2>1. Part(whole, 0, (first \o l) \o tail)
      BY <1>4, <1>11
  <2>2. Part(whole, 0, first) /\ Part(whole, Len(first), l) /\ Part(whole, Len(first) + Len(l), tail)
      BY <1>5, <1>6, <1>9, <1>11, <2>1, Parts3
  <2> QED BY <1>5, <1>6, <2>2
<1>13. CASE s # <<>>
  <2>1. Part(whole, 87, x) /\ Part(whole, 87 + Len(x), s)
    <3>1. 87 \in Nat /\ Part(whole, 87, x \o s)
        BY <1>9, <1>12, <1>13
    <3> QED BY <1>s, <1>11, <3>1, PartsFrom
  <2>a. Len(tail) = 9
      BY <1>9, <1>13
  <2>b. Len(whole) = 96
      BY <1>11, <2>a
  <2>c. 87 + Len(x) = 95
      BY <1>e
  <2>2. Len(whole) = 96 /\ 87 + Len(x) = 95
      BY <2>b, <2>c
  <2>3. Part(whole, 95, s)
      BY <2>1, <2>2
  <2> QED BY <1>2, <1>11, <1>12, <1>13, <2>1, <2>2, <2>3 DEF StateLaid, first, l, x, w, s
<1>14. CASE s = <<>>
  <2>1. CASE tail = x /\ Len(tail) = 8
    <3>1. Len(whole) = 95
        BY <1>11, <2>1
    <3>2. Part(whole, 87, x)
        BY <1>12, <2>1
    <3>3. whole \in Seq(Int) /\ Len(whole) \in {87, 95, 96} /\ Len(whole) # 96
        BY <1>y, <3>1
    <3> QED BY <1>2, <1>12, <1>14, <3>2, <3>3 DEF StateLaid, first, l, x, w, s
  <2>2. CASE tail = <<>> /\ Len(tail) = 0
    <3>1. Len(whole) = 87
        BY <1>11, <2>2
    <3>2. whole \in Seq(Int) /\ Len(whole) \in {87, 95, 96} /\ ~(Len(whole) # 87) /\ Len(whole) # 96
        BY <1>y, <3>1
    <3> QED BY <1>2, <1>12, <1>14, <3>2 DEF StateLaid, first, l, w, s
  <2> QED BY <1>9, <1>14, <2>1, <2>2
<1> QED BY <1>13, <1>14

\* Two values are eight bytes, and each of them is read where it is.
LEMMA LoadRead ==
    ASSUME NEW w \in Seq(Nat), Len(w) = 2
    PROVE  /\ Floats(w) \in Seq(Int) /\ Long(Floats(w), 8)
           /\ \A d \in Seq(Int) : Part(d, 87, Floats(w))
                  => At(d, 87, 4) = w[1] /\ At(d, 91, 4) = w[2]
<1>1. Floats(w) \in Seq(Int) /\ Len(Floats(w)) = 4 * 2
  <2>1. 2 \in Nat
      OBVIOUS
  <2> QED BY <2>1, VectorBytes
<1>2. Long(Floats(w), 8)
    BY <1>1 DEF Long
<1>3. ASSUME NEW d \in Seq(Int), Part(d, 87, Floats(w))
      PROVE  At(d, 87, 4) = w[1] /\ At(d, 91, 4) = w[2]
  <2>1. \A i \in 1..Len(w) : At(d, 87 + 4 * (i - 1), 4) = w[i]
    <3>1. 87 \in Nat
        OBVIOUS
    <3> QED BY <1>3, <3>1, PartFloats
  <2>2. /\ 1 \in 1..Len(w) /\ 2 \in 1..Len(w)
        /\ 87 + 4 * (1 - 1) = 87 /\ 87 + 4 * (2 - 1) = 91
      OBVIOUS
  <2>3. At(d, 87 + 4 * (1 - 1), 4) = w[1] /\ At(d, 87 + 4 * (2 - 1), 4) = w[2]
      BY <2>1, <2>2
  <2> QED BY <2>2, <2>3
<1> QED BY <1>1, <1>2, <1>3

\* Of a frame of any version a field is what was sent, or it is openly unknown.
LEMMA StateRead ==
    ASSUME NEW m \in StateUpdates, NEW whole, whole = StateUpdateBytes(m),
           NEW d, Cut(d, whole), NEW n \in Nat, Long(d, n), NEW k \in Nat, Long(whole, k),
           n <= k \/ k = 96, NEW r, r = StateUpdateFrom(d)
    PROVE  \/ "refused" \in DOMAIN r
           \/ /\ DOMAIN r = DOMAIN m
              /\ \A field \in DOMAIN m \ {"landed_state", "battery_terminal_voltage",
                                          "battery_current_a", "board_stall"} :
                    r[field] = m[field]
              /\ r.landed_state \in {m.landed_state, 0}
              /\ r.battery_terminal_voltage \in {m.battery_terminal_voltage, <<>>, <<NaN>>}
              /\ r.battery_current_a \in {m.battery_current_a, <<>>, <<NaN>>}
              /\ r.board_stall \in {m.board_stall, <<>>}
<1>0. StateLaid(m, whole)
    BY StateIsLaid
<1>1. /\ whole \in Seq(Int) /\ k \in {87, 95, 96}
      /\ Part(whole, 0, FirstBytes(m)) /\ Part(whole, 86, <<m.landed_state>>)
      /\ k # 87 => Part(whole, 87, Floats(Load(m)))
      /\ m.board_stall # <<>> => k = 96 /\ Part(whole, 95, m.board_stall)
      /\ m.board_stall = <<>> => k # 96
      /\ Load(m) \in Seq(Nat) /\ Len(Load(m)) = 2
    BY <1>0 DEF StateLaid, Long
<1>2. d \in Seq(Int)
    BY DEF Cut
<1>w. whole \in Seq(Int)
    BY <1>1
<1>l. Len(d) = n
    BY DEF Long
<1>3. FirstBytes(m) \in Seq(Int) /\ Len(FirstBytes(m)) = 86
    BY FirstRead
<1>f. "refused" \in DOMAIN TooShort
    BY DEF TooShort, Failed
<1> SUFFICES ASSUME ~("refused" \in DOMAIN r)
             PROVE  /\ DOMAIN r = DOMAIN m
                    /\ \A field \in DOMAIN m \ {"landed_state", "battery_terminal_voltage",
                                                "battery_current_a", "board_stall"} :
                          r[field] = m[field]
                    /\ r.landed_state \in {m.landed_state, 0}
                    /\ r.battery_terminal_voltage \in {m.battery_terminal_voltage, <<>>, <<NaN>>}
                    /\ r.battery_current_a \in {m.battery_current_a, <<>>, <<NaN>>}
                    /\ r.board_stall \in {m.board_stall, <<>>}
    OBVIOUS
<1>4. n >= 86
  <2>1. ~(Len(d) < MinSize)
      BY <1>f DEF StateUpdateFrom
  <2> QED BY <1>l, <2>1 DEF MinSize
<1>5. Part(d, 0, FirstBytes(m))
  <2>1. 0 \in Nat /\ 86 \in Nat /\ 0 + 86 <= n
      BY <1>4
  <2>2. Long(FirstBytes(m), 86)
      BY <1>3 DEF Long
  <2> QED BY <1>1, <1>3, <2>1, <2>2, CutPart
<1>6. /\ d[1] = 1 /\ At(d, 1, 8) = m.timestamp_us
      /\ FloatsAt(d, 9, 3) = m.position_ned /\ FloatsAt(d, 21, 3) = m.velocity_ned
      /\ FloatsAt(d, 33, 4) = m.quaternion_wxyz /\ FloatsAt(d, 49, 3) = m.angular_velocity
      /\ FloatsAt(d, 61, 4) = m.motor_rpms /\ At(d, 77, 4) = m.battery_voltage
      /\ d[82] = m.battery_percent /\ d[83] = m.armed /\ d[84] = m.flight_mode
      /\ At(d, 84, 2) = m.packets_per_sec
    BY <1>2, <1>5, FirstRead
<1> DEFINE load == n >= 95
           stall == IF n >= 96 THEN <<d[96]>> ELSE <<>>
           landed == IF n > 86 THEN d[87] ELSE 0
           volts == IF load THEN <<At(d, 87, 4)>> ELSE <<>>
           amps == IF load THEN <<At(d, 91, 4)>> ELSE <<>>
<1>7. r = [kind |-> "StateUpdate", timestamp_us |-> m.timestamp_us,
           position_ned |-> m.position_ned, velocity_ned |-> m.velocity_ned,
           quaternion_wxyz |-> m.quaternion_wxyz, angular_velocity |-> m.angular_velocity,
           motor_rpms |-> m.motor_rpms, battery_voltage |-> m.battery_voltage,
           battery_percent |-> m.battery_percent, armed |-> m.armed,
           flight_mode |-> m.flight_mode, packets_per_sec |-> m.packets_per_sec,
           landed_state |-> landed, battery_terminal_voltage |-> volts,
           battery_current_a |-> amps, board_stall |-> stall]
  <2>1. Tag.StateUpdate = 1
      BY DEF Tag
  <2>2. ~(n < 86)
      BY <1>4
  <2>3. r = StateUpdateOf(d, load, stall)
      BY <1>l, <1>6, <2>1, <2>2 DEF StateUpdateFrom, MinSize, LoadSize, StallSize
  <2> HIDE DEF load, stall
  <2> QED BY <1>l, <1>6, <2>3 DEF StateUpdateOf, MinSize
<1>8. landed \in {m.landed_state, 0}
  <2>1. ASSUME n > 86 PROVE d[87] = m.landed_state
    <3> DEFINE l == <<m.landed_state>>
    <3>1. l \in Seq(Int) /\ Len(l) = 1
      <4>1. m.landed_state \in Int
          BY StateValues
      <4> QED BY <4>1
    <3>2. Part(whole, 86, l)
        BY <1>1
    <3> HIDE DEF l
    <3>3. 86 \in Nat /\ 1 \in Nat /\ 86 + 1 <= n
        BY <2>1
    <3>a. Long(l, 1)
        BY <3>1 DEF Long
    <3>4. Part(d, 86, l)
        BY <1>1, <3>a, <3>1, <3>2, <3>3, CutPart
    <3>5. d[86 + 1] = m.landed_state
      <4> DEFINE v == m.landed_state
      <4>1. 86 \in Nat /\ Part(d, 86, <<v>>)
          BY <3>4 DEF l
      <4> HIDE DEF v
      <4>2. d[86 + 1] = v
          BY <4>1, PartByte
      <4> QED BY <4>2 DEF v
    <3> QED BY <3>5
  <2>2. CASE n > 86
      BY <2>1, <2>2
  <2>3. CASE ~(n > 86)
      BY <2>3
  <2> QED BY <2>2, <2>3
<1>9. /\ volts \in {m.battery_terminal_voltage, <<>>, <<NaN>>}
      /\ amps \in {m.battery_current_a, <<>>, <<NaN>>}
  <2>1. CASE load
    <3> DEFINE w == Load(m)
               x == Floats(w)
    <3>1. k # 87
        BY <2>1
    <3>2. Part(whole, 87, x) /\ w \in Seq(Nat) /\ Len(w) = 2
        BY <1>1, <3>1
    <3> HIDE DEF w
    <3>3. /\ x \in Seq(Int) /\ Long(x, 8)
          /\ Part(d, 87, x) => At(d, 87, 4) = w[1] /\ At(d, 91, 4) = w[2]
      <4>1. w \in Seq(Nat) /\ Len(w) = 2
          BY <3>2
      <4> QED BY <1>2, <4>1, LoadRead
    <3> HIDE DEF x
    <3>4. 87 \in Nat /\ 8 \in Nat /\ 87 + 8 <= n
        BY <2>1
    <3>5. Part(d, 87, x)
      <4>1. x \in Seq(Int) /\ Part(whole, 87, x) /\ Long(x, 8)
          BY <3>2, <3>3
      <4> QED BY <1>w, <3>4, <4>1, CutPart
    <3>7. At(d, 87, 4) = w[1] /\ At(d, 91, 4) = w[2]
        BY <3>3, <3>5
    <3>8. w[1] = OrNaN(m.battery_terminal_voltage) /\ w[2] = OrNaN(m.battery_current_a)
        BY DEF w, Load
    <3>9. volts = <<OrNaN(m.battery_terminal_voltage)>> /\ amps = <<OrNaN(m.battery_current_a)>>
        BY <2>1, <3>7, <3>8
    <3>10. /\ m.battery_terminal_voltage \in {<<>>, <<31>>}
           /\ m.battery_current_a \in {<<>>, <<32>>}
        BY StateValues
    <3> HIDE DEF volts, amps
    <3> QED BY <3>9, <3>10 DEF OrNaN
  <2>2. CASE ~load
    <3>1. volts = <<>> /\ amps = <<>>
        BY <2>2
    <3> HIDE DEF volts, amps
    <3> QED BY <3>1
  <2> QED BY <2>1, <2>2
<1>10. stall \in {m.board_stall, <<>>}
  <2>1. CASE n >= 96
    <3>1. k = 96
      <4>1. k \in {87, 95, 96}
          BY <1>1
      <4> QED BY <2>1, <4>1
    <3>2. m.board_stall \in {<<0>>, <<1>>} /\ Part(whole, 95, m.board_stall)
        BY <1>1, <3>1, StateValues
    <3>3. PICK v \in {0, 1} : m.board_stall = <<v>>
        BY <3>2
    <3> DEFINE l == <<v>>
    <3>4. Part(d, 95, l)
      <4>1. l \in Seq(Int) /\ Len(l) = 1
          BY <3>3
      <4>2. 95 \in Nat /\ 1 \in Nat /\ 95 + 1 <= n
          BY <2>1
      <4>3. Long(l, 1)
          BY <4>1 DEF Long
      <4>4. Part(whole, 95, l) /\ l \in Seq(Int)
          BY <3>2, <3>3, <4>1
      <4> HIDE DEF l
      <4> QED BY <1>w, <4>2, <4>3, <4>4, CutPart
    <3>5. d[95 + 1] = v
      <4>1. 95 \in Nat
          OBVIOUS
      <4> QED BY <3>4, <4>1, PartByte
    <3>6. stall = <<v>>
        BY <2>1, <3>5
    <3> QED BY <3>3, <3>6
  <2>2. CASE ~(n >= 96)
      BY <2>2
  <2> QED BY <2>1, <2>2
<1>11. DOMAIN m = DOMAIN r
  <2> HIDE DEF landed, volts, amps, stall
  <2> QED BY <1>7 DEF StateUpdates
<1> HIDE DEF landed, volts, amps, stall
<1>12. ASSUME NEW field \in DOMAIN m \ {"landed_state", "battery_terminal_voltage",
                                       "battery_current_a", "board_stall"}
       PROVE  r[field] = m[field]
  <2>1. m.kind = "StateUpdate"
      BY StateValues
  <2> QED BY <1>7, <1>11, <2>1
<1> QED BY <1>7, <1>8, <1>9, <1>10, <1>11, <1>12

\* Whatever the version of the daemon, its state is read as it was sent or as unknown.
LEMMA StateFaithful ==
    ASSUME sent \in StateUpdates, LaidOut(sent, frame)
    PROVE  Faithful(StateUpdateFrom(frame))
<1> DEFINE whole == StateUpdateBytes(sent)
           n == Len(frame)
           k == Len(whole)
           r == StateUpdateFrom(frame)
<1>1. sent.kind = "StateUpdate" /\ sent \in Outgoing
    BY OutgoingKinds DEF Outgoing
<1>2. OutgoingBytes(sent) = whole /\ ThisVersion(sent) = whole
    BY <1>1 DEF OutgoingBytes, ThisVersion
<1>3. StateLaid(sent, whole)
    BY StateIsLaid
<1> HIDE DEF whole
<1>4. whole \in Seq(Int) /\ k \in Nat /\ (sent.board_stall # <<>> => k = 96)
    BY <1>3, LenProperties DEF StateLaid
<1>5. Cut(frame, whole) /\ n \in Nat /\ (n <= k \/ k = 96)
  <2>1. CASE frame = whole
      BY <1>4, <2>1, CutsOf
  <2>2. ASSUME NEW i \in {85, 86, 87, 95}, i < k, frame = SubSeq(whole, 1, i)
        PROVE  Cut(frame, whole) /\ n \in Nat /\ (n <= k \/ k = 96)
    <3>1. i \in Nat /\ i <= k
        BY <1>4, <2>2
    <3>2. Cut(frame, whole) /\ Len(frame) = i
        BY <1>4, <2>2, <3>1, CutsOf
    <3> QED BY <3>1, <3>2
  <2>3. CASE frame = Append(whole, 77) /\ sent.board_stall # <<>>
    <3>1. Cut(frame, whole) /\ Len(frame) = Len(whole) + 1
        BY <1>4, <2>3, CutsOf
    <3>2. k = 96
        BY <1>4, <2>3
    <3> QED BY <3>1, <3>2
  <2>4. \/ frame = whole
        \/ \E i \in {85, 86, 87, 95} : i < k /\ frame = SubSeq(whole, 1, i)
        \/ frame = Append(whole, 77) /\ sent.board_stall # <<>>
      BY <1>1, <1>2 DEF LaidOut
  <2> QED BY <2>1, <2>2, <2>3, <2>4
<1>6. Long(frame, n) /\ Long(whole, k)
    BY DEF Long
<1>7. \/ "refused" \in DOMAIN r
      \/ /\ DOMAIN r = DOMAIN sent
         /\ \A field \in DOMAIN sent \ {"landed_state", "battery_terminal_voltage",
                                        "battery_current_a", "board_stall"} :
               r[field] = sent[field]
         /\ r.landed_state \in {sent.landed_state, 0}
         /\ r.battery_terminal_voltage \in {sent.battery_terminal_voltage, <<>>, <<NaN>>}
         /\ r.battery_current_a \in {sent.battery_current_a, <<>>, <<NaN>>}
         /\ r.board_stall \in {sent.board_stall, <<>>}
  <2>1. whole = StateUpdateBytes(sent)
      BY DEF whole
  <2> HIDE DEF n, k, r
  <2>2. r = StateUpdateFrom(frame)
      BY DEF r
  <2> QED BY <1>4, <1>5, <1>6, <2>1, <2>2, StateRead
<1> HIDE DEF r
<1>8. Said(sent) = sent
    BY <1>1 DEF Said
<1>9. /\ Unknown("landed_state") = {0}
      /\ Unknown("battery_terminal_voltage") = {<<>>, <<NaN>>}
      /\ Unknown("battery_current_a") = {<<>>, <<NaN>>}
      /\ Unknown("board_stall") = {<<>>}
  <2>1. Unknown("landed_state") = {0}
      BY <1>1 DEF Unknown
  <2>2. Unknown("battery_terminal_voltage") = {<<>>, <<NaN>>}
      BY <1>1 DEF Unknown
  <2>3. Unknown("battery_current_a") = {<<>>, <<NaN>>}
      BY <1>1 DEF Unknown
  <2>4. Unknown("board_stall") = {<<>>}
      BY <1>1 DEF Unknown
  <2> QED BY <2>1, <2>2, <2>3, <2>4
<1>10. ASSUME "refused" \notin DOMAIN r, NEW field \in DOMAIN sent
       PROVE  r[field] = sent[field] \/ r[field] \in Unknown(field)
  <2>1. CASE field \notin {"landed_state", "battery_terminal_voltage", "battery_current_a",
                           "board_stall"}
      BY <1>7, <1>10, <2>1
  <2>2. CASE field = "landed_state"
      BY <1>7, <1>9, <1>10, <2>2
  <2>3. CASE field = "battery_terminal_voltage"
      BY <1>7, <1>9, <1>10, <2>3
  <2>4. CASE field = "battery_current_a"
      BY <1>7, <1>9, <1>10, <2>4
  <2>5. CASE field = "board_stall"
      BY <1>7, <1>9, <1>10, <2>5
  <2> QED BY <2>1, <2>2, <2>3, <2>4, <2>5
<1> QED BY <1>7, <1>8, <1>10 DEF Faithful, r

\* A reader that takes what was said takes nothing else.
LEMMA SaidFaithful ==
    ASSUME NEW r, r = Said(sent) \/ "refused" \in DOMAIN r, DOMAIN Said(sent) = DOMAIN sent
    PROVE  Faithful(r)
BY DEF Faithful

\* The frames that the page reads by their layout, with what a newer daemon appends.
LEMMA BinariesFaithful ==
    ASSUME sent \in Binaries, LaidOut(sent, frame)
    PROVE  Faithful(BrowserRead(frame))
<1> DEFINE whole == OutgoingBytes(sent)
<1>1. sent.kind \in BinaryKinds /\ sent \in Outgoing
    BY OutgoingKinds DEF Outgoing, Binaries
<1>2. ThisVersion(sent) = whole /\ whole \in Seq(Int)
    BY <1>1, BinariesTagged DEF ThisVersion, Tagged
<1>3. frame = whole \/ frame = Append(whole, 77)
    BY <1>1, <1>2 DEF LaidOut, BinaryKinds
<1>4. frame \in Seq(Int) /\ Part(frame, 0, whole)
  <2> HIDE DEF whole
  <2> QED BY <1>2, <1>3, PartOfAll
<1>5. BrowserRead(frame) = sent
    BY <1>4, BinariesRead
<1>6. Said(sent) = sent
    BY <1>1 DEF Said, BinaryKinds
<1> QED BY <1>5, <1>6, SaidFaithful

\* The page's requests.
LEMMA IncomingFaithful ==
    ASSUME sent \in Incoming, frame # <<>>, LaidOut(sent, frame), Framed(sent, frame),
           ~Shifted, "panicked" \notin DOMAIN IncomingFrom(frame, sent)
    PROVE  Faithful(IncomingFrom(frame, sent))
<1>t. /\ Tag.Command = 16 /\ Tag.NshCommand = 18 /\ Tag.TerrainTiles = 24 /\ Tag.ConfigureBuild = 19
      /\ Tag.SnapshotStored = 22 /\ Tag.RestoreSnapshot = 23 /\ Tag.Handshake = 17
      /\ Tag.Shutdown = 7 /\ Tag.RequestPreflightCheck = 20 /\ Tag.ApplyPreflightParams = 21
    BY DEF Tag
<1>f. "refused" \in DOMAIN TooShort /\ "refused" \in DOMAIN Invalid
    BY DEF TooShort, Invalid, Failed
<1>v. ThisVersion(sent) = PageBytes(sent)
    BY Apart DEF ThisVersion
<1>1. CASE sent \in Commands
  <2>1. sent.kind = "Command" /\ frame[1] = 16
      BY <1>1, <1>t, IncomingKinds DEF Framed, Tagged
  <2>2. IncomingFrom(frame, sent) = CommandFrom(frame)
      BY <1>t, <2>1 DEF IncomingFrom
  <2>3. PageBytes(sent) = CommandBytes(sent)
      BY <2>1 DEF PageBytes
  <2>4. \/ frame = CommandBytes(sent)
        \/ Complete(sent) /\ frame = Append(CommandBytes(sent), 77)
      BY <1>v, <2>1, <2>3 DEF LaidOut
  <2>5. CommandFrom(frame) \in {TooShort, Invalid, Meant(sent)}
      BY <1>1, <2>4, CommandRead
  <2>6. Said(sent) = Meant(sent) /\ DOMAIN Meant(sent) = DOMAIN sent
      BY <2>1 DEF Said, Meant
  <2> QED BY <1>f, <2>2, <2>5, <2>6, SaidFaithful
<1>2. CASE sent \in NshCommands
  <2>1. sent.kind = "NshCommand" /\ frame[1] = 18
      BY <1>2, <1>t, IncomingKinds DEF Framed, Tagged
  <2>2. IncomingFrom(frame, sent) = NshCommandFrom(frame)
      BY <1>t, <2>1 DEF IncomingFrom
  <2>3. PageBytes(sent) = NshCommandBytes(sent)
      BY <2>1 DEF PageBytes
  <2>4. frame \in {NshCommandBytes(sent), Append(NshCommandBytes(sent), 77),
                   Front(NshCommandBytes(sent))}
      BY <1>v, <2>1, <2>3 DEF LaidOut
  <2>5. NshCommandFrom(frame) \in {TooShort, sent}
      BY <1>2, <2>4, NshCommandRead
  <2>6. Said(sent) = sent
      BY <2>1 DEF Said
  <2> QED BY <1>f, <2>2, <2>5, <2>6, SaidFaithful
<1>3. CASE sent \in TileFrames
  <2>1. TilesLaid(sent, frame) /\ sent.kind = "TerrainTiles"
      BY <1>3, IncomingKinds DEF Framed
  <2>3. IncomingFrom(frame, sent) = TerrainTilesFrom(frame, sent)
    <3>1. frame[1] = 24
        BY <1>3, <2>1, TilesTaken
    <3> QED BY <1>t, <3>1 DEF IncomingFrom
  <2>2. TerrainTilesFrom(frame, sent) \in {sent, Invalid, TooShort}
    <3>1. CASE Placed
        BY <1>3, <3>1, TilesRead DEF Placed
    <3>2. CASE ~Placed
      <4>1. PICK f \in 0..3, t \in 0..3 : f + t \in 1..3 /\ frame = StrayTilesBytes(sent, f, t)
          BY <2>1, <3>2 DEF TilesLaid, Placed
      <4>2. \/ TerrainTilesFrom(frame, sent) \in {Invalid, TooShort}
            \/ TerrainTilesFrom(frame, sent) = Panicked
            \/ Len(frame) = Len(PaddedTilesBytes(sent))
          BY <1>3, <4>1, StrayRead
      <4>3. "panicked" \in DOMAIN Panicked
          BY DEF Panicked
      <4> QED BY <2>1, <2>3, <3>2, <4>2, <4>3 DEF Shifted
    <3> QED BY <3>1, <3>2
  <2>4. Said(sent) = sent
      BY <2>1 DEF Said
  <2> QED BY <1>f, <2>2, <2>3, <2>4, SaidFaithful
<1>j. ASSUME sent \in ConfigureBuilds \cup SnapshotsStored \cup RestoreSnapshots
      PROVE  frame = JsonBytes(sent) /\ frame[1] = Tag[sent.kind]
  <2>1. frame = JsonBytes(sent)
      BY <1>j DEF Framed
  <2> QED BY <2>1 DEF JsonBytes
<1>4. CASE sent \in ConfigureBuilds
  <2>1. sent.kind = "ConfigureBuild"
      BY <1>4, IncomingKinds
  <2>2. frame = JsonBytes(sent) /\ frame[1] = 19
      BY <1>4, <1>j, <1>t, <2>1
  <2>3. IncomingFrom(frame, sent) = ConfigureBuildFrom(frame)
      BY <1>t, <2>2 DEF IncomingFrom
  <2> QED BY <1>4, <2>2, <2>3, BuildFaithful
<1>5. CASE sent \in SnapshotsStored
  <2>1. sent.kind = "SnapshotStored" /\ DOMAIN sent = {"kind", "board_identity", "stored", "error"}
      BY <1>5 DEF SnapshotsStored
  <2>2. frame = JsonBytes(sent) /\ frame[1] = 22
      BY <1>5, <1>j, <1>t, <2>1
  <2>3. IncomingFrom(frame, sent) = SnapshotStoredFrom(frame)
      BY <1>t, <2>2 DEF IncomingFrom
  <2>4. SnapshotStoredFrom(frame) = JsonFrom(JsonBytes(sent), DOMAIN sent)
      BY <2>1, <2>2 DEF SnapshotStoredFrom
  <2> QED BY <2>1, <2>3, <2>4, JsonFaithful
<1>6. CASE sent \in RestoreSnapshots
  <2>1. sent.kind = "RestoreSnapshot" /\ DOMAIN sent = {"kind", "board_identity", "params"}
      BY <1>6 DEF RestoreSnapshots
  <2>2. frame = JsonBytes(sent) /\ frame[1] = 23
      BY <1>6, <1>j, <1>t, <2>1
  <2>3. IncomingFrom(frame, sent) = RestoreSnapshotFrom(frame)
      BY <1>t, <2>2 DEF IncomingFrom
  <2>4. RestoreSnapshotFrom(frame) = JsonFrom(JsonBytes(sent), DOMAIN sent)
      BY <2>1, <2>2 DEF RestoreSnapshotFrom
  <2> QED BY <2>1, <2>3, <2>4, JsonFaithful
<1>7. CASE sent \in Bare
  <2>1. frame[1] = Tag[sent.kind] /\ sent.kind \in BareKinds
      BY <1>7, IncomingKinds DEF Framed
  <2> DEFINE r == CHOOSE x \in Bare : Tag[x.kind] = frame[1]
  <2>2. r \in Bare /\ Tag[r.kind] = frame[1]
      BY <1>7, <2>1
  <2>3. r.kind \in BareKinds
      BY <2>2, IncomingKinds
  <2>4. frame[1] \notin {16, 18, 24, 19, 22, 23}
      BY <1>t, <2>1 DEF BareKinds
  <2>5. IncomingFrom(frame, sent) = r
      BY <1>7, <1>t, <2>1, <2>4 DEF IncomingFrom
  <2> HIDE DEF r
  <2>6. r.kind = sent.kind
      BY <1>t, <2>1, <2>2, <2>3 DEF BareKinds
  <2>7. r = sent
      BY <1>7, <2>2, <2>6 DEF Bare
  <2>8. Said(sent) = sent
      BY <2>1 DEF Said, BareKinds
  <2> QED BY <2>5, <2>7, <2>8, SaidFaithful
<1> QED BY <1>1, <1>2, <1>3, <1>4, <1>5, <1>6, <1>7 DEF Incoming

\* Whoever reads it, a frame is refused or says what was sent.
LEMMA ReaderFaithful ==
    ASSUME sent \in Outgoing \cup Incoming, frame # <<>>, LaidOut(sent, frame),
           Framed(sent, frame), ~Shifted, "panicked" \notin DOMAIN Reader
    PROVE  Faithful(Reader)
<1>1. CASE sent \in Incoming
    BY <1>1, IncomingFaithful DEF Reader
<1>2. CASE sent \in StateUpdates
  <2>1. sent \notin Incoming /\ sent.kind = "StateUpdate"
      BY <1>2, Apart, OutgoingKinds DEF Outgoing
  <2> QED BY <1>2, <2>1, StateFaithful DEF Reader
<1>3. CASE sent \in Json
  <2>1. sent \notin Incoming /\ sent.kind \in JsonKinds
      BY <1>3, Apart, OutgoingKinds DEF Outgoing
  <2>2. Reader = JsonFrom(JsonBytes(sent), DOMAIN sent)
      BY <1>3, <2>1 DEF Reader, Framed, JsonKinds
  <2> QED BY <2>1, <2>2, JsonFaithful
<1>4. CASE sent \in Binaries
  <2>1. sent \in Outgoing
      BY <1>4 DEF Outgoing, Binaries
  <2>2. sent \notin Incoming /\ sent.kind # "StateUpdate" /\ sent \notin Json
      BY <1>4, <2>1, Apart, OutgoingKinds DEF BinaryKinds, JsonKinds
  <2>3. Reader = BrowserRead(frame)
      BY <2>2 DEF Reader
  <2> QED BY <1>4, <2>3, BinariesFaithful
<1> QED BY <1>1, <1>2, <1>3, <1>4 DEF Outgoing, Binaries

\* Whatever the version of the peer, for any builds, tiles and header lengths: a field that a
\* reader takes from a frame is the one that was sent or is openly unknown, and no request is
\* taken for another, but for tiles with as many stray bytes as their filler would have (the
\* to_bytes and from_bytes of the messages, and the page's reader).
THEOREM NothingIsInvented == ConfigureSpec => []NothingInvented
<1>1. WireInv => NothingInvented
  <2> SUFFICES ASSUME WireInv, Accepted, ~Shifted
               PROVE  /\ DOMAIN got[1] = DOMAIN sent
                      /\ \A field \in DOMAIN sent :
                            got[1][field] = Said(sent)[field] \/ got[1][field] \in Unknown(field)
      BY DEF NothingInvented
  <2>1. got # <<>> /\ "refused" \notin DOMAIN got[1] /\ "panicked" \notin DOMAIN got[1]
      BY DEF Accepted
  <2>2. frame # <<>> /\ got[1] = Reader
      BY <2>1 DEF WireInv
  <2>3. Faithful(Reader)
      BY <2>1, <2>2, ReaderFaithful DEF WireInv
  <2> QED BY <2>1, <2>2, <2>3 DEF Faithful
<1>2. SpecsInit => WireInv
    BY WireInit, WireOfBuild
<1>3. WireInv /\ [ConfigureNext]_allVars => WireInv'
    BY WireStep, WireOfBuild
<1> QED BY <1>1, <1>2, <1>3, PTL DEF ConfigureSpec

(* Specs: build specifications and their limits.                           *)

\* The fields of a build specification, each with its provenance.
Keys == DOMAIN new_build_spec

\* The steps that follow one, by name.
LEMMA AfterSteps ==
    /\ After("prop") = "frame" /\ After("frame") = "esc" /\ After("esc") = "fc"
    /\ After("fc") = "battery" /\ After("battery") = "gps" /\ After("gps") = "compute"
<1> DEFINE nth(step) == CHOOSE i \in DOMAIN Steps : Steps[i] = step
<1>1. DOMAIN Steps = 1..9
    BY DEF Steps
<1>2. /\ Steps[1] = "location" /\ Steps[2] = "motor" /\ Steps[3] = "prop" /\ Steps[4] = "frame"
      /\ Steps[5] = "esc" /\ Steps[6] = "fc" /\ Steps[7] = "battery" /\ Steps[8] = "gps"
      /\ Steps[9] = "compute"
    BY DEF Steps
<1>3. ASSUME NEW k \in 1..8 PROVE After(Steps[k]) = Steps[k + 1]
  <2>1. \A i \in 1..9 : Steps[i] = Steps[k] => i = k
      BY <1>2
  <2>2. nth(Steps[k]) = k
      BY <1>1, <2>1
  <2>3. After(Steps[k]) = Steps[1 + nth(Steps[k])]
      BY DEF After
  <2> HIDE DEF nth
  <2> QED BY <2>2, <2>3
<1>4. /\ After(Steps[3]) = Steps[4] /\ After(Steps[4]) = Steps[5] /\ After(Steps[5]) = Steps[6]
      /\ After(Steps[6]) = Steps[7] /\ After(Steps[7]) = Steps[8] /\ After(Steps[8]) = Steps[9]
    BY <1>3
<1> QED BY <1>2, <1>4

\* From the motor on, the provenance of a limit is where its value came from, and what
\* was computed is of that provenance.
LimitsInv ==
    /\ at \in {"idle", "location", "motor", "prop", "frame", "esc", "fc", "battery", "gps",
               "compute", "done", "failed"}
    /\ at \in {"idle", "location"} => limit_prov = {}
    /\ at \notin {"idle", "location", "failed"} =>
          /\ DOMAIN spec = Keys
          /\ "c_rating" \in limit_prov <=> spec.c_rating = "catalogue"
          /\ "esc_continuous" \in limit_prov <=> spec.esc_continuous = "catalogue"
          /\ "esc_burst" \in limit_prov <=> spec.esc_burst = "catalogue"
    /\ at = "done" => config.estimated_limits = current_limits(limit_prov)

\* A daemon begins without a specification.
LEMMA LimitsInit == SpecsInit => LimitsInv
BY DEF SpecsInit, LimitsInv

\* The fields of the specification.
LEMMA SpecKeys ==
    Keys = {"motor_weight", "resistance", "prop_pitch", "prop_weight", "frame_weight", "wheelbase",
            "material", "esc_continuous", "esc_burst", "esc_weight", "fc_weight", "imu_chip",
            "baro_chip", "mag_chip", "battery_weight", "c_rating", "gps", "gps_rate", "gps_weight"}
BY DEF Keys, new_build_spec

\* No step of the gathering, and no frame, breaks the account of the limits.
LEMMA LimitsStep == LimitsInv /\ [ConfigureNext]_allVars => LimitsInv'
<1> SUFFICES ASSUME LimitsInv, [ConfigureNext]_allVars PROVE LimitsInv'
    OBVIOUS
<1> USE DEF partVars
<1>1. CASE Begin
    BY <1>1 DEF Begin, LimitsInv
<1>2. CASE ResolveLocation
  <2>1. /\ at = "location" /\ UNCHANGED limit_prov
        /\ at' = "failed" \/ (at' = "motor" /\ spec' = new_build_spec)
      BY <1>2 DEF ResolveLocation
  <2>2. /\ DOMAIN new_build_spec = Keys /\ new_build_spec.c_rating # "catalogue"
        /\ new_build_spec.esc_continuous # "catalogue" /\ new_build_spec.esc_burst # "catalogue"
      BY DEF Keys, new_build_spec
  <2> QED BY <2>1, <2>2 DEF LimitsInv
<1>3. ASSUME NEW step \in DOMAIN Slug, FetchFails(step) PROVE LimitsInv'
  <2>1. step \in {"motor", "prop", "frame", "esc", "fc", "battery", "gps"}
      BY DEF Slug
  <2>2. /\ at = step /\ at' = IF step = "motor" THEN "failed" ELSE After(step)
        /\ UNCHANGED <<spec, limit_prov>>
      BY <1>3 DEF FetchFails
  <2>3. at' \in {"failed", "frame", "esc", "fc", "battery", "gps", "compute"}
      BY <2>1, <2>2, AfterSteps
  <2> QED BY <2>1, <2>2, <2>3 DEF LimitsInv
<1>k. ASSUME at \in {"motor", "prop", "frame", "fc", "gps"}, limit_prov' = limit_prov,
             at' \in {"failed", "prop", "frame", "esc", "battery", "compute"},
             at' # "failed" => DOMAIN spec' = DOMAIN spec,
             at' # "failed" => /\ spec'.c_rating = spec.c_rating
                               /\ spec'.esc_continuous = spec.esc_continuous
                               /\ spec'.esc_burst = spec.esc_burst
      PROVE  LimitsInv'
    BY <1>k DEF LimitsInv
<1>t. at \notin {"idle", "location", "failed"} => DOMAIN spec = Keys
    BY DEF LimitsInv
<1>4. ASSUME NEW answer, FetchMotor(answer) PROVE LimitsInv'
    BY <1>4, <1>k, <1>t, SpecKeys DEF FetchMotor
<1>5. ASSUME NEW answer, FetchProp(answer) PROVE LimitsInv'
    BY <1>5, <1>k, <1>t, SpecKeys DEF FetchProp
<1>6. CASE FetchFrame("carbon")
    BY <1>6, <1>k, <1>t, SpecKeys DEF FetchFrame
<1>7. ASSUME NEW answer \in [esc_continuous : BOOLEAN, esc_burst : BOOLEAN, weightG : {TRUE}],
             FetchEsc(answer)
      PROVE  LimitsInv'
  <2>1. /\ at = "esc" /\ at' = "fc"
        /\ spec' = apply_esc_catalogue(spec, answer)
        /\ limit_prov' = limit_prov \cup Told(answer, {"esc_continuous", "esc_burst"})
      BY <1>7 DEF FetchEsc
  <2>2. /\ DOMAIN spec' = Keys /\ spec'.c_rating = spec.c_rating
        /\ spec'.esc_continuous = IF answer.esc_continuous THEN "catalogue" ELSE spec.esc_continuous
        /\ spec'.esc_burst = IF answer.esc_burst THEN "catalogue" ELSE spec.esc_burst
      BY <1>t, <2>1, SpecKeys DEF apply_esc_catalogue, From
  <2>3. /\ "c_rating" \in limit_prov' <=> "c_rating" \in limit_prov
        /\ "esc_continuous" \in limit_prov' <=>
              "esc_continuous" \in limit_prov \/ answer.esc_continuous
        /\ "esc_burst" \in limit_prov' <=> "esc_burst" \in limit_prov \/ answer.esc_burst
      BY <2>1 DEF Told
  <2> QED BY <2>1, <2>2, <2>3 DEF LimitsInv
<1>8. ASSUME NEW answer, FetchFc(answer) PROVE LimitsInv'
    BY <1>8, <1>k, <1>t, SpecKeys DEF FetchFc, apply_fc_catalogue
<1>9. ASSUME NEW answer \in [weightG : BOOLEAN, dischargeRateC : {0, 75}], FetchBattery(answer)
      PROVE  LimitsInv'
  <2> DEFINE rated == answer.dischargeRateC > 0
  <2>1. /\ at = "battery" /\ at' = "gps"
        /\ spec' = apply_battery_c_rating(
                       [spec EXCEPT !.battery_weight = From(answer, "weightG", @)], answer)
        /\ limit_prov' = limit_prov \cup {p \in {"c_rating"} : rated}
      BY <1>9 DEF FetchBattery
  <2> HIDE DEF rated
  <2>2. /\ DOMAIN spec' = Keys
        /\ spec'.c_rating = IF rated THEN "catalogue" ELSE spec.c_rating
        /\ spec'.esc_continuous = spec.esc_continuous /\ spec'.esc_burst = spec.esc_burst
      BY <1>t, <2>1, SpecKeys DEF apply_battery_c_rating, rated
  <2>3. /\ "c_rating" \in limit_prov' <=> "c_rating" \in limit_prov \/ rated
        /\ "esc_continuous" \in limit_prov' <=> "esc_continuous" \in limit_prov
        /\ "esc_burst" \in limit_prov' <=> "esc_burst" \in limit_prov
      BY <2>1
  <2> QED BY <2>1, <2>2, <2>3 DEF LimitsInv
<1>10. ASSUME NEW chipset, FetchGps(chipset) PROVE LimitsInv'
    BY <1>10, <1>k, <1>t, SpecKeys DEF FetchGps
<1>11. ASSUME NEW required \in HoverRequired, Compute(required) PROVE LimitsInv'
    BY <1>11 DEF Compute, LimitsInv
<1>12. CASE UNCHANGED <<at, partVars, config>>
    BY <1>12 DEF LimitsInv
<1> QED BY <1>1, <1>2, <1>3, <1>4, <1>5, <1>6, <1>7, <1>8, <1>9, <1>10, <1>11, <1>12
        DEF ConfigureNext, SpecsNext, allVars

\* What is said of the limits is what the physics was given.
LEMMA LimitsNamed == LimitsInv => LimitsHonest
<1> SUFFICES ASSUME LimitsInv, at = "done" PROVE LimitsHonest
    BY DEF LimitsHonest
<1>1. config.estimated_limits = current_limits(limit_prov)
    BY DEF LimitsInv
<1>2. /\ "c_rating" \in limit_prov <=> spec.c_rating = "catalogue"
      /\ "esc_continuous" \in limit_prov <=> spec.esc_continuous = "catalogue"
      /\ "esc_burst" \in limit_prov <=> spec.esc_burst = "catalogue"
    BY DEF LimitsInv
<1> DEFINE e == current_limits(limit_prov)
<1>3. /\ "battery_c_rating" \in e <=> "c_rating" \notin limit_prov
      /\ "battery_max_current_a" \in e <=> "c_rating" \notin limit_prov
      /\ "esc_continuous_current_a" \in e <=> "esc_continuous" \notin limit_prov
      /\ "esc_burst_current_a" \in e <=> "esc_burst" \notin limit_prov
      /\ "max_current_per_motor_a" \in e
            <=> ("c_rating" \notin limit_prov \/ "esc_burst" \notin limit_prov)
    BY DEF current_limits
<1> HIDE DEF e
<1>4. config.estimated_limits = e
    BY <1>1 DEF e
<1> QED BY <1>2, <1>3, <1>4 DEF LimitsHonest

\* A client is never shown an estimate as a specification, nor a figure of the catalogue as an
\* estimate: what is named is what the physics used and the catalogue did not supply, whichever
\* parts were named, found or answered in part (LimitProvenance, current_limits).
THEOREM LimitsAreHonest == ConfigureSpec => []LimitsHonest
BY LimitsInit, LimitsStep, LimitsNamed, PTL DEF ConfigureSpec

------------------------------------------------------------------------------
(* Masses.                                                                 *)

\* A battery outside the range that the estimate of its mass was fitted over.
Extrapolated == request.battery_capacity_mah[1] \notin FitMin..FitMax

\* What is named so far is what was not found of the parts that were asked for so far; the
\* request is of a page, and a build was accepted before anything was.
MassesInv ==
    /\ at # "idle" => Accepted /\ request.kind = "ConfigureBuild"
    /\ at \in {"idle", "location", "motor", "prop"} => estimated_masses = {}
    /\ at = "motor" => spec = new_build_spec
    /\ at \in {"prop", "frame", "esc", "fc", "battery"} =>
          /\ spec.battery_weight # "catalogue"
          /\ "battery" \notin estimated_masses /\ "battery (extrapolated)" \notin estimated_masses
    /\ at = "prop" => spec.prop_weight # "catalogue"
    /\ at \in {"frame", "esc", "fc", "battery", "gps", "compute", "done"} =>
          ("propeller" \in estimated_masses <=> spec.prop_weight # "catalogue")
    /\ at \in {"gps", "compute", "done"} =>
          /\ "battery" \in estimated_masses <=> spec.battery_weight # "catalogue"
          /\ "battery (extrapolated)" \in estimated_masses
                <=> (spec.battery_weight # "catalogue" /\ Extrapolated)

\* Nothing is asked for yet.
LEMMA MassesInit == SpecsInit => MassesInv
BY DEF SpecsInit, MassesInv

\* A message that was read stays as it was read.
LEMMA ReadOnce == [Next]_vars /\ got # <<>> /\ (frame = <<>> => got = <<>>) => got' = got
<1> SUFFICES ASSUME [Next]_vars, got # <<>>, frame # <<>> PROVE got' = got
    OBVIOUS
<1>1. ~Write /\ ~WritePadded /\ ~WriteNew /\ ~WriteUnterminated /\ ~Read
    BY DEF Write, WritePadded, WriteNew, WriteUnterminated, Read
<1>2. ~(\E n \in {MinSize - 1, MinSize, LegacySize, LoadSize} : WriteOld(n))
    BY DEF WriteOld
<1>3. ~(\E filler, tail \in 0..3 : WriteStray(filler, tail))
    BY DEF WriteStray
<1> QED BY <1>1, <1>2, <1>3 DEF Next, vars

\* Every answer of the catalogue, and every one that does not come, keeps to it.
LEMMA MassesStep == LimitsInv /\ WireInv /\ MassesInv /\ [ConfigureNext]_allVars => MassesInv'
<1> SUFFICES ASSUME LimitsInv, WireInv, MassesInv, [ConfigureNext]_allVars PROVE MassesInv'
    OBVIOUS
<1> USE DEF partVars
<1>r. at # "idle" => got # <<>> /\ got' = got
  <2>1. [Next]_vars
      BY WireOfBuild
  <2>2. at # "idle" => got # <<>>
      BY DEF MassesInv, Accepted
  <2> QED BY <2>1, <2>2, ReadOnce DEF WireInv
<1>s. ASSUME got' = got PROVE request' = request /\ (Accepted' <=> Accepted) /\ (Extrapolated' <=> Extrapolated)
    BY <1>s DEF request, Accepted, Extrapolated
<1>t. at \notin {"idle", "location", "failed"} => DOMAIN spec = Keys
    BY DEF LimitsInv
<1>a. at # "idle" => /\ Accepted' /\ request'.kind = "ConfigureBuild"
                     /\ Extrapolated' <=> Extrapolated
    BY <1>r, <1>s DEF MassesInv
<1>1. CASE Begin
  <2>1. /\ at = "idle" /\ at' = "location" /\ estimated_masses' = estimated_masses /\ got' = got
        /\ Accepted /\ request.kind = "ConfigureBuild"
      BY <1>1 DEF Begin, vars
  <2>2. Accepted' /\ request'.kind = "ConfigureBuild"
      BY <1>s, <2>1
  <2> QED BY <2>1, <2>2 DEF MassesInv
<1>2. CASE ResolveLocation
  <2>1. /\ at = "location" /\ UNCHANGED estimated_masses
        /\ at' = "failed" \/ (at' = "motor" /\ spec' = new_build_spec)
      BY <1>2 DEF ResolveLocation
  <2> QED BY <1>a, <2>1 DEF MassesInv
<1>n. new_build_spec.prop_weight # "catalogue" /\ new_build_spec.battery_weight # "catalogue"
    BY DEF new_build_spec
<1>3. ASSUME NEW step \in DOMAIN Slug, FetchFails(step) PROVE MassesInv'
  <2>1. step \in {"motor", "prop", "frame", "esc", "fc", "battery", "gps"}
      BY DEF Slug
  <2>2. /\ at = step /\ at' = IF step = "motor" THEN "failed" ELSE After(step)
        /\ estimated_masses' = estimated_masses \cup MassUnknown(step) /\ spec' = spec
      BY <1>3 DEF FetchFails
  <2>3. CASE step = "motor"
      BY <1>a, <2>2, <2>3 DEF MassesInv
  <2>4. CASE step = "prop"
    <3>1. at' = "frame" /\ MassUnknown(step) = {"propeller"}
        BY <2>2, <2>4, AfterSteps DEF MassUnknown
    <3> QED BY <1>a, <2>2, <2>4, <3>1 DEF MassesInv
  <2>5. CASE step = "battery"
    <3>1. /\ at' = "gps"
          /\ MassUnknown(step) = {"battery"} \cup {m \in {"battery (extrapolated)"} : Extrapolated}
        BY <2>2, <2>5, AfterSteps DEF MassUnknown, Extrapolated
    <3> HIDE DEF Extrapolated
    <3> QED BY <1>a, <2>2, <2>5, <3>1 DEF MassesInv
  <2>6. CASE step \in {"frame", "esc", "fc"}
    <3>1. at' \in {"esc", "fc", "battery"} /\ MassUnknown(step) = {}
        BY <2>2, <2>6, AfterSteps DEF MassUnknown
    <3> QED BY <1>a, <2>2, <2>6, <3>1 DEF MassesInv
  <2>7. CASE step = "gps"
    <3>1. at' = "compute" /\ MassUnknown(step) = {}
        BY <2>2, <2>7, AfterSteps DEF MassUnknown
    <3> HIDE DEF Extrapolated
    <3> QED BY <1>a, <2>2, <2>7, <3>1 DEF MassesInv
  <2> QED BY <2>1, <2>3, <2>4, <2>5, <2>6, <2>7
<1>4. ASSUME NEW answer, FetchMotor(answer) PROVE MassesInv'
  <2>1. /\ at = "motor" /\ estimated_masses' = estimated_masses
        /\ \/ at' = "failed"
           \/ /\ at' = "prop"
              /\ spec' = [spec EXCEPT !.motor_weight = From(answer, "weightG", @),
                                      !.resistance = From(answer, "resistanceOhm", @)]
      BY <1>4 DEF FetchMotor
  <2>2. at' = "prop" => /\ spec'.prop_weight = spec.prop_weight
                        /\ spec'.battery_weight = spec.battery_weight
      BY <1>t, <2>1, SpecKeys
  <2>3. spec.prop_weight # "catalogue" /\ spec.battery_weight # "catalogue"
      BY <1>n, <2>1 DEF MassesInv
  <2> QED BY <1>a, <2>1, <2>2, <2>3 DEF MassesInv
<1>5. ASSUME NEW answer \in [pitchIn : {TRUE}, weightG : BOOLEAN], FetchProp(answer) PROVE MassesInv'
  <2>1. /\ at = "prop" /\ at' = "frame"
        /\ spec' = [spec EXCEPT !.prop_pitch = From(answer, "pitchIn", @),
                                !.prop_weight = From(answer, "weightG", @)]
        /\ estimated_masses' =
                estimated_masses \cup IF answer.weightG THEN {} ELSE MassUnknown("prop")
      BY <1>5 DEF FetchProp
  <2>2. /\ spec'.prop_weight = IF answer.weightG THEN "catalogue" ELSE spec.prop_weight
        /\ spec'.battery_weight = spec.battery_weight
      BY <1>t, <2>1, SpecKeys DEF From
  <2>3. MassUnknown("prop") = {"propeller"}
      BY DEF MassUnknown
  <2>4. "propeller" \in estimated_masses' <=> spec'.prop_weight # "catalogue"
      BY <2>1, <2>2, <2>3 DEF MassesInv
  <2>5. /\ "battery" \notin estimated_masses' /\ "battery (extrapolated)" \notin estimated_masses'
        /\ spec'.battery_weight # "catalogue"
      BY <2>1, <2>2, <2>3 DEF MassesInv
  <2> QED BY <1>a, <2>1, <2>4, <2>5 DEF MassesInv
<1>k. ASSUME at \in {"frame", "esc", "fc"}, at' \in {"esc", "fc", "battery"},
             estimated_masses' = estimated_masses,
             spec'.prop_weight = spec.prop_weight, spec'.battery_weight = spec.battery_weight
      PROVE  MassesInv'
    BY <1>a, <1>k DEF MassesInv
<1>6. CASE FetchFrame("carbon")
    BY <1>6, <1>k, <1>t, SpecKeys DEF FetchFrame
<1>7. ASSUME NEW answer, FetchEsc(answer) PROVE MassesInv'
    BY <1>7, <1>k, <1>t, SpecKeys DEF FetchEsc, apply_esc_catalogue
<1>8. ASSUME NEW answer, FetchFc(answer) PROVE MassesInv'
    BY <1>8, <1>k, <1>t, SpecKeys DEF FetchFc, apply_fc_catalogue
<1>9. ASSUME NEW answer \in [weightG : BOOLEAN, dischargeRateC : {0, 75}], FetchBattery(answer)
      PROVE  MassesInv'
  <2> DEFINE b == [spec EXCEPT !.battery_weight = From(answer, "weightG", @)]
  <2>1. /\ at = "battery" /\ at' = "gps" /\ spec' = apply_battery_c_rating(b, answer)
        /\ estimated_masses' =
                estimated_masses \cup IF answer.weightG THEN {} ELSE MassUnknown("battery")
      BY <1>9 DEF FetchBattery
  <2>2. /\ b.battery_weight = IF answer.weightG THEN "catalogue" ELSE spec.battery_weight
        /\ b.prop_weight = spec.prop_weight /\ DOMAIN b = Keys
      BY <1>t, <2>1, SpecKeys DEF From
  <2> HIDE DEF b
  <2>3. spec'.battery_weight = b.battery_weight /\ spec'.prop_weight = b.prop_weight
      BY <2>1, <2>2, SpecKeys DEF apply_battery_c_rating
  <2>4. MassUnknown("battery") =
            {"battery"} \cup {m \in {"battery (extrapolated)"} : Extrapolated}
      BY DEF MassUnknown, Extrapolated
  <2> HIDE DEF Extrapolated
  <2>5. /\ "propeller" \in estimated_masses <=> spec.prop_weight # "catalogue"
        /\ spec.battery_weight # "catalogue" /\ "battery" \notin estimated_masses
        /\ "battery (extrapolated)" \notin estimated_masses
      BY <2>1 DEF MassesInv
  <2>6. /\ "propeller" \in estimated_masses' <=> spec'.prop_weight # "catalogue"
        /\ "battery" \in estimated_masses' <=> spec'.battery_weight # "catalogue"
        /\ "battery (extrapolated)" \in estimated_masses'
              <=> (spec'.battery_weight # "catalogue" /\ Extrapolated)
      BY <2>1, <2>2, <2>3, <2>4, <2>5
  <2> QED BY <1>a, <2>1, <2>6 DEF MassesInv
<1>l. ASSUME at \in {"gps", "compute"}, at' \in {"compute", "done"},
             estimated_masses' = estimated_masses,
             spec'.prop_weight = spec.prop_weight, spec'.battery_weight = spec.battery_weight
      PROVE  MassesInv'
  <2> HIDE DEF Extrapolated
  <2> QED BY <1>a, <1>l DEF MassesInv
<1>10. ASSUME NEW chipset, FetchGps(chipset) PROVE MassesInv'
    BY <1>10, <1>l, <1>t, SpecKeys DEF FetchGps
<1>11. ASSUME NEW required \in HoverRequired, Compute(required) PROVE MassesInv'
    BY <1>11, <1>l DEF Compute
<1>12. CASE UNCHANGED <<at, partVars, config>>
  <2> HIDE DEF Extrapolated
  <2> QED BY <1>12, <1>a DEF MassesInv
<1> HIDE DEF MassesInv
<1> QED BY <1>1, <1>2, <1>3, <1>4, <1>5, <1>6, <1>7, <1>8, <1>9, <1>10, <1>11, <1>12
        DEF ConfigureNext, SpecsNext, allVars

\* The capacity of a build that was read is the page's, or the default one when it says none,
\* which is within the range of the estimate.
LEMMA CapacityRead ==
    ASSUME WireInv, Accepted, request.kind = "ConfigureBuild"
    PROVE  request.battery_capacity_mah =
               IF sent.battery_capacity_mah = <<>> THEN <<1500>> ELSE sent.battery_capacity_mah
<1>1. /\ got # <<>> /\ "refused" \notin DOMAIN got[1] /\ "panicked" \notin DOMAIN got[1]
      /\ frame # <<>> /\ got[1] = Reader /\ Framed(sent, frame)
      /\ sent \in Outgoing \cup Incoming
    BY DEF WireInv, Accepted
<1>2. Reader.kind = "ConfigureBuild" /\ Reader.kind = sent.kind
    BY <1>1, ReaderKind DEF request, Rejected
<1>3. sent \in ConfigureBuilds /\ sent \in Incoming
    BY <1>1, <1>2, ByKind DEF Incoming
<1> DEFINE c == CHOOSE x \in ConfigureBuilds : TRUE
           key == "battery_capacity_mah"
           body == [k \in {j \in DOMAIN sent : j \in MayBeAbsent(sent.kind) => sent[j] # <<>>}
                        |-> sent[k]]
<1>4. c \in ConfigureBuilds
    BY <1>3
<1>5. DOMAIN c = DOMAIN sent /\ key \in DOMAIN c
    BY <1>3, <1>4, BuildsAssumption DEF ConfigureFields
<1>6. frame = <<Tag[sent.kind], body>>
    BY <1>1, <1>3 DEF Framed, JsonBytes
<1>7. key \in MayBeAbsent(sent.kind)
    BY <1>2, <1>5 DEF MayBeAbsent
<1>8. key \in DOMAIN body <=> sent[key] # <<>>
    BY <1>5, <1>7
<1>9. key \in DOMAIN body => body[key] = sent[key]
    OBVIOUS
<1>10. DefaultOf(key) = <<1500>>
    BY DEF DefaultOf
<1> HIDE DEF c, body
<1>11. frame[1] = Tag[sent.kind] /\ frame[2] = body /\ Len(frame) = 2
    BY <1>6
<1>12. Reader = JsonFrom(frame, DOMAIN c)
  <2>1. /\ Tag.Command = 16 /\ Tag.NshCommand = 18 /\ Tag.TerrainTiles = 24
        /\ Tag.ConfigureBuild = 19 /\ Tag.SnapshotStored = 22 /\ Tag.RestoreSnapshot = 23
      BY DEF Tag
  <2>2. frame[1] = 19
      BY <1>2, <1>11, <2>1
  <2>3. frame # <<>>
      BY <1>1
  <2>4. IncomingFrom(frame, sent) = ConfigureBuildFrom(frame)
      BY <2>1, <2>2, <2>3 DEF IncomingFrom
  <2> QED BY <1>3, <2>4 DEF Reader, ConfigureBuildFrom, c
<1>13. \/ JsonFrom(frame, DOMAIN c) = Invalid
       \/ JsonFrom(frame, DOMAIN c) =
             [k \in DOMAIN c |-> IF k \in DOMAIN frame[2] THEN frame[2][k] ELSE DefaultOf(k)]
  <2>1. ~(Len(frame) < 2)
      BY <1>11
  <2> QED BY <2>1 DEF JsonFrom
<1>14. Reader # Invalid
    BY <1>1 DEF Invalid, Failed
<1>15. Reader[key] = IF sent[key] = <<>> THEN <<1500>> ELSE sent[key]
    BY <1>5, <1>8, <1>9, <1>10, <1>11, <1>12, <1>13, <1>14
<1> QED BY <1>1, <1>15 DEF request

\* What is named when all parts were asked for is what the property says.
LEMMA MassesNamed == WireInv /\ MassesInv => MassesHonest
<1> SUFFICES ASSUME WireInv, MassesInv, at = "done" PROVE MassesHonest
    BY DEF MassesHonest
<1>1. Accepted /\ request.kind = "ConfigureBuild"
    BY DEF MassesInv
<1>2. request.battery_capacity_mah =
          IF sent.battery_capacity_mah = <<>> THEN <<1500>> ELSE sent.battery_capacity_mah
    BY <1>1, CapacityRead
<1>3. Extrapolated <=> /\ sent.battery_capacity_mah # <<>>
                       /\ sent.battery_capacity_mah[1] \notin FitMin..FitMax
  <2>1. CASE sent.battery_capacity_mah = <<>>
    <3>1. request.battery_capacity_mah[1] = 1500
        BY <1>2, <2>1
    <3>2. 1500 \in FitMin..FitMax
        BY DEF FitMin, FitMax
    <3> QED BY <2>1, <3>1, <3>2 DEF Extrapolated
  <2>2. CASE sent.battery_capacity_mah # <<>>
      BY <1>2, <2>2 DEF Extrapolated
  <2> QED BY <2>1, <2>2
<1>4. /\ "propeller" \in estimated_masses <=> spec.prop_weight # "catalogue"
      /\ "battery" \in estimated_masses <=> spec.battery_weight # "catalogue"
      /\ "battery (extrapolated)" \in estimated_masses
            <=> (spec.battery_weight # "catalogue" /\ Extrapolated)
  <2> HIDE DEF Extrapolated
  <2> QED BY DEF MassesInv
<1> HIDE DEF Extrapolated
<1> QED BY <1>3, <1>4 DEF MassesHonest

\* And the same of the masses that are estimated, the propeller's and the battery's: each is
\* named exactly when its part did not supply it, and a battery outside the range of the fit
\* once more, by the capacity that the page sent (estimated_masses, apply).
THEOREM EstimatesAreDisclosed == ConfigureSpec => []EstimatesDisclosed
<1>1. SpecsInit => LimitsInv /\ WireInv /\ MassesInv
    BY LimitsInit, MassesInit, WireInit, WireOfBuild
<1>2. LimitsInv /\ WireInv /\ MassesInv /\ [ConfigureNext]_allVars
          => (LimitsInv /\ WireInv /\ MassesInv)'
    BY LimitsStep, MassesStep, WireStep, WireOfBuild
<1>3. LimitsInv /\ WireInv /\ MassesInv => EstimatesDisclosed
    BY LimitsNamed, MassesNamed DEF EstimatesDisclosed
<1> QED BY <1>1, <1>2, <1>3, PTL DEF ConfigureSpec
==============================================================================
