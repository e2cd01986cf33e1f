-------------------------------- MODULE Terrain --------------------------------
(***************************************************************************)
(* The ground under the simulated vehicle: the cache of elevation tiles    *)
(* (terrain/src/lib.rs) between the three that use it without a common     *)
(* lock - the simulation loop, which publishes where the vehicle is        *)
(* (loop_runner.rs); the WebSocket server, which asks the browser for what *)
(* is missing and ingests what it sends (server.rs, handler.rs); and a     *)
(* configure, which anchors the cache to another place (build_config.rs).  *)
(*                                                                         *)
(* The world is a line of Size cells.  A tile of the fine zoom is one cell *)
(* and one of the coarse zoom is two.  A site is finer: Grain of them lie  *)
(* in a cell, and two that are no further apart than Tolerance count as    *)
(* the same, which is no equivalence.  The vehicle moves by whole cells.   *)
(* Elevations are left out, but for whether they are plausible.            *)
(***************************************************************************)
EXTENDS Integers, Sequences, FiniteSets, FiniteSetsExt

CONSTANTS
    Size,           \* 2^z at the fine zoom
    Sites,          \* the places that a build can name as its location
    Grain,          \* the places in a cell
    Tolerance,      \* SAME_ORIGIN_METERS
    MaxResident,    \* DEFAULT_MAX_RESIDENT_TILES
    Reach,          \* MAX_ORIGIN_DISTANCE_M, in cells
    Radius,         \* TERRAIN_NEED_RADIUS
    BackoffAfter,   \* TERRAIN_NEED_BACKOFF_AFTER
    BrowserZoom,    \* the zoom at which the browser sends
    Strays,         \* frames of another sender
    MaxBuilds,      \* bound of the model: configurations
    MaxEvents       \* bound of the model: moves, stray frames and reloads

NoZoom == 0
Coarse == 1
Fine == 2
Zooms == {Coarse, Fine}
Width(z) == IF z = Fine THEN Size ELSE Size \div 2

\* The cell of a site.
Home(site) == site \div Grain

ASSUME TerrainAssumption ==
    /\ Size \in Nat /\ Size > 1 /\ Size % 2 = 0
    /\ Sites \subseteq Nat /\ \A site \in Sites : Home(site) \in 0..(Size - 1)
    /\ Tolerance \in Nat
    /\ MaxResident \in Nat /\ MaxResident > 0
    /\ Reach \in Nat /\ Radius \in Nat
    /\ BackoffAfter \in Nat \ {0}
    /\ BrowserZoom \in Zooms

NoSite == -1

\* Of a frame: the tiles of one zoom, and whether their samples are plausible.
Runs == Seq([z : Zooms, xs : SUBSET Nat, ok : BOOLEAN])

Frames == [origin : Int, runs : Runs]

ASSUME StraysAssumption == Strays \subseteq Frames

Nowhere == [origin |-> NoSite, runs |-> <<>>]

VARIABLES
    origin,     \* origin_lat, origin_lon; NoSite until has_origin
    zoom,       \* TerrainCacheInner.zoom
    tiles,      \* the resident tiles, each with the origin of the frame it came in
    off,        \* vehicle_north, vehicle_east
    ned,        \* the loop's own position
    stale,      \* the loop has not applied the build that moved the origin
    job,        \* the frame being ingested, how far it is, the origin it was
                \* validated against
    last,       \* last_terrain_need
    unanswered, \* terrain_need_unanswered
    slow,       \* the ticker runs at TERRAIN_NEED_IDLE_INTERVAL
    asked,      \* the TerrainNeed that the browser has not answered
    belief,     \* the origin that the browser fetches for
    news,       \* an origin that the browser has not heard of
    wire,       \* frames on their way
    budget,     \* what is left of the bounds
    raced,      \* history: the cache was emptied while a frame was being ingested
    kept        \* history: re-anchorings since the cache was last emptied

cache   == <<origin, zoom, tiles>>
place   == <<off, ned, stale>>
need    == <<last, unanswered, slow>>
browser == <<asked, belief, news, wire>>
terrainVars == <<cache, place, job, need, browser, budget, raced, kept>>

------------------------------------------------------------------------------
Coords == UNION {[z : {z}, x : 0..(2 * Width(z) + Radius)] : z \in Zooms}
Coord(t) == [z |-> t.z, x |-> t.x]
Resident == {Coord(t) : t \in tiles}

\* from_lon_lat of a NED offset, and the tile of a place.
CellOf(p, z) == IF z = Fine THEN p ELSE p \div 2
Centre == CellOf(Home(origin) + off, zoom)

Far(a, b) == IF a > b THEN a - b ELSE b - a
Corner(c) == IF c.z = Fine THEN c.x ELSE 2 * c.x
Valid(c, ok, at) ==
    /\ c.x < Width(c.z)
    /\ Far(at, Corner(c)) <= Reach
    /\ ok

InWorld(c) == c.x < Width(c.z)

TerrainTypeOK ==
    /\ origin \in Sites \cup {NoSite}
    /\ zoom \in Zooms \cup {NoZoom}
    /\ \A t \in tiles : Coord(t) \in Coords /\ InWorld(t) /\ t.from \in Int
    /\ Cardinality(tiles) <= MaxResident
    /\ off \in Int /\ ned \in Int /\ stale \in BOOLEAN
    /\ job.stage \in {"none", "checked", "read"}
    /\ last \subseteq Coords /\ unanswered \in Nat /\ slow \in BOOLEAN
    /\ asked \subseteq Coords
    /\ belief \in Sites \cup {NoSite} /\ news \in Sites \cup {NoSite}
    /\ kept \in Nat

NoJob == [stage |-> "none", frame |-> Nowhere, at |-> NoSite]

TerrainInit ==
    /\ origin = NoSite /\ zoom = NoZoom /\ tiles = {}
    /\ off = 0 /\ ned = 0 /\ stale = FALSE
    /\ job = NoJob
    /\ last = {} /\ unanswered = 0 /\ slow = FALSE
    /\ asked = {} /\ belief = NoSite /\ news = NoSite /\ wire = <<>>
    /\ budget = [builds |-> MaxBuilds, events |-> MaxEvents]
    /\ raced = FALSE /\ kept = 0

Spend(what) ==
    /\ budget[what] > 0
    /\ budget' = [budget EXCEPT ![what] = @ - 1]

------------------------------------------------------------------------------
(* The configure and the simulation loop.                                  *)

\* How two origins are compared, here and at the ingress.
SamePlace(a, b) == Far(a, b) <= Tolerance

\* A cache is emptied for a new origin, not for the first one.
Discarded(site) == origin # NoSite /\ ~SamePlace(origin, site)

SetOrigin(site) ==
    /\ Spend("builds")
    /\ IF Discarded(site)
         THEN tiles' = {} /\ zoom' = NoZoom
         ELSE UNCHANGED <<tiles, zoom>>
    /\ origin' = site
    /\ off' = 0
    /\ stale' = TRUE
    /\ news' = site
    /\ raced' = (raced \/ (Discarded(site) /\ job.stage # "none"))
    /\ kept' = IF origin = NoSite \/ Discarded(site) THEN 0 ELSE kept + 1
    /\ UNCHANGED <<ned, job, need, asked, belief, wire>>

\* The loop takes the build from its channel and starts it at its origin.
ApplyBuild ==
    /\ stale
    /\ stale' = FALSE /\ ned' = 0
    /\ UNCHANGED <<cache, off, job, need, browser, budget, raced, kept>>

\* A physics step publishes the position, whatever is resident.
PublishPosition ==
    /\ off # ned
    /\ off' = ned
    /\ UNCHANGED <<cache, ned, stale, job, need, browser, budget, raced, kept>>

Fly(d) ==
    /\ Spend("events")
    /\ origin # NoSite /\ Home(origin) + ned + d \in 0..(Size - 1)
    /\ ned' = ned + d
    /\ UNCHANGED <<cache, off, stale, job, need, browser, raced, kept>>

------------------------------------------------------------------------------
(* Ingress: a frame is checked against the origin, validated against the   *)
(* origin read a second time, and written, each under a lock of its own.   *)

\* Mutant of IsAnchoredTo: frames are accepted whatever they are anchored to.
IsAnchoredToAny(site) == origin # NoSite
IsAnchoredTo(site) == origin # NoSite /\ SamePlace(origin, site)

TakeFrame ==
    /\ wire # <<>> /\ job.stage = "none"
    /\ wire' = Tail(wire)
    /\ job' = IF IsAnchoredTo(Head(wire).origin)
                THEN [NoJob EXCEPT !.stage = "checked", !.frame = Head(wire)]
                ELSE NoJob
    /\ UNCHANGED <<cache, place, need, asked, belief, news, budget, raced, kept>>

\* The origin that the tiles of the frame are validated against.
ReadOrigin ==
    /\ job.stage = "checked"
    /\ job' = [job EXCEPT !.stage = "read", !.at = origin]
    /\ UNCHANGED <<cache, place, need, browser, budget, raced, kept>>

\* The tiles of one zoom in a frame that pass validate_tile.
AcceptedTiles(run) ==
    {[z |-> run.z, x |-> x, from |-> job.frame.origin] :
        x \in {x \in run.xs : Valid([z |-> run.z, x |-> x], run.ok, Home(job.at))}}

\* A tile replaces the one in its place; one of another zoom replaces them all.
Stored(held, run) ==
    IF AcceptedTiles(run) = {} THEN held
    ELSE [zoom  |-> run.z,
          tiles |-> {t \in held.tiles : /\ held.zoom = run.z
                                        /\ Coord(t) \notin {Coord(a) : a \in AcceptedTiles(run)}}
                      \cup AcceptedTiles(run)]

StoredAll(runs) ==
    LET f[i \in 0..Len(runs)] ==
          IF i = 0 THEN [zoom |-> zoom, tiles |-> tiles] ELSE Stored(f[i - 1], runs[i])
    IN  f[Len(runs)]

\* The furthest tiles go first; of tiles as far, any.
Evictions(held, centre) ==
    {drop \in kSubset(Cardinality(held) - MaxResident, held) :
        \A d \in drop, k \in held \ drop : Far(d.x, centre) >= Far(k.x, centre)}

EvictToBound(held) ==
    IF Cardinality(held.tiles) <= MaxResident THEN tiles' = held.tiles
    ELSE \E drop \in Evictions(held.tiles, CellOf(Home(origin) + off, held.zoom)) :
            tiles' = held.tiles \ drop

WriteTiles ==
    /\ job.stage = "read"
    /\ LET held == StoredAll(job.frame.runs) IN
         /\ zoom' = held.zoom
         /\ EvictToBound(held)
    /\ job' = NoJob
    /\ UNCHANGED <<origin, place, need, browser, budget, raced, kept>>

------------------------------------------------------------------------------
(* The need ticker of a connection, and its browser.                       *)

\* Mutant of Ring: what is behind the vehicle is not asked for.
RingAhead == {[z |-> zoom, x |-> Centre + d] : d \in 1..Radius}
Ring == {[z |-> zoom, x |-> IF Centre + d < 0 THEN 0 ELSE Centre + d] : d \in -Radius..Radius}

MissingAroundVehicle ==
    IF zoom = NoZoom \/ origin = NoSite THEN {} ELSE Ring \ Resident

NeedTick ==
    LET coords == MissingAroundVehicle IN
    /\ IF coords = {}
         THEN /\ unanswered' = 0 /\ last' = {} /\ slow' = FALSE
              /\ UNCHANGED asked
         ELSE /\ unanswered' = IF coords # last THEN 0
                               ELSE IF unanswered = BackoffAfter THEN unanswered
                               ELSE unanswered + 1
              /\ last' = coords
              /\ slow' = (slow \/ (coords = last /\ unanswered + 1 = BackoffAfter))
              /\ asked' = coords
    /\ UNCHANGED <<cache, place, job, belief, news, wire, budget, raced, kept>>

\* The browser sends what it was asked for, so far as there are such tiles.
Answer ==
    /\ asked # {} /\ wire = <<>> /\ belief # NoSite
    /\ asked' = {}
    /\ LET z == (CHOOSE c \in asked : TRUE).z
           xs == {c.x : c \in {c \in asked : InWorld(c)}} IN
         wire' = IF xs = {} THEN wire
                 ELSE Append(wire, [origin |-> belief, runs |-> <<[z |-> z, xs |-> xs, ok |-> TRUE]>>])
    /\ UNCHANGED <<cache, place, job, need, belief, news, budget, raced, kept>>

\* A configuration makes the browser send a first batch, unprompted.
FirstBatch ==
    /\ news # NoSite /\ wire = <<>>
    /\ belief' = news /\ news' = NoSite
    /\ wire' = Append(wire, [origin |-> news,
                             runs |-> <<[z |-> BrowserZoom, xs |-> {CellOf(Home(news), BrowserZoom)},
                                         ok |-> TRUE]>>])
    /\ UNCHANGED <<cache, place, job, need, asked, budget, raced, kept>>

\* Another tab, or another producer, at a zoom of its own.
Stray(frame) ==
    /\ Spend("events") /\ wire = <<>>
    /\ wire' = Append(wire, frame)
    /\ UNCHANGED <<cache, place, job, need, asked, belief, news, raced, kept>>

\* The tab reloads: what is on its way is lost, and its connection is a new one.
Reload ==
    /\ Spend("events")
    /\ wire' = <<>> /\ asked' = {}
    /\ last' = {} /\ unanswered' = 0 /\ slow' = FALSE
    /\ UNCHANGED <<cache, place, job, belief, news, raced, kept>>

------------------------------------------------------------------------------
TerrainNext ==
    \/ \E site \in Sites : SetOrigin(site)
    \/ ApplyBuild
    \/ PublishPosition
    \/ \E d \in {-1, 1} : Fly(d)
    \/ TakeFrame
    \/ ReadOrigin
    \/ WriteTiles
    \/ NeedTick
    \/ Answer
    \/ FirstBatch
    \/ \E frame \in Strays : Stray(frame)
    \/ Reload

TerrainSpec == TerrainInit /\ [][TerrainNext]_terrainVars

\* The loop steps, the ticker ticks, frames are read, and the browser answers.
FairTerrainSpec ==
    /\ TerrainSpec
    /\ WF_terrainVars(ApplyBuild) /\ WF_terrainVars(PublishPosition)
    /\ WF_terrainVars(TakeFrame) /\ WF_terrainVars(ReadOrigin) /\ WF_terrainVars(WriteTiles)
    /\ WF_terrainVars(NeedTick) /\ SF_terrainVars(Answer) /\ SF_terrainVars(FirstBatch)

------------------------------------------------------------------------------
(* Properties                                                              *)

\* A tile is of a frame that was anchored within the tolerance of the origin, or
\* of one that the origin has crept away from since: a re-anchoring within the
\* tolerance moves the origin and keeps the tiles.  No other tile gets in, but
\* while the cache is emptied under an ingest (is_anchored_to, set_origin).
AnchoredUnlessRaced ==
    raced \/ \A t \in tiles : Far(t.from, origin) <= (1 + kept) * Tolerance

\* A frame at the zoom that is resident never takes the ground from under the
\* vehicle, however many tiles it brings (evict_to_bound).
UnderfootKept ==
    [][(/\ job.stage = "read" /\ job'.stage = "none"
        /\ \A i \in DOMAIN job.frame.runs : job.frame.runs[i].z = zoom) =>
            LET under == [z |-> zoom, x |-> Centre] IN
            under \in Resident => under \in Resident']_terrainVars

Surrounded ==
    /\ zoom # NoZoom
    /\ \A x \in 0..(Width(zoom) - 1) :
          Far(x, Centre) <= Radius => [z |-> zoom, x |-> x] \in Resident

\* Once anything is resident the rest follows, after moves, re-anchorings,
\* stray frames and lost ones: the ring around the vehicle is whole, unless
\* nothing is resident at all (missing_around_vehicle, the need ticker).
RingFills == <>[](zoom = NoZoom) \/ []<>Surrounded
================================================================================
