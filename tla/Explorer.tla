------------------------------ MODULE Explorer ------------------------------
(***************************************************************************)
(* How the user moves through the tree that SizeTree grows under his       *)
(* pointer (desktop/src/view.rs, charts.rs and the focus of app.rs): the   *)
(* cells of the treemap, the slices of the sunburst and the rows of the    *)
(* graph, what a click on each does, the breadcrumbs and the inspector.    *)
(* Squarify lays the cells out.                                            *)
(***************************************************************************)
EXTENDS SizeTree

CONSTANTS
    RootName,                       \* full path of the scan root: tokens, "/" among them
    LIST_LIMIT,                     \* cells of the treemap
    RINGS,                          \* of the sunburst
    MINIMUM_SWEEP, FILLER,          \* and its narrowest parts, in per cent of a turn
    CHILD_LIMIT, PREVIEWED, GRANDCHILDREN_EACH,    \* rows of the graph
    ZOOMS,                          \* zooms of the graph, in per cent of 1.0
    TAIL,                           \* breadcrumbs kept at the end of a deep trail
    BREAKDOWN, INSIDE               \* children and files in the inspector

ASSUME RingsAssumption == RINGS \in Nat \ {0} /\ MINIMUM_SWEEP \in 1 .. 100 /\ FILLER \in 0 .. 100
ASSUME TrailAssumption == TAIL \in Nat \ {0}
ASSUME ZoomsAssumption == ZOOMS \subseteq 40 .. 300 /\ 100 \in ZOOMS

VARIABLES
    focus, selected,    \* directories of the model; NO_PARENT if none is selected
    tab,                \* the chart that is shown
    hovered,            \* 0, the index of the part under the pointer, or Center
    last,               \* ClickTracker: the index of the first click, or 0
    zoom,               \* of the graph
    first               \* auxiliary: [dir, shown]: the directory of that click, and
                        \* those of the parts shown then

pointer == <<hovered, last, first>>
chart == <<tab, pointer, zoom>>
explorer == <<tree, focus, selected, chart>>

Center == -1
Tabs == {"Treemap", "Sunburst", "Graph"}
SumOf(numbers) == FoldLeft(LAMBDA a, b : a + b, 0, numbers)
NoClick == [dir |-> NO_PARENT, shown |-> <<>>]

own_bytes(d) == IF d \in seen THEN OwnBytes(d) ELSE 0

\* children_by_size: the prefix of the children with bytes.
children_by_size(d) ==
    LET list == nodes.children[d]
    IN SubSeq(list, 1, Cardinality({k \in DOMAIN list : nodes.subtree_bytes[list[k]] > 0}))

FirstOf(list, limit) == SubSeq(list, 1, Min({limit, Len(list)}))
Ancestors(d) == Reverse(Chain(nodes.parent, d))
-----------------------------------------------------------------------------
(* The treemap.                                                            *)

\* Directories and, where they belong by size, the files of the focus itself.
WithOwnFiles(list) ==
    LET rows == [k \in DOMAIN list |-> [dir |-> list[k], bytes |-> nodes.subtree_bytes[list[k]], muted |-> FALSE]]
        own == own_bytes(focus)
        place == Cardinality({k \in DOMAIN rows : rows[k].bytes >= own}) + 1
    IN IF own = 0 THEN rows ELSE InsertAt(rows, place, [dir |-> focus, bytes |-> own, muted |-> TRUE])

TreemapCells == WithOwnFiles(FirstOf(children_by_size(focus), LIST_LIMIT))
-----------------------------------------------------------------------------
(* The sunburst.  Angles are in bytes of the focus, of which a full turn   *)
(* has Turn: then the divisions come out even.                             *)

Turn == Max({nodes.subtree_bytes[focus], 1})

ShareOfLargestBug(bytes, d, sweep) == (sweep * bytes) \div nodes.subtree_bytes[Head(children_by_size(d))]

\* The angle of so many bytes in what a directory holds.
Share(bytes, d, sweep) == (sweep * bytes) \div Max({nodes.subtree_bytes[d], 1})

Slice(dir, ring, start, sweep) == [dir |-> dir, ring |-> ring, start |-> start, sweep |-> sweep]

\* subdivide: the children that are wide enough, one behind the other, each
\* with what is inside it, then a filler for all that is not drawn.
Slices[d \in Ids, ring \in 1 .. RINGS + 1, start \in Nat, sweep \in Nat] ==
    LET share == [child \in Ids |-> Share(nodes.subtree_bytes[child], d, sweep)]
        wide == SelectSeq(children_by_size(d), LAMBDA child : MINIMUM_SWEEP * Turn <= 100 * share[child])
        cursor == [k \in 1 .. Len(wide) + 1 |-> start + SumOf([j \in 1 .. k - 1 |-> share[wide[j]]])]
        rest == cursor[Len(wide) + 1]
        drawn == [k \in DOMAIN wide |->
                    <<Slice(wide[k], ring, cursor[k], share[wide[k]])>>
                       \o Slices[wide[k], ring + 1, cursor[k], share[wide[k]]]]
    IN IF ring > RINGS \/ 100 * sweep < MINIMUM_SWEEP * Turn THEN <<>>
       ELSE FlattenSeq(drawn)
              \o (IF 100 * (start + sweep - rest) > FILLER * Turn
                    THEN <<Slice(NO_PARENT, ring, rest, start + sweep - rest)>> ELSE <<>>)

SunburstSlices == Slices[focus, 1, 0, Turn]
-----------------------------------------------------------------------------
(* The graph.  Positions in pixels at zoom 1, radii in hundredths.         *)

CHILD_ROW == 32
GRAND_ROW == 24
CHILD_X == -60
GRAND_X == 150
FOCUS_X == -260

GraphRows == LET rows == WithOwnFiles(FirstOf(children_by_size(focus), CHILD_LIMIT)) IN FirstOf(rows, CHILD_LIMIT)

\* 4 + 9 * sqrt(bytes / largest), the root between a quarter and one.
RowRadius(bytes, largest) ==
    400 + 9 * Max({p \in 25 .. 100 : p = 25 \/ p * p * largest <= 10000 * bytes})

Node(dir, x, y, radius, navigates) == [dir |-> dir, x |-> x, y |-> y, radius |-> radius, navigates |-> navigates]

\* The grandchildren listed below a row, and the height of the first k bands.
Grandchildren(rows, k) ==
    IF rows[k].muted \/ k > PREVIEWED THEN <<>> ELSE FirstOf(children_by_size(rows[k].dir), GRANDCHILDREN_EACH)
Height(rows, k) == FoldLeft(LAMBDA y, j : y + CHILD_ROW + GRAND_ROW * Len(Grandchildren(rows, j)),
                            0, [j \in 1 .. k |-> j])

\* A band: the child, then its largest grandchildren, each in a row.
Band(rows, k) ==
    LET top == Height(rows, k - 1) - Height(rows, Len(rows)) \div 2
        grand == Grandchildren(rows, k)
    IN <<Node(rows[k].dir, CHILD_X, top + CHILD_ROW \div 2,
              RowRadius(rows[k].bytes, Max({rows[1].bytes, 1})), ~ rows[k].muted)>>
         \o [g \in DOMAIN grand |-> Node(grand[g], GRAND_X, top + CHILD_ROW + GRAND_ROW * (g - 1) + GRAND_ROW \div 2,
                                         400, TRUE)]

\* The two nearest ancestors, the focus, and the bands centred beside it.
GraphNodes ==
    LET above == FirstOf(Tail(Chain(nodes.parent, focus)), 2)
        rows == GraphRows
    IN IF rows = <<>> THEN <<>>
       ELSE [s \in DOMAIN above |-> Node(above[s], FOCUS_X, -46 * s, 800, TRUE)]
              \o <<Node(focus, FOCUS_X, 0, 1500, FALSE)>>
              \o FlattenSeq([k \in DOMAIN rows |-> Band(rows, k)])

HitRadius(node, scale) == Max({(node.radius * scale) \div 100, 900}) + 300

\* hit, for a pointer at the centre of a node: the first node in reach.  The
\* columns are too far apart to reach across.
HitAt(graph, n, scale) ==
    Min({m \in DOMAIN graph : /\ graph[m].x = graph[n].x
                              /\ Max({graph[m].y - graph[n].y, graph[n].y - graph[m].y}) * scale
                                   <= HitRadius(graph[m], scale)})
-----------------------------------------------------------------------------
(* Breadcrumbs and inspector.                                              *)

CrumbsForgetHiddenBug(d) ==
    LET chain == Ancestors(d)
        collapsed == Len(chain) > TAIL + 2
    IN {chain[k] : k \in {k \in DOMAIN chain : ~ collapsed \/ k = 1 \/ k > Len(chain) - TAIL}}

\* viz_toolbar: a deep trail keeps the root and the last few; the ellipsis
\* between them leads to the deepest directory that is hidden.
Crumbs(d) ==
    LET chain == Ancestors(d)
        collapsed == Len(chain) > TAIL + 2
    IN {chain[k] : k \in {k \in DOMAIN chain : ~ collapsed \/ k = 1 \/ k >= Len(chain) - TAIL}}

Inspected == IF selected = NO_PARENT THEN focus ELSE selected
Breakdown == FirstOf(children_by_size(Inspected), BREAKDOWN)

\* join_path and full_path; the name of a directory below the root is its id.
JoinPath(parent, name) ==
    IF parent = <<"/">> THEN <<"/", name>>
    ELSE (IF Last(parent) = "/" THEN Front(parent) ELSE parent) \o <<"/", name>>
FullPath(d) == FoldLeft(LAMBDA path, id : JoinPath(path, ToString(id)), RootName, Tail(Ancestors(d)))

\* The files of the leaderboard whose path starts with that of the directory.
FilesInside(d) ==
    FirstOf(SelectSeq(top_files, LAMBDA entry : IsPrefix(Append(FullPath(d), "/"), JoinPath(FullPath(entry.dir), "file"))),
            INSIDE)
-----------------------------------------------------------------------------
\* The parts of the chart that can be clicked.
Parts == CASE tab = "Treemap" -> TreemapCells
           [] tab = "Sunburst" -> SunburstSlices
           [] OTHER -> GraphNodes

\* Whether a canvas is drawn for them: treemap and graph need bytes.
Drawn == tab = "Sunburst" \/ nodes.subtree_bytes[focus] > 0
Shown == [k \in DOMAIN Parts |-> Parts[k].dir]

ExplorerInit ==
    /\ InitTree
    /\ focus = 0 /\ selected = NO_PARENT /\ tab = "Treemap"
    /\ hovered = 0 /\ last = 0 /\ first = NoClick /\ zoom = 100

\* A canvas keeps its state while it is drawn again, with indices into parts
\* that may be others by now; it goes when there is nothing to draw.
Redrawn == /\ hovered' = IF Drawn' THEN hovered ELSE 0
           /\ last' = IF Drawn' THEN last ELSE 0
           /\ first' = IF Drawn' THEN first ELSE NoClick

\* A new focus clears the selection, and resets the viewport of the graph.
FocusDirectory(d) == focus' = d /\ selected' = NO_PARENT /\ zoom' = 100
NodeSelected(d) == selected' = d /\ UNCHANGED <<focus, zoom>>

\* An update of the scan.
Grow == NextTree /\ UNCHANGED <<focus, selected, tab, zoom>> /\ Redrawn

\* Canvases of different charts share no state.
TabSelected ==
    /\ \E t \in Tabs \ {tab} : tab' = t
    /\ hovered' = 0 /\ last' = 0 /\ first' = NoClick /\ zoom' = 100
    /\ UNCHANGED <<tree, focus, selected>>

\* The pointer moves onto a part of the treemap or the sunburst, or off it.
CursorMoved ==
    /\ tab # "Graph"
    /\ hovered' \in {0} \cup DOMAIN Parts \cup (IF tab = "Sunburst" /\ Drawn THEN {Center} ELSE {})
    /\ UNCHANGED <<tree, focus, selected, tab, last, first, zoom>>

DoubleIgnoresTargetBug(quick) == last # 0 /\ quick

\* ClickTracker::click: the second of two quick clicks on one index.
Double(quick) == last = hovered /\ quick

\* A press on a cell or slice: the index the pointer moved to, whatever is
\* there by now.  The second click of two drills, if there is something inside.
ButtonPressed ==
    /\ tab # "Graph" /\ hovered # 0 /\ hovered \in DOMAIN Parts /\ Parts[hovered].dir # NO_PARENT
    /\ \E quick \in BOOLEAN :
         LET part == Parts[hovered]
             drill == nodes.children[part.dir] # <<>> /\ (tab = "Treemap" => ~ part.muted)
         IN /\ IF Double(quick) /\ drill THEN FocusDirectory(part.dir) ELSE NodeSelected(part.dir)
            /\ UNCHANGED <<tree, tab>>
            /\ hovered' = IF Drawn' THEN hovered ELSE 0
            /\ last' = IF Double(quick) \/ ~ Drawn' THEN 0 ELSE hovered
            /\ first' = IF Double(quick) \/ ~ Drawn' THEN NoClick ELSE [dir |-> part.dir, shown |-> Shown]

\* The hole of the sunburst leads up.
CenterPressed ==
    /\ tab = "Sunburst" /\ hovered = Center /\ nodes.parent[focus] # NO_PARENT
    /\ FocusDirectory(nodes.parent[focus]) /\ UNCHANGED <<tree, tab>> /\ Redrawn

\* A press on a node of the graph looks for it where the pointer is now.
NodePressed ==
    /\ tab = "Graph"
    /\ \E n \in DOMAIN GraphNodes :
         LET node == GraphNodes[HitAt(GraphNodes, n, zoom)]
         IN IF node.navigates /\ node.dir # focus THEN FocusDirectory(node.dir) ELSE NodeSelected(node.dir)
    /\ UNCHANGED <<tree, tab>> /\ Redrawn

WheelScrolled ==
    /\ tab = "Graph" /\ zoom' \in ZOOMS
    /\ UNCHANGED <<tree, focus, selected, tab, pointer>>

CrumbPressed ==
    /\ \E d \in Crumbs(focus) : FocusDirectory(d)
    /\ UNCHANGED <<tree, tab>> /\ Redrawn

BreakdownPressed ==
    /\ \E d \in Range(Breakdown) : NodeSelected(d)
    /\ UNCHANGED <<tree, tab, pointer>>

ExplorerNext ==
    \/ Grow \/ TabSelected \/ CursorMoved \/ ButtonPressed \/ CenterPressed
    \/ NodePressed \/ WheelScrolled \/ CrumbPressed \/ BreakdownPressed

ExplorerSpec == ExplorerInit /\ [][ExplorerNext]_explorer
-----------------------------------------------------------------------------
(***************************************************************************)
(* The sunburst is an honest picture: slices of a ring do not overlap, a   *)
(* slice of ring 2 or 3 lies over that of its parent, a filler has nothing *)
(* outside it, where it is drawn to the rim, and each ring that has any    *)
(* slice over a directory covers that directory's angle up to one filler's *)
(* width, however many children were too thin.                             *)
(***************************************************************************)
EndOf(slice) == slice.start + slice.sweep
Within(inner, outer) == outer.start <= inner.start /\ EndOf(inner) <= EndOf(outer)
Overlap(a, b) == a.start < EndOf(b) /\ b.start < EndOf(a)

SlicesNest ==
    LET slices == SunburstSlices
        inside == [s \in DOMAIN slices |->
                     {k \in DOMAIN slices : slices[k].ring = slices[s].ring + 1 /\ Overlap(slices[k], slices[s])}]
        width == [s \in DOMAIN slices |-> SumOf([k \in DOMAIN slices |-> IF k \in inside[s] THEN slices[k].sweep ELSE 0])]
    IN /\ \A s, t \in DOMAIN slices : s # t /\ slices[s].ring = slices[t].ring => ~ Overlap(slices[s], slices[t])
       /\ \A s \in DOMAIN slices :
             /\ EndOf(slices[s]) <= Turn
             /\ slices[s].dir = NO_PARENT => inside[s] = {}
             /\ slices[s].dir # NO_PARENT /\ slices[s].ring < RINGS =>
                   /\ \A k \in inside[s] :
                         /\ Within(slices[k], slices[s])
                         /\ slices[k].dir # NO_PARENT => nodes.parent[slices[k].dir] = slices[s].dir
                   /\ 100 * (slices[s].sweep - width[s]) <= FILLER * Turn

(***************************************************************************)
(* In the graph every node owns its row, and a click on the centre of a    *)
(* node means that node at every zoom above a half; at a half or below,    *)
(* where rows of grandchildren shrink to 12 pixels and the reach of the    *)
(* pointer does not, a click on a grandchild means the one above it.       *)
(***************************************************************************)
ClicksReachTheirNode ==
    LET graph == GraphNodes
        behind(n) == graph[n].x = GRAND_X /\ n > 1 /\ graph[n - 1].x = GRAND_X
    IN \A n \in DOMAIN graph, scale \in ZOOMS :
          HitAt(graph, n, scale) = (IF scale <= 50 /\ behind(n) THEN n - 1 ELSE n)

\* The charts say what the tree holds; squarify relies on descending cells.
ChartsAreHonest ==
    /\ SlicesNest /\ ClicksReachTheirNode
    /\ \A j, k \in DOMAIN TreemapCells : j < k => TreemapCells[j].bytes >= TreemapCells[k].bytes
    /\ Len(children_by_size(focus)) <= LIST_LIMIT =>
          FoldLeft(LAMBDA sum, cell : Sum(sum, cell.bytes), 0, TreemapCells) = nodes.subtree_bytes[focus]

(***************************************************************************)
(* From a focus however deep, breadcrumbs alone lead to every directory    *)
(* above it, those a collapsed trail hides included, and nowhere else:     *)
(* what has the trails of all its members has all that is above them.      *)
(***************************************************************************)
WaysLeadUp ==
    LET crumbs == [d \in Ids |-> Crumbs(d)]
        above == [d \in Ids |-> Range(Ancestors(d))]
    IN /\ \A d \in Ids : crumbs[d] \subseteq above[d]
       /\ \A reached \in SUBSET Ids :
            (\A d \in reached : crumbs[d] \subseteq reached) => \A d \in reached : above[d] \subseteq reached

(***************************************************************************)
(* A double click drills into the directory that its first click selected, *)
(* unless the chart shows other directories than at the first: the tracker *)
(* remembers an index, and indices move when siblings change places.       *)
(***************************************************************************)
DoubleClicksDrill ==
    [][focus' # focus /\ ButtonPressed /\ Shown = first.shown => focus' = first.dir]_explorer

(***************************************************************************)
(* The inspector lists "Largest known files inside this subtree, from the  *)
(* global top list".                                                       *)
(***************************************************************************)
InspectorListsFiles ==
    FilesInside(Inspected)
      = FirstOf(SelectSeq(top_files, LAMBDA entry : Inspected \in Range(Ancestors(entry.dir))), INSIDE)

\* What is shown is what was found: lists, charts and inspector.
ViewsAreHonest == ListsAreRight /\ ChartsAreHonest /\ InspectorListsFiles
=============================================================================
