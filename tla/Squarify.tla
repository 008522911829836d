------------------------------ MODULE Squarify ------------------------------
(***************************************************************************)
(* The squarified layout of the treemap (squarify in                       *)
(* desktop/src/charts.rs), one row of tiles a step, over exact fractions   *)
(* of pixels in place of the code's floating-point numbers.                *)
(***************************************************************************)
EXTENDS Fractions, FiniteSets, SequencesExt

CONSTANTS Lists,      \* descending lists of the bytes of the cells
          Sizes,      \* canvases: <<width, height>> in pixels
          EPSILON     \* f32::EPSILON

ASSUME ListsAssumption == \A list \in Lists : \A k \in DOMAIN list : list[k] \in Nat
ASSUME SizesAssumption == \A size \in Sizes : size[1] \in Nat /\ size[2] \in Nat

VARIABLES
    canvas,        \* the size that is filled
    areas,         \* of the tiles, in square pixels
    start,         \* the tiles before it are placed
    free,          \* [x, y, width, height]: what is left of the canvas
    rectangles,    \* the tiles that are placed
    thin           \* auxiliary: a row was placed where less than a pixel was
                   \* left, or was too thin to be drawn

layout == <<canvas, areas, start, free, rectangles, thin>>

SumOf(list) == FoldLeft(Plus, Zero, list)
SumOfNumbers(list) == FoldLeft(LAMBDA a, b : a + b, 0, list)

\* areas and the head of squarify: an empty cell counts as one byte.
InitSquarify ==
    /\ canvas \in Sizes /\ canvas[1] > 0 /\ canvas[2] > 0
    /\ \E list \in Lists :
         LET values == [k \in DOMAIN list |-> IF list[k] = 0 THEN 1 ELSE list[k]]
         IN areas = [k \in DOMAIN list |-> Frac(values[k] * canvas[1] * canvas[2], SumOfNumbers(values))]
    /\ start = 1 /\ rectangles = <<>> /\ thin = FALSE
    /\ free = [x |-> Zero, y |-> Zero, width |-> Whole(canvas[1]), height |-> Whole(canvas[2])]

\* worst_aspect, of the tiles that are not empty.
WorstAspect(row, side) ==
    LET sum == SumOf(row)
        scale(area) == Over(Times(Times(side, side), area), Times(sum, sum))
    IN FoldLeft(LAMBDA worst, area :
                  IF area = Zero THEN worst
                  ELSE Most(worst, Most(scale(area), Over(Whole(1), scale(area)))),
                Zero, row)

\* The last tile of the row: it grows until its worst aspect would.
RowEnd(side) ==
    CHOOSE last \in start .. Len(areas) :
       /\ last = Len(areas) \/ Less(WorstAspect(SubSeq(areas, start, last), side),
                                    WorstAspect(SubSeq(areas, start, last + 1), side))
       /\ \A e \in start .. last - 1 : Leq(WorstAspect(SubSeq(areas, start, e + 1), side),
                                           WorstAspect(SubSeq(areas, start, e), side))

ShareOfAllBug(area, sum, side, offset) == Least(Times(Over(area, SumOf(areas)), side), Minus(side, offset))

\* A tile of an empty row takes what is left (NaN.min(x) is x).
TileLength(area, sum, side, offset) ==
    IF sum = Zero THEN Minus(side, offset)
    ELSE Least(Times(Over(area, sum), side), Minus(side, offset))

\* The tiles of one row and the offset behind the last, along the strip.
Strip(row, side, thickness, upright) ==
    LET place(done, area) ==
          LET length == TileLength(area, SumOf(row), side, done.offset)
              tile == IF upright
                        THEN [x |-> free.x, y |-> Plus(free.y, done.offset), width |-> thickness, height |-> length]
                        ELSE [x |-> Plus(free.x, done.offset), y |-> free.y, width |-> length, height |-> thickness]
          IN [tiles |-> Append(done.tiles, tile), offset |-> Plus(done.offset, length)]
    IN FoldLeft(place, [tiles |-> <<>>, offset |-> Zero], row).tiles

\* One row: a strip along the shorter side of what is free, and at least one
\* pixel long.  Behind a row without thickness the tiles become empty.
FixRow ==
    /\ start <= Len(areas)
    /\ LET shorter == Least(free.width, free.height)
           side == Most(shorter, Whole(1))
           last == RowEnd(side)
           row == SubSeq(areas, start, last)
           upright == Leq(free.height, free.width)
           thickness == Least(Over(SumOf(row), side), IF upright THEN free.width ELSE free.height)
       IN /\ rectangles' = rectangles \o Strip(row, side, thickness, upright)
          /\ free' = IF upright THEN [free EXCEPT !.x = Plus(@, thickness), !.width = Minus(@, thickness)]
                     ELSE [free EXCEPT !.y = Plus(@, thickness), !.height = Minus(@, thickness)]
          /\ areas' = IF Leq(thickness, EPSILON) THEN [k \in DOMAIN areas |-> IF k > last THEN Zero ELSE areas[k]]
                      ELSE areas
          /\ start' = last + 1
          /\ thin' = (thin \/ Less(shorter, Whole(1)) \/ Leq(thickness, EPSILON))
    /\ UNCHANGED canvas

LayoutSpec == InitSquarify /\ [][FixRow]_layout
-----------------------------------------------------------------------------
Right(r) == Plus(r.x, r.width)
Bottom(r) == Plus(r.y, r.height)
Apart(r, s) == Leq(Right(r), s.x) \/ Leq(Right(s), r.x) \/ Leq(Bottom(r), s.y) \/ Leq(Bottom(s), r.y)

(***************************************************************************)
(* After each row the tiles have exactly their shares of the canvas, lie   *)
(* inside it and do not overlap each other or what is free, which has      *)
(* exactly the area of the tiles to come: the pointer is over at most one  *)
(* tile, and the picture has no hole.  Once less than a pixel was left     *)
(* (side is at least 1.0) tiles may overlap, by less than that pixel.      *)
(***************************************************************************)
TilesFillTheCanvas ==
    /\ Len(rectangles) = start - 1
    /\ \A k \in DOMAIN rectangles :
          /\ Less(Right(rectangles[k]), Whole(canvas[1] + 1)) /\ Less(Bottom(rectangles[k]), Whole(canvas[2] + 1))
    /\ ~ thin =>
          /\ \A k \in DOMAIN rectangles :
                /\ Times(rectangles[k].width, rectangles[k].height) = areas[k]
                /\ Leq(Right(rectangles[k]), Whole(canvas[1])) /\ Leq(Bottom(rectangles[k]), Whole(canvas[2]))
                /\ Apart(rectangles[k], free)
                /\ \A j \in 1 .. k - 1 : Apart(rectangles[j], rectangles[k])
          /\ Times(free.width, free.height) = SumOf(SubSeq(areas, start, Len(areas)))
=============================================================================
