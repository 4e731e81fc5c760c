------------------------------ MODULE Treemap -------------------------------
(***************************************************************************)
(* The squarified treemap of the Sectors page (tui/treemap.rs): tiles with *)
(* areas in proportion to their weights, laid out in strips along the      *)
(* shorter side of what is left of the area.  One step lays one strip.     *)
(*                                                                         *)
(* Coordinates are exact; f64's own rounding is left out, the rounding to  *)
(* terminal cells is not.  The area begins at the origin.                  *)
(***************************************************************************)
EXTENDS Integers, Sequences, FiniteSets, Fractions

CONSTANTS
  Width, Height,  \* sides of the area in cells, above zero
  Weights         \* the lists of weights considered

VARIABLES
  weights,  \* the argument
  i,        \* the first tile not yet laid
  rest,     \* fx, fy, fw and fh: what is left of the area
  tiles,    \* the exact tiles laid so far
  cells     \* out: the same in cells

vars == <<weights, i, rest, tiles, cells>>

n == Len(weights)
Positive(w) == IF w > 0 THEN w ELSE 0
total == SumOf([k \in 1..n |-> Whole(Positive(weights[k]))])
areas(k) == Over(Whole(Positive(weights[k]) * Width * Height), total)
RowSum(from, to) == SumOf([k \in from..to |-> areas(k)])
short == Least(rest.w, rest.h)
vertical_strip == AtMost(rest.h, rest.w)

Largest(from, to) == CHOOSE k \in from..to : \A m \in from..to : Positive(weights[m]) <= Positive(weights[k])
Smallest(from, to) == CHOOSE k \in from..to : \A m \in from..to : Positive(weights[k]) <= Positive(weights[m])

\* The worst aspect ratio in a strip along side with tiles that have the area
\* sum together and areas from smallest to largest; <<>> is infinite.
WorstOf(side, sum, smallest, largest) ==
  IF AtMost(sum, Zero) \/ AtMost(side, Zero) \/ smallest = Zero THEN <<>>
  ELSE Greatest(Over(Times(Times(side, side), largest), Times(sum, sum)),
                Over(Times(sum, sum), Times(Times(side, side), smallest)))

\* That of a strip of the tiles from..to.
worst_ratio(from, to) ==
  WorstOf(short, RowSum(from, to), areas(Smallest(from, to)), areas(Largest(from, to)))

Worse(a, b) == b # <<>> /\ (a = <<>> \/ Less(b, a))

\* The last tile of the strip that starts at from: the strip grows as long as
\* its worst ratio does not get worse.
StripEnd(from) ==
  LET stops == {k \in (from + 1)..n : Worse(worst_ratio(from, k), worst_ratio(from, k - 1))}
  IN  IF stops = {} THEN n ELSE (CHOOSE k \in stops : \A m \in stops : k <= m) - 1

Min2(a, b) == IF a < b THEN a ELSE b

\* A tile in cells, kept inside the area.
Clamped(t) ==
  LET x == Min2(Rounded(t.x), Width)
      y == Min2(Rounded(t.y), Height)
  IN  [x |-> x, y |-> y, w |-> Min2(Rounded(t.w), Width - x),
       h |-> Min2(Rounded(t.h), Height - y)]

Init ==
  /\ weights \in Weights
  /\ i = 1
  /\ rest = [x |-> Zero, y |-> Zero, w |-> Whole(Width), h |-> Whole(Height)]
  /\ tiles = <<>> /\ cells = <<>>

\* The sides of the tiles from i to last along a strip with the area sum.
Sides(last, sum) ==
  [k \in i..last |-> IF Less(Zero, sum) THEN Times(Over(areas(k), sum), short) ELSE Zero]

\* Those tiles, one after the other along the shorter side.
StripOf(last, side, thickness) ==
  [k \in 1..(last - i + 1) |->
    LET offset == SumOf([m \in i..(i + k - 2) |-> side[m]])
    IN  IF vertical_strip
          THEN [x |-> rest.x, y |-> Plus(rest.y, offset), w |-> thickness, h |-> side[i + k - 1]]
          ELSE [x |-> Plus(rest.x, offset), y |-> rest.y, w |-> side[i + k - 1], h |-> thickness]]

LayStrip(last, sum, thickness) ==
  /\ \E strip \in {StripOf(last, Sides(last, sum), thickness)} :
       /\ tiles' = tiles \o strip
       /\ cells' = cells \o [k \in DOMAIN strip |-> Clamped(strip[k])]
  /\ i' = last + 1
  /\ UNCHANGED weights

\* Mutant: what is left of the area is not moved past the strip.
Cut_Restless(thickness) ==
  rest' = IF vertical_strip THEN [rest EXCEPT !.w = Minus(@, thickness)]
          ELSE [rest EXCEPT !.h = Minus(@, thickness)]

\* The strip is cut off what is left of the area.
Cut(thickness) ==
  rest' = IF vertical_strip
            THEN [rest EXCEPT !.x = Plus(@, thickness), !.w = Minus(@, thickness)]
            ELSE [rest EXCEPT !.y = Plus(@, thickness), !.h = Minus(@, thickness)]

\* One strip: thick enough for its tiles, along the shorter side.
Strip ==
  /\ i <= n /\ total # Zero
  /\ \E last \in {StripEnd(i)} : \E sum \in {RowSum(i, last)} :
     \E thickness \in {IF Less(Zero, short) THEN Over(sum, short) ELSE Zero} :
       LayStrip(last, sum, thickness) /\ Cut(thickness)

\* No weight is positive: every tile is empty, at the origin.
Empty ==
  /\ i <= n /\ total = Zero
  /\ cells' = [k \in 1..n |-> [x |-> 0, y |-> 0, w |-> 0, h |-> 0]]
  /\ i' = n + 1
  /\ UNCHANGED <<weights, rest, tiles>>

Next == Strip \/ Empty

(***************************************************************************)
(* Properties.                                                             *)
(***************************************************************************)
Area(t) == Times(t.w, t.h)

Apart(s, t) ==
  \/ AtMost(Plus(s.x, s.w), t.x) \/ AtMost(Plus(t.x, t.w), s.x)
  \/ AtMost(Plus(s.y, s.h), t.y) \/ AtMost(Plus(t.y, t.h), s.y)

Inside(t) ==
  /\ AtMost(Zero, t.x) /\ AtMost(Plus(t.x, t.w), Whole(Width))
  /\ AtMost(Zero, t.y) /\ AtMost(Plus(t.y, t.h), Whole(Height))

\* While it is laid out, the treemap is a tiling: every tile has the area its
\* weight is due, tiles and what is left lie in the area and apart, and they
\* use it up (squarify).
Tiling ==
  /\ \A k \in DOMAIN tiles : Area(tiles[k]) = areas(k)
  /\ \A k \in DOMAIN tiles : Inside(tiles[k]) /\ Apart(tiles[k], rest)
  /\ \A k, m \in DOMAIN tiles : k # m => Apart(tiles[k], tiles[m])
  /\ Inside(rest)
  /\ tiles # <<>> =>
       Plus(Area(rest), SumOf([k \in DOMAIN tiles |-> Area(tiles[k])]))
         = Whole(Width * Height)

\* On the terminal no tile reaches beyond the area, and every tile has one.
CellsInside ==
  /\ \A k \in DOMAIN cells :
       cells[k].x + cells[k].w <= Width /\ cells[k].y + cells[k].h <= Height
  /\ i > n => Len(cells) = n
=============================================================================
