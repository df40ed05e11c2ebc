---------------------------- MODULE FrameBalance ----------------------------
(***************************************************************************)
(* The layout algorithm of display::Frame (src/src/display/frame.cc).       *)
(*                                                                         *)
(* A frame is empty (TYPE_NONE), holds a window, or is a row or a column   *)
(* of sub-frames.  preferred_size() adds up the children's bounds;         *)
(* balance() gives a frame its rectangle and splits it among the children: *)
(* a row stacks them top to bottom (balance_row shares the height), a      *)
(* column left to right (balance_column shares the width).  The two are   *)
(* the same code with the axes swapped, so their helpers take the axis as  *)
(* a parameter.                                                            *)
(*                                                                         *)
(* The code's extents are uint32_t and its running total is an int.  The   *)
(* unsigned arithmetic is kept modulo 2^Width, with a Width far below 32   *)
(* so that TLC can enumerate the inputs; Window::extent_full is the        *)
(* largest unsigned value.  The int never leaves the range of small        *)
(* values here, so it is an ordinary integer.                              *)
(***************************************************************************)
EXTENDS Integers, Sequences, SequencesExt, Functions

CONSTANTS
  Width,         \* bits of extent_type (32 in the code)
  Roots,         \* the row and column frames the checks balance
  Rects          \* the extents they are balanced in, [Axis -> Nat]

ASSUME Width \in Nat \ {0}

Word == 2^Width
Full == Word - 1                 \* Window::extent_full
U(n) == n % Word                 \* conversion to uint32_t

Axis == {"x", "y"}
AxisOf(type) == IF type = "row" THEN "y" ELSE "x"

StdMax(a, b) == IF a >= b THEN a ELSE b
StdMin(a, b) == IF a <= b THEN a ELSE b

(* The window attributes a frame consults.  dyn[a] is is_width_dynamic or  *)
(* is_height_dynamic, anchor["x"] is is_left and anchor["y"] is_bottom.     *)
WindowAttrs == [active : BOOLEAN, dyn : [Axis -> BOOLEAN],
                min : [Axis -> 0..Full], max : [Axis -> 0..Full],
                anchor : [Axis -> BOOLEAN]]

NoWindow == [active |-> FALSE, dyn |-> [a \in Axis |-> FALSE],
             min |-> [a \in Axis |-> 0], max |-> [a \in Axis |-> 0],
             anchor |-> [a \in Axis |-> FALSE]]

(* Frame values: [type, win, kids]; win is used by windows, kids by rows   *)
(* and columns.                                                            *)
NoneFrame == [type |-> "none", win |-> NoWindow, kids |-> <<>>]
WindowFrame(w) == [type |-> "window", win |-> w, kids |-> <<>>]
ContainerFrame(t, ks) == [type |-> t, win |-> NoWindow, kids |-> ks]

(* is_width_dynamic / is_height_dynamic                                    *)
RECURSIVE IsDynamic(_, _)
IsDynamic(f, a) ==
  CASE f.type = "none"   -> FALSE
    [] f.type = "window" -> f.win.active /\ f.win.dyn[a]
    [] OTHER             -> \E i \in DOMAIN f.kids : IsDynamic(f.kids[i], a)

(* has_left_frame (a = "x") / has_bottom_frame (a = "y"): only a container *)
(* that stacks along the axis looks into its children.                     *)
RECURSIVE HasAnchor(_, _)
HasAnchor(f, a) ==
  CASE f.type = "none"   -> FALSE
    [] f.type = "window" -> f.win.active /\ f.win.anchor[a]
    [] OTHER             -> /\ AxisOf(f.type) = a
                            /\ \E i \in DOMAIN f.kids : HasAnchor(f.kids[i], a)

ZeroBounds == [min |-> [a \in Axis |-> 0], max |-> [a \in Axis |-> 0]]

(* One step of preferred_size's accumulation: minima add up (as unsigned   *)
(* values), maxima add up unless either side is extent_full.               *)
AddBounds(acc, p) ==
  [min |-> [a \in Axis |-> U(acc.min[a] + p.min[a])],
   max |-> [a \in Axis |-> IF p.max[a] = Full \/ acc.max[a] = Full
                             THEN Full ELSE U(acc.max[a] + p.max[a])]]

(* preferred_size                                                          *)
RECURSIVE PreferredSize(_)
PreferredSize(f) ==
  CASE f.type = "none"   -> ZeroBounds
    [] f.type = "window" -> IF f.win.active
                              THEN [min |-> f.win.min, max |-> f.win.max]
                              ELSE ZeroBounds
    [] OTHER ->
         LET RECURSIVE Acc(_, _)
             Acc(acc, i) == IF i > Len(f.kids) THEN acc
                            ELSE Acc(AddBounds(acc, PreferredSize(f.kids[i])), i + 1)
         IN  Acc(ZeroBounds, 1)

(* A placed window: offscreen, or its rectangle.                           *)
Offscreen == [off |-> TRUE, pos |-> [a \in Axis |-> 0], ext |-> [a \in Axis |-> 0]]

(* balance_window: zero extent or an inactive window goes offscreen; an    *)
(* extent above the window's maximum is cut to it, and a left (bottom)     *)
(* window is moved to the far side of the space it was given.              *)
BalanceWindow(w, pos, ext) ==
  IF ext["x"] = 0 \/ ext["y"] = 0 \/ ~w.active
    THEN <<Offscreen>>
    ELSE <<[off |-> FALSE,
            pos |-> [a \in Axis |-> IF ext[a] > w.max[a] /\ w.anchor[a]
                                      THEN U(pos[a] + ext[a] - w.max[a])
                                      ELSE pos[a]],
            ext |-> [a \in Axis |-> StdMin(ext[a], w.max[a])]]>>

(* The first loop of balance_row / balance_column: a static child is given *)
(* its minimum along the axis, charged to remaining; a dynamic one starts  *)
(* at 0 and waits for the second pass.                                    *)
Bounds(f) == [i \in DOMAIN f.kids |-> PreferredSize(f.kids[i])]
Dynamic(f, a) == {i \in DOMAIN f.kids : IsDynamic(f.kids[i], a)}
StartSizes(f, a, bounds) ==
  [i \in DOMAIN f.kids |-> IF i \in Dynamic(f, a) THEN 0 ELSE bounds[i].min[a]]
StartRemaining(f, a, bounds, s) ==
  s - SumFunctionOnSet([i \in DOMAIN f.kids |-> bounds[i].min[a]],
                       DOMAIN f.kids \ Dynamic(f, a))

(* std::stable_sort of the dynamic children, largest minimum first.       *)
DynOrder(f, a, bounds) ==
  SetToSortSeq(Dynamic(f, a),
               LAMBDA i, j : \/ bounds[i].min[a] > bounds[j].min[a]
                             \/ bounds[i].min[a] = bounds[j].min[a] /\ i < j)

(* One pass of the for loop inside the do-while: each dynamic child in     *)
(* turn asks for its share, ceil(max(remaining, 0) / children left), on    *)
(* top of what it has, kept between its minimum and maximum; what it takes *)
(* is charged to remaining, and any change asks for another pass.  st is   *)
(* [sizes, rem]: m_height (m_width) of every child, and remaining.        *)
RECURSIVE SharePass(_, _, _, _, _, _)
SharePass(order, bounds, a, k, st, retry) ==
  IF k > Len(order)
    THEN [sizes |-> st.sizes, rem |-> st.rem, retry |-> retry]
    ELSE LET i      == order[k]
             d      == Len(order) - k + 1
             adjust == StdMin(StdMax(U((StdMax(st.rem, 0) + d - 1) \div d
                                       + st.sizes[i]),
                                     bounds[i].min[a]),
                              bounds[i].max[a])
         IN  SharePass(order, bounds, a, k + 1,
                       [sizes |-> [st.sizes EXCEPT ![i] = adjust],
                        rem   |-> st.rem - (adjust - st.sizes[i])],
                       retry \/ st.sizes[i] # adjust)

(* Mutation of the do-while: a single pass.                               *)
ShareOnce(order, bounds, a, st) ==
  LET r == SharePass(order, bounds, a, 1, st, FALSE)
  IN  [sizes |-> r.sizes, rem |-> r.rem]

(* do { ... } while (retry && remaining > 0);                             *)
RECURSIVE Share(_, _, _, _)
Share(order, bounds, a, st) ==
  LET r == SharePass(order, bounds, a, 1, st, FALSE)
  IN  IF r.retry /\ r.rem > 0
        THEN Share(order, bounds, a, [sizes |-> r.sizes, rem |-> r.rem])
        ELSE [sizes |-> r.sizes, rem |-> r.rem]

RECURSIVE Balance(_, _, _), Place(_, _, _, _, _, _, _, _)

(* Mutation of the last loop: position and extent move on by the size the *)
(* child asked for instead of the m_height balance() clipped it to.       *)
RECURSIVE PlaceUnclipped(_, _, _, _, _, _, _, _)
PlaceUnclipped(f, a, pos, ext, k, st, p, s) ==
  IF k > Len(f.kids) THEN <<>>
  ELSE LET give == st.rem > 0 /\ HasAnchor(f.kids[k], a)
           sz   == IF give THEN U(st.sizes[k] + st.rem) ELSE st.sizes[k]
           rest == [sizes |-> [st.sizes EXCEPT ![k] = sz],
                    rem   |-> IF give THEN 0 ELSE st.rem]
       IN  Balance(f.kids[k], [pos EXCEPT ![a] = p], [ext EXCEPT ![a] = StdMin(sz, s)])
             \o PlaceUnclipped(f, a, pos, ext, k + 1, rest, U(p + sz), U(s - sz))

(* The last loop: in container order, the first child with a bottom (left) *)
(* window takes all the remaining space; each child is balanced at the     *)
(* running position with got = min(its size, what is left of the extent).  *)
(* balance() stores got in the child's m_height (m_width), and position    *)
(* and extent move on by that, so the extent never drops below 0; the      *)
(* position is a uint32_t.  p and s are the running y and height (x and    *)
(* width).                                                                 *)
Place(f, a, pos, ext, k, st, p, s) ==
  IF k > Len(f.kids) THEN <<>>
  ELSE LET give == st.rem > 0 /\ HasAnchor(f.kids[k], a)
           sz   == IF give THEN U(st.sizes[k] + st.rem) ELSE st.sizes[k]
           got  == StdMin(sz, s)
           rest == [sizes |-> [st.sizes EXCEPT ![k] = got],
                    rem   |-> IF give THEN 0 ELSE st.rem]
       IN  Balance(f.kids[k], [pos EXCEPT ![a] = p], [ext EXCEPT ![a] = got])
             \o Place(f, a, pos, ext, k + 1, rest, U(p + got), s - got)

(* The allocation of balance_row / balance_column before the last loop.   *)
Allocate(f, ext) ==
  LET a      == AxisOf(f.type)
      bounds == Bounds(f)
  IN  Share(DynOrder(f, a, bounds), bounds, a,
            [sizes |-> StartSizes(f, a, bounds),
             rem   |-> StartRemaining(f, a, bounds, ext[a])])

(* balance_row: the height is shared, the children stacked downwards.      *)
BalanceRow(f, pos, ext) ==
  Place(f, "y", pos, ext, 1, Allocate(f, ext), pos["y"], ext["y"])

(* balance_column: the same with the width, children left to right.       *)
BalanceColumn(f, pos, ext) ==
  Place(f, "x", pos, ext, 1, Allocate(f, ext), pos["x"], ext["x"])

(* balance: every window of the tree, in tree order, with its rectangle.   *)
Balance(f, pos, ext) ==
  CASE f.type = "none"   -> <<>>
    [] f.type = "window" -> BalanceWindow(f.win, pos, ext)
    [] f.type = "row"    -> BalanceRow(f, pos, ext)
    [] f.type = "column" -> BalanceColumn(f, pos, ext)

-----------------------------------------------------------------------------
(* The checks: one state per input, a root frame and the extent it is      *)
(* balanced in at position (0, 0).                                         *)
VARIABLES root, rect

Init == root \in Roots /\ rect \in Rects
Next == UNCHANGED <<root, rect>>
Spec == Init /\ [][Next]_<<root, rect>>

Placements == Balance(root, [a \in Axis |-> 0], rect)
Shown == {i \in DOMAIN Placements : ~Placements[i].off}
Inside(p) == \A a \in Axis : p.pos[a] + p.ext[a] <= rect[a]
Overlap(p, q) ==
  \A a \in Axis : p.pos[a] < q.pos[a] + q.ext[a] /\ q.pos[a] < p.pos[a] + p.ext[a]

(* balance() places every window it shows inside the root's rectangle and *)
(* no two shown windows overlap, whether or not the minimum sizes fit:     *)
(* the remaining space handed to a bottom (left) frame, the clipping of    *)
(* each child to what is left of the extent, and the comment before the    *)
(* last loop of balance_row (a frame too small gives the windows that do   *)
(* not fit zero extent, so they go offscreen) all agree.                   *)
LayoutInsideParent ==
  /\ \A i \in Shown : Inside(Placements[i])
  /\ \A i, j \in Shown : i # j => ~Overlap(Placements[i], Placements[j])

(* The share of balance_row / balance_column agrees with a reference: when *)
(* the static children leave room for the dynamic ones' minima, every      *)
(* dynamic child ends between its minimum and maximum, and together they   *)
(* take all the room left, or all they can hold when that is less.         *)
LayoutFillsSpace ==
  LET a      == AxisOf(root.type)
      b      == Bounds(root)
      D      == Dynamic(root, a)
      st     == Allocate(root, rect)
      avail  == StartRemaining(root, a, b, rect[a])
      sumMin == SumFunctionOnSet([i \in D |-> b[i].min[a]], D)
      room   == IF \E i \in D : b[i].max[a] = Full THEN avail
                ELSE StdMin(avail, SumFunctionOnSet([i \in D |-> b[i].max[a]], D))
  IN  sumMin <= avail =>
        /\ \A i \in D : b[i].min[a] <= st.sizes[i] /\ st.sizes[i] <= b[i].max[a]
        /\ SumFunctionOnSet([i \in D |-> st.sizes[i]], D) = room

=============================================================================
