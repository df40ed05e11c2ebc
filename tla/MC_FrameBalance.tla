-------------------------- MODULE MC_FrameBalance --------------------------
(* Rows and columns of one to three children drawn from a small catalogue  *)
(* of frames: empty, an inactive window, static and dynamic windows with   *)
(* small or unbounded maxima (some anchored to the bottom/left), and a     *)
(* nested row or column; each balanced in extents 0..9 along its axis.     *)
EXTENDS FrameBalance

Win(dyn, mn, mx, anc) ==
  WindowFrame([active |-> TRUE, dyn |-> [a \in Axis |-> dyn],
               min |-> [a \in Axis |-> mn], max |-> [a \in Axis |-> mx],
               anchor |-> [a \in Axis |-> anc]])

Inactive == WindowFrame([NoWindow EXCEPT !.min = [a \in Axis |-> 2],
                                         !.max = [a \in Axis |-> 2]])

Inner == <<Win(FALSE, 1, 1, FALSE), Win(TRUE, 1, Full, FALSE)>>

Kinds ==
  { NoneFrame, Inactive,
    Win(FALSE, 1, 2, FALSE), Win(FALSE, 3, 3, TRUE), Win(FALSE, 1, Full, FALSE),
    Win(TRUE, 1, 2, FALSE), Win(TRUE, 1, Full, FALSE), Win(TRUE, 3, Full, TRUE),
    Win(TRUE, 3, 3, FALSE),
    ContainerFrame("row", Inner), ContainerFrame("column", Inner) }

MCRoots ==
  { ContainerFrame(t, ks) : t \in {"row", "column"},
                            ks \in UNION {[1..n -> Kinds] : n \in 1..3} }

MCRects == { [x |-> 9, y |-> n] : n \in 0..9 } \cup { [x |-> n, y |-> 9] : n \in 0..9 }
=============================================================================
