------------------------------ MODULE UiDownload ------------------------------
(***************************************************************************)
(* The download view and the log view of the curses client, with the       *)
(* frames they lay their windows out in.                                   *)
(*                                                                         *)
(*   ui::Download           (src/src/ui/download.cc)                       *)
(*   ui::ElementFileList    (src/src/ui/element_file_list.cc)              *)
(*   ui::ElementLogComplete (src/src/ui/element_log_complete.cc)           *)
(*   display::Frame         (src/src/display/frame.cc, its lifecycle)      *)
(*   display::WindowDownloadList (src/src/display/window_download_list.cc) *)
(*                                                                         *)
(* Every handler runs on the main thread and is one action: a key press    *)
(* delivered through the input manager's binding stack, the download list  *)
(* showing or hiding a view, a redraw, and the log thread's update signal. *)
(* The object graph the handlers change is one record, ui, so that the     *)
(* calls a handler makes compose as operators ui -> ui in code order.      *)
(*                                                                         *)
(* The frames form a fixed tree: the download list's frame "root" holds    *)
(* the view; ui::Download makes it a row of "top" and "status", and "top"  *)
(* a column of "menu" and "sub".  A container's clear() deletes its        *)
(* children; a pointer kept to a deleted frame or window and used again is *)
(* recorded in ui.uaf, an internal_error in ui.fault.                      *)
(***************************************************************************)
EXTENDS Naturals, Sequences, SequencesExt

CONSTANTS
  SubDisplays,   \* the menu's entries, in order (a subset of Download::Display)
  Files,         \* number of files of the download (a single-level file list)
  Heights,       \* heights the file list window may have
  ViewNames      \* the core::View objects the download list may show

ASSUME /\ SubDisplays \in Seq({"peer_list", "info", "file_list"})
       /\ Files \in Nat \ {0}
       /\ Heights \subseteq Nat
       /\ {"peer_list", "info", "file_list"} \subseteq ToSet(SubDisplays)
       /\ ViewNames # {}

Subs == ToSet(SubDisplays)

Paths == {"root", "top", "status", "menu", "sub"}
Kids == [p \in Paths |-> CASE p = "root" -> <<"top", "status">>
                           [] p = "top"  -> <<"menu", "sub">>
                           [] OTHER      -> <<>>]

\* Objects that own a set of key bindings; each element owns one window,
\* named after it (Download's info element and the file list's are ElementText).
Elements == {"download", "menu", "peer_list", "info", "file_list", "fl_info", "log", "dlist"}
Windows == (Elements \ {"download"}) \cup {"status"}
NoFrame == "null"
NoWindow == "nowin"
NoView == "noview"

\* "limit" stands for Download's '1'..'8' and '!'..'$', "throttle" for the
\* twelve throttle keys of get_throttle_keys().
Keys == {"p", "o", "i", "limit", "throttle", "up", "down", "left", "right", "npage", "ppage",
         "space", "star", "slash"}

\* What each bindings object binds (the menu and ElementText from their
\* classes; the rest from the constructors and create_menu).
Binds ==
  [o \in Elements |->
     CASE o = "download"  -> {"p", "o", "i", "limit", "throttle"}
       [] o = "menu"      -> {"up", "down", "right"}
       [] o \in {"peer_list", "info"} -> {"left"}
       [] o = "file_list" -> {"left", "right", "down", "up", "npage", "ppage",
                              "space", "star", "slash"}
       [] o = "fl_info"   -> {"left"}
       [] o = "dlist"     -> {}
       [] OTHER           -> {}]

VARIABLES
  ui,            \* the main thread's objects, see UI below
  view,          \* what the download list's frame shows: "list", "download", "log"
  pending        \* the log element's bit in the main thread's signal bitfield

vars == <<ui, view, pending>>

UI == [ftype : [Paths -> {"none", "window", "row", "column"}],
       flive : [Paths -> BOOLEAN],             \* the Frame object exists
       fwin : [Paths -> Windows \cup {NoWindow}],
       wlive : SUBSET Windows,                 \* windows not deleted
       dirty : SUBSET Windows,                 \* scheduled for redraw
       frame : [Elements -> Paths \cup {NoFrame}],  \* each m_frame
       input : Seq(Elements),                  \* the input manager's list
       state : Subs \cup {"max"},              \* Download::m_state
       focus : BOOLEAN,                        \* Download::m_focusDisplay
       flState : {"list", "info", "max"},      \* ElementFileList::m_state
       sel : 1..Files,                         \* m_selected
       collapsed : BOOLEAN,
       prio : [1..Files -> 0..2],
       listView : ViewNames,                   \* ElementDownloadList::m_view
       dlView : ViewNames \cup {NoView},       \* WindowDownloadList::m_view
       conn : [ViewNames -> Nat],              \* its slots in each signal_changed()
       fault : BOOLEAN,
       uaf : BOOLEAN]

(* The objects before DownloadList::activate: the download list's frame is *)
(* empty, the status window exists (ui::Download's constructor).           *)
Created ==
          [ftype |-> [p \in Paths |-> "none"],
           flive |-> [p \in Paths |-> p = "root"],
           fwin |-> [p \in Paths |-> NoWindow],
           wlive |-> {"status"},
           dirty |-> {},
           frame |-> [e \in Elements |-> NoFrame],
           input |-> <<>>,
           state |-> "max",
           focus |-> FALSE,
           flState |-> "max",
           sel |-> 1,
           collapsed |-> FALSE,
           prio |-> [f \in 1..Files |-> 1],
           listView |-> CHOOSE v \in ViewNames : TRUE,
           dlView |-> NoView,
           conn |-> [v \in ViewNames |-> 0],
           fault |-> FALSE,
           uaf |-> FALSE]

Fault(r) == [r EXCEPT !.fault = TRUE]
Uaf(r) == [r EXCEPT !.uaf = TRUE]

-----------------------------------------------------------------------------
(* display::Frame                                                          *)

(* initialize_window: only an empty frame takes a window.                 *)
FrameInitWindow(r, p, w) ==
  CASE ~r.flive[p]           -> Uaf(r)
    [] r.ftype[p] # "none"  -> Fault(r)
    [] OTHER                -> [r EXCEPT !.ftype[p] = "window", !.fwin[p] = w]

(* initialize_row / initialize_column (2): an empty frame becomes a        *)
(* container of new, empty frames.                                         *)
FrameInitContainer(r, p, t) ==
  LET ks == ToSet(Kids[p])
  IN  CASE ~r.flive[p]          -> Uaf(r)
        [] r.ftype[p] # "none" -> Fault(r)
        [] OTHER ->
             [r EXCEPT !.ftype = [q \in Paths |-> CASE q = p   -> t
                                                    [] q \in ks -> "none"
                                                    [] OTHER    -> @[q]],
                       !.flive = [q \in Paths |-> q \in ks \/ @[q]]]

(* clear: a window frame sets its window offscreen; a container clears and *)
(* deletes each child.  The frame becomes empty.                           *)
RECURSIVE FrameClear(_, _)
FrameClear(r, p) ==
  CASE ~r.flive[p] -> Uaf(r)
    [] r.ftype[p] = "window" ->
         LET r1 == IF r.fwin[p] \in r.wlive THEN r ELSE Uaf(r)
         IN  [r1 EXCEPT !.ftype[p] = "none"]
    [] r.ftype[p] \in {"row", "column"} ->
         LET k  == Kids[p]
             r1 == FrameClear(FrameClear(r, k[1]), k[2])
         IN  [r1 EXCEPT !.flive = [q \in Paths |-> @[q] /\ q \notin ToSet(k)],
                        !.ftype[p] = "none"]
    [] OTHER -> r

(* The windows redraw() and refresh() reach from frame p.                 *)
RECURSIVE Reached(_, _)
Reached(r, p) ==
  CASE r.ftype[p] = "window"           -> {r.fwin[p]}
    [] r.ftype[p] \in {"row", "column"} -> Reached(r, Kids[p][1]) \cup Reached(r, Kids[p][2])
    [] OTHER                           -> {}

-----------------------------------------------------------------------------
(* Elements                                                                *)

(* Window::mark_dirty schedules an active window; the file list's window  *)
(* is inactive while the info element is shown.                           *)
MarkDirty(r, w) ==
  CASE w \notin r.wlive                          -> Uaf(r)
    [] w = "file_list" /\ r.flState # "list"     -> r
    [] OTHER                                     -> [r EXCEPT !.dirty = @ \cup {w}]

(* activate(frame, focus) of an element with one window: throw if active, *)
(* push the bindings (ElementLogComplete always, the others when focused), *)
(* create the window and put it in the frame.                             *)
ElementActivate(r, e, p, push) ==
  IF r.frame[e] # NoFrame THEN Fault(r)
  ELSE FrameInitWindow([r EXCEPT !.input = IF push THEN Append(@, e) ELSE @,
                                 !.wlive = @ \cup {e},
                                 !.frame[e] = p], p, e)

(* disable(): throw if inactive, erase the bindings, clear the frame,      *)
(* forget it and delete the window.                                        *)
ElementDisable(r, e) ==
  IF r.frame[e] = NoFrame THEN Fault(r)
  ELSE LET r1 == FrameClear([r EXCEPT !.input = RemoveFirst(@, e)], r.frame[e])
       IN  [r1 EXCEPT !.frame[e] = NoFrame, !.wlive = @ \ {e}, !.dirty = @ \ {e}]

-----------------------------------------------------------------------------
(* ui::ElementFileList                                                     *)

(* update_itr: both the list window and the info element are marked dirty. *)
UpdateItr(r) ==
  LET r1 == MarkDirty(r, "file_list")
  IN  IF r1.frame["fl_info"] # NoFrame THEN MarkDirty(r1, "fl_info") ELSE r1

(* Mutation of activate_display: the list's frame is not cleared when the *)
(* list is left.                                                          *)
FlActivateDisplayNoClear(r, d) ==
  LET p  == r.frame["file_list"]
      r1 == CASE r.flState = "info" -> ElementDisable(r, "fl_info")
              [] OTHER              -> r
      r2 == [r1 EXCEPT !.flState = d]
  IN  IF d = r.flState THEN r
      ELSE CASE d = "info" -> ElementActivate(r2, "fl_info", p, TRUE)
             [] d = "list" -> FrameInitWindow(r2, p, "file_list")
             [] OTHER      -> r2

(* activate_display: leave the current sub-display (disable the info      *)
(* element, or deactivate the list window and clear the frame), then show *)
(* the new one in the same frame; the info element always takes focus.    *)
FlActivateDisplay(r, d) ==
  LET p  == r.frame["file_list"]
      r1 == CASE r.flState = "info" -> ElementDisable(r, "fl_info")
              [] r.flState = "list" -> FrameClear(r, p)
              [] OTHER              -> r
      r2 == [r1 EXCEPT !.flState = d]
  IN  IF d = r.flState THEN r
      ELSE CASE d = "info" -> ElementActivate(r2, "fl_info", p, TRUE)
             [] d = "list" -> FrameInitWindow(r2, p, "file_list")
             [] OTHER      -> r2

(* Mutation of activate: the bindings are pushed whether focused or not.  *)
FlActivatePushAlways(r, p, f) ==
  IF "file_list" \in r.wlive THEN Fault(r)
  ELSE FlActivateDisplay([r EXCEPT !.input = Append(@, "file_list"),
                                   !.wlive = @ \cup {"file_list"},
                                   !.frame["file_list"] = p], "list")

(* activate: throw if the window exists; push the bindings when focused,  *)
(* create the window (and a fresh info element), keep the frame and show  *)
(* the list.                                                              *)
FlActivate(r, p, f) ==
  IF "file_list" \in r.wlive THEN Fault(r)
  ELSE FlActivateDisplay([r EXCEPT !.input = IF f THEN Append(@, "file_list") ELSE @,
                                   !.wlive = @ \cup {"file_list"},
                                   !.frame["file_list"] = p], "list")

(* Mutation of disable: activate_display(DISPLAY_MAX_SIZE) is left out.   *)
FlDisableKeepDisplay(r) ==
  IF "file_list" \notin r.wlive THEN Fault(r)
  ELSE LET r1 == [r EXCEPT !.input = RemoveFirst(@, "file_list")]
           r2 == FrameClear(r1, r1.frame["file_list"])
       IN  [r2 EXCEPT !.frame["file_list"] = NoFrame,
                      !.wlive = @ \ {"file_list"}, !.dirty = @ \ {"file_list"}]

(* disable: throw if there is no window; erase the bindings, leave the    *)
(* sub-display, clear and forget the frame, delete the window and the     *)
(* info element (deleting an ElementText changes nothing modelled here).   *)
FlDisable(r) ==
  IF "file_list" \notin r.wlive THEN Fault(r)
  ELSE LET r1 == FlActivateDisplay([r EXCEPT !.input = RemoveFirst(@, "file_list")], "max")
           r2 == FrameClear(r1, r1.frame["file_list"])
       IN  [r2 EXCEPT !.frame["file_list"] = NoFrame,
                      !.wlive = @ \ {"file_list"}, !.dirty = @ \ {"file_list"}]

(* receive_next / receive_prev: one entry on, wrapping at either end      *)
(* (forward_current_depth is ++ in a single-level list).                  *)
FlNext(r) == UpdateItr([r EXCEPT !.sel = IF @ = Files THEN 1 ELSE @ + 1])
FlPrev(r) == UpdateItr([r EXCEPT !.sel = IF @ = 1 THEN Files ELSE @ - 1])

(* (m_window->height() - 1) / 2 in unsigned arithmetic: a window of height *)
(* 0 gives 2^32 - 1 halved.                                               *)
PageStep(h) == IF h = 0 THEN 2147483647 ELSE (h - 1) \div 2

(* Mutation of receive_pagenext: the iterator is not pulled back from end. *)
FlPageNextNoClamp(r, h) ==
  IF "file_list" \notin r.wlive THEN Uaf(r)
  ELSE UpdateItr([r EXCEPT !.sel = IF @ = Files THEN 1
                                    ELSE IF PageStep(h) > Files + 1 - @ THEN Files + 1
                                         ELSE @ + PageStep(h)])

(* receive_pagenext: from the last entry to the first; otherwise advance  *)
(* half a window, never past end, and step back from end to the last.     *)
FlPageNext(r, h) ==
  IF "file_list" \notin r.wlive THEN Uaf(r)
  ELSE UpdateItr([r EXCEPT !.sel = IF @ = Files THEN 1
                                    ELSE LET t == IF PageStep(h) > Files + 1 - @ THEN Files + 1
                                                  ELSE @ + PageStep(h)
                                         IN  IF t = Files + 1 THEN Files ELSE t])

(* receive_pageprev: from the first entry to the last; otherwise back half *)
(* a window, never before begin.                                          *)
FlPagePrev(r, h) ==
  IF "file_list" \notin r.wlive THEN r
  ELSE UpdateItr([r EXCEPT !.sel = IF @ = 1 THEN Files
                                    ELSE IF PageStep(h) > @ - 1 THEN 1 ELSE @ - PageStep(h)])

(* receive_select: in the list, a file opens the info element.            *)
FlSelect(r) ==
  IF "file_list" \notin r.wlive \/ r.flState # "list" THEN r
  ELSE FlActivateDisplay(r, "info")

(* receive_priority / receive_change_all: the selected file's priority    *)
(* turned one step, (p + 2) % 3, for that file or for all of them.        *)
FlPriority(r) ==
  IF "file_list" \notin r.wlive THEN r
  ELSE UpdateItr([r EXCEPT !.prio[r.sel] = (@ + 2) % 3])

FlChangeAll(r) ==
  IF "file_list" \notin r.wlive THEN r
  ELSE UpdateItr([r EXCEPT !.prio = [f \in 1..Files |-> (r.prio[r.sel] + 2) % 3]])

FlCollapse(r) ==
  IF "file_list" \notin r.wlive THEN r
  ELSE MarkDirty([r EXCEPT !.collapsed = ~@], "file_list")

-----------------------------------------------------------------------------
(* ui::Download                                                            *)

SubActivate(r, e, p, f) ==
  IF e = "file_list" THEN FlActivate(r, p, f) ELSE ElementActivate(r, e, p, f)

SubDisable(r, e) ==
  IF e = "file_list" THEN FlDisable(r) ELSE ElementDisable(r, e)

(* Mutation of activate_display: frame(0) is cleared before the elements  *)
(* shown in it are disabled.                                              *)
DlActivateDisplayClearFirst(r, d, f) ==
  LET r1 == IF r.state \in Subs
              THEN SubDisable(ElementDisable(FrameClear(r, "top"), "menu"), r.state)
              ELSE r
      r2 == [r1 EXCEPT !.state = d, !.focus = f]
  IN  CASE r.frame["download"] = NoFrame -> Fault(r)
        [] f = r.focus /\ d = r.state    -> r
        [] d \in Subs ->
             SubActivate(ElementActivate(FrameInitContainer(r2, "top", "column"),
                                         "menu", "menu", ~f), d, "sub", f)
        [] OTHER -> r2

(* activate_display(displayType, focusDisplay): throw unless active; no    *)
(* change, no work; disable the menu and the shown element and clear       *)
(* frame(0); then split frame(0) into the menu (focused unless the element *)
(* is) and the element.                                                   *)
DlActivateDisplay(r, d, f) ==
  LET r1 == IF r.state \in Subs
              THEN FrameClear(SubDisable(ElementDisable(r, "menu"), r.state), "top")
              ELSE r
      r2 == [r1 EXCEPT !.state = d, !.focus = f]
  IN  CASE r.frame["download"] = NoFrame -> Fault(r)
        [] f = r.focus /\ d = r.state    -> r
        [] d \in Subs ->
             SubActivate(ElementActivate(FrameInitContainer(r2, "top", "column"),
                                         "menu", "menu", ~f), d, "sub", f)
        [] OTHER -> r2

(* activate: throw if active; push the bindings, split the frame into a   *)
(* row, put the status window in frame(1) and show the peer list with    *)
(* the menu focused.                                                      *)
DlActivate(r, p) ==
  IF r.frame["download"] # NoFrame THEN Fault(r)
  ELSE LET r1 == [r EXCEPT !.input = Append(@, "download"), !.frame["download"] = p]
           r2 == FrameInitWindow(FrameInitContainer(r1, p, "row"), "status", "status")
       IN  DlActivateDisplay(r2, "peer_list", FALSE)

(* disable: throw unless active; erase the bindings, leave the display    *)
(* (activate_display_focus(DISPLAY_MAX_SIZE)), clear and forget the frame. *)
DlDisable(r) ==
  IF r.frame["download"] = NoFrame THEN Fault(r)
  ELSE LET r1 == DlActivateDisplay([r EXCEPT !.input = RemoveFirst(@, "download")], "max", TRUE)
           r2 == FrameClear(r1, r1.frame["download"])
       IN  [r2 EXCEPT !.frame["download"] = NoFrame]

(* receive_min_uploads ... receive_max_peers: a limit of the download is  *)
(* moved (libtorrent's state, not modelled) and the status window marked   *)
(* dirty.                                                                 *)
DlReceiveLimit(r) == MarkDirty(r, "status")

(* adjust_up_throttle / adjust_down_throttle: the download's throttle, or  *)
(* the global one, is moved (not modelled); the info element, which shows *)
(* it, is marked dirty if it is active.  (ElementText::mark_dirty is taken *)
(* to do nothing without a window, as update_itr's unguarded call needs.) *)
DlAdjustThrottle(r) ==
  IF r.frame["info"] # NoFrame THEN MarkDirty(r, "info") ELSE r

(* bind_keys: the limit keys and the throttle keys.                       *)
DlKey(r, k) == IF k = "limit" THEN DlReceiveLimit(r) ELSE DlAdjustThrottle(r)

(* create_menu: 'p', 'o' and 'i' trigger the menu's entries 0, 1 and 2.   *)
Trigger == [k \in {"p", "o", "i"} |-> CASE k = "p" -> "peer_list"
                                       [] k = "o" -> "info"
                                       [] OTHER   -> "file_list"]

(* The menu entry after (or before) d: ElementMenu moves its entry and     *)
(* runs the entry's activate_display_menu slot.                           *)
MenuMove(d, k) ==
  LET n == Len(SubDisplays)
      i == SelectInSeq(SubDisplays, LAMBDA x : x = d)
  IN  SubDisplays[IF k = "down" THEN (i % n) + 1 ELSE ((i + n - 2) % n) + 1]

(* The file list's bindings (its constructor) and its info element's exit. *)
FlKey(r, k, h) ==
  CASE k = "left"  -> DlActivateDisplay(r, "file_list", FALSE)
    [] k = "right" -> FlSelect(r)
    [] k = "down"  -> FlNext(r)
    [] k = "up"    -> FlPrev(r)
    [] k = "npage" -> FlPageNext(r, h)
    [] k = "ppage" -> FlPagePrev(r, h)
    [] k = "space" -> FlPriority(r)
    [] k = "star"  -> FlChangeAll(r)
    [] OTHER       -> FlCollapse(r)

(* A key press: the input manager offers the key to the bindings from the *)
(* last pushed down, and the first that binds it runs.  'p' and 'i' are   *)
(* Download's entry triggers; the elements' slot_exit go back to the menu. *)
Press(r, k, h) ==
  LET i == SelectLastInSeq(r.input, LAMBDA o : k \in Binds[o])
      o == r.input[i]
  IN  CASE i = 0 -> r
        [] o = "download" /\ k \in {"limit", "throttle"} -> DlKey(r, k)
        [] o = "download" -> DlActivateDisplay(r, Trigger[k], FALSE)
        [] o = "menu" /\ k = "right" -> DlActivateDisplay(r, r.state, TRUE)
        [] o = "menu" -> DlActivateDisplay(r, MenuMove(r.state, k), FALSE)
        [] o = "fl_info" -> FlActivateDisplay(r, "list")
        [] o = "file_list" -> FlKey(r, k, h)
        [] OTHER -> DlActivateDisplay(r, o, FALSE)

-----------------------------------------------------------------------------
(* ui::ElementLogComplete: the log buffer's update slot, run by the log   *)
(* thread, raises the element's signal; the main thread later runs        *)
(* received_update, which marks the window dirty if there is one.          *)
LogReceivedUpdateNoCheck(r) == MarkDirty(r, "log")

LogReceivedUpdate(r) ==
  IF r.frame["log"] # NoFrame THEN MarkDirty(r, "log") ELSE r

-----------------------------------------------------------------------------
(* display::WindowDownloadList and the element that owns it               *)

(* The constructor: a window with no view.                                *)
WdlCreate(r) == [r EXCEPT !.wlive = @ \cup {"dlist"}, !.dlView = NoView]

(* Mutation of set_view: the slot in the old view's signal is not erased. *)
WdlSetViewNoErase(r, v) == [r EXCEPT !.dlView = v, !.conn[v] = @ + 1]

(* set_view: erase the slot from the old view's signal_changed(), then    *)
(* insert a mark_dirty slot at the front of the new view's.               *)
WdlSetView(r, v) ==
  LET r1 == IF r.dlView # NoView THEN [r EXCEPT !.conn[r.dlView] = @ - 1] ELSE r
  IN  [r1 EXCEPT !.dlView = v, !.conn[v] = @ + 1]

(* The destructor erases its slot; then the window is gone.               *)
WdlDelete(r) ==
  LET r1 == IF r.dlView # NoView THEN [r EXCEPT !.conn[r.dlView] = @ - 1] ELSE r
  IN  [r1 EXCEPT !.wlive = @ \ {"dlist"}, !.dirty = @ \ {"dlist"}, !.dlView = NoView]

(* ElementDownloadList::activate: throw if active; push the bindings,     *)
(* create the window, give it the element's view, put it in the frame.    *)
DlistActivate(r, p) ==
  IF r.frame["dlist"] # NoFrame THEN Fault(r)
  ELSE FrameInitWindow(WdlSetView(WdlCreate([r EXCEPT !.input = Append(@, "dlist"),
                                                      !.frame["dlist"] = p]),
                                  r.listView), p, "dlist")

(* ElementDownloadList::disable: erase the bindings, clear and forget the *)
(* frame, delete the window.                                              *)
DlistDisable(r) ==
  IF r.frame["dlist"] = NoFrame THEN Fault(r)
  ELSE WdlDelete([FrameClear([r EXCEPT !.input = RemoveFirst(@, "dlist")], r.frame["dlist"])
                    EXCEPT !.frame["dlist"] = NoFrame])

(* ElementDownloadList::set_view: the element keeps the view and passes   *)
(* it to its window when it has one.                                      *)
DlistSetView(r, v) ==
  LET r1 == [r EXCEPT !.listView = v]
  IN  IF "dlist" \in r.wlive THEN WdlSetView(r1, v) ELSE r1

(* core::View::signal_changed() emitted: every slot in it runs, and a     *)
(* slot calls mark_dirty on the window that inserted it.                  *)
ViewSignal(r, v) == IF r.conn[v] > 0 THEN MarkDirty(r, "dlist") ELSE r

-----------------------------------------------------------------------------
(* Actions                                                                 *)

(* DownloadList::activate shows the download list element in its frame.  *)
Init ==
  /\ ui = DlistActivate(Created, "root")
  /\ view = "list"
  /\ pending = FALSE

Running == ~ui.fault /\ ~ui.uaf

KeyPress ==
  /\ Running
  /\ \E k \in Keys, h \in Heights : ui' = Press(ui, k, h)
  /\ UNCHANGED <<view, pending>>

(* The download list swaps its element for the download view, and back.  *)
ShowDownload ==
  /\ Running /\ view = "list"
  /\ view' = "download"
  /\ ui' = DlActivate(DlistDisable(ui), "root")
  /\ UNCHANGED pending

HideDownload ==
  /\ Running /\ view = "download"
  /\ view' = "list"
  /\ ui' = DlistActivate(DlDisable(ui), "root")
  /\ UNCHANGED pending

(* The download list swaps its element for the log view (ElementLogComplete), *)
(* and back.                                                               *)
ShowLog ==
  /\ Running /\ view = "list"
  /\ view' = "log"
  /\ ui' = ElementActivate(DlistDisable(ui), "log", "root", TRUE)
  /\ UNCHANGED pending

HideLog ==
  /\ Running /\ view = "log"
  /\ view' = "list"
  /\ ui' = DlistActivate(ElementDisable(ui, "log"), "root")
  /\ UNCHANGED pending

(* The current view is changed (ui.current_view.set, or the list's view   *)
(* keys): the download list element gets the new view, whatever is shown. *)
ChangeView ==
  /\ Running
  /\ \E v \in ViewNames : ui' = DlistSetView(ui, v)
  /\ UNCHANGED <<view, pending>>

(* A view's contents change (a download added, erased or re-sorted) and   *)
(* it emits signal_changed().                                             *)
ViewChanged ==
  /\ Running
  /\ \E v \in ViewNames : ui' = ViewSignal(ui, v)
  /\ UNCHANGED <<view, pending>>

(* The log thread appends: send_event_signal(signal_index).               *)
LogAppend ==
  /\ ~pending
  /\ pending' = TRUE
  /\ UNCHANGED <<ui, view>>

(* The main thread's event loop runs the signalled received_update.       *)
LogUpdate ==
  /\ Running /\ pending
  /\ pending' = FALSE
  /\ ui' = LogReceivedUpdate(ui)
  /\ UNCHANGED view

(* WindowDownloadList::redraw schedules its own next redraw, a second on,  *)
(* before anything else (so also when it has no view).                    *)
Rescheduled(ws) == ws \cap {"dlist"}

(* The display manager redraws the root frame's windows: each reached     *)
(* window is read (is_active) and redrawn.                                *)
Redraw ==
  /\ Running
  /\ LET ws == Reached(ui, "root")
     IN  /\ ~(ws \subseteq ui.wlive) \/ ws \cap ui.dirty # {}
         /\ ui' = IF ws \subseteq ui.wlive
                    THEN [ui EXCEPT !.dirty = (@ \ ws) \cup Rescheduled(ws)]
                    ELSE Uaf(ui)
  /\ UNCHANGED <<view, pending>>

Next ==
  \/ KeyPress
  \/ ShowDownload \/ HideDownload \/ ShowLog \/ HideLog
  \/ ChangeView \/ ViewChanged
  \/ LogAppend \/ LogUpdate
  \/ Redraw

Spec == Init /\ [][Next]_vars


-----------------------------------------------------------------------------
(* Every object has the type the code gives it; m_selected is a file,     *)
(* never end().                                                           *)
TypeOK ==
  /\ ui \in UI
  /\ view \in {"list", "download", "log"}
  /\ pending \in BOOLEAN

(* No internal_error: no element is activated twice or disabled while     *)
(* inactive, no frame is initialized twice, however keys, exit slots and  *)
(* the download list's show and hide interleave.                          *)
NoInternalError == ~ui.fault

(* No deleted frame or window is used again: the handlers disable the      *)
(* elements before they clear (and delete) the frames the elements point  *)
(* into, windows leave their frames before they are deleted, and the log  *)
(* update signal that arrives after the log view is gone touches nothing. *)
NoUseAfterFree == ~ui.uaf

(* Exactly the shown elements are active, each with a live frame: the     *)
(* menu and the selected element (and the file list's info element when   *)
(* it is open) in the download view, the log element in the log view, the *)
(* download list element otherwise.                                       *)
ExpectedActive ==
  CASE view = "download" /\ ui.state \in Subs ->
         {"download", "menu", ui.state}
           \cup (IF ui.state = "file_list" /\ ui.flState = "info" THEN {"fl_info"} ELSE {})
    [] view = "download" -> {"download"}
    [] view = "log"      -> {"log"}
    [] OTHER             -> {"dlist"}

DisplayFollowsState ==
  /\ {e \in Elements : ui.frame[e] # NoFrame} = ExpectedActive
  /\ \A e \in Elements : ui.frame[e] # NoFrame => ui.flive[ui.frame[e]]

(* Keys reach the focused element: the input manager holds Download's     *)
(* bindings, then the menu's when the menu has focus or else the shown    *)
(* element's, then the info element's when the file list opened it; the   *)
(* log view's or the download list's bindings alone in theirs.            *)
ExpectedInput ==
  CASE view = "download" /\ ui.state \in Subs /\ ~ui.focus -> <<"download", "menu">>
    [] view = "download" /\ ui.state \in Subs ->
         <<"download", ui.state>>
           \o (IF ui.state = "file_list" /\ ui.flState = "info" THEN <<"fl_info">> ELSE <<>>)
    [] view = "download" -> <<"download">>
    [] view = "log"      -> <<"log">>
    [] OTHER             -> <<"dlist">>

BindingsFollowFocus == ui.input = ExpectedInput

(* The download list window is connected to exactly the view its element  *)
(* holds: one mark_dirty slot in that view's signal_changed() while the   *)
(* window exists, and none anywhere else, however view changes, the       *)
(* element's activate/disable and the window's set_view and destructor    *)
(* interleave.  A slot left behind calls mark_dirty on a deleted window.  *)
ViewSlotsFollowWindow ==
  /\ \A v \in ViewNames :
       ui.conn[v] = IF "dlist" \in ui.wlive /\ ui.dlView = v THEN 1 ELSE 0
  /\ "dlist" \in ui.wlive => ui.dlView = ui.listView

=============================================================================
