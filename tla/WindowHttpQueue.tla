--------------------------- MODULE WindowHttpQueue ---------------------------
(***************************************************************************)
(* The HTTP queue status line, display::WindowHttpQueue                    *)
(* (src/src/display/window_http_queue.cc), driven by core::HttpQueue.       *)
(*                                                                         *)
(* The window subscribes to the queue's insert and erase signals.  Insert  *)
(* appends a node for the CurlGet and shows the window; erase finds the    *)
(* node, clears its pointer and lets it linger for one second as "done";   *)
(* every redraw (rescheduled each second) drops the nodes whose linger has *)
(* passed and hides the window once nothing is left.                       *)
(*                                                                         *)
(* The constructor inserts the erase slot into the erase signal with an     *)
(* iterator of the insert signal's list.  That is undefined behaviour;     *)
(* with the list-based signal and libstdc++ the node is linked into the    *)
(* insert signal's list, behind receive_insert.  Init chooses the build's  *)
(* outcome: the slot is on the erase signal, or on the insert signal.      *)
(*                                                                         *)
(* Time is cachedTime in half-second units; a node's m_timer is kept       *)
(* relative to it (offset m_timer - cachedTime, every past value folded    *)
(* into -1), so the model stays finite while the clock runs forever.       *)
(***************************************************************************)
EXTENDS Integers, Sequences, SequencesExt

CONSTANTS
  Transfers,     \* CurlGet objects (their addresses may be reused)
  Null,          \* the nullptr a finished node holds
  Linger,        \* from_seconds(1) in clock units
  MaxNodes       \* bound on the window's list (environment bound)

ASSUME Null \notin Transfers /\ Linger \in Nat /\ MaxNodes \in Nat \ {0}

Past == -1
Offsets == Past..Linger

VARIABLES
  queue,         \* the CurlGets HttpQueue holds
  container,     \* m_container: <<[http, timer]>>, in order
  active,        \* is_active()
  wiring,        \* which signal the erase slot ended up on
  fault          \* receive_erase threw std::logic_error

vars == <<queue, container, active, wiring, fault>>

Node == [http : Transfers \cup {Null}, timer : Offsets]

(* The constructor: set_active(false), both slots connected.              *)
Init ==
  /\ queue = {}
  /\ container = <<>>
  /\ active = FALSE
  /\ wiring \in {"erase_signal", "insert_signal"}
  /\ fault = FALSE

(* Mutation of receive_insert: the test on is_active() is inverted.       *)
ReceiveInsertInverted(c, h) ==
  [s |-> Append(c, [http |-> h, timer |-> Past]), act |-> active]

(* receive_insert: a node with a default (epoch, long past) m_timer; the  *)
(* window is shown (and the layout adjusted) if it was hidden.            *)
ReceiveInsert(c, h) ==
  [s |-> Append(c, [http |-> h, timer |-> Past]), act |-> TRUE]

(* Mutation of receive_erase: the pointer is not cleared.                 *)
ReceiveEraseKeepPtr(c, h) ==
  LET i == SelectInSeq(c, LAMBDA n : n.http = h)
  IN  IF i = 0 THEN [s |-> c, err |-> TRUE]
      ELSE [s |-> [c EXCEPT ![i].timer = Linger], err |-> FALSE]

(* receive_erase: the first node holding h is marked done, lingering until *)
(* cachedTime + 1 s; a CurlGet without a node is a std::logic_error.       *)
ReceiveErase(c, h) ==
  LET i == SelectInSeq(c, LAMBDA n : n.http = h)
  IN  IF i = 0 THEN [s |-> c, err |-> TRUE]
      ELSE [s |-> [c EXCEPT ![i].http = Null, ![i].timer = Linger], err |-> FALSE]

(* HttpQueue::insert: the CurlGet joins the queue and the insert signal    *)
(* runs its slots in order: receive_insert, then (for the miswired build)  *)
(* receive_erase.                                                          *)
HttpQueueInsert(h) ==
  /\ ~fault
  /\ h \notin queue
  /\ Len(container) < MaxNodes
  /\ queue' = queue \cup {h}
  /\ LET ins == ReceiveInsert(container, h)
         era == ReceiveErase(ins.s, h)
     IN  /\ active' = ins.act
         /\ IF wiring = "insert_signal"
              THEN /\ container' = era.s
                   /\ fault' = era.err
              ELSE /\ container' = ins.s
                   /\ UNCHANGED fault
  /\ UNCHANGED wiring

(* HttpQueue::erase, on the transfer's completion or on clear(): the erase *)
(* signal runs (it is empty in the miswired build), then the CurlGet is    *)
(* deleted.                                                                *)
HttpQueueErase(h) ==
  /\ ~fault
  /\ h \in queue
  /\ queue' = queue \ {h}
  /\ IF wiring = "erase_signal"
       THEN LET era == ReceiveErase(container, h)
            IN  /\ container' = era.s
                /\ fault' = era.err
       ELSE UNCHANGED <<container, fault>>
  /\ UNCHANGED <<active, wiring>>

(* cachedTime advances by one unit; a past m_timer stays past.            *)
Tick ==
  /\ container' = [i \in 1..Len(container) |->
                     [container[i] EXCEPT !.timer = IF @ = Past THEN Past ELSE @ - 1]]
  /\ UNCHANGED <<queue, active, wiring, fault>>

(* Mutation of cleanup_list: the m_http == nullptr test is dropped.       *)
ExpiredNoNullCheck(n) ==
  n.timer = Past

(* cleanup_list's test: done, and m_timer < cachedTime.                   *)
Expired(n) ==
  n.http = Null /\ n.timer = Past

(* redraw: rescheduled for the next second, cleanup_list, and the window   *)
(* hidden (layout adjusted) when the list is empty; the rest is printing.  *)
Redraw ==
  /\ ~fault
  /\ container' = SelectSeq(container, LAMBDA n : ~Expired(n))
  /\ active' = IF container' = <<>> THEN FALSE ELSE active
  /\ UNCHANGED <<queue, wiring, fault>>

Next ==
  \/ \E h \in Transfers : HttpQueueInsert(h) \/ HttpQueueErase(h)
  \/ Tick
  \/ Redraw

Spec == Init /\ [][Next]_vars

-----------------------------------------------------------------------------
(* receive_erase never throws: every CurlGet HttpQueue erases still has    *)
(* its node, however insertions, clock ticks and redraws (cleanup_list)    *)
(* interleave with it.                                                     *)
EraseFindsNode == ~fault

(* No dangling pointer for redraw to read: a node's m_http is a CurlGet    *)
(* HttpQueue still holds (it deletes the CurlGet right after erase).       *)
NoDanglingHttp ==
  \A i \in 1..Len(container) : container[i].http # Null => container[i].http \in queue

(* The window is never hidden while it has nodes to show.                 *)
ShownWhileListed == container # <<>> => active

(* Every CurlGet in the queue is shown as in progress by exactly one node, *)
(* as the two slots connected in the constructor intend.                  *)
LiveShown ==
  \A h \in queue : Cardinality({i \in 1..Len(container) : container[i].http = h}) = 1

=============================================================================
