-------------------------- MODULE TransferRegistry --------------------------
(***************************************************************************)
(* What the transfer registry promises its callers (spec.md sections 3,   *)
(* 4.1 and 4.2), with the multiplexer, the sockets and the timer left     *)
(* out: transfers are registered in arrival order, at most MaxActive of   *)
(* them hold an attached handle, only an attached transfer completes, a   *)
(* transfer leaves the collection once (completed or cancelled), and the  *)
(* slot it frees goes to the first queued transfer in arrival order.      *)
(*                                                                         *)
(* CurlStack.tla is shown to implement this module through a refinement   *)
(* mapping (CurlStack's Registry and ImplementsRegistry).                 *)
(***************************************************************************)
EXTENDS Naturals, Sequences, FiniteSets, SequencesExt

CONSTANTS Transfers, MaxActive

ASSUME MaxActive \in Nat \ {0}

VARIABLES
  reg,   \* the ordered collection of registered transfers
  att,   \* the transfers with an attached native handle (Active)
  st     \* each transfer's state as its owner sees it

vars == <<reg, att, st>>

Init ==
  /\ reg = <<>>
  /\ att = {}
  /\ st = [t \in Transfers |-> "new"]

\* The registered transfers still waiting for a handle, in arrival order.
Queued(r, a) == SelectSeq(r, LAMBDA g : g \notin a)

(* register: enqueue, and attach at once while a slot is free.            *)
Register(t) ==
  /\ st[t] = "new"
  /\ reg' = Append(reg, t)
  /\ att' = IF Cardinality(att) < MaxActive THEN att \cup {t} ELSE att
  /\ st' = [st EXCEPT ![t] = "registered"]

(* deregister: remove t; if it was attached, its slot passes to the first *)
(* queued transfer in arrival order, if there is one.                     *)
Deregister(t) ==
  LET rest == RemoveFirst(reg, t)
      q    == Queued(rest, att)
  IN  /\ reg' = rest
      /\ att' = IF t \in att /\ q # <<>>
                  THEN (att \ {t}) \cup {Head(q)}
                  ELSE att \ {t}

(* An attached transfer finishes: exactly one completion callback, then   *)
(* deregister.                                                            *)
Complete(t) ==
  /\ st[t] = "registered" /\ t \in att
  /\ \E r \in {"done", "failed"} : st' = [st EXCEPT ![t] = r]
  /\ Deregister(t)

(* close(), or the teardown's force-cancel: from any non-terminal state.  *)
Cancel(t) ==
  /\ st[t] = "registered"
  /\ st' = [st EXCEPT ![t] = "cancelled"]
  /\ Deregister(t)

Next == \E t \in Transfers : Register(t) \/ Complete(t) \/ Cancel(t)

Spec == Init /\ [][Next]_vars

=============================================================================
