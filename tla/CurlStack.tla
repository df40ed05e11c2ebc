----------------------------- MODULE CurlStack -----------------------------
(***************************************************************************)
(* The asynchronous HTTP registry of rtorrent, core::CurlStack            *)
(* (src/src/core/curl_stack.cc), together with the part of libcurl's      *)
(* multi interface it drives and the CurlGet objects it holds.            *)
(*                                                                         *)
(* All of it runs on the main thread, so every handler is one atomic      *)
(* step, except the drive step receive_action(): it is split at the      *)
(* points where libcurl or a completion callback runs foreign code        *)
(* (curl_multi_socket_action, each curl_multi_info_read), because the     *)
(* owner of a CurlGet may close or start transfers from its callback.     *)
(*                                                                         *)
(* libcurl is the environment: curl_multi_socket_action finishes any      *)
(* subset of the running handles with any result and may or may not call *)
(* the timer hook CurlStack::set_timeout; curl_multi_add_handle always    *)
(* calls it; curl_multi_remove_handle drops the handle's pending message. *)
(***************************************************************************)
EXTENDS Integers, Sequences, FiniteSets, SequencesExt

CONSTANTS
  Transfers,     \* the CurlGet objects (model values)
  MaxActive,     \* CurlStack::m_maxActive
  FirstResults,  \* the CURLcodes a first attempt may finish with
  RetryResults   \* the CURLcodes an attempt after retry_ipv6() may finish with

\* CURLE_OK, any other error, CURLE_COULDNT_RESOLVE_HOST
Results == {"ok", "fail", "resolve"}

ASSUME MaxActive \in Nat \ {0}
ASSUME FirstResults \subseteq Results /\ RetryResults \subseteq Results

VARIABLES
  stack,    \* the CurlStack's vector of CurlGet*, in arrival order
  active,   \* CurlGet::is_active() of each transfer
  mActive,  \* CurlStack::m_active
  ipv6,     \* CurlGet::is_using_ipv6() of each transfer
  running,  \* libcurl: easy handles of the multi still transferring
  msgs,     \* libcurl: the multi's CURLMSG_DONE queue (curl_multi_info_read)
  timer,    \* m_taskTimeout.is_queued() on the global taskScheduler
  drive,    \* "idle" or where the thread is in receive_action()
  src,      \* "socket" or "timer": what started the drive step
  drained,  \* the drive step took the (count != size()) branch
  status,   \* the CurlGet's lifecycle as its owner sees it
  fired,    \* history: completion callbacks fired per transfer
  phase,    \* "live", "closing" (inside ~CurlStack), "destroyed"
  fault     \* a torrent::internal_error has been thrown

vars == <<stack, active, mActive, ipv6, running, msgs, timer, drive, src,
          drained, status, fired, phase, fault>>

Status == {"new", "registered", "done", "failed", "cancelled"}
Finished == {"done", "failed", "cancelled"}
Msg == [h : Transfers, result : Results]

\* The transfers the stack holds, queued or active.
Registered == ToSet(stack)

\* The results libcurl may report for t's current attempt.
Outcomes(t) == IF ipv6[t] THEN RetryResults ELSE FirstResults

Init ==
  /\ stack = <<>>
  /\ active = [t \in Transfers |-> FALSE]
  /\ mActive = 0
  /\ ipv6 = [t \in Transfers |-> FALSE]
  /\ running = {}
  /\ msgs = <<>>
  /\ timer = FALSE
  /\ drive = "idle"
  /\ src = "socket"
  /\ drained = FALSE
  /\ status = [t \in Transfers |-> "new"]
  /\ fired = [t \in Transfers |-> 0]
  /\ phase = "live"
  /\ fault = FALSE

(***************************************************************************)
(* curl_multi_add_handle: the handle starts transferring, and libcurl     *)
(* calls CurlStack::set_timeout, which erases and re-inserts m_taskTimeout *)
(* (at most one timer task, whatever the previous state).                 *)
(***************************************************************************)
AttachHandle(t) ==
  /\ running' = running \cup {t}
  /\ timer' = TRUE

(***************************************************************************)
(* Owner code runs on the main thread between drive steps, and from a     *)
(* completion callback while the stack drains its messages.               *)
(***************************************************************************)
OwnerMayRun == phase = "live" /\ ~fault /\ drive \in {"idle", "drain"}

(***************************************************************************)
(* CurlStack::add_get, reached from CurlGet::start: the options are set,  *)
(* the transfer is appended, and it is attached only while m_active is    *)
(* below m_maxActive; otherwise it stays queued.                          *)
(***************************************************************************)
(* Mutation of add_get: the admission test written as '>' instead of '>='. *)
AddGetOffByOne(t) ==
  /\ OwnerMayRun
  /\ status[t] = "new"
  /\ stack' = Append(stack, t)
  /\ status' = [status EXCEPT ![t] = "registered"]
  /\ IF mActive > MaxActive
       THEN UNCHANGED <<active, mActive, running, timer>>
       ELSE /\ mActive' = mActive + 1
            /\ active' = [active EXCEPT ![t] = TRUE]
            /\ AttachHandle(t)
  /\ UNCHANGED <<ipv6, msgs, drive, src, drained, fired, phase, fault>>

AddGet(t) ==
  /\ OwnerMayRun
  /\ status[t] = "new"
  /\ stack' = Append(stack, t)
  /\ status' = [status EXCEPT ![t] = "registered"]
  /\ IF mActive >= MaxActive
       THEN UNCHANGED <<active, mActive, running, timer>>
       ELSE /\ mActive' = mActive + 1
            /\ active' = [active EXCEPT ![t] = TRUE]
            /\ AttachHandle(t)
  /\ UNCHANGED <<ipv6, msgs, drive, src, drained, fired, phase, fault>>

(***************************************************************************)
(* Mutations of remove_get, for checking that the properties below can    *)
(* fail: a missing m_active decrement, the promotion of the last queued   *)
(* entry instead of the first, no promotion at all, the never-activated   *)
(* early return taken before the erase, and a forgotten                   *)
(* curl_multi_remove_handle.                                               *)
(***************************************************************************)
RemoveGetNoDecrement(t, q) ==
  LET rest == RemoveFirst(stack, t)
      next == SelectInSeq(rest, LAMBDA g : ~active[g])
  IN
  /\ stack' = rest
  /\ IF ~active[t]
       THEN /\ msgs' = q
            /\ UNCHANGED <<active, mActive, running, timer>>
       ELSE
         /\ msgs' = SelectSeq(q, LAMBDA m : m.h # t)
         /\ IF mActive = MaxActive /\ next # 0
              THEN /\ active' = [active EXCEPT ![t] = FALSE, ![rest[next]] = TRUE]
                   /\ running' = (running \ {t}) \cup {rest[next]}
                   /\ timer' = TRUE
                   /\ UNCHANGED mActive
              ELSE /\ active' = [active EXCEPT ![t] = FALSE]
                   /\ running' = running \ {t}
                   /\ timer' \in {timer, TRUE}
                   /\ UNCHANGED mActive

RemoveGetPromoteLast(t, q) ==
  LET rest == RemoveFirst(stack, t)
      next == SelectLastInSeq(rest, LAMBDA g : ~active[g])
  IN
  /\ stack' = rest
  /\ IF ~active[t]
       THEN /\ msgs' = q
            /\ UNCHANGED <<active, mActive, running, timer>>
       ELSE
         /\ msgs' = SelectSeq(q, LAMBDA m : m.h # t)
         /\ IF mActive = MaxActive /\ next # 0
              THEN /\ active' = [active EXCEPT ![t] = FALSE, ![rest[next]] = TRUE]
                   /\ running' = (running \ {t}) \cup {rest[next]}
                   /\ timer' = TRUE
                   /\ UNCHANGED mActive
              ELSE /\ active' = [active EXCEPT ![t] = FALSE]
                   /\ running' = running \ {t}
                   /\ timer' \in {timer, TRUE}
                   /\ mActive' = mActive - 1

RemoveGetNoPromote(t, q) ==
  /\ stack' = RemoveFirst(stack, t)
  /\ IF ~active[t]
       THEN /\ msgs' = q
            /\ UNCHANGED <<active, mActive, running, timer>>
       ELSE /\ msgs' = SelectSeq(q, LAMBDA m : m.h # t)
            /\ active' = [active EXCEPT ![t] = FALSE]
            /\ running' = running \ {t}
            /\ timer' \in {timer, TRUE}
            /\ mActive' = mActive - 1

RemoveGetReturnBeforeErase(t, q) ==
  LET rest == RemoveFirst(stack, t)
      next == SelectInSeq(rest, LAMBDA g : ~active[g])
  IN
  IF ~active[t]
    THEN /\ msgs' = q
         /\ UNCHANGED <<stack, active, mActive, running, timer>>
    ELSE
      /\ stack' = rest
      /\ msgs' = SelectSeq(q, LAMBDA m : m.h # t)
      /\ IF mActive = MaxActive /\ next # 0
           THEN /\ active' = [active EXCEPT ![t] = FALSE, ![rest[next]] = TRUE]
                /\ running' = (running \ {t}) \cup {rest[next]}
                /\ timer' = TRUE
                /\ UNCHANGED mActive
           ELSE /\ active' = [active EXCEPT ![t] = FALSE]
                /\ running' = running \ {t}
                /\ timer' \in {timer, TRUE}
                /\ mActive' = mActive - 1

RemoveGetNoDetach(t, q) ==
  LET rest == RemoveFirst(stack, t)
      next == SelectInSeq(rest, LAMBDA g : ~active[g])
  IN
  /\ stack' = rest
  /\ msgs' = q
  /\ IF ~active[t]
       THEN UNCHANGED <<active, mActive, running, timer>>
       ELSE
         IF mActive = MaxActive /\ next # 0
           THEN /\ active' = [active EXCEPT ![t] = FALSE, ![rest[next]] = TRUE]
                /\ running' = running \cup {rest[next]}
                /\ timer' = TRUE
                /\ UNCHANGED mActive
           ELSE /\ active' = [active EXCEPT ![t] = FALSE]
                /\ UNCHANGED <<running, timer>>
                /\ mActive' = mActive - 1

(***************************************************************************)
(* CurlStack::remove_get, with q the libcurl message queue at the call.   *)
(* The transfer is erased; a never-activated one is done with.  An active *)
(* one is detached (curl_multi_remove_handle stops it, drops its pending  *)
(* message, and may call set_timeout, with -1 when nothing is left, which *)
(* the hook inserts as an already expired task).  If the stack was full,  *)
(* the first queued transfer in arrival order inherits the slot;          *)
(* otherwise m_active is decremented.                                     *)
(***************************************************************************)
RemoveGet(t, q) ==
  LET rest == RemoveFirst(stack, t)
      next == SelectInSeq(rest, LAMBDA g : ~active[g])
  IN
  /\ stack' = rest
  /\ IF ~active[t]
       THEN /\ msgs' = q
            /\ UNCHANGED <<active, mActive, running, timer>>
       ELSE
         /\ msgs' = SelectSeq(q, LAMBDA m : m.h # t)
         /\ IF mActive = MaxActive /\ next # 0
              THEN /\ active' = [active EXCEPT ![t] = FALSE, ![rest[next]] = TRUE]
                   /\ running' = (running \ {t}) \cup {rest[next]}
                   /\ timer' = TRUE
                   /\ UNCHANGED mActive
              ELSE /\ active' = [active EXCEPT ![t] = FALSE]
                   /\ running' = running \ {t}
                   /\ timer' \in {timer, TRUE}
                   /\ mActive' = mActive - 1

(***************************************************************************)
(* CurlGet::close by the owner: a registered transfer is removed from the *)
(* stack at once, without a completion callback.                          *)
(***************************************************************************)
Close(t) ==
  /\ OwnerMayRun
  /\ status[t] = "registered"
  /\ status' = [status EXCEPT ![t] = "cancelled"]
  /\ RemoveGet(t, msgs)
  /\ UNCHANGED <<ipv6, drive, src, drained, fired, phase, fault>>

(***************************************************************************)
(* A watched socket becomes ready: CurlSocket calls                       *)
(* CurlStack::receive_action(socket, events).                             *)
(***************************************************************************)
SocketEvent ==
  /\ phase = "live" /\ ~fault
  /\ drive = "idle"
  /\ running # {}
  /\ drive' = "perform"
  /\ src' = "socket"
  /\ UNCHANGED <<stack, active, mActive, ipv6, running, msgs, timer, drained,
                 status, fired, phase, fault>>

(***************************************************************************)
(* m_taskTimeout expires: the scheduler dequeues it and runs              *)
(* CurlStack::receive_timeout, which starts receive_action(nullptr, 0).   *)
(***************************************************************************)
TimerFire ==
  /\ phase = "live" /\ ~fault
  /\ drive = "idle"
  /\ timer
  /\ timer' = FALSE
  /\ drive' = "perform"
  /\ src' = "timer"
  /\ UNCHANGED <<stack, active, mActive, ipv6, running, msgs, drained,
                 status, fired, phase, fault>>

(***************************************************************************)
(* curl_multi_socket_action inside receive_action: libcurl finishes some  *)
(* of the running handles, queueing one CURLMSG_DONE each in completion   *)
(* order, may call the timer hook, and reports the number still running.  *)
(* The stack drains the message queue only when that count differs from  *)
(* size(), the number of transfers it holds, queued ones included.        *)
(* (libcurl no longer returns CURLM_CALL_MULTI_PERFORM here, so the do-   *)
(* while loop runs once; an error code is a throw libcurl never makes.)   *)
(***************************************************************************)
Perform ==
  /\ drive = "perform"
  /\ ~fault
  /\ \E F \in SUBSET running :
     \E order \in SetToSeqs(F) :
     \E res \in [F -> Results] :
       /\ \A t \in F : res[t] \in Outcomes(t)
       /\ running' = running \ F
       /\ msgs' = msgs \o [i \in 1..Len(order) |->
                             [h |-> order[i], result |-> res[order[i]]]]
       /\ drained' = (Cardinality(running \ F) # Len(stack))
       /\ drive' = IF Cardinality(running \ F) # Len(stack) THEN "drain" ELSE "end"
  /\ timer' \in {timer, TRUE}
  /\ UNCHANGED <<stack, active, mActive, ipv6, src, status, fired, phase, fault>>

(***************************************************************************)
(* CurlStack::process_done_handle, one call of the drain loop.  The       *)
(* message is read (its remaining count taken at the read); a message     *)
(* naming no transfer of the stack throws.  CURLE_COULDNT_RESOLVE_HOST on *)
(* a transfer not yet on IPv6 calls retry_ipv6() and re-attaches it, with *)
(* no callback; on a transfer already on IPv6 the message is dropped.     *)
(* Any other result goes to transfer_done: the CurlGet fires trigger_done *)
(* or trigger_failed, whose owner then closes it (remove_get).  The loop  *)
(* goes on while the read reported more messages.                         *)
(***************************************************************************)
ProcessDoneHandle ==
  /\ drive = "drain"
  /\ ~fault
  /\ IF msgs = <<>>
       THEN /\ drive' = "end"
            /\ UNCHANGED <<stack, active, mActive, ipv6, running, msgs, timer,
                           status, fired, fault>>
       ELSE
         LET m == Head(msgs)
             t == m.h
         IN
         /\ drive' = IF Len(msgs) > 1 THEN "drain" ELSE "end"
         /\ CASE t \notin Registered ->
                   /\ fault' = TRUE
                   /\ UNCHANGED <<stack, active, mActive, ipv6, running, msgs,
                                  timer, status, fired>>
              [] m.result = "resolve" ->
                   /\ msgs' = Tail(msgs)
                   /\ IF ~ipv6[t]
                        THEN /\ ipv6' = [ipv6 EXCEPT ![t] = TRUE]
                             /\ AttachHandle(t)
                        ELSE UNCHANGED <<ipv6, running, timer>>
                   /\ UNCHANGED <<stack, active, mActive, status, fired, fault>>
              [] OTHER ->
                   /\ fired' = [fired EXCEPT ![t] = @ + 1]
                   /\ status' = [status EXCEPT ![t] =
                                   IF m.result = "ok" THEN "done" ELSE "failed"]
                   /\ RemoveGet(t, Tail(msgs))
                   /\ UNCHANGED <<ipv6, fault>>
  /\ UNCHANGED <<src, drained, phase>>

(***************************************************************************)
(* receive_action, after a drain: an empty stack erases m_taskTimeout.    *)
(***************************************************************************)
EraseIfEmpty ==
  IF drained /\ stack = <<>> THEN FALSE ELSE timer

(* Mutation: receive_timeout without the re-arm for a forgetful libcurl. *)
EndStepNoRearm ==
  /\ drive = "end"
  /\ ~fault
  /\ timer' = EraseIfEmpty
  /\ drive' = "idle"
  /\ UNCHANGED <<stack, active, mActive, ipv6, running, msgs, src, drained,
                 status, fired, phase, fault>>

(***************************************************************************)
(* The end of the drive step.  A timer-driven step (receive_timeout)      *)
(* re-arms the task when transfers remain and none is queued, since       *)
(* libcurl sometimes forgets to; the deadline it picks is not modelled.   *)
(***************************************************************************)
EndStep ==
  /\ drive = "end"
  /\ ~fault
  /\ timer' = IF src = "timer" /\ stack # <<>> /\ ~EraseIfEmpty
               THEN TRUE ELSE EraseIfEmpty
  /\ drive' = "idle"
  /\ UNCHANGED <<stack, active, mActive, ipv6, running, msgs, src, drained,
                 status, fired, phase, fault>>

(***************************************************************************)
(* ~CurlStack: while the stack is not empty, front()->close(); then       *)
(* curl_multi_cleanup and the erase of m_taskTimeout.  Each close goes    *)
(* through remove_get, so a queued transfer may be attached on the way.   *)
(***************************************************************************)
Destroy ==
  /\ phase = "live" /\ ~fault
  /\ drive = "idle"
  /\ phase' = "closing"
  /\ UNCHANGED <<stack, active, mActive, ipv6, running, msgs, timer, drive, src,
                 drained, status, fired, fault>>

CloseFront ==
  /\ phase = "closing"
  /\ stack # <<>>
  /\ status' = [status EXCEPT ![Head(stack)] = "cancelled"]
  /\ RemoveGet(Head(stack), msgs)
  /\ UNCHANGED <<ipv6, drive, src, drained, fired, phase, fault>>

Cleanup ==
  /\ phase = "closing"
  /\ stack = <<>>
  /\ running' = {}
  /\ msgs' = <<>>
  /\ timer' = FALSE
  /\ phase' = "destroyed"
  /\ UNCHANGED <<stack, active, mActive, ipv6, drive, src, drained, status,
                 fired, fault>>

(***************************************************************************)
(* Nothing left to do: the stack is destroyed, or every transfer has      *)
(* finished and no wakeup is pending.                                      *)
(***************************************************************************)
Quiescent ==
  /\ \/ phase = "destroyed"
     \/ /\ phase = "live" /\ drive = "idle" /\ ~timer
        /\ \A t \in Transfers : status[t] \in Finished
  /\ UNCHANGED vars

Next ==
  \/ \E t \in Transfers : AddGet(t) \/ Close(t)
  \/ SocketEvent \/ TimerFire \/ Perform \/ ProcessDoneHandle \/ EndStep
  \/ Destroy \/ CloseFront \/ Cleanup
  \/ Quiescent

(***************************************************************************)
(* Fairness.  The main loop keeps running: the drive step, once started,  *)
(* completes; a queued m_taskTimeout eventually fires; the destructor     *)
(* runs to its end.  libcurl eventually finishes every running transfer   *)
(* (the network answers or curl's own timeouts end it); since a handle is *)
(* only finished inside a drive step, that is strong fairness.  The owner *)
(* (AddGet, Close, Destroy) and socket readiness get none.                *)
(***************************************************************************)
Finishes(t) == Perform /\ t \in running /\ t \notin running'

Fairness ==
  /\ WF_vars(TimerFire)
  /\ WF_vars(Perform)
  /\ WF_vars(ProcessDoneHandle)
  /\ WF_vars(EndStep)
  /\ WF_vars(CloseFront)
  /\ WF_vars(Cleanup)
  /\ \A t \in Transfers : SF_vars(Finishes(t))

Spec == Init /\ [][Next]_vars
FairSpec == Spec /\ Fairness

-----------------------------------------------------------------------------
(***************************************************************************)
(* Properties                                                             *)
(***************************************************************************)

TypeOK ==
  /\ stack \in Seq(Transfers)
  /\ active \in [Transfers -> BOOLEAN]
  /\ mActive \in 0..MaxActive
  /\ ipv6 \in [Transfers -> BOOLEAN]
  /\ running \subseteq Transfers
  /\ msgs \in Seq(Msg)
  /\ timer \in BOOLEAN
  /\ drive \in {"idle", "perform", "drain", "end"}
  /\ src \in {"socket", "timer"}
  /\ drained \in BOOLEAN
  /\ status \in [Transfers -> Status]
  /\ fired \in [Transfers -> Nat]
  /\ phase \in {"live", "closing", "destroyed"}
  /\ fault \in BOOLEAN

(***************************************************************************)
(* Admission accounting (add_get, remove_get, process_done_handle): the   *)
(* counter m_active equals the number of transfers flagged active, never  *)
(* exceeds m_maxActive, and libcurl runs only handles of active           *)
(* transfers the stack holds.                                             *)
(***************************************************************************)
AdmissionAccounting ==
  LET Attached == {t \in Registered : active[t]}
  IN /\ mActive = Cardinality(Attached)
     /\ mActive <= MaxActive
     /\ \A t \in Transfers : active[t] => t \in Registered
     /\ running \subseteq Attached

(***************************************************************************)
(* Admission order (remove_get's promotion of the first inactive entry):  *)
(* no queued transfer precedes an active one in arrival order, and a      *)
(* transfer waits only while every slot is taken.                         *)
(***************************************************************************)
AdmissionOrder ==
  /\ \A i, j \in 1..Len(stack) : i < j /\ active[stack[j]] => active[stack[i]]
  /\ (\E t \in Registered : ~active[t]) => mActive = MaxActive

(***************************************************************************)
(* Completion messages are consumed (receive_action's count != size()     *)
(* test, process_done_handle's remaining count): whenever the thread is   *)
(* back in the main loop, libcurl's message queue is empty, and no        *)
(* message has ever named a transfer the stack does not hold.             *)
(***************************************************************************)
NoPendingCompletion ==
  /\ ~fault
  /\ drive = "idle" => msgs = <<>>

(***************************************************************************)
(* The wakeup is never lost (receive_timeout's re-arm, the hooks of       *)
(* add_handle): while the stack holds transfers and the thread is back in *)
(* the main loop, m_taskTimeout is queued.                                *)
(***************************************************************************)
TimerArmedWhileBusy ==
  phase = "live" /\ drive = "idle" /\ stack # <<>> => timer

(***************************************************************************)
(* Callbacks fire on live transfers only, and once (transfer_done's      *)
(* lookup, remove_get's erase, the DNS retry branch): once a transfer has *)
(* ended, by its callback or by CurlGet::close, neither its status nor    *)
(* its callback count changes again.                                      *)
(***************************************************************************)
NoCallbackAfterEnd ==
  [][\A t \in Transfers :
       status[t] \in Finished => /\ status'[t] = status[t]
                                 /\ fired'[t] = fired[t]]_vars

(***************************************************************************)
(* Every registered transfer eventually ends: its callback fires or its   *)
(* owner closed it (process_done_handle's retry-or-finish policy).        *)
(***************************************************************************)
EveryTransferEnds ==
  \A t \in Transfers : status[t] = "registered" ~> status[t] \in Finished

-----------------------------------------------------------------------------
(***************************************************************************)
(* Refinement.  The registry's collection is the stack, a transfer is     *)
(* attached when is_active(), and the owner's view of it is status; every *)
(* other variable is the implementation's own.  A drive step, a retry or  *)
(* a timer change is a stuttering step of the abstract registry.          *)
(***************************************************************************)
Registry == INSTANCE TransferRegistry
              WITH reg <- stack,
                   att <- {t \in Transfers : active[t]},
                   st  <- status

(***************************************************************************)
(* CurlStack implements the registry of spec section 4.1: add_get,        *)
(* remove_get's promotion, process_done_handle's completions and the      *)
(* destructor's closes change the collection, the attached set and the    *)
(* owners' view only as register, complete and cancel do, with the freed   *)
(* slot always passed to the first queued transfer in arrival order.      *)
(***************************************************************************)
ImplementsRegistry == Registry!Spec

=============================================================================
