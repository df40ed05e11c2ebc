# TLA+ models of rtorrent's HTTP transfer scheduler and its neighbours

This directory holds TLA+ models of the rtorrent sources under `src/src/`. They are checked with TLC.
The spec (`spec.md`) calls the HTTP transfer scheduler the core. That scheduler is
`core::CurlStack` (`src/src/core/curl_stack.cc`), and it is modelled first. The other source
files are catalogued below, each with a place in the plan.

## 1. Inventory of the system

### 1.1 Components

| Component | Source | State it keeps | Operations |
|---|---|---|---|
| **CurlStack**, the transfer registry | `core/curl_stack.cc` | the libcurl multi handle; a vector of `CurlGet*` in arrival order; `m_active` and `m_maxActive`; one timer task `m_taskTimeout`; configuration strings and flags | `add_get`, `remove_get`, `receive_action` (the drive step), `process_done_handle`, `transfer_done`, `receive_timeout`, the hook `set_timeout`, `new_socket`, the destructor |
| **CurlGet**, one HTTP GET | `core/curl_get.cc` (not in the source set) | easy handle, `is_active`, `is_using_ipv6`, URL, byte counters | `start` (which calls `add_get`), `close` (which calls `remove_get`), `retry_ipv6`, `trigger_done`/`trigger_failed` |
| **CurlSocket**, the SocketWatcher | `core/curl_socket.cc` (not in the source set) | one descriptor and a back pointer | readiness events that call `receive_action(socket, events)`; libcurl's socket hook creates and destroys it |
| **libcurl multi interface** | external | running handles; the CURLMSG_DONE queue | `curl_multi_socket_action`, `add_handle`/`remove_handle`, `info_read`, `curl_multi_timeout`, and calls back into `set_timeout` and the socket hook |
| **Global task scheduler** | external (`taskScheduler`, `cachedTime`) | a priority queue of timer tasks | insert, erase, fire when due |
| **WindowHttpQueue** | `display/window_http_queue.cc` | a list of (CurlGet*, name, linger deadline) nodes; `active` | `receive_insert`, `receive_erase`, `cleanup_list`, `redraw` |
| **RpcManager** | `rpc/rpc_manager.cc` | the XML and JSON processors; a `thread_local` trust flag; `m_initialized` | `dispatch`, `set_trusted_connection`, `is_command_enabled`, `initialize`, `cleanup`, `insert_command` |
| **ExecFile** | `rpc/exec_file.cc` | `m_logFd`, `m_capture` | `execute` (fork, an optional second fork for background jobs, pipe capture, a global lock released around `waitpid`), `execute_object` (packs the arguments into fixed buffers) |
| **Frame**, the layout engine | `display/frame.cc` | a tree of frames, each NONE, WINDOW, ROW or COLUMN, with position and extent | `initialize_*`, `set_container_size`, `clear`, `preferred_size`, `balance` (`balance_row`/`balance_column` share space among dynamic frames), `refresh`, `redraw` |
| **ui::Download** | `ui/download.cc` | `m_state` (which sub-display), `m_focusDisplay`, `m_frame`, the element array | `activate`, `disable`, `activate_display`, the `receive_*` limit adjusters, the throttle adjusters |
| **ElementFileList** | `ui/element_file_list.cc` | `m_state`, `m_window`, `m_elementInfo`, `m_selected` (a file-tree iterator), `m_collapsed` | `activate`, `disable`, `activate_display`, the navigation handlers `receive_next`/`receive_prev`/`receive_pagenext`/`receive_pageprev`/`receive_select`, `receive_priority`, `receive_change_all`, `receive_collapse` |
| **ElementLogComplete** | `ui/element_log_complete.cc` | `m_window`, `m_frame` | `activate`, `disable`, `received_update` (signalled from the log's thread) |
| **WindowDownloadList** | `display/window_download_list.cc` | the view pointer and its signal connection | `set_view`, `redraw` (rendering) |

### 1.2 How they interact

- **Owner to CurlStack.** An owner, such as a tracker or the HTTP queue, calls `CurlGet::start`, which
  reaches `add_get`. It calls `CurlGet::close`, which reaches `remove_get`, at any time.
- **libcurl to CurlStack.** libcurl calls two hooks. `set_timeout` erases the one timer task and
  inserts it again. The socket hook creates a `CurlSocket`.
- **Events to CurlStack.** A ready socket or an expired task runs a *drive step*
  (`receive_action`). The step calls `curl_multi_socket_action`, then compares libcurl's running
  count with `size()`. On a mismatch it drains CURLMSG_DONE messages one by one. A DNS failure is
  retried once over IPv6. Any other result calls `trigger_done`/`trigger_failed` on the CurlGet,
  and the owner then closes the CurlGet from inside that callback. The promotion in `remove_get`
  attaches the first queued transfer.
- **CurlStack to HTTP queue window.** The HTTP queue signals the window when a transfer is inserted
  or erased.
- **RPC to commands.** `RpcManager::dispatch` records whether the connection is trusted.
  `is_command_enabled` reads that record when a command named in an RPC request is looked up.
  `ExecFile` runs the `execute.*` commands.
- **UI tree.** `ui::Download` owns the elements and moves between sub-displays. Each element
  places its windows into `display::Frame`s, and `Frame::balance` lays them out.

Everything except the log buffer's producer and ExecFile's lock release runs on the one main
thread. Concurrency in the scheduler is therefore interleaving, not parallelism: owner calls,
socket events, timer expiries and libcurl's completions arrive in any order between and inside
drive steps.

### 1.3 What is hard

- **Drive step.** In `receive_action` and `process_done_handle`, libcurl finishes handles in any
  order and with any result. The completion callback runs owner code in the middle of the drain,
  and that code may close or start transfers. The remaining-messages count is taken before the
  callback runs.
- **Admission control.** The promotion in `remove_get` is guarded by an exact equality,
  `m_active == m_maxActive`.
- **One timer task shared by three writers.** libcurl's hook, the fallback re-arm in
  `receive_timeout` and the erase in the drive step all write it. libcurl sometimes forgets to call
  the hook, and its -1 ("no timeout") is inserted as a task that has already expired.
- **The one-shot DNS retry.**
- **Teardown.** The destructor closes transfers one by one, and each close may promote and re-arm.
- **Elsewhere.** A thread-local trust flag that is never restored. A layout loop on unsigned
  arithmetic. UI state machines whose wrong transitions throw `internal_error`.

### 1.4 Properties that make each component correct

- **CurlStack**
  - `m_active` counts the attached transfers and never exceeds `m_maxActive`.
  - Waiting transfers start in arrival order, and only when every slot is taken.
  - No completion message is left unread when the main loop resumes.
  - A wakeup is queued whenever transfers are pending.
  - Each transfer gets at most one callback and none after it was closed.
  - Every registered transfer eventually ends.
  - From the spec: no timer task while the stack is empty.
- **WindowHttpQueue.** Each live transfer has exactly one node, and the window stays shown (so its
  redraw, which removes finished nodes after their linger time, stays scheduled) while it lists
  nodes.
- **RpcManager.** An untrusted request never enables an untrusted command. A trusted context is not
  denied because of an earlier untrusted request.
- **ExecFile.** `argv` is null-terminated within `max_args`, and values never overflow
  `buffer_size`.
  The executed command inherits only stdin, stdout and stderr, each pointed where the flags say.
  `execute` returns once the command it waits for has exited.
- **Frame.** Sub-frames never extend past their parent. Every dynamic frame gets at least its
  minimum when space allows. The balancing loop terminates.
- **ui::Download / ElementFileList / ElementLogComplete.** Exactly the elements of the current
  sub-display are active. No element is activated twice or disabled while inactive. `m_selected`
  stays inside the file list.

## 2. Plan

The modules are written in this order. The most important behaviour comes first.

1. **`CurlStack` + `MC_CurlStack`** (done, sections 3.1-3.2). This is the registry together with its
   environment: libcurl, the sockets, the scheduler and the owners.
   - 1b. Add `SetMaxActive`, the run-time change of `m_maxActive`, from the spec. It checks
     `AdmissionOrder` and liveness when the limit is raised.
   - 1c. Write `CurlTimeout`, the deadline arithmetic of lines 140-144 and 233-236 with 64-bit
     wrap-around. A pure operator is checked against the spec's "10 s default only when libcurl
     offers none".
   - 1d. Let a CurlGet restart after `close`, as tracker requests do.
   - 1e. (done) Write `TransferRegistry`, an abstract spec of the registry's promise. Each transfer goes
     from queued to active to ended, with at most `MaxActive` active at a time and in FIFO order.
     `CurlStack` is shown to implement it through `INSTANCE TransferRegistry WITH` a refinement
     mapping, with the abstract spec checked as a `PROPERTY`.
2. **`RpcTrust`** (done, section 3.3). It models `dispatch`, `is_command_enabled`,
   `set_trusted_connection`, `initialize`, `cleanup` and `insert_command` over two threads that
   serve multicall requests. It found the flag left false after an untrusted request, because the
   reset at line 132 is unreachable.
3. **`WindowHttpQueue`** (done, section 3.4). It composes the HTTP queue's insert/erase signals
   with the window. The erase slot is inserted with an iterator into the insert signal's list
   (line 24), which is undefined behaviour, and the model chooses among the outcomes a build can
   produce.
   - 3b. Later, drive the window from `CurlStack` instead of an arbitrary HttpQueue: each erase is
     then a completion callback or a close.
4. **`FrameBalance`** (done, section 3.5). The layout is written as RECURSIVE operators with
   uint32 wrap-around and checked against a reference allocation.
   - 4b. The frame lifecycle (`initialize_*`, `set_container_size`, `clear`) joins the UI modules
     of step 6, which drive it.
5. **`ExecFile`** (done, section 3.6). It models `execute`'s control together with the global lock, the
   RPC thread and a command that may call back over RPC. It found a deadlock for captured commands
   that call back, a second one for captured background commands when `close_all_fds` fails, and a
   pipe leak when fork fails.
   - 5b. `ExecArgs`: the argument packing of `execute_object`, checked against a reference on
     lists of 0 to `max_args` + 1 elements.
   - 5c. `ExecChild` (done, section 3.6): the child's descriptors between `fork` and `execvp`,
     with `close_all_fds`, checked against what the flags ask for.
6. **`UiDownload`** (done, section 3.7). It models the sub-display state machine of `ui::Download` composed with
   `ElementFileList` and `ElementLogComplete`. Its properties are the active-set invariant and the
   absence of `internal_error` throws.

`WindowDownloadList` is part of step 6. Its signal bookkeeping (`set_view`, the
destructor) and `redraw`'s self-rescheduling are modelled with the download list element that owns it.
Its drawing is not modelled.

## 3. What is modelled now

### 3.1 `CurlStack.tla`

**State**

| Variable | Code |
|---|---|
| `stack` | the base `std::vector<CurlGet*>`, in arrival order |
| `active` | `CurlGet::is_active()` |
| `mActive` | `m_active` |
| `ipv6` | `is_using_ipv6()` |
| `running` | libcurl's running easy handles |
| `msgs` | libcurl's CURLMSG_DONE queue |
| `timer` | `m_taskTimeout.is_queued()` |
| `drive` / `src` / `drained` | the position inside `receive_action`: which event started it and whether the `count != size()` branch ran |
| `status` | the CurlGet's lifecycle seen by its owner |
| `fired` | history: callbacks fired per transfer |
| `phase` | live, inside the destructor, or destroyed |
| `fault` | an `internal_error` was thrown |

**Actions**

| Action | Code |
|---|---|
| `AddGet` | `add_get` |
| `Close` | `CurlGet::close` then `remove_get` |
| `SocketEvent` | a CurlSocket event |
| `TimerFire` | the scheduler runs `receive_timeout` |
| `Perform` | `curl_multi_socket_action`, then the `count != size()` test |
| `ProcessDoneHandle` | one call of the drain loop, including `transfer_done`, the callback and the owner's close |
| `EndStep` | the erase-if-empty of lines 71-72 (`EraseIfEmpty`), then `receive_timeout`'s re-arm |
| `Destroy` / `CloseFront` / `Cleanup` | the destructor |

`RemoveGet(t, q)` is `remove_get`, including the promotion. `AttachHandle` is
`curl_multi_add_handle` together with the `set_timeout` hook it triggers.

The drive step is split where foreign code runs: after libcurl's perform, and after each message
with its callback. Owner actions (`AddGet`, `Close`) are enabled between drive steps and between
drain calls. This stands for the code an owner runs from its completion callback.

**libcurl as environment**

- A perform finishes any subset of running handles. It queues their messages in any order.
  It may or may not call the timer hook.
- `add_handle` always calls the hook.
- `remove_handle` drops the handle's pending message and may call the hook. A call with -1 is
  inserted by `set_timeout` as an expired task.
- `CURLM_CALL_MULTI_PERFORM` is no longer returned by `curl_multi_socket_action`, so the do-while
  runs once.

**Abstractions**

- Deadline values are not modelled: a queued task may fire at any later step.
- Sockets are reduced to "some running handle is ready".
- The configuration `setopt` calls in `add_get` change no state the properties see.

### 3.2 Runs

All runs use `MC_CurlStack.tla`: CurlGets `t1..t4` are model values, and there are 2 slots.

| Run | cfg | Expect | What it shows |
|---|---|---|---|
| `curlstack_checks` | `MC_CurlStack.cfg` | pass | 4 transfers and 2 slots, so two transfers are active and two wait at once. A first attempt succeeds or fails name resolution, and the IPv6 retry fails; 113,443 distinct states under `FairSpec` (no symmetry, which is unsound for liveness). `AdmissionAccounting`: `m_active` = attached transfers ≤ max, and libcurl runs only those. `AdmissionOrder`: no queued transfer precedes an active one, and one waits only when all slots are taken. `NoPendingCompletion`: no unread message when the main loop resumes, and no message for an unknown handle. `TimerArmedWhileBusy`: a wakeup is queued while transfers remain. `NoCallbackAfterEnd` (action property): an ended or closed transfer never gets a callback. `EveryTransferEnds`: every registered transfer eventually gets its callback or is closed. `ImplementsRegistry`: CurlStack refines the abstract `TransferRegistry` (below). |
| `curlstack_retry_stall` | `MC_CurlStack_retry_stall.cfg` | violation | 3 transfers (one waits), with DNS failing after the IPv6 retry. The message is dropped at line 99, and the transfer keeps its slot forever with no callback. **Code bug**: spec sections 4.1, 7 and 8 require a failure callback. |

**A divergence with no run of its own.** Spec sections 3 and 8 say no timer task is queued while the collection is empty, outside a drive step. `remove_get` (reached from `CurlGet::close`) never erases `m_taskTimeout`, and `set_timeout` inserts even libcurl's -1 as an expired task. So after the owner closes the last transfer, the task stays queued. The model reaches that state (`stack = <<>>` with `timer` TRUE while idle); it costs one empty wakeup, so no run is spent on it.

**Bounds.** Four transfers and two slots let two transfers wait at once, so the FIFO choice in
`remove_get` matters. With three transfers, at most one transfer waits, and a "promote the last
waiting transfer" bug goes unseen. Each CurlGet is started once, which bounds the model. Results
are `ok`, `fail` and `resolve`, the three classes `process_done_handle` distinguishes. In
`curlstack_checks` a first attempt ends `ok` or `resolve` and the IPv6 retry ends `fail`: both
completion paths and the retry are reached, and the temporal check over four transfers stays near
one and a half minutes (with every result everywhere it takes 7).

**Fairness (`FairSpec`).**

- Weak fairness covers the main loop: once started, a drive step finishes; a queued task fires;
  the destructor runs to completion. (`EveryTransferEnds` needs the last: a transfer cancelled by
  the destructor has ended.)
- Strong fairness on `Finishes(t)` stands for the network and libcurl's own timeouts eventually
  ending each running transfer. It is strong because a handle can only finish inside a drive step,
  and drive steps come and go.
- The owner (`AddGet`, `Close`, `Destroy`) and socket readiness get no fairness. An owner may never
  cancel a stuck transfer, and the retry stall needs no more than that.

**Refinement (`TransferRegistry.tla`).** The abstract registry of spec sections 4.1 and 4.2 has
three variables: the ordered collection `reg`, the attached set `att`, and each transfer's state
`st`. Its actions are `Register(t)` (attach while a slot is free), `Complete(t)` (only an attached
transfer; exactly one callback, then deregister) and `Cancel(t)`. `Deregister` passes a freed slot
to the first queued transfer in arrival order. `CurlStack` defines
`Registry == INSTANCE TransferRegistry WITH reg <- stack, att <- {t : active[t]}, st <- status`,
and `curlstack_checks` checks `ImplementsRegistry == Registry!Spec` as a property. Every drive
step, retry, timer change and the teardown's bookkeeping must then be a stuttering step or one of
the three abstract actions. The code promotes only when `m_active == m_maxActive`, and the
abstract registry promotes whenever a transfer waits, so the check also shows that a transfer
waits only when every slot is taken.

**Mutants.** Each property is broken by a plausible bug in the definition it is about:

| Mutant | Bug | Property it breaks |
|---|---|---|
| `RemoveGetNoDecrement` | missing `m_active--` | `AdmissionAccounting` |
| `RemoveGetPromoteLast` | promotion scans from the back | `AdmissionOrder` |
| `RemoveGetNoDetach` | no `curl_multi_remove_handle` | `NoPendingCompletion` |
| `EndStepNoRearm` | the "libcurl forgets" fallback is missing | `TimerArmedWhileBusy` |
| `RemoveGetReturnBeforeErase` | the never-activated early return comes before the erase | `NoCallbackAfterEnd` |
| `RemoveGetNoPromote` | no promotion at all | `EveryTransferEnds` |
| `AddGetOffByOne` | the admission test is `>` instead of `>=` | `TypeOK` (`m_active` leaves `0..MaxActive`) |
| `RemoveGetPromoteLast` | (as above) | `ImplementsRegistry` |

### 3.3 `RpcTrust.tla`: the command-trust gate

**State**

| Variable | Code |
|---|---|
| `trusted[th]` | each thread's copy of the `thread_local` `trustedXmlConnection` |
| `pc[th]` / `req[th]` | whether the thread is inside `dispatch` and which methods of its request are left |
| `valid` | the XML and JSON processors' `is_valid()` |
| `initialized` | `m_initialized` |
| `registered` | methods added by `insert_command` |
| `ran` / `denied` / `setBy` | history, kept only for the properties |

**Actions**

- `Dispatch`: line 105, then either the processor takes the request or the "not supported" answer
  is sent. It never reaches line 132.
- `ProcessCall`: the processor's lookup of one method through `is_command_enabled`. The processors
  are outside the source set, so this action is `spec_modelled`.
- `SetTrustedConnection`, `Initialize`, `Cleanup` and `InsertCommand`: one action each.

**Runs** (`MC_RpcTrust`: threads `th1`, `th2`; methods `execute` (untrusted), `view` and
`missing` (never inserted); at most 2 methods per request; 140,080 states):

| Run | Expect | What it shows |
|---|---|---|
| `rpctrust_safety` | pass | `UntrustedNeverRuns`: an untrusted connection never runs an untrusted method, whatever the other thread does. `TrustedNeverDenied`: a trusted connection is never refused. `TypeOK` also requires a busy thread to have a method left. |
| `rpctrust_stale_flag` | violation | `TrustRestoredAfterDispatch`. An untrusted request, even one answered "not supported" before `initialize`, leaves the flag false after `dispatch` returns. Line 132 says it should be true again. **Code bug**: the statement is dead. |

Mutants:

- `DispatchShared` (the flag shared between threads) breaks `UntrustedNeverRuns` by an
  interleaving of two threads.
- `DispatchOnlyRestrict` (only untrusted connections write the flag) breaks `TrustedNeverDenied`.
- `ProcessCallOffByOne` breaks `TypeOK`.

### 3.4 `WindowHttpQueue.tla`: the HTTP queue status line

**State**

| Variable | Code |
|---|---|
| `container` | `m_container`, as nodes `[http, timer]` |
| `active` | `is_active()` |
| `queue` | the CurlGets `HttpQueue` holds |
| `wiring` | which signal list the erase slot landed on |
| `fault` | `receive_erase` threw |

A node's `timer` is kept relative to `cachedTime` in half-second units (`Linger = 2` is one
second), with every past value folded into `-1`. A default-constructed node has a past timer.

**Actions**

- `HttpQueueInsert` / `HttpQueueErase`: HttpQueue's signals. They run `ReceiveInsert` /
  `ReceiveErase` as the wiring dictates.
- `Tick`: the clock advances.
- `Redraw`: `cleanup_list` and the hide-when-empty logic. The printing is left out.

**Fairness.** None: the runs check invariants only. That a finished node is eventually dropped is
not checked. Under weak fairness of `Redraw` it would hold by definition, since `Redraw` removes
exactly the expired nodes. The real risk is that the window is hidden, so `redraw` stops being
scheduled, while it still lists nodes. `ShownWhileListed` covers that.

**Runs** (`MC_WindowHttpQueue`: CurlGets `h1`, `h2`, which may be reinserted; up to 3 nodes):

| Run | Expect | What it shows |
|---|---|---|
| `whq_checks` | pass | Under either wiring: `EraseFindsNode` (no `logic_error`), `NoDanglingHttp` (no node points to a deleted CurlGet), and `ShownWhileListed`: the window is active (so its `redraw` stays scheduled) while it has nodes. |
| `whq_miswired` | violation | `LiveShown`. In the libstdc++ outcome, a transfer is marked done as it is inserted, and the real erase reaches no slot. **Code bug** at line 24. |

Mutants:

- `ExpiredNoNullCheck` (cleanup ignores `m_http`) breaks `EraseFindsNode`.
- `ReceiveEraseKeepPtr` breaks `NoDanglingHttp`.
- `ReceiveInsertInverted` breaks `ShownWhileListed`.

### 3.5 `FrameBalance.tla`: the layout algorithm

**What it models.** Frames are values `[type, win, kids]`. `IsDynamic`, `HasAnchor`,
`PreferredSize` and `Balance` follow the recursive member functions. `BalanceRow` and
`BalanceColumn` are the two transposed copies of the code, and they share the helpers
`Allocate` (first loop and sort), `SharePass`/`Share` (the do-while) and `Place` (the last loop),
which take the axis as a parameter.

**Arithmetic.** Unsigned arithmetic is taken modulo `2^Width` with `Width = 8`, so
`extent_full = 255`. The wrap-around is what matters, not the exact width, and every input value
is far below 255.

**Inputs.** The checking section's variables `root` and `rect` are one input each. They cover
rows and columns of 1 to 3 children drawn from 11 kinds:

- an empty frame and an inactive window;
- static and dynamic windows, with small or `extent_full` maxima, some anchored bottom/left;
- a nested row or column.

Each tree is balanced in extents 0..9 along its axis and 9 across: 55,594 inputs. Many of them
have minima that do not fit, so the last loop runs out of space part-way.

**The last loop.** `balance()` stores the extent it is given in the child's `m_height` (line 276).
Lines 409-412 call it with `min(m_height, height)` and then move `y` and `height` on by that
clipped value, so `height` reaches 0 and never wraps. `Place` follows this. Children that no
longer fit get zero extent and go offscreen, as the comment at lines 394-396 says.

| Run | Expect | What it shows |
|---|---|---|
| `frame_layout` | pass | `LayoutInsideParent`: whether or not the minima fit, shown windows are inside the parent and do not overlap. `LayoutFillsSpace`: the dynamic share equals a reference. Every dynamic child lies between its minimum and maximum, and together they take `min(room, Σ max)`. |

Mutants:

- `ShareOnce` (one pass of the do-while) breaks `LayoutFillsSpace`.
- `PlaceUnclipped` (position and extent advanced by the size asked for, not the clipped one)
  breaks `LayoutInsideParent`: the extent wraps and later children land below the parent.

### 3.6 `ExecFile.tla` and `ExecChild.tla`: running commands, the global lock, the child's descriptors

**What it models.** `rpc::ExecFile::execute` runs on the main thread with the global lock held.
The model follows it step by step:

| Action | Code |
|---|---|
| `ForkFail(c)` | lines 111-119: `pipe()` done for a captured command, then `fork()` returns -1 and the throw leaves the pipe open |
| `ExecStart(c)` | lines 93-174: fork; with `flag_background` the child forks again and exits at once; the lock is released unless `flag_capture` |
| `WorkerExit` | lines 121-167: the command (child, or detached grandchild) runs and exits |
| `ReadToEof` | lines 176-197: the read loop ends when every write end is closed: the parent's at line 178, and the command's when it exits or, for a background command, when `close_all_fds` closed it (`holdsPipe`, chosen at `ExecStart` from `ExecChild`'s `PipeKept`) |
| `Wait` / `Reacquire` / `Return` | lines 199-222: `waitpid`, `acquire_global_lock` when it was released, the status |

Its environment is taken from outside the source set (`spec_modelled`): the main loop releases
the lock while it polls (`PollRelease`, `PollAcquire`), the RPC thread takes the lock to serve a
request (`RpcAcquire`, `RpcRelease`), and a command may call back over RPC and wait for the answer
before it exits (`WorkerCall`). A command is a record `[capture, background, callback]`; all eight
are inputs. One command process runs at a time (an environment bound).

**Fairness.** Every process and thread that can run is eventually scheduled (weak fairness).
Lock acquisition is strongly fair, since the lock is repeatedly free and taken. The main loop's
polling and its choice of commands get no fairness.

| Run | Expect | What it shows |
|---|---|---|
| `exec_checks` | pass | For the six commands other than the captured ones that call back: `TypeOK` (the RPC thread serves only holding the lock), `LockHeldByMainCode` (the lock is the main thread's in the main loop, while capturing, and once `execute` has its status), `ExecuteReturns`, and `CommandInheritsOnlyStdio` (see below). |
| `exec_capture_deadlock` | violation | `ExecuteReturns`: a captured command that calls back waits for the RPC thread, which waits for the lock `execute` keeps while reading. The comment at lines 169-170 says the lock is yielded "so that XMLRPC and other threads can continue working". **Spec/code divergence** at line 171. |
| `exec_emfile_deadlock` | violation | `ExecuteReturns`, for a captured background command that calls back. When exactly one descriptor is free at `fork()`, `/dev/null` takes it, `open("/proc/self/fd")` fails with EMFILE and `close_all_fds` closes nothing (line 44). The detached command keeps the pipe's write end, so `execute` reads, holding the lock, until the command exits; the command waits for its RPC answer, which waits for the lock. **Code bug** at line 44. |
| `exec_pipe_leak` | violation | `NoPipeLeak`: the fork-failure throw at line 119 leaves both pipe descriptors open. **Code bug.** |

Deadlock checking is off in the ExecFile runs. The client really can stop inside `execute`
(`exec_capture_deadlock`, `exec_emfile_deadlock`), and outside `execute` the main loop can always poll, so every stop is
one inside `execute` and is reported by `ExecuteReturns`.

Mutants:

- `ReacquireNoWait` (lock taken without waiting for it) breaks `TypeOK`.
- `WaitNoReacquire` (no `acquire_global_lock`) breaks `LockHeldByMainCode`.
- `ExecStartReleaseSwapped` (the capture test inverted) breaks `ExecuteReturns`.
- `CloseEntryAnyFd` (`close_all_fds` without the `x != dir_fd` test) breaks `CommandInheritsOnlyStdio`.

**The child's descriptors: `ExecChild.tla`.** `ReadToEof` needs to know which processes hold the
pipe's write end. That depends on what the child does between `fork` and
`execvp`. `ExecChild` models it as pure operators on a descriptor table, a function from
descriptor numbers to the file each refers to. `open` and `pipe` take the lowest free descriptor,
or fail with EMFILE. `dup2(a, b)` makes `b` refer to `a`'s file.

| Operator | Code |
|---|---|
| `Pipe` | lines 112-114: `pipe(pipeFd)` for `flag_capture` |
| `ChildStdio` | lines 141-161: `/dev/null` opened, then stdin, stdout and stderr pointed at `/dev/null`, the pipe or the log, or closed |
| `CloseAllFds`, `Scan`, `CloseEntry`, `Atoi` | `close_all_fds`, lines 35-71: `/proc/self/fd` opened, read `Batch` entries per `getdents` call, each name parsed digit by digit (characters are ASCII codes), descriptors above 2 other than `dir_fd` closed |
| `CommandFds` | lines 121-166: the process that calls `execvp`; for `flag_background` this is the grandchild, with `m_logFd = -1` and `flag_capture` cleared |

The property compares `CommandFds` with `Expected` for every parent table in `Parents`.
In every parent table, 0 and 1 are the terminal the curses display uses and 2 is the
terminal or closed. Any other descriptor is a client socket, and one of them may be the log.
The table has 12 descriptors, either nearly empty (at most two others open) or within three of
full, under every flag combination, with `/dev/null` present or not. Twelve descriptors give
two-digit names. Four entries per `getdents` call make the listing take several calls, so
`dir_fd` is read before descriptors that come after it. `StdioOnly` holds the comparison for
each pair of flags. It is a constant, so TLC computes it once. `ExecFile`'s invariant
`CommandInheritsOnlyStdio` looks it up for the flags of the command that is running.

With a full table, `/dev/null` cannot be opened, and `close(0)` frees a slot, so `/proc/self/fd`
still opens. The property therefore holds at the limit too, with one exception, `DevNullTakesLastFd`.
When exactly one descriptor is free, `/dev/null` takes it. `open("/proc/self/fd")` then fails with
EMFILE, and `close_all_fds` closes nothing (line 45). The command inherits every client socket
and the pipe's read end. A captured background command even keeps the pipe's write end, so the
client's read waits for it to finish. `CommandInheritsOnlyStdio` excepts these tables (TLC finds
the leak when the exception is removed). Their effect on `execute` is checked instead:
`PipeKept`, computed over the same tables, gives the outcomes `ExecStart` chooses among, and
`exec_emfile_deadlock` shows the hang it leads to.

### 3.7 `UiDownload.tla`: the download view, the file list and the log view

**What it models.** The curses client's download view (`ui::Download`) shows a menu and one
element in a column of frames; the file list (`ui::ElementFileList`) switches its frame between
its list window and an info element; the log view (`ui::ElementLogComplete`) shows the log in the
download list's frame and is signalled by the log's thread. All of this runs on the main thread,
so each handler is one atomic action. The objects the handlers touch form one record `ui`, and
each code function is an operator `ui -> ui`, composed in code order, so an action is the whole
handler with every call it makes.

| `ui` field | Code |
|---|---|
| `ftype`, `flive`, `fwin` | each `Frame`'s `m_type`, whether it has been deleted, its `m_window` |
| `wlive`, `dirty` | windows not deleted; windows scheduled by `mark_dirty` |
| `frame` | each element's `m_frame` (`nullptr` is `NoFrame`) |
| `input` | the input manager's list of bindings, last pushed last |
| `state`, `focus` | `Download::m_state`, `m_focusDisplay` |
| `flState`, `sel`, `collapsed`, `prio` | `ElementFileList::m_state`, `m_selected` (as an index), `m_collapsed`, the files' priorities |
| `listView` | the download list element's view (`ui.current_view`) |
| `dlView`, `conn` | `WindowDownloadList::m_view` (`NoView` for `nullptr`); how many of its `mark_dirty` slots each view's `signal_changed()` holds |
| `fault`, `uaf` | an `internal_error` was thrown; a deleted frame or window was used |

The frame tree is fixed: the download list's frame `root`, made a row of `top` and `status` by
`Download::activate`, and `top` made a column of `menu` and `sub` by `activate_display`.
`FrameClear` is `Frame::clear`: a container clears and deletes its children.

| Action | Code |
|---|---|
| `KeyPress` | a key offered to the binding stack, from the last pushed down (`Press`): Download's `'p'`/`'o'`/`'i'` entry triggers (`Trigger`, `create_menu`), its limit and throttle keys (`DlKey`, `bind_keys`), the menu's moves and `right`, the elements' `left` (`slot_exit`, lines 50-63 of `download.cc`), the file list's handlers (`FlKey`: `receive_next` ... `receive_collapse`), and the info element's exit |
| `ShowDownload`, `HideDownload` | `Download::activate` (231-246) and `disable` (248-262), from the download list |
| `ShowLog`, `HideLog` | `ElementLogComplete::activate` (33-46) and `disable` (48-61) |
| `LogAppend` | the log's update slot: `send_event_signal` from the log thread (lines 26-30) |
| `LogUpdate` | the main loop runs `received_update` (68-72) |
| `ChangeView` | the user picks another view for the download list. The element's `set_view` passes it on to the window, if there is one (`WdlSetView`, window_download_list.cc 27-37) |
| `ViewChanged` | a view emits `signal_changed()`, and each slot in it marks its window dirty (`ViewSignal`) |
| `Redraw` | `Frame::redraw` (frame.cc 247-269) reads each window it reaches. The download list window reschedules itself (`Rescheduled`, lines 40-43), so it stays due |

The download list element is shown at start (`Init`). `ShowDownload` and `ShowLog` disable it first, which deletes its window
(`WdlDelete`, lines 20-25, erases the slot). `HideDownload` and `HideLog` activate it again: a new window (`WdlCreate`) is
connected to the element's current view.

The input manager, `ElementMenu`, `Window::mark_dirty`, `ElementDownloadList`, `core::View` and the download list are outside the
source set and are modelled from their use (`spec_modelled`). So is Download's info element, an
`ElementText` with one window, pushed when focused. The tracker list, chunks seen and transfer list
elements behave like the peer list, so the menu offers the peer list, the info element and the
file list, in the menu's order.

Download's own keys:
- The limit keys (`'1'`..`'8'`, `'!'`..`'$'`) move a libtorrent value, which is not modelled, and
  mark the status window dirty (`DlReceiveLimit`).
- The throttle keys move a throttle and mark the info element dirty, but only if it is active
  (`DlAdjustThrottle`). The info element has a window only while it is shown. `ElementText`'s
  `mark_dirty` is taken to do nothing without a window, as the unguarded call in
  `ElementFileList::update_itr` (line 296) needs, so the `is_active()` test only saves a call.
- `'+'`, `'-'`, `'t'` and `'T'` change only libtorrent state. The file list is single-level: a collapsed tree's directory entries are not modelled.

**Bounds.** `MC_UiDownload`: the menu offers the peer list, the info element and the file list; 3 files; window
heights 0, 1 and 3; two views, `main` and `name`. Height 0 makes the unsigned `(height - 1) / 2` wrap, height 1 gives a step of
0, height 3 a step of 1, so `receive_pagenext` both stops short of and reaches `end()`. Three files
give a first, a middle and a last entry. Two views are enough for a slot to be left in the old view
when the view changes. 37,600 distinct states, every action fires.

**Fairness.** None: the run checks invariants only. That a dirty window is eventually redrawn is
not checked. In the code each window is redrawn by its own scheduled task, which the model does
not track, and the model's `Redraw` clears every window it reaches, so such a property would hold
by definition.

| Run | Expect | What it shows |
|---|---|---|
| `ui_checks` | pass | `TypeOK` (`m_selected` is always a file, never `end()`); `NoInternalError` (no activate or disable throws, no frame is initialized twice); `NoUseAfterFree` (elements are disabled before `clear` deletes the frames they point to, and a late log signal touches no deleted window); `DisplayFollowsState` (exactly the shown elements are active, each with a live frame); `BindingsFollowFocus` (the binding stack is Download's, then the menu's or the focused element's, then the info element's); `ViewSlotsFollowWindow` (a view's `signal_changed()` holds one slot of the list window exactly when that live window shows this view, and that is the element's view). |

Mutants:

- `FlPageNextNoClamp` (no step back from `end()`) breaks `TypeOK`.
- `FlActivateDisplayNoClear` (the list's frame kept when the list is left) breaks `NoInternalError`.
- `DlActivateDisplayClearFirst` (frame(0) cleared before the elements are disabled) breaks `NoUseAfterFree`.
- `FlDisableKeepDisplay` (no `activate_display(DISPLAY_MAX_SIZE)` in `disable`) breaks `DisplayFollowsState`.
- `FlActivatePushAlways` (bindings pushed unfocused too) breaks `BindingsFollowFocus`.
- `WdlSetViewNoErase` (`set_view` without erasing the old view's slot) breaks `ViewSlotsFollowWindow`.

## 4. Not modelled, and why

- **Outside the source set.** `curl_get.cc`, `curl_socket.cc` and `curl_stack.h` (with the
  `m_maxActive` setter). Their behaviour that CurlStack relies on is modelled from the spec and
  marked `spec_modelled` in `PROJECT.json`.
- **libcurl failures.** `internal_error` throws on libcurl call failures (lines 59, 102, 179, 199,
  208) end the program. libcurl's add and remove are treated as infallible. The model does keep
  the lookup throws of `process_done_handle`/`transfer_done` as `fault`.
- **Deadline arithmetic.** Deadlines and `cachedTime` are left out (plan step 1c).
- **Run budget.** The project keeps twelve runs. The run-time raise of `m_maxActive` (step 1b)
  and the deadline arithmetic (step 1c) would each disagree with the spec, so each needs a
  violation run of its own. They are listed as hazards without a property in `PROJECT.json`. The
  empty-stack timer divergence is described in section 3.2 without a run.
- **Not yet modelled.** `execute_object`'s argument packing (step 5b): its buffer accounting
  depends on what `print_object` (in `rpc/parse.cc`, outside the source set) returns when a value
  does not fit, so it cannot be checked against the code here. The log-fd writes of
  `execute` are output only. `WindowDownloadList::redraw`'s drawing (the title, the position counter,
  the layouts) only prints to the canvas. Whether the focused download lands on a visible row
  depends on the range that libtorrent's `advance_bidirectional` returns. That function is neither
  in the source set nor described in spec.md, so the range is not modelled.
- **`WindowHttpQueue::create_name`.** It trims a URL to a display name. Its only effect on control
  is the `logic_error` thrown for an empty URL, and whether a URL can be empty is decided by
  callers outside the source set.
- **`close_all_fds` without `/proc`.** `ExecChild` assumes `/proc` is mounted. Where it is not,
  the open at line 44 fails and nothing is closed. This is the same outcome as the EMFILE case of
  section 3.6.
- **The settings the UI keys move.** The values that `Download`'s limit and throttle keys set, and
  `receive_next_priority`/`receive_prev_priority` and the manual requests, are libtorrent state.
  Their types and meanings (for example whether a throttle rate of 0 means unlimited) are
  defined outside the source set. The keys' effect on windows is modelled (section 3.7).
- **Tree navigation of the file list.** The list is single-level; `forward_current_depth` over
  directories of a collapsed tree is not modelled.
- **Formatting.** `WindowHttpQueue::create_name` and all printing are formatting. Node names are
  not modelled. `create_name` throws only for an empty URL, and a CurlGet never has one.
- **RPC processors.** The XML/JSON processors (`RpcXml`, `RpcJson`) are outside the source set.
  They are reduced to `is_valid()` and one lookup per method.
