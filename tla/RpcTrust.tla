------------------------------ MODULE RpcTrust ------------------------------
(***************************************************************************)
(* The command-trust gate of rpc::RpcManager (src/src/rpc/rpc_manager.cc).  *)
(*                                                                         *)
(* dispatch() stores the connection's trust in the thread_local flag       *)
(* trustedXmlConnection and hands the request to the XML or JSON           *)
(* processor.  The processor looks every method of the request up, and the *)
(* lookup asks is_command_enabled(), which lets a method through when the  *)
(* flag is set or the method is not on the untrusted_commands list.        *)
(* set_trusted_connection() is the public setter; initialize(), cleanup()  *)
(* and insert_command() drive both processors.                             *)
(*                                                                         *)
(* Several threads may serve requests (the flag is thread_local); a        *)
(* request is a short sequence of method names (system.multicall), and a   *)
(* thread interleaves with the others between any two lookups.             *)
(***************************************************************************)
EXTENDS Integers, Sequences, FiniteSets

CONSTANTS
  Threads,       \* threads that call RpcManager
  Commands,      \* method names a request may name
  Untrusted,     \* the untrusted_commands list, a subset of Commands
  MaxCalls       \* most methods in one request (system.multicall)

ASSUME Untrusted \subseteq Commands /\ MaxCalls \in Nat \ {0}

RPCType == {"XML", "JSON"}

VARIABLES
  trusted,       \* trusted[th]: thread th's copy of trustedXmlConnection
  setBy,         \* history: who wrote trusted[th] last
  pc,            \* "idle" or "busy" (inside dispatch, in the processor)
  req,           \* the request thread th is processing
  initialized,   \* m_initialized
  valid,         \* valid[p]: the processor p's is_valid()
  registered,    \* methods inserted with insert_command
  ran,           \* history: <<method, request trusted?>> pairs executed
  denied         \* history: <<method, request trusted?>> pairs refused

vars == <<trusted, setBy, pc, req, initialized, valid, registered, ran, denied>>

Request == [calls : Seq(Commands), trusted : BOOLEAN]

(* thread_local bool RpcManager::trustedXmlConnection = true;  the         *)
(* constructor builds both processors, which stay invalid until their      *)
(* initialize().                                                           *)
Init ==
  /\ trusted = [th \in Threads |-> TRUE]
  /\ setBy = [th \in Threads |-> "default"]
  /\ pc = [th \in Threads |-> "idle"]
  /\ req = [th \in Threads |-> [calls |-> <<>>, trusted |-> TRUE]]
  /\ initialized = FALSE
  /\ valid = [p \in RPCType |-> FALSE]
  /\ registered = {}
  /\ ran = {}
  /\ denied = {}

(* is_command_enabled: the thread's flag, or the method is not on the     *)
(* untrusted_commands list.                                                *)
IsCommandEnabled(th, c) == trusted[th] \/ c \notin Untrusted

(* set_trusted_connection: stores the new value, returns the old one.      *)
SetTrustedConnection(th, b) ==
  /\ pc[th] = "idle"
  /\ trusted' = [trusted EXCEPT ![th] = b]
  /\ setBy' = [setBy EXCEPT ![th] = "api"]
  /\ UNCHANGED <<pc, req, initialized, valid, registered, ran, denied>>

(* Mutation of dispatch: the flag is a plain static shared by all threads. *)
DispatchShared(th, type, r) ==
  /\ pc[th] = "idle"
  /\ trusted' = [x \in Threads |-> r.trusted]
  /\ setBy' = [x \in Threads |-> "dispatch"]
  /\ IF valid[type]
       THEN /\ pc' = [pc EXCEPT ![th] = "busy"]
            /\ req' = [req EXCEPT ![th] = r]
       ELSE UNCHANGED <<pc, req>>
  /\ UNCHANGED <<initialized, valid, registered, ran, denied>>

(* Mutation of dispatch: only an untrusted connection writes the flag.     *)
DispatchOnlyRestrict(th, type, r) ==
  /\ pc[th] = "idle"
  /\ trusted' = [trusted EXCEPT ![th] = @ /\ r.trusted]
  /\ setBy' = [setBy EXCEPT ![th] = "dispatch"]
  /\ IF valid[type]
       THEN /\ pc' = [pc EXCEPT ![th] = "busy"]
            /\ req' = [req EXCEPT ![th] = r]
       ELSE UNCHANGED <<pc, req>>
  /\ UNCHANGED <<initialized, valid, registered, ran, denied>>

(* dispatch: trustedXmlConnection = trusted, then either the processor     *)
(* takes the request or, when it is not valid, the "not supported" fault   *)
(* is answered at once.  The reset to true after the switch is never       *)
(* reached: every case returns or throws.  An RPCType other than XML and   *)
(* JSON cannot be built, so the throwing default case is not an input.     *)
Dispatch(th, type, r) ==
  /\ pc[th] = "idle"
  /\ trusted' = [trusted EXCEPT ![th] = r.trusted]
  /\ setBy' = [setBy EXCEPT ![th] = "dispatch"]
  /\ IF valid[type]
       THEN /\ pc' = [pc EXCEPT ![th] = "busy"]
            /\ req' = [req EXCEPT ![th] = r]
       ELSE UNCHANGED <<pc, req>>
  /\ UNCHANGED <<initialized, valid, registered, ran, denied>>

(* Mutation of the processor loop: the end test is off by one.           *)
ProcessCallOffByOne(th) ==
  /\ pc[th] = "busy"
  /\ LET c == Head(req[th].calls)
         e == <<c, req[th].trusted>>
     IN  /\ ran' = IF c \in registered /\ IsCommandEnabled(th, c)
                     THEN ran \cup {e} ELSE ran
         /\ denied' = IF c \in registered /\ ~IsCommandEnabled(th, c)
                        THEN denied \cup {e} ELSE denied
  /\ req' = [req EXCEPT ![th].calls = Tail(@)]
  /\ pc' = [pc EXCEPT ![th] = IF Len(req[th].calls) = 0 THEN "idle" ELSE "busy"]
  /\ UNCHANGED <<trusted, setBy, initialized, valid, registered>>

(* The processor looks up the request's next method: an unknown method is *)
(* a fault response, a known one runs when is_command_enabled allows it    *)
(* and is refused otherwise.  After the last method dispatch returns.      *)
ProcessCall(th) ==
  /\ pc[th] = "busy"
  /\ LET c == Head(req[th].calls)
         e == <<c, req[th].trusted>>
     IN  /\ ran' = IF c \in registered /\ IsCommandEnabled(th, c)
                     THEN ran \cup {e} ELSE ran
         /\ denied' = IF c \in registered /\ ~IsCommandEnabled(th, c)
                        THEN denied \cup {e} ELSE denied
  /\ req' = [req EXCEPT ![th].calls = Tail(@)]
  /\ pc' = [pc EXCEPT ![th] = IF Len(req[th].calls) = 1 THEN "idle" ELSE "busy"]
  /\ UNCHANGED <<trusted, setBy, initialized, valid, registered>>

(* initialize: m_initialized, then both processors' initialize().         *)
Initialize ==
  /\ initialized' = TRUE
  /\ valid' = [p \in RPCType |-> TRUE]
  /\ UNCHANGED <<trusted, setBy, pc, req, registered, ran, denied>>

(* cleanup: both processors' cleanup(); m_initialized is left as it was.  *)
Cleanup ==
  /\ valid' = [p \in RPCType |-> FALSE]
  /\ UNCHANGED <<trusted, setBy, pc, req, initialized, registered, ran, denied>>

(* insert_command: the method is registered with both processors.        *)
InsertCommand(c) ==
  /\ registered' = registered \cup {c}
  /\ UNCHANGED <<trusted, setBy, pc, req, initialized, valid, ran, denied>>

Requests ==
  [calls : UNION {[1..n -> Commands] : n \in 1..MaxCalls}, trusted : BOOLEAN]

Next ==
  \/ \E th \in Threads, type \in RPCType, r \in Requests : Dispatch(th, type, r)
  \/ \E th \in Threads : ProcessCall(th)
  \/ \E th \in Threads, b \in BOOLEAN : SetTrustedConnection(th, b)
  \/ Initialize
  \/ Cleanup
  \/ \E c \in Commands : InsertCommand(c)

Spec == Init /\ [][Next]_vars

-----------------------------------------------------------------------------
(* Every variable has the type the code gives it; a busy thread still    *)
(* has a method of its request to look up.                              *)
TypeOK ==
  /\ trusted \in [Threads -> BOOLEAN]
  /\ setBy \in [Threads -> {"default", "dispatch", "api"}]
  /\ pc \in [Threads -> {"idle", "busy"}]
  /\ \A th \in Threads : req[th] \in Request
  /\ \A th \in Threads : pc[th] = "busy" => req[th].calls # <<>>
  /\ initialized \in BOOLEAN
  /\ valid \in [RPCType -> BOOLEAN]
  /\ registered \subseteq Commands
  /\ ran \cup denied \subseteq Commands \X BOOLEAN

(* The security fix of rpc_manager.cc: a method on untrusted_commands     *)
(* never runs on behalf of an untrusted connection, whatever the other    *)
(* threads dispatch in between (the flag is per thread).                  *)
UntrustedNeverRuns == \A e \in ran : e[1] \in Untrusted => e[2]

(* A trusted connection is never refused a method, whatever requests the  *)
(* same thread served before (dispatch rewrites the flag every time).     *)
TrustedNeverDenied == \A e \in denied : ~e[2]

(* The statement after dispatch's switch says the flag goes back to true  *)
(* when dispatch returns: a thread that is not serving a request and      *)
(* whose flag dispatch wrote last holds trusted = TRUE.                   *)
TrustRestoredAfterDispatch ==
  \A th \in Threads : pc[th] = "idle" /\ setBy[th] = "dispatch" => trusted[th]
=============================================================================
