---------------------------- MODULE TcpConnection ----------------------------
(***************************************************************************)
(* One TcpObject (src/net/tcp_obj.cc) on its event loop.  Every handler    *)
(* runs on the loop thread, one at a time: the accept closure, the connect *)
(* outcome, the read callback OnRecvData with its on_message loop, the     *)
(* event callback OnEvent, the idle-timer check and the closures posted by *)
(* an off-thread ActiveClose.  The peer sends bytes and closes with FIN or *)
(* RST; a clock advances in ticks.                                         *)
(*                                                                         *)
(* Lifetime: the loop's objects_ map holds the object while registered;    *)
(* the caller of EventLoop::Connect (or an on_new_conn_ that keeps         *)
(* shared_from_this()) may hold another shared_ptr.  When neither holds it *)
(* the destructor cancels the idle timer and frees the bufferevent, after  *)
(* which libevent delivers nothing more.  Byte contents are abstracted to  *)
(* counts.                                                                 *)
(***************************************************************************)
EXTENDS Integers

CONSTANTS
    Paths,         \* how the object is created: subset of {"accept", "connect"}
    Held,          \* whether a caller keeps a shared_ptr: subset of BOOLEAN
    MaxBytes,      \* bytes the peer sends in total
    MaxTime,       \* clock ticks explored
    IdleTimeout,   \* idle_timeout_ms_, in ticks
    MaxCloses,     \* off-thread ActiveClose calls
    Reentrant,     \* on_message may itself call ActiveClose
    PeerResets,    \* the peer may close with RST instead of FIN
    IdleAnyTime    \* SetIdleTimeout may be called at any point, not only in on_new_conn_

ASSUME /\ Paths \subseteq {"accept", "connect"} /\ Paths # {}
       /\ Held \subseteq BOOLEAN /\ Held # {}
       /\ MaxBytes \in Nat \ {0} /\ MaxTime \in Nat /\ IdleTimeout \in Nat
       /\ MaxCloses \in Nat
       /\ Reentrant \in BOOLEAN /\ PeerResets \in BOOLEAN /\ IdleAnyTime \in BOOLEAN

States == {"none", "connecting", "connected", "disconnected", "failed"}

VARIABLES
    state,        \* TcpObject::state_
    registered,   \* the object is in the loop's objects_ map
    held,         \* a caller holds a shared_ptr to it
    freed,        \* destroyed: bufferevent freed, fd closed
    readOn,       \* EV_READ enabled on the bufferevent
    peer,         \* the peer's socket: "open", "fin", "rst"
    wire,         \* bytes sent by the peer, not yet read by libevent
    inbuf,        \* bytes in the bufferevent input buffer
    rpc,          \* OnRecvData: "idle", or inside the on_message loop "consume"
    len,          \* OnRecvData's len
    total,        \* OnRecvData's total_consumed
    err,          \* OnRecvData's error
    sentTotal,    \* bytes the peer has sent
    newConnCalls, \* on_new_conn_ invocations
    discCalls,    \* on_disconnect_ invocations
    failCalls,    \* on_fail_ invocations
    lateMsg,      \* on_message_ has been called while not kConnected
    idleTimer,    \* idle_timer_ != -1 (a repeating check is armed)
    lastActive,   \* last_active_
    now,          \* steady_clock::now(), in ticks
    posted        \* off-thread ActiveClose closures waiting in the loop's inbox

vars == <<state, registered, held, freed, readOn, peer, wire, inbuf, rpc, len,
          total, err, sentTotal, newConnCalls, discCalls, failCalls, lateMsg,
          idleTimer, lastActive, now, posted>>

TypeOK ==
    /\ state \in States
    /\ registered \in BOOLEAN /\ held \in BOOLEAN /\ freed \in BOOLEAN
    /\ readOn \in BOOLEAN
    /\ peer \in {"open", "fin", "rst"}
    /\ wire \in 0 .. MaxBytes /\ inbuf \in 0 .. MaxBytes
    /\ rpc \in {"idle", "consume", "drain"}
    /\ len \in 0 .. MaxBytes /\ total \in 0 .. MaxBytes /\ err \in BOOLEAN
    /\ sentTotal \in 0 .. MaxBytes
    /\ newConnCalls \in Nat /\ discCalls \in Nat /\ failCalls \in Nat
    /\ lateMsg \in BOOLEAN /\ idleTimer \in BOOLEAN
    /\ lastActive \in 0 .. MaxTime /\ now \in 0 .. MaxTime
    /\ posted \in 0 .. MaxCloses

(* TcpObject constructed: state_ kNone, last_active_ = now().              *)
Init ==
    /\ state = "none" /\ registered = FALSE /\ held \in Held /\ freed = FALSE
    /\ readOn = FALSE /\ peer = "open" /\ wire = 0 /\ inbuf = 0
    /\ rpc = "idle" /\ len = 0 /\ total = 0 /\ err = FALSE /\ sentTotal = 0
    /\ newConnCalls = 0 /\ discCalls = 0 /\ failCalls = 0 /\ lateMsg = FALSE
    /\ idleTimer = FALSE /\ lastActive = 0 /\ now = 0
    /\ posted = 0

(* Fault variant of Release: a strong reference (a closure capturing a    *)
(* shared_ptr instead of the weak_ptr) keeps the object alive for good.    *)
ReleaseLeak(hld, rd) ==
    /\ freed' = freed
    /\ readOn' = rd
    /\ idleTimer' = idleTimer

(* The object is destroyed when the handler's own `me` reference drops and *)
(* neither objects_ nor a caller holds it; ~TcpObject cancels the idle     *)
(* timer and frees the bufferevent.                                        *)
Release(hld, rd) ==
    /\ freed' = (freed \/ (~registered' /\ ~hld))
    /\ readOn' = (rd /\ (registered' \/ hld))
    /\ idleTimer' = (idleTimer /\ (registered' \/ hld))

(* Fault variant of HandleDisconnect: the Unregister call is missing.      *)
HandleDisconnectKeepsRegistration ==
    /\ state' = "disconnected"
    /\ discCalls' = discCalls + 1
    /\ registered' = registered

(* HandleDisconnect: state_ = kDisconnected, on_disconnect_, Unregister.   *)
(* Its assert(state_ == kConnected) is compiled out in release builds.     *)
HandleDisconnect ==
    /\ state' = "disconnected"
    /\ discCalls' = discCalls + 1
    /\ registered' = FALSE

(* The closure `destroy` of ActiveClose: weak_ptr lock, then disconnect    *)
(* only from kConnected.                                                   *)
Destroy ==
    IF state = "connected" THEN HandleDisconnect
    ELSE UNCHANGED <<state, discCalls, registered>>

-----------------------------------------------------------------------------
(* HandleConnect: kConnected, EV_READ enabled, on_new_conn_ (which may    *)
(* call SetIdleTimeout).                                                   *)
HandleConnect ==
    /\ state' = "connected" /\ readOn' = TRUE
    /\ newConnCalls' = newConnCalls + 1
    /\ idleTimer' \in {FALSE, TRUE}

(* The create_conn closure of TcpListenerObj::OnNewConnection: OnAccept    *)
(* wraps the accepted fd in a bufferevent and calls HandleConnect, then    *)
(* loop->Register(conn, 0).                                                *)
Accept ==
    /\ "accept" \in Paths /\ state = "none" /\ ~freed
    /\ HandleConnect
    /\ registered' = TRUE
    /\ lastActive' = now
    /\ UNCHANGED <<held, freed, peer, wire, inbuf, rpc, len, total, err, sentTotal,
                   discCalls, failCalls, lateMsg, now, posted>>

(* Fault variant of Connect: the object is not registered with the loop,  *)
(* so only the caller's handle keeps it while the connect is pending.     *)
ConnectUnregistered ==
    /\ "connect" \in Paths /\ state = "none" /\ ~freed /\ held
    /\ state' = "connecting" /\ registered' = FALSE
    /\ lastActive' = now
    /\ UNCHANGED <<held, freed, readOn, peer, wire, inbuf, rpc, len, total, err,
                   sentTotal, newConnCalls, discCalls, failCalls, lateMsg,
                   idleTimer, now, posted>>

(* TcpObject::Connect (with the constructor's last_active_ = now()):       *)
(* bufferevent_socket_connect succeeded and                               *)
(* Register(shared_from_this(), 0) succeeded; the caller gets the handle.  *)
Connect ==
    /\ "connect" \in Paths /\ state = "none" /\ ~freed /\ held
    /\ state' = "connecting" /\ registered' = TRUE
    /\ lastActive' = now
    /\ UNCHANGED <<held, freed, readOn, peer, wire, inbuf, rpc, len, total, err,
                   sentTotal, newConnCalls, discCalls, failCalls, lateMsg,
                   idleTimer, now, posted>>

(* TcpObject::Connect fails at once: bufferevent_socket_connect returns   *)
(* an error (or Register fails) and the bufferevent is freed; Connect      *)
(* returns false, EventLoop::Connect resets its shared_ptr and returns     *)
(* null, which destroys the object.  No callback runs.                     *)
ConnectRefused ==
    /\ "connect" \in Paths /\ state = "none" /\ ~freed /\ held
    /\ held' = FALSE /\ freed' = TRUE
    /\ UNCHANGED <<state, registered, readOn, peer, wire, inbuf, rpc, len, total,
                   err, sentTotal, newConnCalls, discCalls, failCalls, lateMsg,
                   idleTimer, lastActive, now, posted>>

(* OnEvent in kConnecting with BEV_EVENT_CONNECTED: HandleConnect.         *)
Connected ==
    /\ state = "connecting" /\ ~freed
    /\ HandleConnect
    /\ UNCHANGED <<registered, held, freed, peer, wire, inbuf, rpc, len, total, err,
                   sentTotal, discCalls, failCalls, lateMsg, lastActive,
                   now, posted>>

(* Fault variant of ConnectFailed: any non-EOF event is taken as a failed  *)
(* connect, whatever the state.                                            *)
ConnectFailedAnyState ==
    /\ state \in {"connecting", "connected"} /\ ~freed
    /\ state' = "failed"
    /\ failCalls' = failCalls + 1
    /\ registered' = FALSE
    /\ Release(held, readOn)
    /\ UNCHANGED <<held, peer, wire, inbuf, rpc, len, total, err, sentTotal,
                   newConnCalls, discCalls, lateMsg, lastActive, now, posted>>

(* OnEvent in kConnecting without BEV_EVENT_CONNECTED: HandleConnectFailed: *)
(* kFailed, on_fail_, Unregister.                                          *)
ConnectFailed ==
    /\ state = "connecting" /\ ~freed
    /\ state' = "failed"
    /\ failCalls' = failCalls + 1
    /\ registered' = FALSE
    /\ Release(held, readOn)
    /\ UNCHANGED <<held, peer, wire, inbuf, rpc, len, total, err, sentTotal,
                   newConnCalls, discCalls, lateMsg, lastActive, now, posted>>
-----------------------------------------------------------------------------
(* The peer writes one byte; libevent has not read it yet.                 *)
PeerSend ==
    /\ peer = "open" /\ state \in {"connected", "disconnected"} /\ ~freed
    /\ sentTotal < MaxBytes
    /\ wire' = wire + 1 /\ sentTotal' = sentTotal + 1
    /\ UNCHANGED <<state, registered, held, freed, readOn, peer, inbuf, rpc, len,
                   total, err, newConnCalls, discCalls, failCalls, lateMsg,
                   idleTimer, lastActive, now, posted>>

(* The peer closes its socket: FIN, or RST (SO_LINGER 0, crash, reset).    *)
PeerClose ==
    /\ peer = "open" /\ state \in {"connected", "disconnected"} /\ ~freed
    /\ peer' \in {"fin"} \cup (IF PeerResets THEN {"rst"} ELSE {})
    /\ UNCHANGED <<state, registered, held, freed, readOn, wire, inbuf, rpc, len,
                   total, err, sentTotal, newConnCalls, discCalls, failCalls,
                   lateMsg, idleTimer, lastActive, now, posted>>

(* libevent reads the socket into the input buffer and calls OnRecvData:   *)
(* last_active_ is refreshed only if an idle timer is set; pullup and peek *)
(* give one vector with everything buffered, len bytes.                    *)
Readable ==
    /\ readOn /\ ~freed /\ rpc = "idle" /\ wire > 0
    /\ inbuf' = inbuf + wire /\ wire' = 0
    /\ lastActive' = IF idleTimer THEN now ELSE lastActive
    /\ len' = inbuf + wire /\ total' = 0 /\ err' = FALSE
    /\ rpc' = "consume"
    /\ UNCHANGED <<state, registered, held, freed, readOn, peer, sentTotal,
                   newConnCalls, discCalls, failCalls, lateMsg, idleTimer, now, posted>>

(* Fault variant of OnMessage: on_message_ is passed len instead of the    *)
(* remaining len - total_consumed, so it may consume past the buffer.      *)
OnMessageWholeBuffer ==
    /\ rpc = "consume" /\ total < len
    /\ lateMsg' = (lateMsg \/ state # "connected")
    /\ \E c \in {-1, 0} \cup 1 .. len :
          /\ total' = IF c > 0 THEN total + c ELSE total
          /\ err' = (c < 0)
          /\ rpc' = IF c > 0 /\ total + c < len THEN "consume" ELSE "drain"
    /\ \/ Destroy /\ Reentrant
       \/ UNCHANGED <<state, discCalls, registered>>
    /\ UNCHANGED <<held, freed, readOn, peer, wire, inbuf, len, sentTotal,
                   newConnCalls, failCalls, idleTimer, lastActive, now, posted>>

(* One call of on_message_(me, start + total_consumed, len - total_consumed) *)
(* returning consumed: > 0 advances, 0 stops, < 0 stops with error.  The   *)
(* callback may call ActiveClose, which runs `destroy` at once in-loop.    *)
OnMessage ==
    /\ rpc = "consume" /\ total < len
    /\ lateMsg' = (lateMsg \/ state # "connected")
    /\ \E c \in {-1, 0} \cup 1 .. (len - total) :
          /\ total' = IF c > 0 THEN total + c ELSE total
          /\ err' = (c < 0)
          /\ rpc' = IF c > 0 /\ total + c < len THEN "consume" ELSE "drain"
    /\ \/ Destroy /\ Reentrant
       \/ UNCHANGED <<state, discCalls, registered>>
    /\ UNCHANGED <<held, freed, readOn, peer, wire, inbuf, len, sentTotal,
                   newConnCalls, failCalls, idleTimer, lastActive, now, posted>>

(* After the loop: evbuffer_drain(input, total_consumed); on error         *)
(* HandleDisconnect; then `me` is dropped.                                 *)
FinishRecv ==
    /\ rpc = "drain"
    /\ inbuf' = inbuf - total
    /\ IF err THEN HandleDisconnect ELSE UNCHANGED <<state, discCalls, registered>>
    /\ Release(held, readOn)
    /\ rpc' = "idle"
    /\ UNCHANGED <<held, peer, wire, len, total, err, sentTotal, newConnCalls,
                   failCalls, lateMsg, lastActive, now, posted>>

(* Fault variant of EofEvent: EOF is ignored in kConnected, as ERROR is.   *)
EofEventIgnored ==
    /\ peer = "fin" /\ wire = 0 /\ readOn /\ ~freed /\ rpc = "idle"
    /\ readOn' = FALSE
    /\ UNCHANGED <<state, registered, held, freed, peer, wire, inbuf, rpc, len,
                   total, err, sentTotal, newConnCalls, discCalls, failCalls,
                   lateMsg, idleTimer, lastActive, now, posted>>

(* OnEvent with BEV_EVENT_EOF after all data is read; libevent disables    *)
(* reading.  In kConnected: HandleDisconnect; in any other state it only   *)
(* logs the wrong state.                                                   *)
EofEvent ==
    /\ peer = "fin" /\ wire = 0 /\ readOn /\ ~freed /\ rpc = "idle"
    /\ IF state = "connected" THEN HandleDisconnect
       ELSE UNCHANGED <<state, discCalls, registered>>
    /\ Release(held, FALSE)
    /\ UNCHANGED <<held, peer, wire, inbuf, rpc, len, total, err, sentTotal,
                   newConnCalls, failCalls, lateMsg, lastActive, now, posted>>

(* OnEvent with BEV_EVENT_ERROR (ECONNRESET) and no EOF flag; libevent     *)
(* disables reading and the unread bytes are lost.  In kConnected only     *)
(* BEV_EVENT_EOF is acted on, so nothing else happens.                     *)
ErrorEvent ==
    /\ peer = "rst" /\ readOn /\ ~freed /\ rpc = "idle"
    /\ readOn' = FALSE /\ wire' = 0
    /\ UNCHANGED <<state, registered, held, freed, peer, inbuf, rpc, len, total,
                   err, sentTotal, newConnCalls, discCalls, failCalls, lateMsg,
                   idleTimer, lastActive, now, posted>>

(* The repeating idle timer fires; the weak_ptr still locks;               *)
(* CheckIdleTimeout finds now - last_active_ > idle_timeout_ms_ and        *)
(* ActiveClose(false) runs `destroy` in-loop.                              *)
IdleClose ==
    /\ idleTimer /\ ~freed /\ rpc = "idle" /\ state = "connected"
    /\ now - lastActive > IdleTimeout
    /\ HandleDisconnect
    /\ Release(held, readOn)
    /\ UNCHANGED <<held, peer, wire, inbuf, rpc, len, total, err, sentTotal,
                   newConnCalls, failCalls, lateMsg, lastActive, now, posted>>

(* SetIdleTimeout on the loop thread after the connection is up (a command *)
(* handler, say): ScheduleRepeatedly(100, check); last_active_ untouched.  *)
SetIdleTimeout ==
    /\ IdleAnyTime /\ ~idleTimer /\ ~freed /\ rpc = "idle" /\ state = "connected"
    /\ idleTimer' = TRUE
    /\ UNCHANGED <<state, registered, held, freed, readOn, peer, wire, inbuf, rpc,
                   len, total, err, sentTotal, newConnCalls, discCalls, failCalls,
                   lateMsg, lastActive, now, posted>>

(* ActiveClose from another thread: Execute posts `destroy`.               *)
ActiveCloseOffLoop ==
    /\ posted < MaxCloses /\ ~freed /\ state # "none"
    /\ posted' = posted + 1
    /\ UNCHANGED <<state, registered, held, freed, readOn, peer, wire, inbuf, rpc,
                   len, total, err, sentTotal, newConnCalls, discCalls, failCalls,
                   lateMsg, idleTimer, lastActive, now>>

(* The loop runs a posted `destroy`: if the object is gone the weak_ptr    *)
(* does not lock and nothing happens.                                      *)
RunPostedClose ==
    /\ posted > 0 /\ rpc = "idle"
    /\ posted' = posted - 1
    /\ IF freed THEN UNCHANGED <<state, discCalls, registered, freed, readOn, idleTimer>>
       ELSE /\ Destroy
            /\ Release(held, readOn)
    /\ UNCHANGED <<held, peer, wire, inbuf, rpc, len, total, err, sentTotal,
                   newConnCalls, failCalls, lateMsg, lastActive, now>>

(* The caller drops its shared_ptr (on the loop thread).                   *)
DropHandle ==
    /\ held /\ rpc = "idle"
    /\ held' = FALSE
    /\ registered' = registered
    /\ Release(FALSE, readOn)
    /\ UNCHANGED <<state, peer, wire, inbuf, rpc, len, total, err,
                   sentTotal, newConnCalls, discCalls, failCalls, lateMsg,
                   lastActive, now, posted>>

Tick ==
    /\ now < MaxTime
    /\ now' = now + 1
    /\ UNCHANGED <<state, registered, held, freed, readOn, peer, wire, inbuf, rpc,
                   len, total, err, sentTotal, newConnCalls, discCalls, failCalls,
                   lateMsg, idleTimer, lastActive, posted>>

(* Handlers the loop runs once libevent reports the event.                 *)
LoopHandlers ==
    Connected \/ ConnectFailed \/ Readable \/ OnMessage \/ FinishRecv
    \/ EofEvent \/ ErrorEvent \/ RunPostedClose

Next ==
    \/ Accept \/ Connect \/ ConnectRefused \/ LoopHandlers \/ IdleClose \/ SetIdleTimeout
    \/ PeerSend \/ PeerClose \/ ActiveCloseOffLoop \/ DropHandle \/ Tick

(* The loop thread keeps polling, and each Poll dispatches every ready     *)
(* event, so each handler that stays ready runs (fairness per handler, not *)
(* only for the set: a stream of posted closures does not starve a ready   *)
(* connect event).  The kernel eventually reports the outcome of a         *)
(* connect.  Peer, callers and the clock are not assumed to act.           *)
Spec ==
    /\ Init /\ [][Next]_vars
    /\ WF_vars(Connected) /\ WF_vars(ConnectFailed) /\ WF_vars(Readable)
    /\ WF_vars(OnMessage) /\ WF_vars(FinishRecv) /\ WF_vars(EofEvent)
    /\ WF_vars(ErrorEvent) /\ WF_vars(RunPostedClose)

-----------------------------------------------------------------------------
(* on_connect_fail fires at most once and only for a connection that never *)
(* reached kConnected, and then on_disconnect never fires.                 *)
ExclusiveOutcome ==
    /\ failCalls <= 1 /\ newConnCalls <= 1
    /\ failCalls = 1 => newConnCalls = 0 /\ discCalls = 0

(* on_disconnect fires at most once per connection (spec section 8), over  *)
(* every path: EOF, fatal framing error, idle close, posted ActiveClose.   *)
DisconnectOnce == discCalls <= 1

(* Once the connection has left kConnected, on_message is never called     *)
(* again (spec section 8, fatal framing scenario).                         *)
NoMessageAfterClose == ~lateMsg

(* A connected connection whose peer has closed its socket is eventually   *)
(* disconnected (spec 4.E: reset of the remote side leads to Disconnected). *)
PeerCloseDetected ==
    (state = "connected" /\ peer # "open") ~> (state # "connected")

(* A connect that is under way is always answered: on_new_conn_ or        *)
(* on_connect_fail eventually fires, even when the caller drops the handle *)
(* Connect returned (ConnectHTTP discards it); the object stays alive only *)
(* because TcpObject::Connect registered it with the loop.                 *)
ConnectAnswered ==
    state = "connecting" ~> newConnCalls + failCalls = 1

Abstract == INSTANCE TcpStateMachine WITH state <- state, registered <- registered

(* Spec 4.E's state machine: every step of the handlers, callbacks and    *)
(* destructor moves state_ only along the table's transitions, registers  *)
(* with the connect or the accept, and unregisters exactly on entering     *)
(* Disconnected or Failed; a terminal state is never left.                 *)
StateMachineRefined == Abstract!Spec
=============================================================================
