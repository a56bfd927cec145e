------------------------------ MODULE Listener ------------------------------
(***************************************************************************)
(* TcpListenerObj (src/net/tcp_listener_obj.cc) bound on the loop Main,    *)
(* routing accepted sockets to the loop SelectEventloop returns, composed  *)
(* with the loops' inboxes, the create_conn closure that builds the        *)
(* TcpObject, and each loop's exit.  A connection is abstracted to its fd, *)
(* its TcpObject state and whether the loop's objects_ holds it; the rest  *)
(* of TcpObject is TcpConnection.tla, the inbox is Mailbox.tla.            *)
(***************************************************************************)
EXTENDS Naturals, Sequences, FiniteSets

CONSTANTS
    Loops,          \* event loops
    Main,           \* the loop the listener is bound on
    Fds,            \* client sockets
    Selector,       \* loop_selector_ is set (may return any loop)
    CallbackCloses, \* on_new_conn_ may close the connection it is given
    FdLimit,        \* descriptors left for client sockets (RLIMIT_NOFILE)
    NetErrors,      \* errnos a pending network error makes accept() return
    Asserts         \* assert() is compiled in (no NDEBUG)

ASSUME Main \in Loops /\ Selector \in BOOLEAN /\ CallbackCloses \in BOOLEAN
       /\ FdLimit \in Nat /\ Asserts \in BOOLEAN
       /\ NetErrors \subseteq {"EPROTO", "ENETUNREACH"}

VARIABLES
    bound,   \* listener_ created, registered and enabled
    lst,     \* per loop: "running", "stopping" (Stop called), "exited"
    inbox,   \* per loop: fds whose create_conn closure is in tasks_
    fd,      \* per socket: "none", "backlog" (not yet accepted), "queued",
             \* "conn" (owned by a TcpObject), "closed"
    home,    \* per socket: the loop chosen for it
    cstate,  \* per socket: the TcpObject's state: "none", "connected", "disconnected"
    reg,     \* per socket: the TcpObject is in its loop's objects_
    aborted  \* OnError reached assert(false): the process is gone

vars == <<bound, lst, inbox, fd, home, cstate, reg, aborted>>

TypeOK ==
    /\ bound \in BOOLEAN
    /\ lst \in [Loops -> {"running", "stopping", "exited"}]
    /\ inbox \in [Loops -> Seq(Fds)]
    /\ fd \in [Fds -> {"none", "backlog", "queued", "conn", "closed"}]
    /\ home \in [Fds -> Loops]
    /\ cstate \in [Fds -> {"none", "connected", "disconnected"}]
    /\ reg \in [Fds -> BOOLEAN]
    /\ aborted \in BOOLEAN

Init ==
    /\ bound = FALSE
    /\ lst = [l \in Loops |-> "running"]
    /\ inbox = [l \in Loops |-> <<>>]
    /\ fd = [f \in Fds |-> "none"]
    /\ home = [f \in Fds |-> Main]
    /\ cstate = [f \in Fds |-> "none"]
    /\ reg = [f \in Fds |-> FALSE]
    /\ aborted = FALSE

(* Client sockets the process holds open: accepted, whether owned by a    *)
(* TcpObject or waiting in a create_conn closure.                          *)
Open == {f \in Fds : fd[f] \in {"queued", "conn"}}

(* accept() fails with EMFILE/ENFILE: OnError logs and returns, the        *)
(* connection stays in the backlog, and the still enabled listener reports *)
(* it again at the next poll.                                              *)
Exhausted == Cardinality(Open) >= FdLimit

(* The listener's accept() can return a new descriptor.                    *)
CanAccept == bound /\ lst[Main] # "exited" /\ ~Exhausted

(* SelectEventloop: loop_selector_() if set, else the listener's loop.     *)
Targets == IF Selector THEN Loops ELSE {Main}

(* Whether on_new_conn_ closes the connection it is given.  PikiwiDB's    *)
(* OnNewConnection never does: it attaches a PClient as context, sets the  *)
(* message and disconnect callbacks and TCP_NODELAY.                       *)
CallbackOutcomes == IF CallbackCloses THEN BOOLEAN ELSE {FALSE}

(* create_conn on loop l: make_shared<TcpObject>, OnAccept whose           *)
(* HandleConnect sets kConnected and calls on_new_conn_ (which may         *)
(* ActiveClose in-loop: HandleDisconnect, whose Unregister finds no id     *)
(* yet), then loop->Register(conn, 0), which assigns an id and inserts.    *)
CreateConn(f, l) ==
    /\ fd' = [fd EXCEPT ![f] = "conn"]
    /\ home' = [home EXCEPT ![f] = l]
    /\ \E closes \in CallbackOutcomes :
          cstate' = [cstate EXCEPT ![f] = IF closes THEN "disconnected" ELSE "connected"]
    /\ reg' = [reg EXCEPT ![f] = TRUE]
-----------------------------------------------------------------------------
(* TcpListenerObj::Bind from PikiwiDB::Init, before Run: the listener is   *)
(* created disabled, registered with 0 events, then enabled.               *)
Bind ==
    /\ ~bound /\ lst[Main] = "running"
    /\ bound' = TRUE
    /\ UNCHANGED <<lst, inbox, fd, home, cstate, reg, aborted>>

(* A client connects; the kernel queues it on the listening socket.        *)
ClientConnect(f) ==
    /\ bound /\ fd[f] = "none"
    /\ fd' = [fd EXCEPT ![f] = "backlog"]
    /\ UNCHANGED <<bound, lst, inbox, home, cstate, reg, aborted>>

(* OnNewConnection with no on_new_conn_, or with a peer address that     *)
(* does not convert: close(fd).                                          *)
AcceptBadAddr(f) ==
    /\ CanAccept /\ fd[f] = "backlog"
    /\ fd' = [fd EXCEPT ![f] = "closed"]
    /\ UNCHANGED <<bound, lst, inbox, home, cstate, reg, aborted>>

(* OnNewConnection: SelectEventloop, then loop->Execute(create_conn): run  *)
(* at once on the listener's own loop, else appended to the target inbox,  *)
(* whatever that loop's state.                                             *)
OnNewConnection(f) ==
    /\ CanAccept /\ fd[f] = "backlog"
    /\ \E l \in Targets :
          IF l = Main
          THEN /\ CreateConn(f, l)
               /\ UNCHANGED inbox
          ELSE /\ inbox' = [inbox EXCEPT ![l] = Append(@, f)]
               /\ fd' = [fd EXCEPT ![f] = "queued"]
               /\ home' = [home EXCEPT ![f] = l]
               /\ UNCHANGED <<cstate, reg>>
    /\ UNCHANGED <<bound, lst, aborted>>

(* The errnos OnError's switch lists as transient (EAGAIN, EINTR and     *)
(* ECONNABORTED libevent retries without calling it).                      *)
Listed == {"EPROTO"}

(* accept() dequeues a connection with a pending network error e and      *)
(* returns e; the connection is gone.  OnError returns for a listed errno; *)
(* for any other it reaches assert(false), which a debug build turns into *)
(* abort(): every loop stops and the kernel closes every descriptor.       *)
AcceptNetError(f, e) ==
    /\ CanAccept /\ fd[f] = "backlog"
    /\ IF e \notin Listed /\ Asserts
       THEN /\ aborted' = TRUE
            /\ lst' = [l \in Loops |-> "exited"]
            /\ bound' = FALSE
            /\ fd' = [g \in Fds |-> IF fd[g] = "none" THEN "none" ELSE "closed"]
            /\ reg' = [g \in Fds |-> FALSE]
       ELSE /\ fd' = [fd EXCEPT ![f] = "closed"]
            /\ UNCHANGED <<bound, lst, reg, aborted>>
    /\ UNCHANGED <<inbox, home, cstate>>

(* Fault variant of RunCreate: the closure is taken out of tasks_ but     *)
(* not run.                                                                *)
RunCreateDropped(l) ==
    /\ lst[l] # "exited" /\ inbox[l] # <<>>
    /\ inbox' = [inbox EXCEPT ![l] = Tail(@)]
    /\ UNCHANGED <<bound, lst, fd, home, cstate, reg, aborted>>

(* Run on loop l executes a posted create_conn.                            *)
RunCreate(l) ==
    /\ lst[l] # "exited" /\ inbox[l] # <<>>
    /\ CreateConn(Head(inbox[l]), l)
    /\ inbox' = [inbox EXCEPT ![l] = Tail(@)]
    /\ UNCHANGED <<bound, lst, aborted>>

(* The peer closes: OnEvent(EOF) in kConnected, HandleDisconnect:          *)
(* Unregister drops the last reference, the destructor closes the fd.     *)
PeerEof(f) ==
    /\ fd[f] = "conn" /\ cstate[f] = "connected" /\ lst[home[f]] # "exited"
    /\ cstate' = [cstate EXCEPT ![f] = "disconnected"]
    /\ reg' = [reg EXCEPT ![f] = FALSE]
    /\ fd' = [fd EXCEPT ![f] = "closed"]
    /\ UNCHANGED <<bound, lst, inbox, home, aborted>>

(* EventLoop::Stop (SIGINT for Main).                                      *)
Stop(l) ==
    /\ lst[l] = "running"
    /\ lst' = [lst EXCEPT ![l] = "stopping"]
    /\ UNCHANGED <<bound, inbox, fd, home, cstate, reg, aborted>>

(* ~TcpListenerObj, when loop l's objects_ drops it: evconnlistener_free  *)
(* closes the listening socket, and with it the connections still in its  *)
(* backlog.                                                                *)
ListenerDestroyed(l, f) == l = Main /\ fd[f] = "backlog"

(* Run leaves its loop: objects_.clear() destroys every registered         *)
(* TcpObject (bufferevent_free closes its fd) and, on Main, the listener.  *)
(* The closures left in tasks_ are never run.                              *)
LoopExit(l) ==
    LET gone == {f \in Fds : reg[f] /\ home[f] = l}
    IN
    /\ lst[l] = "stopping"
    /\ lst' = [lst EXCEPT ![l] = "exited"]
    /\ reg' = [f \in Fds |-> reg[f] /\ f \notin gone]
    /\ fd' = [f \in Fds |->
                IF f \in gone \/ ListenerDestroyed(l, f) THEN "closed" ELSE fd[f]]
    /\ bound' = (bound /\ l # Main)
    /\ UNCHANGED <<inbox, home, cstate, aborted>>

Accepting == \E f \in Fds : OnNewConnection(f) \/ AcceptBadAddr(f)

Next ==
    \/ Bind
    \/ \E f \in Fds : ClientConnect(f) \/ PeerEof(f)
    \/ \E f \in Fds, e \in NetErrors : AcceptNetError(f, e)
    \/ Accepting
    \/ \E l \in Loops : RunCreate(l) \/ Stop(l) \/ LoopExit(l)

(* Each loop keeps polling (so a pending accept is taken), drains its     *)
(* inbox, and leaves Run once stopped.  Clients, peers and Stop are the    *)
(* environment.                                                            *)
Spec ==
    /\ Init /\ [][Next]_vars
    /\ WF_vars(Accepting)
    /\ \A l \in Loops : WF_vars(RunCreate(l)) /\ WF_vars(LoopExit(l))
-----------------------------------------------------------------------------
(* A socket the kernel queued on the listener is eventually owned by a    *)
(* TcpObject or closed (bad address, peer EOF, loop exit), through         *)
(* OnNewConnection and the create_conn closure posted to the selected      *)
(* loop; the one way it is lost is that loop leaving Run with the closure  *)
(* still in tasks_, where the fd stays open and unowned.  At the           *)
(* descriptor limit accept() fails (OnError's EMFILE/ENFILE case) and the  *)
(* socket waits in the backlog, which is no loss only while the limit is   *)
(* never left again: once a descriptor frees, the listener accepts.        *)
AcceptedSocketOwned ==
    \A f \in Fds :
        fd[f] = "backlog"
            ~> \/ fd[f] \in {"conn", "closed"}
               \/ fd[f] = "queued" /\ lst[home[f]] = "exited"
               \/ []Exhausted

(* An error accept() returns for one client's connection never stops the  *)
(* server: OnError cites man 2 accept, which says the network errors       *)
(* pending on a new socket (ENETUNREACH, EHOSTUNREACH, ENETDOWN, ...) are  *)
(* to be retried like EAGAIN.                                              *)
AcceptErrorsSurvived == ~aborted
=============================================================================
