------------------------------- MODULE Server -------------------------------
(***************************************************************************)
(* The PikiwiDB processes of src/pikiwidb.cc: main, which may spawn a copy *)
(* of itself (daemonize), then Init (Listen on the port, arm the PdbCron   *)
(* and CheckChild timers) and Run; the repeating PdbCron, which forks a    *)
(* saver child when g_qdbPid is -1; CheckChild, which reaps any child with *)
(* wait3(WNOHANG) while g_qdbPid is set; SIGINT, which stops Run.  A       *)
(* process is a slot of Procs; a slot is free until spawned or forked, so  *)
(* running out of slots is a failing fork or posix_spawn.                  *)
(*                                                                         *)
(* PDBSaver::SaveDoneHandler and PREPL are not in the repository: the      *)
(* model assumes the handler sets g_qdbPid back to -1 and that no replica  *)
(* asks for a background save.  Every copy parses the same command line    *)
(* (CmdLine.tla); a config file named there is assumed to load.            *)
(***************************************************************************)
EXTENDS Naturals, FiniteSets, CmdLine

CONSTANTS
    Procs,       \* process slots
    First,       \* the process started from the shell
    NoPid,       \* -1
    Daemonize,   \* g_config.daemonize
    Args,        \* av + 1, the command line every copy is started with
    ArgsBound    \* longest command line ArgsParsedAsDocumented covers

ASSUME /\ First \in Procs /\ NoPid \notin Procs /\ Daemonize \in BOOLEAN
       /\ Args \in Seq(Tokens) /\ ArgsBound \in Nat

VARIABLES
    ppc,        \* per slot: "free" (no process; pids are reused once reaped),
                \* "start" (before posix_spawn), "init", "running" (in Run),
                \* "saving" (a saver child), "zombie"
    parent,     \* per slot: the parent process, NoPid once reparented to init
    saver,      \* per slot: created by PdbCron's fork
    qdbPid,     \* per process: its g_qdbPid
    port,       \* the process whose listener holds the port, or NoPid
    asserted    \* CheckChild reached assert(!"Is there any back process...")

vars == <<ppc, parent, saver, qdbPid, port, asserted>>

Pid == Procs \cup {NoPid}
Alive == {"start", "init", "running", "saving"}

TypeOK ==
    /\ ppc \in [Procs -> {"free", "start", "init", "running", "saving", "zombie"}]
    /\ parent \in [Procs -> Pid]
    /\ saver \in [Procs -> BOOLEAN]
    /\ qdbPid \in [Procs -> Pid]
    /\ port \in Pid
    /\ asserted \in BOOLEAN

Init ==
    /\ ppc = [p \in Procs |-> IF p = First THEN "start" ELSE "free"]
    /\ parent = [p \in Procs |-> NoPid]
    /\ saver = [p \in Procs |-> FALSE]
    /\ qdbPid = [p \in Procs |-> NoPid]
    /\ port = NoPid
    /\ asserted = FALSE

Free == {c \in Procs : ppc[c] = "free"}


(* Process p ends: it stays a zombie until a live parent reaps it; its     *)
(* children are reparented to init, which reaps those already dead; a     *)
(* listener it held is closed with it.                                     *)
Exit(p) ==
    /\ ppc' = [c \in Procs |->
                 IF c = p THEN (IF parent[p] # NoPid /\ ppc[parent[p]] \in Alive
                                THEN "zombie" ELSE "free")
                 ELSE IF parent[c] = p /\ ppc[c] = "zombie" THEN "free"
                 ELSE ppc[c]]
    /\ parent' = [c \in Procs |-> IF parent[c] = p THEN NoPid ELSE parent[c]]
    /\ port' = IF port = p THEN NoPid ELSE port
-----------------------------------------------------------------------------
(* main: ParseArgs (Usage and return -1 on false, exit(0) for -v/-h),      *)
(* then with daemonize, posix_spawn of av[0] with the same arguments (its  *)
(* failure is ignored), then Init.                                         *)
Start(p) ==
    /\ ppc[p] = "start"
    /\ IF ParseArgs(Args).status # "ok"
       THEN /\ Exit(p)
            /\ UNCHANGED <<saver, qdbPid>>
       ELSE /\ IF Daemonize /\ Free # {}
               THEN \E c \in Free :
                       /\ ppc' = [ppc EXCEPT ![c] = "start", ![p] = "init"]
                       /\ parent' = [parent EXCEPT ![c] = p]
                       /\ saver' = [saver EXCEPT ![c] = FALSE]
                       /\ qdbPid' = [qdbPid EXCEPT ![c] = NoPid]
               ELSE /\ ppc' = [ppc EXCEPT ![p] = "init"]
                    /\ UNCHANGED <<parent, saver, qdbPid>>
            /\ UNCHANGED port
    /\ UNCHANGED asserted

(* PikiwiDB::Init: Listen fails while another process holds the port      *)
(* (LEV_OPT_REUSEABLE does not share a bound port) and main returns;      *)
(* otherwise the timers are armed and Run starts.                          *)
InitServer(p) ==
    /\ ppc[p] = "init"
    /\ IF port = NoPid
       THEN /\ port' = p
            /\ ppc' = [ppc EXCEPT ![p] = "running"]
            /\ UNCHANGED parent
       ELSE Exit(p)
    /\ UNCHANGED <<saver, qdbPid, asserted>>

(* PdbCron with g_qdbPid = -1 and the save condition met: fork; the child *)
(* saves and _exit(0)s, the parent records the child's pid.  A fork that  *)
(* fails (no slot) only logs.                                              *)
PdbCron(p) ==
    /\ ppc[p] = "running" /\ qdbPid[p] = NoPid /\ Free # {}
    /\ \E c \in Free :
          /\ ppc' = [ppc EXCEPT ![c] = "saving"]
          /\ parent' = [parent EXCEPT ![c] = p]
          /\ saver' = [saver EXCEPT ![c] = TRUE]
          /\ qdbPid' = [qdbPid EXCEPT ![p] = c, ![c] = NoPid]
    /\ UNCHANGED <<port, asserted>>

(* The saver child finishes its save, or is killed by a signal.           *)
SaverExit(c) ==
    /\ ppc[c] = "saving"
    /\ Exit(c)
    /\ UNCHANGED <<saver, qdbPid, asserted>>

(* Fault variant of CheckChild: SaveDoneHandler for whatever wait3 reaped. *)
CheckChildAnyPid(p) ==
    /\ ppc[p] = "running" /\ qdbPid[p] # NoPid
    /\ \E z \in Procs :
          /\ parent[z] = p /\ ppc[z] = "zombie"
          /\ ppc' = [ppc EXCEPT ![z] = "free"]
          /\ qdbPid' = [qdbPid EXCEPT ![p] = NoPid]
    /\ UNCHANGED <<parent, saver, port, asserted>>

(* Fault variant of CheckChild: the early return tests g_qdbPid != -1.    *)
CheckChildInverted(p) ==
    /\ ppc[p] = "running" /\ qdbPid[p] = NoPid
    /\ \E z \in Procs :
          /\ parent[z] = p /\ ppc[z] = "zombie"
          /\ ppc' = [ppc EXCEPT ![z] = "free"]
          /\ asserted' = TRUE
    /\ UNCHANGED <<parent, saver, qdbPid, port>>

(* CheckChild with g_qdbPid set: wait3(WNOHANG) reaps any dead child.     *)
(* The saver goes to SaveDoneHandler (g_qdbPid = -1); any other child     *)
(* hits the assert, compiled out in a release build.                       *)
CheckChild(p) ==
    /\ ppc[p] = "running" /\ qdbPid[p] # NoPid
    /\ \E z \in Procs :
          /\ parent[z] = p /\ ppc[z] = "zombie"
          /\ ppc' = [ppc EXCEPT ![z] = "free"]
          /\ IF z = qdbPid[p]
             THEN /\ qdbPid' = [qdbPid EXCEPT ![p] = NoPid]
                  /\ UNCHANGED asserted
             ELSE /\ asserted' = TRUE
                  /\ UNCHANGED qdbPid
    /\ UNCHANGED <<parent, saver, port>>

(* SIGINT: SignalHandler calls Stop; Run returns, Recycle, main returns.   *)
Stop(p) ==
    /\ ppc[p] = "running"
    /\ Exit(p)
    /\ UNCHANGED <<saver, qdbPid, asserted>>

Next ==
    \E p \in Procs :
        \/ Start(p) \/ InitServer(p) \/ PdbCron(p) \/ SaverExit(p)
        \/ CheckChild(p) \/ Stop(p)

(* Processes run main to its end; a save finishes; CheckChild's timer     *)
(* fires every millisecond.  Saves are started by the data, stops by the  *)
(* operator: neither is assumed.                                           *)
Spec ==
    /\ Init /\ [][Next]_vars
    /\ \A p \in Procs :
          WF_vars(Start(p)) /\ WF_vars(InitServer(p))
          /\ WF_vars(SaverExit(p)) /\ WF_vars(CheckChild(p))
-----------------------------------------------------------------------------
(* PdbCron's g_qdbPid guard: a server never has two saver children alive, *)
(* however CheckChild's wait3 interleaves with other children's exits.    *)
AtMostOneSaver ==
    \A p \in Procs :
        Cardinality({c \in Procs : saver[c] /\ parent[c] = p /\ ppc[c] = "saving"}) <= 1

(* A background save that was started is eventually reaped by CheckChild, *)
(* so PdbCron can save again, unless the server itself exits.             *)
SaveFinishes ==
    \A p \in Procs :
        qdbPid[p] # NoPid ~> (qdbPid[p] = NoPid \/ ppc[p] # "running")

(* ParseArgs accepts exactly the command lines Usage() describes (groups *)
(* of a config path, --port N, --loglevel L, --slaveof IP PORT; -v or -h  *)
(* at a group start exits), keeps the config path of such a line, and     *)
(* never reads av[ac] while taking an option's values.  Stated where main *)
(* of the shell-started process is about to parse.                         *)
ArgsParsedAsDocumented ==
    ppc[First] = "start" =>
    \A a \in SeqOf(Tokens, ArgsBound) :
        LET r == ParseArgs(a) IN
            /\ r.status = RefStatus(a)
            /\ ~r.oob
            /\ r.status = "ok" => r.cfg = RefCfg(a)

(* The comment at main's posix_spawn: daemonize turns the server into one *)
(* background copy of itself.  So the spawning comes to an end: from some  *)
(* point on no process is about to run main's spawn.                       *)
SpawnChainEnds == <>[](\A p \in Procs : ppc[p] # "start")

(* The assert in CheckChild: the only child it ever reaps is the saver.   *)
NoStrayChild == ~asserted
=============================================================================
