------------------------------ MODULE Registry ------------------------------
(***************************************************************************)
(* The object registry of src/net: EventLoop::Register / Modify /          *)
(* Unregister on each loop's thread, the reactor registrations of          *)
(* LibeventReactor::Register / Modify / Unregister beneath them, and the   *)
(* unique-id generator obj_id_generator_, a static std::atomic<int> shared *)
(* by every loop of the process.                                           *)
(*                                                                         *)
(* Ints have IdBits bits.  fetch_add on the atomic wraps (two's            *)
(* complement); the `+ 1` applied to its result is a plain int addition,   *)
(* undefined when the old value is the largest int.  The builds produce    *)
(* the wrapped value, and an optimiser may fold `old + 1 < 0` into         *)
(* `old < -1`, so the test `id < 0` on that value may come out either way. *)
(* The loops interleave only at the generator's atomic operations; all     *)
(* other steps of a Register act on the loop's own registry.               *)
(***************************************************************************)
EXTENDS Integers, FiniteSets

CONSTANTS
    Loops,     \* event loops (threads)
    Objs,      \* event objects, each registered at most once
    Watched,   \* objects registered with kEventRead (the notifier); others with 0
    IdBits,    \* width of int
    NoObj      \* model value: no Register in progress

ASSUME /\ Watched \subseteq Objs /\ NoObj \notin Objs
       /\ IdBits \in Nat /\ IdBits >= 2

Half == 2 ^ (IdBits - 1)
MaxInt == Half - 1
MinInt == -Half
Int_ == MinInt .. MaxInt

(* Two's complement wrap of an integer to IdBits bits.                     *)
Wrap(x) == ((x + Half) % (2 * Half)) - Half

Events == SUBSET {"read", "write"}

VARIABLES
    gen,     \* obj_id_generator_
    uid,     \* each object's unique id (-1: unset)
    reg,     \* per loop: EventLoop::objects_, a set of <<id, object>>
    rrec,    \* per loop: LibeventReactor::objects_, a set of <<id, watches>>
    alive,   \* per loop: reactor_ is not null
    rpc,     \* per loop: "idle", or in Register's do-while: "check", "retry"
    cur,     \* per loop: the object being registered
    cand     \* per loop: Register's local id

vars == <<gen, uid, reg, rrec, alive, rpc, cur, cand>>

Ids(r) == {p[1] : p \in r}

TypeOK ==
    /\ gen \in Int_
    /\ uid \in [Objs -> Int_]
    /\ reg \in [Loops -> SUBSET (Int_ \X Objs)]
    /\ rrec \in [Loops -> SUBSET (Int_ \X Events)]
    /\ alive \in [Loops -> BOOLEAN]
    /\ rpc \in [Loops -> {"idle", "check", "retry"}]
    /\ cur \in [Loops -> Objs \cup {NoObj}]
    /\ cand \in [Loops -> Int_]

(* The generator may hold any value earlier registrations left in it; no   *)
(* object is registered yet.                                               *)
Init ==
    /\ gen \in 0 .. MaxInt
    /\ uid = [o \in Objs |-> -1]
    /\ reg = [l \in Loops |-> {}]
    /\ rrec = [l \in Loops |-> {}]
    /\ alive = [l \in Loops |-> TRUE]
    /\ rpc = [l \in Loops |-> "idle"]
    /\ cur = [l \in Loops |-> NoObj]
    /\ cand = [l \in Loops |-> 0]

InFlight == {cur[l] : l \in Loops}
-----------------------------------------------------------------------------
(* Fault variant of FetchAdd: the generator is read with load() instead of *)
(* fetch_add(1), so a retry sees the same value again.                     *)
LoadOnly(l) ==
    /\ cand' = [cand EXCEPT ![l] = Wrap(gen + 1)]
    /\ rpc' = [rpc EXCEPT ![l] = "check"]
    /\ UNCHANGED gen

(* Fault variant of FetchAdd: the counter is an unbounded integer.         *)
FetchAddUnwrapped(l) ==
    /\ gen' = gen + 1
    /\ cand' = [cand EXCEPT ![l] = gen + 1]
    /\ rpc' = [rpc EXCEPT ![l] = "check"]

(* id = obj_id_generator_.fetch_add(1) + 1                                 *)
FetchAdd(l) ==
    /\ gen' = Wrap(gen + 1)
    /\ cand' = [cand EXCEPT ![l] = Wrap(gen + 1)]
    /\ rpc' = [rpc EXCEPT ![l] = "check"]

(* EventLoop::Register(obj, events): the asserts hold (on the loop thread, *)
(* id unset) and reactor_ is set; enter the do-while.                      *)
RegisterStart(l, o) ==
    /\ rpc[l] = "idle" /\ alive[l] /\ uid[o] = -1 /\ o \notin InFlight
    /\ cur' = [cur EXCEPT ![l] = o]
    /\ FetchAdd(l)
    /\ UNCHANGED <<uid, reg, rrec, alive>>

(* The do-while loops again: fetch the next id.                            *)
RegisterRetry(l) ==
    /\ rpc[l] = "retry"
    /\ FetchAdd(l)
    /\ UNCHANGED <<uid, reg, rrec, alive, cur>>

(* `id < 0` as the build evaluates it on the wrapped sum.                  *)
Negative(id) == IF id = MinInt THEN BOOLEAN ELSE {id < 0}

(* LibeventReactor::Register: events == 0 succeeds with no record; a       *)
(* record already under the id fails; otherwise a record with the watches. *)
ReactorRegister(r, id, ev) ==
    IF ev = {} THEN [ok |-> TRUE, recs |-> r]
    ELSE IF id \in Ids(r) THEN [ok |-> FALSE, recs |-> r]
    ELSE [ok |-> TRUE, recs |-> r \cup {<<id, ev>>}]

(* if (id < 0) obj_id_generator_.store(0); while (id < 0 ||               *)
(* objects_.count(id) != 0); then SetUniqueId(id), reactor_->Register and, *)
(* on success, objects_.insert.                                            *)
RegisterCheck(l) ==
    LET o == cur[l]
        id == cand[l]
        rr == ReactorRegister(rrec[l], id, IF o \in Watched THEN {"read"} ELSE {})
    IN
    /\ rpc[l] = "check"
    /\ \E neg \in Negative(id) :
         IF neg
         THEN /\ gen' = 0
              /\ rpc' = [rpc EXCEPT ![l] = "retry"]
              /\ UNCHANGED <<uid, reg, rrec, cur>>
         ELSE IF id \in Ids(reg[l])
         THEN /\ rpc' = [rpc EXCEPT ![l] = "retry"]
              /\ UNCHANGED <<gen, uid, reg, rrec, cur>>
         ELSE /\ uid' = [uid EXCEPT ![o] = id]
              /\ rrec' = [rrec EXCEPT ![l] = rr.recs]
              /\ reg' = IF rr.ok THEN [reg EXCEPT ![l] = @ \cup {<<id, o>>}] ELSE reg
              /\ rpc' = [rpc EXCEPT ![l] = "idle"]
              /\ cur' = [cur EXCEPT ![l] = NoObj]
              /\ UNCHANGED gen
    /\ UNCHANGED <<alive, cand>>
-----------------------------------------------------------------------------
(* Fault variant of Unregister: objects_ is erased but the reactor's       *)
(* record is left.                                                         *)
UnregisterKeepRecord(l, o) ==
    /\ rpc[l] = "idle" /\ alive[l] /\ <<uid[o], o>> \in reg[l]
    /\ reg' = [reg EXCEPT ![l] = @ \ {<<uid[o], o>>}]
    /\ UNCHANGED <<gen, uid, rrec, alive, rpc, cur, cand>>

(* LibeventReactor::Unregister: drop the record under the id, if any,     *)
(* with its watches.                                                       *)
ReactorUnregister(r, id) == {p \in r : p[1] # id}

(* LibeventReactor::Modify on an existing record: the watches become ev    *)
(* (each created if missing, reset if not requested); the record stays.   *)
ReactorModify(r, id, ev) == ReactorUnregister(r, id) \cup {<<id, ev>>}

(* EventLoop::Unregister: reactor_->Unregister (drops the record if any),  *)
(* then objects_.erase(id).  The object keeps its id.                      *)
Unregister(l, o) ==
    /\ rpc[l] = "idle" /\ alive[l] /\ <<uid[o], o>> \in reg[l]
    /\ rrec' = [rrec EXCEPT ![l] = ReactorUnregister(@, uid[o])]
    /\ reg' = [reg EXCEPT ![l] = @ \ {<<uid[o], o>>}]
    /\ UNCHANGED <<gen, uid, alive, rpc, cur, cand>>

(* EventLoop::Modify -> LibeventReactor::Modify: no record under the id    *)
(* returns false; otherwise the watches become ev and the record stays,    *)
(* even when ev is empty.                                                  *)
Modify(l, o, ev) ==
    /\ rpc[l] = "idle" /\ alive[l] /\ <<uid[o], o>> \in reg[l]
    /\ uid[o] \in Ids(rrec[l])
    /\ rrec' = [rrec EXCEPT ![l] = ReactorModify(@, uid[o], ev)]
    /\ UNCHANGED <<gen, uid, reg, alive, rpc, cur, cand>>

(* Run() after the loop ends: Unregister every object from the reactor,    *)
(* objects_.clear(), reactor_.reset().  Register then returns false.       *)
LoopExit(l) ==
    /\ rpc[l] = "idle" /\ alive[l]
    /\ rrec' = [rrec EXCEPT ![l] = {}]
    /\ reg' = [reg EXCEPT ![l] = {}]
    /\ alive' = [alive EXCEPT ![l] = FALSE]
    /\ UNCHANGED <<gen, uid, rpc, cur, cand>>

(* The steps of Register once it has started: the loop thread runs them    *)
(* without blocking.                                                       *)
RegisterSteps(l) == RegisterRetry(l) \/ RegisterCheck(l)

Next ==
    \E l \in Loops :
        \/ \E o \in Objs : RegisterStart(l, o)
        \/ RegisterSteps(l)
        \/ \E o \in Objs : Unregister(l, o)
        \/ \E o \in Objs, ev \in Events : Modify(l, o, ev)
        \/ LoopExit(l)

Spec == Init /\ [][Next]_vars /\ \A l \in Loops : WF_vars(RegisterSteps(l))
-----------------------------------------------------------------------------
(* The reactor's records, whose events call back through a raw pointer to *)
(* the EventObject, only name objects the loop's objects_ still holds.     *)
ReactorRecordsBacked ==
    \A l \in Loops : Ids(rrec[l]) \subseteq Ids(reg[l])

(* Every Register that has started returns: the do-while finds a free id. *)
RegisterCompletes ==
    \A l \in Loops : rpc[l] # "idle" ~> rpc[l] = "idle"
=============================================================================
