---------------------------------- MODULE Rcu ----------------------------------
(***************************************************************************)
(* brasa::thread::Rcu with its RcuReader and RcuWriter objects: a list of  *)
(* reference-counted versions of one value.  An action is one access to    *)
(* shared memory or one mutex operation of the code.                       *)
(*                                                                         *)
(* release() walks the list with no lock, while update() erases nodes from *)
(* it.  When update() erases the node the walk stands on, the walk reads   *)
(* freed memory: the model then lets it continue from any live node or     *)
(* from the end of the list.  An address that was freed may be handed out  *)
(* again by the allocator to a new node.                                   *)
(***************************************************************************)
EXTENDS Integers, Sequences, FiniteSets, SequencesExt

CONSTANTS
    Readers,    \* RcuReader objects
    Writers,    \* RcuWriter objects
    Addr,       \* addresses the allocator can give to a node
    Values,     \* the values of type T
    InitVal,    \* the argument of the constructor
    None        \* nullptr, nodes_.end() and "mutex not owned"

ASSUME RcuAssumption ==
    /\ None \notin Addr \cup Readers \cup Writers \cup Values
    /\ Readers \cap Writers = {}
    /\ InitVal \in Values
    /\ IsFiniteSet(Readers)

VARIABLES
    nodes,          \* nodes_: the addresses of the nodes, in list order
    refcount,       \* refcount[a]: refcount_ of the node at a
    value,          \* value[a]: value_ of the node at a
    current,        \* current_
    nodesMutex,     \* owner of nodes_mutex_
    currentMutex,   \* owner of current_mutex_
    rpc,            \* rpc[h]: where the thread that uses reader h is
    ref,            \* ref[h]: value_ of reader h
    it,             \* it[h]: the iterator of the release() running for h
    source,         \* source[h]: what is assigned to h once release() is over
    wpc,            \* wpc[w]: where the thread that uses writer w is
    cursor,         \* position of update()'s iterator
    strayed         \* history: an erased node had a release() standing on it

listVars   == <<nodes, value>>
mutexVars  == <<nodesMutex, currentMutex>>
readerVars == <<rpc, ref, it, source>>
writerVars == <<wpc, cursor>>
vars == <<nodes, refcount, value, current, nodesMutex, currentMutex,
          rpc, ref, it, source, wpc, cursor, strayed>>

Live == ToSet(nodes)

\* ctor: one node, which is current.
Init ==
    /\ \E a \in Addr : nodes = <<a>> /\ current = a
    /\ refcount = [a \in Addr |-> 0]
    /\ value = [a \in Addr |-> InitVal]
    /\ nodesMutex = None
    /\ currentMutex = None
    /\ rpc = [h \in Readers |-> "ready"]
    /\ ref = [h \in Readers |-> None]
    /\ it = [h \in Readers |-> None]
    /\ source = [h \in Readers |-> h]
    /\ wpc = [w \in Writers |-> "ready"]
    /\ cursor = 0
    /\ strayed = FALSE

-------------------------------------------------------------------------------
(* Rcu::read *)

\* Mutation of ReadLock: read() takes no lock.
ReadLockNone(h) ==
    /\ rpc[h] = "ready"
    /\ ref[h] = None
    /\ rpc' = [rpc EXCEPT ![h] = "reading"]
    /\ UNCHANGED <<listVars, refcount, current, mutexVars, ref, it, source,
                   writerVars, strayed>>

\* std::lock_guard lock(current_mutex_)
ReadLock(h) ==
    /\ rpc[h] = "ready"
    /\ ref[h] = None
    /\ currentMutex = None
    /\ currentMutex' = h
    /\ rpc' = [rpc EXCEPT ![h] = "reading"]
    /\ UNCHANGED <<listVars, refcount, current, nodesMutex, ref, it, source,
                   writerVars, strayed>>

\* current_->refcount_ += 1
ReadPin(h) ==
    /\ rpc[h] = "reading"
    /\ refcount' = [refcount EXCEPT ![current] = @ + 1]
    /\ rpc' = [rpc EXCEPT ![h] = "pinned"]
    /\ UNCHANGED <<listVars, current, mutexVars, ref, it, source, writerVars,
                   strayed>>

\* return RcuReader(&current_->value_, this), and the guard unlocks.
ReadReturn(h) ==
    /\ rpc[h] = "pinned"
    /\ ref' = [ref EXCEPT ![h] = current]
    /\ currentMutex' = None
    /\ rpc' = [rpc EXCEPT ![h] = "ready"]
    /\ UNCHANGED <<listVars, refcount, current, nodesMutex, it, source,
                   writerVars, strayed>>

-------------------------------------------------------------------------------
(* RcuReader: move, assignment and destruction; Rcu::release *)

\* Mutation of ReaderMove: an assignment to a valid reader skips release().
ReaderMoveLeaks(h, g) ==
    /\ rpc[h] = "ready" /\ h # g
    /\ rpc[g] = "ready" /\ ref[g] # None
    /\ ref' = [ref EXCEPT ![h] = ref[g], ![g] = None]
    /\ UNCHANGED <<listVars, refcount, current, mutexVars, rpc, it, source,
                   writerVars, strayed>>

\* The move constructor, or a move assignment to an invalid reader.
ReaderMove(h, g) ==
    /\ rpc[h] = "ready" /\ ref[h] = None
    /\ rpc[g] = "ready" /\ ref[g] # None
    /\ ref' = [ref EXCEPT ![h] = ref[g], ![g] = None]
    /\ UNCHANGED <<listVars, refcount, current, mutexVars, rpc, it, source,
                   writerVars, strayed>>

\* release() starts for the valid reader h: it = nodes_.begin().  In a move
\* assignment g is the right-hand side and nobody else uses it meanwhile; the
\* destructor leaves the same state as the self-assignment, g = h.
ReleaseBegin(h, g) ==
    /\ rpc[h] = "ready" /\ ref[h] # None
    /\ rpc[g] = "ready"
    /\ rpc' = [rpc EXCEPT ![g] = "source", ![h] = "finding"]
    /\ source' = [source EXCEPT ![h] = g]
    /\ it' = [it EXCEPT ![h] = Head(nodes)]
    /\ UNCHANGED <<listVars, refcount, current, mutexVars, ref, writerVars,
                   strayed>>

\* Mutation of ReleaseNext: the iterator wraps around at the end of the list
\* and skips the node it looks for.
ReleaseNextWraps(h) ==
    /\ rpc[h] = "finding"
    /\ \E i \in DOMAIN nodes :
          /\ nodes[i] = it[h]
          /\ it' = [it EXCEPT ![h] = IF i = Len(nodes) THEN Head(nodes)
                                     ELSE nodes[i + 1]]
    /\ UNCHANGED <<listVars, refcount, current, mutexVars, rpc, ref, source,
                   writerVars, strayed>>

\* ++it in std::find_if: the predicate does not hold for this node.
ReleaseNext(h) ==
    /\ rpc[h] = "finding"
    /\ it[h] # ref[h]
    /\ \E i \in DOMAIN nodes :
          /\ nodes[i] = it[h]
          /\ it' = [it EXCEPT ![h] = IF i = Len(nodes) THEN None
                                     ELSE nodes[i + 1]]
    /\ UNCHANGED <<listVars, refcount, current, mutexVars, rpc, ref, source,
                   writerVars, strayed>>

\* ++it on a node that update() has erased: undefined behaviour.
ReleaseStray(h) ==
    /\ rpc[h] = "finding"
    /\ it[h] \notin Live \cup {None}
    /\ \E a \in Live \cup {None} : it' = [it EXCEPT ![h] = a]
    /\ UNCHANGED <<listVars, refcount, current, mutexVars, rpc, ref, source,
                   writerVars, strayed>>

\* What follows release(): value_ = other.value_, then other.value_ = nullptr.
Released(h) ==
    /\ ref' = [ref EXCEPT ![h] = ref[source[h]], ![source[h]] = None]
    /\ rpc' = [rpc EXCEPT ![h] = "ready", ![source[h]] = "ready"]
    /\ source' = [source EXCEPT ![h] = h]
    /\ it' = [it EXCEPT ![h] = None]

\* The node was found: it->refcount_.fetch_sub(1).
ReleaseFound(h) ==
    /\ rpc[h] = "finding"
    /\ it[h] = ref[h]
    /\ refcount' = [refcount EXCEPT ![ref[h]] = @ - 1]
    /\ Released(h)
    /\ UNCHANGED <<listVars, current, mutexVars, writerVars, strayed>>

\* it == nodes_.end(): nothing is decremented.
ReleaseMissed(h) ==
    /\ rpc[h] = "finding"
    /\ it[h] = None
    /\ Released(h)
    /\ UNCHANGED <<listVars, refcount, current, mutexVars, writerVars, strayed>>

-------------------------------------------------------------------------------
(* Rcu::write and RcuWriter *)

\* Mutation of WriteLock: write() does not wait for the update() in progress.
WriteLockNone(w) ==
    /\ wpc[w] = "ready"
    /\ nodesMutex' = w
    /\ wpc' = [wpc EXCEPT ![w] = "locked"]
    /\ UNCHANGED <<listVars, refcount, current, currentMutex, readerVars,
                   cursor, strayed>>

\* nodes_mutex_.lock()
WriteLock(w) ==
    /\ wpc[w] = "ready"
    /\ nodesMutex = None
    /\ nodesMutex' = w
    /\ wpc' = [wpc EXCEPT ![w] = "locked"]
    /\ UNCHANGED <<listVars, refcount, current, currentMutex, readerVars,
                   cursor, strayed>>

\* nodes_.emplace_back(nodes_.back().value_)
WriteCopy(w) ==
    /\ wpc[w] = "locked"
    /\ \E a \in Addr \ Live :
          /\ nodes' = Append(nodes, a)
          /\ refcount' = [refcount EXCEPT ![a] = 0]
          /\ value' = [value EXCEPT ![a] = value[Last(nodes)]]
    /\ wpc' = [wpc EXCEPT ![w] = "editing"]
    /\ UNCHANGED <<current, mutexVars, readerVars, cursor, strayed>>

\* The allocation or the copy of the value throws: catch, unlock, rethrow.
WriteThrow(w) ==
    /\ wpc[w] = "locked"
    /\ nodesMutex' = None
    /\ wpc' = [wpc EXCEPT ![w] = "ready"]
    /\ UNCHANGED <<listVars, refcount, current, currentMutex, readerVars,
                   cursor, strayed>>

\* Mutation of WriterEdit: the writer refers to the current node.
WriterEditShared(w, v) ==
    /\ wpc[w] = "editing"
    /\ value' = [value EXCEPT ![current] = v]
    /\ UNCHANGED <<nodes, refcount, current, mutexVars, readerVars, writerVars,
                   strayed>>

\* The user assigns through RcuWriter::value().
WriterEdit(w, v) ==
    /\ wpc[w] = "editing"
    /\ value' = [value EXCEPT ![Last(nodes)] = v]
    /\ UNCHANGED <<nodes, refcount, current, mutexVars, readerVars, writerVars,
                   strayed>>

\* Move constructor, or move assignment to an invalid writer: x takes over w.
WriterMove(x, w) ==
    /\ wpc[x] = "ready"
    /\ wpc[w] = "editing"
    /\ wpc' = [wpc EXCEPT ![x] = "editing", ![w] = "ready"]
    /\ nodesMutex' = x
    /\ UNCHANGED <<listVars, refcount, current, currentMutex, readerVars,
                   cursor, strayed>>

-------------------------------------------------------------------------------
(* Rcu::update, called by the destructor of a valid RcuWriter *)

\* std::lock_guard lock(current_mutex_)
UpdateLock(w) ==
    /\ wpc[w] = "editing"
    /\ currentMutex = None
    /\ currentMutex' = w
    /\ wpc' = [wpc EXCEPT ![w] = "publishing"]
    /\ UNCHANGED <<listVars, refcount, current, nodesMutex, readerVars, cursor,
                   strayed>>

\* Mutation of UpdatePublish: current_ = &nodes_.front().
UpdatePublishFront(w) ==
    /\ wpc[w] = "publishing"
    /\ current' = Head(nodes)
    /\ currentMutex' = None
    /\ cursor' = 1
    /\ wpc' = [wpc EXCEPT ![w] = "cleaning"]
    /\ UNCHANGED <<listVars, refcount, nodesMutex, readerVars, strayed>>

\* current_ = &nodes_.back(); the guard unlocks; it = nodes_.begin().
UpdatePublish(w) ==
    /\ wpc[w] = "publishing"
    /\ current' = Last(nodes)
    /\ currentMutex' = None
    /\ cursor' = 1
    /\ wpc' = [wpc EXCEPT ![w] = "cleaning"]
    /\ UNCHANGED <<listVars, refcount, nodesMutex, readerVars, strayed>>

\* Mutation of CleanPick: the count is not checked.
CleanPickInUse(w) ==
    /\ wpc[w] = "cleaning"
    /\ cursor < Len(nodes)
    /\ wpc' = [wpc EXCEPT ![w] = "erasing"]
    /\ UNCHANGED <<listVars, refcount, current, mutexVars, readerVars, cursor,
                   strayed>>

\* Mutation of CleanPick: the loop runs until it == nodes_.end().
CleanPickLast(w) ==
    /\ wpc[w] = "cleaning"
    /\ cursor <= Len(nodes)
    /\ refcount[nodes[cursor]] = 0
    /\ wpc' = [wpc EXCEPT ![w] = "erasing"]
    /\ UNCHANGED <<listVars, refcount, current, mutexVars, readerVars, cursor,
                   strayed>>

\* it->refcount_.load() == 0
CleanPick(w) ==
    /\ wpc[w] = "cleaning"
    /\ cursor < Len(nodes)
    /\ refcount[nodes[cursor]] = 0
    /\ wpc' = [wpc EXCEPT ![w] = "erasing"]
    /\ UNCHANGED <<listVars, refcount, current, mutexVars, readerVars, cursor,
                   strayed>>

\* it = nodes_.erase(it).  The contents of a freed address do not matter.
CleanErase(w) ==
    /\ wpc[w] = "erasing"
    /\ nodes' = RemoveAt(nodes, cursor)
    /\ value' = [value EXCEPT ![nodes[cursor]] = InitVal]
    /\ strayed' = (strayed \/ \E h \in Readers : it[h] = nodes[cursor])
    /\ wpc' = [wpc EXCEPT ![w] = "cleaning"]
    /\ UNCHANGED <<refcount, current, mutexVars, readerVars, cursor>>

\* Mutation of CleanKeep: the first node in use ends the cleanup.
CleanKeepStops(w) ==
    /\ wpc[w] = "cleaning"
    /\ cursor < Len(nodes)
    /\ refcount[nodes[cursor]] # 0
    /\ cursor' = Len(nodes)
    /\ UNCHANGED <<listVars, refcount, current, mutexVars, readerVars, wpc,
                   strayed>>

\* Mutation of CleanKeep: the cleanup waits for the reader instead of ++it.
CleanKeepWaits(w) ==
    /\ wpc[w] = "cleaning"
    /\ cursor < Len(nodes)
    /\ refcount[nodes[cursor]] # 0
    /\ UNCHANGED vars

\* A node in use is skipped: ++it.
CleanKeep(w) ==
    /\ wpc[w] = "cleaning"
    /\ cursor < Len(nodes)
    /\ refcount[nodes[cursor]] # 0
    /\ cursor' = cursor + 1
    /\ UNCHANGED <<listVars, refcount, current, mutexVars, readerVars, wpc,
                   strayed>>

\* std::next(it) == nodes_.end(): nodes_mutex_.unlock().
CleanDone(w) ==
    /\ wpc[w] = "cleaning"
    /\ cursor >= Len(nodes)
    /\ nodesMutex' = None
    /\ cursor' = 0
    /\ wpc' = [wpc EXCEPT ![w] = "ready"]
    /\ UNCHANGED <<listVars, refcount, current, currentMutex, readerVars,
                   strayed>>

-------------------------------------------------------------------------------
\* What the thread of a reader does once it is inside read() or release().
ReaderStep(h) ==
    \/ ReadPin(h)
    \/ ReadReturn(h)
    \/ ReleaseNext(h)
    \/ ReleaseStray(h)
    \/ ReleaseFound(h)
    \/ ReleaseMissed(h)

\* What the thread of a writer does inside write() or update(), once it owns
\* the mutex it needs.
WriterStep(w) ==
    \/ WriteCopy(w)
    \/ WriteThrow(w)
    \/ UpdatePublish(w)
    \/ CleanPick(w)
    \/ CleanErase(w)
    \/ CleanKeep(w)
    \/ CleanDone(w)

Next ==
    \/ \E h \in Readers : ReadLock(h) \/ ReaderStep(h)
    \/ \E h, g \in Readers : ReaderMove(h, g) \/ ReleaseBegin(h, g)
    \/ \E w \in Writers : WriteLock(w) \/ UpdateLock(w) \/ WriterStep(w)
    \/ \E w \in Writers, v \in Values : WriterEdit(w, v)
    \/ \E x, w \in Writers : WriterMove(x, w)

Spec == Init /\ [][Next]_vars

\* A thread that is inside the library and is not waiting for a mutex keeps
\* running.  Nothing is assumed of callers, nor of who wins a mutex.
Fairness ==
    /\ \A h \in Readers : WF_vars(ReaderStep(h))
    /\ \A w \in Writers : WF_vars(WriterStep(w))

FairSpec == Spec /\ Fairness
-------------------------------------------------------------------------------
(* Properties *)

\* Each variable has its type; only a release() in progress has an iterator.
TypeOK ==
    /\ nodes \in Seq(Addr) /\ nodes # <<>> /\ IsInjective(nodes)
    /\ refcount \in [Addr -> Int]
    /\ value \in [Addr -> Values]
    /\ current \in Addr
    /\ nodesMutex \in Writers \cup {None}
    /\ currentMutex \in Readers \cup Writers \cup {None}
    /\ rpc \in [Readers -> {"ready", "reading", "pinned", "finding", "source"}]
    /\ ref \in [Readers -> Addr \cup {None}]
    /\ it \in [Readers -> Addr \cup {None}]
    /\ source \in [Readers -> Readers]
    /\ wpc \in [Writers -> {"ready", "locked", "editing", "publishing",
                            "cleaning", "erasing"}]
    /\ cursor \in Nat
    /\ strayed \in BOOLEAN

\* The readers a node has to outlive: those that refer to it, and the one
\* that has counted itself in read() and is about to refer to it.
Pins(a) ==
    {h \in Readers : ref[h] = a \/ (rpc[h] = "pinned" /\ current = a)}

\* The purpose of RCU: update() never frees the node a reader refers to, or
\* the current node, whatever the interleaving of read(), release() and
\* update() (Rcu.h:88-89), even when a release() walks over erased nodes.
PinnedNodesAlive ==
    /\ current \in Live
    /\ \A h \in Readers : ref[h] # None => ref[h] \in Live

\* As long as no release() stood on an erased node, refcount_ is exactly the
\* number of readers of a node: no pin is lost and none leaks, in spite of
\* moves, assignments and releases that run with no lock.
RefcountExact ==
    ~strayed => \A a \in Live : refcount[a] = Cardinality(Pins(a))

\* The value a reader looks at never changes while it holds it: neither a
\* writer nor the reuse of an address shows through RcuReader::value().
SnapshotStable ==
    [][\A h \in Readers : ref[h] # None /\ ref'[h] = ref[h]
                            => value'[ref[h]] = value[ref[h]]]_vars

\* The old versions that the cleanup has still to look at, and their readers.
Ahead == {nodes[n] : n \in cursor .. Len(nodes) - 1}
Holders == {h \in Readers : ref[h] \in Ahead}

\* Old versions do not pile up: unless a walk strayed, the list has one node per
\* reader at most beside the current one and a draft.  The cleanup keeps a node
\* only for a reader that no other kept node needs, although readers come, go
\* and are moved from one object to another while it runs (Rcu.h:145-151).
VersionsBounded ==
    ~strayed =>
       /\ nodesMutex = None => Len(nodes) <= Cardinality(Readers) + 1
       /\ Len(nodes) <= Cardinality(Readers) + 2
       /\ \A w \in Writers : wpc[w] \in {"cleaning", "erasing"} =>
             cursor - 1 + Cardinality(Holders) <= Cardinality(Readers)

\* How far the walk of the release() of h is from the node it looks for.
Position(a) == CHOOSE i \in DOMAIN nodes : nodes[i] = a
Distance(h) == Position(ref[h]) - Position(it[h])

\* Why release() ends: unless a node was erased under a walk, each step brings
\* the walk closer to its node, and nothing that writers append or erase in
\* the meantime sets it back or lets it overtake the node (Rcu.h:116-118).
WalkShortens ==
    [][\A h \in Readers :
          rpc[h] = "finding" /\ rpc'[h] = "finding" /\ ~strayed'
             => /\ Distance(h)' \in 0 .. Distance(h)
                /\ it'[h] # it[h] => Distance(h)' # Distance(h)]_vars

\* Why update() ends: whatever the other threads do, the nodes that its loop has
\* still to look at only become fewer, also when an erasure moves the rest of the
\* list to the front, and never does the loop run over the end (Rcu.h:145-151).
CleanupAdvances ==
    [][\A w \in Writers :
          wpc[w] \in {"cleaning", "erasing"} /\ wpc'[w] # "ready"
             => /\ (Len(nodes) - cursor)' \in 0 .. Len(nodes) - cursor
                /\ (nodes' # nodes \/ cursor' # cursor)
                      => (Len(nodes) - cursor)' # Len(nodes) - cursor]_vars

\* The promise of the class, as an abstract specification.  The snapshot of a
\* reader is given up as soon as its release() starts; the draft exists from
\* the copy made by write() until update() publishes it.
Promise == INSTANCE VersionedValue WITH
    val   <- value[current],
    snap  <- [h \in Readers |-> IF ref[h] = None \/ rpc[h] = "finding"
                                THEN None ELSE value[ref[h]]],
    draft <- IF \E w \in Writers : wpc[w] \in {"editing", "publishing"}
             THEN value[Last(nodes)] ELSE None

\* Readers see one value at one instant, never a draft; each writer starts
\* from the last published value and nothing else is published meanwhile.
ImplementsVersionedValue == Promise!Spec

\* The cleanup loop of update() ends and frees nodes_mutex_, although readers
\* keep counting themselves in and out while it runs.
UpdateTerminates ==
    \A w \in Writers :
        wpc[w] \in {"cleaning", "erasing"} ~> wpc[w] = "ready"

\* update() frees every old version that no reader has, also those behind one
\* that is still in use: when it is over, there is an old version per reader at
\* most.  A walk that strayed may have left a count that no reader will undo.
UnusedFreed ==
    \A a \in Addr :
        (\E w \in Writers, n \in cursor .. Len(nodes) - 1 :
            wpc[w] = "cleaning" /\ nodes[n] = a /\ Pins(a) = {} /\ ~strayed)
        ~> (a \notin Live \/ strayed)

\* release() ends, although writers keep appending to the list it walks,
\* unless a node was erased under a walk.
ReleaseTerminates ==
    \A h \in Readers : rpc[h] = "finding" ~> (rpc[h] = "ready" \/ strayed)

-------------------------------------------------------------------------------
(* The inductive invariant that the proofs of RcuProofs rest on *)

\* A thread past the lock() of a mutex owns it.
MutexOwned ==
    /\ \A w \in Writers : wpc[w] # "ready" => nodesMutex = w
    /\ \A w \in Writers : wpc[w] = "publishing" => currentMutex = w
    /\ \A h \in Readers : rpc[h] \in {"reading", "pinned"} => currentMutex = h

\* A reader between two operations; the right-hand side of an assignment
\* belongs to that assignment only.
ReadersApart ==
    /\ \A h \in Readers : rpc[h] \in {"reading", "pinned"} => ref[h] = None
    /\ \A h \in Readers : rpc[h] = "finding" =>
          /\ ref[h] # None
          /\ source[h] # h => rpc[source[h]] = "source"
    /\ \A h, g \in Readers :
          rpc[h] = "finding" /\ rpc[g] = "finding" /\ source[h] = source[g]
             => h = g

\* current_ is the last node, except while the last one is a draft, to which
\* no reader refers.
CurrentIsLast ==
    /\ current \in Live
    /\ (\A w \in Writers : wpc[w] \notin {"editing", "publishing"})
          => current = Last(nodes)
    /\ (\E w \in Writers : wpc[w] \in {"editing", "publishing"})
          => /\ current # Last(nodes)
             /\ \A h \in Readers : ref[h] # Last(nodes)

\* The cleanup stays before the last node, and a node it picked has no reader
\* and gets none.
CleanupApart ==
    \A w \in Writers :
        /\ wpc[w] = "cleaning" => cursor \in 1 .. Len(nodes)
        /\ wpc[w] = "erasing" =>
              /\ cursor \in 1 .. Len(nodes) - 1
              /\ \A h \in Readers : ref[h] # nodes[cursor]

\* Each reader is counted in the node it refers to.
PinsCounted ==
    /\ \A h \in Readers : ref[h] # None => ref[h] \in Live
    /\ \A a \in Live : refcount[a] >= Cardinality(Pins(a))

\* All of this together is preserved by every step of every thread, and
\* implies that no reader ever refers to a freed node.
RcuInv ==
    /\ TypeOK
    /\ MutexOwned
    /\ ReadersApart
    /\ CurrentIsLast
    /\ CleanupApart
    /\ PinsCounted

-------------------------------------------------------------------------------
(* What the documentation says and the code does not do *)

\* Rcu.h:87-89: "Safe traversal without additional locking because
\* `std::list` erasure does not invalidate other iterators": the iterator of
\* a release() is never on a node that update() erased.
TraversalSafe ==
    \A h \in Readers : rpc[h] = "finding" => it[h] \in Live \cup {None}
===============================================================================
