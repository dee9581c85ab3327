------------------------------ MODULE LocksProofs ------------------------------
(***************************************************************************)
(* Theorems about the locks of lock.c: in every style, and for any number  *)
(* of threads, a lock implements RWLock, and its bookkeeping agrees with   *)
(* what its users do; and gl_once initialises once.                        *)
(***************************************************************************)
EXTENDS Locks, Once, FiniteSetTheorems, TLAPS

(***************************************************************************)
(* The wait queues.  What a ring holds is a set of threads, each once.     *)
(***************************************************************************)
Arrays == UNION {[0 .. n - 1 -> Threads \cup {None}] : n \in Nat}

Queues == [array : Arrays, count : Nat, alloc : Nat, offset : Nat]

Ringed(q) ==
  /\ q \in Queues
  /\ q.array \in [0 .. q.alloc - 1 -> Threads \cup {None}]
  /\ q.count <= q.alloc
  /\ q.alloc > 0 => q.offset < q.alloc
  /\ q.alloc = 0 => q.offset = 0

At(q, n) == q.array[Ring(q, n)]

Distinct(q) == \A m, n \in 0 .. q.count - 1 : At(q, m) = At(q, n) => m = n

Keeps(q, S) ==
  /\ Ringed(q) /\ Distinct(q)
  /\ S \subseteq Threads
  /\ S = {At(q, n) : n \in 0 .. q.count - 1}
  /\ Cardinality(S) = q.count

LEMMA QueueFields ==
  ASSUME NEW q \in Queues
  PROVE  /\ \A a \in Arrays, c \in Nat : [q EXCEPT !.array = a, !.count = c] \in Queues
         /\ \A a \in Arrays, l \in Nat, o \in Nat :
              [q EXCEPT !.array = a, !.alloc = l, !.offset = o] \in Queues
         /\ \A c \in Nat, o \in Nat : [q EXCEPT !.count = c, !.offset = o] \in Queues
  BY DEF Queues

LEMMA RingInside ==
  ASSUME NEW q, Ringed(q), NEW n \in 0 .. q.alloc - 1
  PROVE  /\ Ring(q, n) \in 0 .. q.alloc - 1
         /\ \A m \in 0 .. q.alloc - 1 : Ring(q, m) = Ring(q, n) => m = n
  BY DEF Ringed, Queues, Ring

LEMMA EmptyKeeps ==
  Keeps(gl_waitqueue_init, {})
<1> DEFINE q == gl_waitqueue_init
<1>1. <<>> \in [0 .. -1 -> Threads \cup {None}]
  OBVIOUS
<1>2. <<>> \in Arrays
  BY <1>1 DEF Arrays
<1>3. q \in Queues
  BY <1>2 DEF gl_waitqueue_init, Queues
<1>4. Ringed(q)
  BY <1>1, <1>3 DEF gl_waitqueue_init, Ringed
<1>5. Distinct(q)
  BY DEF gl_waitqueue_init, Distinct
<1>6. {} = {At(q, n) : n \in 0 .. q.count - 1}
  BY DEF gl_waitqueue_init
<1> QED
  BY <1>4, <1>5, <1>6, FS_EmptySet DEF Keeps, gl_waitqueue_init

LEMMA GrownKeeps ==
  ASSUME NEW q, NEW S, Keeps(q, S), Full(q)
  PROVE  Keeps(Grown(q), S) /\ ~ Full(Grown(q))
<1> DEFINE g == Grown(q)
           a == [i \in 0 .. 2 * q.alloc |->
                   IF i < q.count THEN q.array[Ring(q, i)] ELSE None]
<1>1. /\ q \in Queues /\ q.count = q.alloc /\ q.alloc \in Nat
      /\ q.array \in [0 .. q.alloc - 1 -> Threads \cup {None}]
  BY DEF Keeps, Ringed, Queues, Full
<1>2. g.array = a /\ g.count = q.alloc /\ g.alloc = 2 * q.alloc + 1 /\ g.offset = 0
  BY <1>1 DEF Grown, Queues
<1>3. a \in [0 .. 2 * q.alloc -> Threads \cup {None}]
  <2>1. \A i \in 0 .. 2 * q.alloc : i < q.count => Ring(q, i) \in 0 .. q.alloc - 1
    BY <1>1, RingInside DEF Keeps
  <2> QED
    BY <1>1, <2>1
<1>4. a \in Arrays
  <2>1. 2 * q.alloc + 1 \in Nat /\ (2 * q.alloc + 1) - 1 = 2 * q.alloc
    BY <1>1
  <2> QED
    BY <1>3, <2>1 DEF Arrays
<1>5. g \in Queues
  <2>1. g = [q EXCEPT !.array = a, !.alloc = 2 * q.alloc + 1, !.offset = 0]
    BY <1>1 DEF Grown, Queues
  <2>2. 2 * q.alloc + 1 \in Nat
    BY <1>1
  <2> HIDE DEF g, a
  <2> QED
    BY <1>1, <1>4, <2>1, <2>2, QueueFields
<1>6. Ringed(g)
  BY <1>1, <1>2, <1>3, <1>5 DEF Ringed
<1>7. \A n \in 0 .. q.alloc - 1 : At(g, n) = At(q, n)
  <2> SUFFICES ASSUME NEW n \in 0 .. q.alloc - 1 PROVE At(g, n) = At(q, n)
    OBVIOUS
  <2>1. Ring(g, n) = n
    BY <1>1, <1>2 DEF Ring
  <2>2. a[n] = At(q, n)
    BY <1>1 DEF At
  <2> HIDE DEF g, a
  <2> QED
    BY <1>2, <2>1, <2>2 DEF At
<1> HIDE DEF g, a
<1>8. Distinct(g)
  BY <1>1, <1>2, <1>7 DEF Keeps, Distinct
<1>9. S = {At(g, n) : n \in 0 .. g.count - 1}
  BY <1>1, <1>2, <1>7 DEF Keeps
<1>10. g.count # g.alloc
  BY <1>1, <1>2
<1>11. Keeps(g, S) /\ ~ Full(g)
  BY <1>1, <1>2, <1>6, <1>8, <1>9, <1>10 DEF Keeps, Full
<1> QED
  BY <1>11 DEF g

LEMMA RoomKeeps ==
  ASSUME NEW q, NEW S, Keeps(q, S), ~ Full(q), NEW t \in Threads, t \notin S,
         IsFiniteSet(S)
  PROVE  Keeps([q EXCEPT !.array[Ring(q, q.count)] = t, !.count = @ + 1], S \cup {t})
<1> DEFINE p == [q EXCEPT !.array[Ring(q, q.count)] = t, !.count = @ + 1]
           k == Ring(q, q.count)
           a == [q.array EXCEPT ![k] = t]
<1>1. /\ q \in Queues /\ q.count < q.alloc /\ q.alloc \in Nat /\ q.count \in Nat
      /\ q.array \in [0 .. q.alloc - 1 -> Threads \cup {None}]
  BY DEF Keeps, Ringed, Queues, Full
<1>2. k \in 0 .. q.alloc - 1
  BY <1>1, RingInside DEF Keeps
<1>3. p.array = a /\ p.count = q.count + 1 /\ p.alloc = q.alloc /\ p.offset = q.offset
  BY <1>1 DEF Queues
<1>4. a \in [0 .. q.alloc - 1 -> Threads \cup {None}]
  BY <1>1
<1>5. a \in Arrays
  BY <1>1, <1>4 DEF Arrays
<1>6. Ringed(p)
  <2>1. p = [q EXCEPT !.array = a, !.count = q.count + 1]
    BY <1>1 DEF Queues
  <2>2. q.count + 1 \in Nat
    BY <1>1
  <2> HIDE DEF p, a
  <2>3. p \in Queues
    BY <1>1, <1>5, <2>1, <2>2, QueueFields
  <2> QED
    BY <1>1, <1>3, <1>4, <2>3 DEF Keeps, Ringed
<1>7. \A n \in 0 .. q.count : At(p, n) = IF n = q.count THEN t ELSE At(q, n)
  <2> SUFFICES ASSUME NEW n \in 0 .. q.count
               PROVE  At(p, n) = IF n = q.count THEN t ELSE At(q, n)
    OBVIOUS
  <2>1. Ring(p, n) = Ring(q, n)
    BY <1>3 DEF Ring
  <2>2. n # q.count => Ring(q, n) # k /\ Ring(q, n) \in 0 .. q.alloc - 1
    BY <1>1, RingInside DEF Keeps
  <2> QED
    BY <1>1, <1>2, <1>3, <2>1, <2>2 DEF At
<1>8. \A n \in 0 .. q.count - 1 : At(q, n) # t
  BY DEF Keeps
<1> HIDE DEF p, a, k
<1>9. Distinct(p)
  BY <1>1, <1>3, <1>7, <1>8 DEF Keeps, Distinct
<1>10. S \cup {t} = {At(p, n) : n \in 0 .. p.count - 1}
  BY <1>1, <1>3, <1>7 DEF Keeps
<1>11. Cardinality(S \cup {t}) = p.count
  <2>1. Cardinality(S \cup {t}) = Cardinality(S) + 1
    BY FS_AddElement
  <2> QED
    BY <1>3, <2>1 DEF Keeps
<1>12. Keeps(p, S \cup {t})
  BY <1>6, <1>9, <1>10, <1>11 DEF Keeps
<1> QED
  BY <1>12 DEF p

LEMMA AddKeeps ==
  ASSUME NEW q, NEW S, Keeps(q, S), NEW t \in Threads, t \notin S, IsFiniteSet(S)
  PROVE  Keeps(gl_waitqueue_add(q, t), S \cup {t})
<1>1. CASE Full(q)
  <2>1. Keeps(Grown(q), S) /\ ~ Full(Grown(q))
    BY <1>1, GrownKeeps
  <2>2. Keeps([Grown(q) EXCEPT !.array[Ring(Grown(q), Grown(q).count)] = t,
                               !.count = @ + 1], S \cup {t})
    BY <2>1, RoomKeeps
  <2> QED
    BY <1>1, <2>2 DEF gl_waitqueue_add
<1>2. CASE ~ Full(q)
  BY <1>2, RoomKeeps DEF gl_waitqueue_add
<1> QED
  BY <1>1, <1>2

LEMMA NotifyFirstKeeps ==
  ASSUME NEW q, NEW S, Keeps(q, S), q.count > 0, IsFiniteSet(S)
  PROVE  /\ First(q) \in S
         /\ Keeps(gl_waitqueue_notify_first(q), S \ {First(q)})
<1> DEFINE p == gl_waitqueue_notify_first(q)
           o == IF q.count = 1 \/ q.offset + 1 = q.alloc THEN 0 ELSE q.offset + 1
<1>1. /\ q \in Queues /\ q.alloc \in Nat /\ q.count \in Nat /\ q.offset \in Nat
      /\ q.count <= q.alloc /\ q.offset < q.alloc
      /\ q.array \in [0 .. q.alloc - 1 -> Threads \cup {None}]
  BY DEF Keeps, Ringed, Queues
<1>2. p.array = q.array /\ p.count = q.count - 1 /\ p.alloc = q.alloc /\ p.offset = o
  BY <1>1 DEF gl_waitqueue_notify_first, Queues
<1>3. First(q) = At(q, 0)
  BY <1>1 DEF First, At, Ring
<1>4. First(q) \in S
  BY <1>1, <1>3 DEF Keeps
<1>5. Ringed(p)
  <2>1. p = [q EXCEPT !.count = q.count - 1, !.offset = o]
    BY <1>1 DEF Queues, gl_waitqueue_notify_first
  <2>2. q.count - 1 \in Nat /\ o \in Nat
    BY <1>1
  <2> HIDE DEF p, o
  <2>3. p \in Queues
    BY <1>1, <2>1, <2>2, QueueFields
  <2> QED
    BY <1>1, <1>2, <2>3 DEF Keeps, Ringed, o
<1>6. \A n \in 0 .. p.count - 1 : At(p, n) = At(q, n + 1)
  <2> SUFFICES ASSUME NEW n \in 0 .. p.count - 1  PROVE At(p, n) = At(q, n + 1)
    OBVIOUS
  <2>1. Ring(p, n) = Ring(q, n + 1)
    <3> HIDE DEF p
    <3>1. /\ n \in Nat /\ n + 1 < q.alloc /\ q.count # 1
          /\ q.offset \in Nat /\ q.alloc \in Nat /\ p.alloc = q.alloc /\ p.offset = o
      BY <1>1, <1>2
    <3>2. CASE q.offset + 1 = q.alloc
      <4>1. p.offset = 0
        BY <3>1, <3>2
      <4> HIDE DEF o
      <4> QED
        BY <3>1, <3>2, <4>1 DEF Ring
    <3>3. CASE q.offset + 1 # q.alloc
      <4>1. p.offset = q.offset + 1
        BY <3>1, <3>3
      <4> HIDE DEF o
      <4> QED
        BY <3>1, <3>3, <4>1 DEF Ring
    <3> QED
      BY <3>2, <3>3
  <2> HIDE DEF p
  <2> QED
    BY <1>2, <2>1 DEF At
<1> HIDE DEF p, o
<1>7. Distinct(p)
  <2> SUFFICES ASSUME NEW m \in 0 .. p.count - 1, NEW n \in 0 .. p.count - 1,
                      At(p, m) = At(p, n)
               PROVE  m = n
    BY DEF Distinct
  <2>1. m + 1 \in 0 .. q.count - 1 /\ n + 1 \in 0 .. q.count - 1
    BY <1>1, <1>2
  <2>2. At(q, m + 1) = At(q, n + 1)
    BY <1>6
  <2> QED
    BY <2>1, <2>2 DEF Keeps, Distinct
<1>8. S \ {First(q)} = {At(p, n) : n \in 0 .. p.count - 1}
  <2>1. ASSUME NEW n \in 0 .. p.count - 1  PROVE At(p, n) \in S \ {First(q)}
    <3>1. n + 1 \in 0 .. q.count - 1 /\ 0 \in 0 .. q.count - 1 /\ n + 1 # 0
      BY <1>1, <1>2
    <3> QED
      BY <1>3, <1>6, <3>1 DEF Keeps, Distinct
  <2>2. ASSUME NEW x \in S \ {First(q)}  PROVE \E n \in 0 .. p.count - 1 : x = At(p, n)
    <3>1. PICK m \in 0 .. q.count - 1 : x = At(q, m)
      BY DEF Keeps
    <3>2. m # 0
      BY <1>3, <3>1
    <3>3. m - 1 \in 0 .. p.count - 1 /\ (m - 1) + 1 = m
      BY <1>1, <1>2, <3>2
    <3> QED
      BY <1>6, <3>1, <3>3
  <2> QED
    BY <2>1, <2>2
<1>9. Cardinality(S \ {First(q)}) = p.count
  <2>1. Cardinality(S \ {First(q)}) = Cardinality(S) - 1
    BY <1>4, FS_RemoveElement
  <2> QED
    BY <1>2, <2>1 DEF Keeps
<1>10. Keeps(p, S \ {First(q)})
  BY <1>5, <1>7, <1>8, <1>9 DEF Keeps
<1> QED
  BY <1>4, <1>10 DEF p

LEMMA NotifyAllKeeps ==
  ASSUME NEW q, NEW S, Keeps(q, S)
  PROVE  Keeps(gl_waitqueue_notify_all(q), {})
<1> DEFINE p == gl_waitqueue_notify_all(q)
<1>1. q \in Queues
  BY DEF Keeps, Ringed
<1>2. p.array = q.array /\ p.count = 0 /\ p.alloc = q.alloc /\ p.offset = 0
  BY <1>1 DEF gl_waitqueue_notify_all, Queues
<1>3. p \in Queues
  BY <1>1 DEF gl_waitqueue_notify_all, Queues
<1>4. q.alloc \in Nat
  BY <1>1 DEF Queues

<1> HIDE DEF p
<1>5. Ringed(p)
  BY <1>2, <1>3, <1>4 DEF Keeps, Ringed
<1>6. Keeps(p, {})
  BY <1>2, <1>5, FS_EmptySet DEF Keeps, Distinct
<1> QED
  BY <1>6 DEF p
-----------------------------------------------------------------------------
(***************************************************************************)
(* The counters: -1 for a writer who is alone, n for n readers.            *)
(***************************************************************************)
Agrees(n, S, md) ==
  /\ n \in Int /\ n >= -1 /\ S \subseteq Threads
  /\ n = -1 => \E w \in S : S = {w} /\ md[w] = "write"
  /\ n >= 0 => Cardinality(S) = n /\ \A u \in S : md[u] = "read"

LEMMA Counts ==
  ASSUME NEW S \in SUBSET Threads
  PROVE  /\ IsFiniteSet(S) /\ Cardinality(S) \in Nat
         /\ Cardinality(S) = 0 <=> S = {}
         /\ \A t : Cardinality(S \cup {t}) = IF t \in S THEN Cardinality(S)
                                                       ELSE Cardinality(S) + 1
         /\ \A t : Cardinality(S \ {t}) = IF t \in S THEN Cardinality(S) - 1
                                                     ELSE Cardinality(S)
<1>1. IsFiniteSet(S)
  BY LocksAssumption, FS_Subset
<1> QED
  BY <1>1, FS_CardinalityType, FS_EmptySet, FS_AddElement, FS_RemoveElement

LEMMA NobodyAgrees ==
  ASSUME NEW md
  PROVE  Agrees(0, {}, md)
  BY FS_EmptySet DEF Agrees

LEMMA ReaderAgrees ==
  ASSUME NEW n, NEW S, NEW md, Agrees(n, S, md), n >= 0,
         NEW t \in Threads, t \notin S, md[t] = "read"
  PROVE  Agrees(n + 1, S \cup {t}, md) /\ \A u \in S : md[u] = "read"
  BY Counts DEF Agrees

LEMMA WriterAgrees ==
  ASSUME NEW S, NEW md, Agrees(0, S, md), NEW t \in Threads, md[t] = "write"
  PROVE  Agrees(-1, S \cup {t}, md) /\ S = {}
<1>1. S = {}
  BY Counts DEF Agrees
<1> QED
  BY <1>1 DEF Agrees

LEMMA OneLessAgrees ==
  ASSUME NEW n, NEW S, NEW md, Agrees(n, S, md), NEW t \in S
  PROVE  n # 0 /\ Agrees(IF n < 0 THEN 0 ELSE n - 1, S \ {t}, md)
<1>1. CASE n = -1
  <2>1. S \ {t} = {}
    BY <1>1 DEF Agrees
  <2> QED
    BY <1>1, <2>1, NobodyAgrees
<1>2. CASE n >= 0
  BY <1>2, Counts DEF Agrees
<1> QED
  BY <1>1, <1>2 DEF Agrees

LEMMA SameAgrees ==
  ASSUME NEW n, NEW S, NEW md, NEW nd, Agrees(n, S, md), \A u \in S : nd[u] = md[u]
  PROVE  Agrees(n, S, nd)
  BY DEF Agrees
-----------------------------------------------------------------------------
(***************************************************************************)
(* What holds of the users whatever the style.                             *)
(***************************************************************************)
Fields ==
  [initialized : BOOLEAN, ready : BOOLEAN, guard : Threads \cup {None},
   started : Int, primitive : Int, nests : BOOLEAN, runcount : Int,
   waiting_writers_count : Int, waiting_readers : Queues,
   waiting_writers : Queues, owner : Threads \cup {None}, depth : Int]

LEMMA FieldsStay ==
  ASSUME NEW f \in Fields
  PROVE  /\ \A n \in Int : [f EXCEPT !.primitive = n] \in Fields
         /\ \A n \in Int : [f EXCEPT !.runcount = n] \in Fields
         /\ \A n \in Int : [f EXCEPT !.waiting_writers_count = n] \in Fields
         /\ \A n \in Int : [f EXCEPT !.depth = n] \in Fields
         /\ \A n \in Int : [f EXCEPT !.started = n] \in Fields
         /\ \A t \in Threads \cup {None} : [f EXCEPT !.guard = t] \in Fields
         /\ \A t \in Threads \cup {None} : [f EXCEPT !.owner = t] \in Fields
         /\ \A b \in BOOLEAN : [f EXCEPT !.initialized = b] \in Fields
         /\ \A q \in Queues : [f EXCEPT !.waiting_readers = q] \in Fields
         /\ \A q \in Queues : [f EXCEPT !.waiting_writers = q] \in Fields
  BY Zenon DEF Fields

LEMMA PairsStay ==
  ASSUME NEW f \in Fields
  PROVE  /\ \A t \in Threads \cup {None} :
              [f EXCEPT !.initialized = TRUE, !.guard = t] \in Fields
         /\ \A m, n \in Int : [f EXCEPT !.waiting_writers_count = m, !.runcount = n] \in Fields
         /\ \A n \in Int, t \in Threads \cup {None} :
              [f EXCEPT !.depth = n, !.owner = t] \in Fields
         /\ \A n \in Int, q \in Queues :
              [f EXCEPT !.runcount = n, !.waiting_readers = q] \in Fields
         /\ \A n \in Int, q \in Queues :
              [f EXCEPT !.runcount = n, !.waiting_writers = q] \in Fields
         /\ \A b, c \in BOOLEAN : [f EXCEPT !.initialized = b, !.ready = c] \in Fields
         /\ [f EXCEPT !.ready = TRUE, !.primitive = 0] \in Fields
         /\ [f EXCEPT !.owner = None, !.depth = 0, !.ready = TRUE, !.primitive = 0] \in Fields
<1>1. 0 \in Int
  OBVIOUS
<1> QED
  BY <1>1, Zenon DEF Fields

Holders == {t \in Threads : level[t] > 0}

UserTyped ==
  /\ use \in Uses /\ lock \in Fields /\ defined \in BOOLEAN
  /\ pc \in [Threads -> Places]
  /\ mode \in [Threads -> {"read", "write"}]
  /\ level \in [Threads -> Nat]

Behaves(t) ==
  /\ pc[t] = "out" => level[t] = 0
  /\ pc[t] = "in" => level[t] > 0
  /\ level[t] > 0 /\ use.kind # "recursive" => pc[t] = "in" /\ level[t] = 1
  /\ use.kind # "rwlock" => mode[t] = "write"
  /\ ~ defined \/ t \notin use.threads => pc[t] = "out"

UserInv ==
  /\ UserTyped /\ aborted # "inconsistent"
  /\ \A t \in Threads : Behaves(t)

Waits == Places \ {"in", "out"}

LEMMA GoesOn ==
  ASSUME UserInv, NEW t \in use.threads, pc[t] # "out", pc[t] # "in", NEW place \in Waits,
         Go(t, place), Locals' = Locals, lock' \in Fields
  PROVE  /\ UserInv' /\ Held' = Held /\ Holders' = Holders
         /\ \A u \in Threads \ {t} : pc'[u] = pc[u]
         /\ pc'[t] = place /\ level'[t] = level[t]
  BY LocksAssumption DEF UserInv, UserTyped, Behaves, Waits, Go, Locals, Held, Holders

LEMMA Comes ==
  ASSUME UserInv, NEW t \in use.threads, NEW md \in use.modes, Call(t, md)
  PROVE  /\ UserInv' /\ Held' = Held /\ Holders' = Holders
         /\ \A u \in Threads \ {t} : pc'[u] = pc[u] /\ mode'[u] = mode[u]
         /\ pc'[t] = Entry /\ level' = level /\ lock' = lock /\ defined' = defined
         /\ level[t] > 0 => use.kind = "recursive" /\ mode'[t] = mode[t]
         /\ \/ pc[t] = "out" /\ level[t] = 0
            \/ pc[t] = "in" /\ use.kind = "recursive"
<1>1. t \in Threads /\ md \in {"read", "write"} /\ Entry \in Waits
  BY LocksAssumption DEF UserInv, UserTyped, Entry, Waits, Places
<1>2. /\ \/ pc[t] = "out" /\ level[t] = 0
         \/ pc[t] = "in" /\ use.kind = "recursive"
      /\ use.kind # "rwlock" => md = "write"
      /\ pc' = [pc EXCEPT ![t] = Entry] /\ mode' = [mode EXCEPT ![t] = md]
      /\ UNCHANGED <<use, lock, level, defined, aborted>> /\ defined
  BY <1>1 DEF Call, Go
<1>3. UserTyped' /\ aborted' # "inconsistent"
  BY <1>1, <1>2 DEF UserInv, UserTyped, Waits
<1>4. \A u \in Threads : Behaves(u)'
  BY <1>1, <1>2 DEF UserInv, UserTyped, Behaves, Waits
<1>5. level[t] > 0 => use.kind = "recursive" /\ mode'[t] = mode[t]
  BY <1>1, <1>2 DEF UserInv, UserTyped, Behaves
<1>6. Held' = Held
  BY <1>1, <1>2, <1>5 DEF UserInv, UserTyped, Held
<1> QED
  BY <1>1, <1>2, <1>3, <1>4, <1>5, <1>6 DEF UserInv, UserTyped, Holders

LEMMA GetsIn ==
  ASSUME UserInv, NEW t \in use.threads, pc[t] # "out", pc[t] # "in",
         Obtain(t), lock' \in Fields,
         level[t] = 0 =>
           \/ mode[t] = "read" /\ \A u \in Threads : level[u] > 0 => mode[u] = "read"
           \/ mode[t] = "write" /\ \A u \in Threads : level[u] = 0
  PROVE  /\ UserInv' /\ [Abstract!Next]_Held /\ Holders' = Holders \cup {t}
         /\ \A u \in Threads \ {t} : pc'[u] = pc[u] /\ level'[u] = level[u]
         /\ pc'[t] = "in" /\ level'[t] = level[t] + 1
<1>1. /\ UserInv' /\ Holders' = Holders \cup {t}
      /\ \A u \in Threads \ {t} : pc'[u] = pc[u] /\ level'[u] = level[u]
      /\ pc'[t] = "in" /\ level'[t] = level[t] + 1
  BY LocksAssumption DEF UserInv, UserTyped, Behaves, Places, Go, Obtain, Holders
<1>2. CASE level[t] > 0
  <2>1. Held' = Held
    BY <1>2, LocksAssumption DEF UserInv, UserTyped, Obtain, Held
  <2> QED
    BY <1>1, <2>1
<1>3. CASE level[t] = 0
  <2>1. t \in Threads /\ mode' = mode
    BY LocksAssumption DEF UserInv, UserTyped, Obtain
  <2>2. Held' = [u \in Threads |-> IF u = t THEN mode[t] ELSE Held[u]]
    BY <1>1, <1>3, <2>1 DEF Held
  <2>3. Held' = [Held EXCEPT ![t] = mode[t]] /\ Held[t] = "none"
    BY <1>3, <2>1, <2>2 DEF Held
  <2> SUFFICES Abstract!Next
    BY <1>1
  <2>4. mode[t] = "write" \/ mode[t] = "read"
    BY <2>1 DEF UserInv, UserTyped
  <2>5. CASE mode[t] = "read"
    <3>1. \A u \in Threads : Held[u] # "write"
      BY <1>3, <2>5 DEF Held, UserInv, UserTyped
    <3> QED
      BY <2>1, <2>3, <2>5, <3>1 DEF Abstract!Next, Abstract!Take
  <2>6. CASE mode[t] = "write"
    <3>1. \A u \in Threads : Held[u] = "none"
      BY <1>3, <2>6 DEF Held, UserInv, UserTyped
    <3> QED
      BY <2>1, <2>3, <2>6, <3>1 DEF Abstract!Next, Abstract!Take
  <2> QED
    BY <2>4, <2>5, <2>6
<1>4. level[t] \in Nat
  BY LocksAssumption DEF UserInv, UserTyped
<1> QED
  BY <1>2, <1>3, <1>4

LEMMA GivesBack ==
  ASSUME UserInv, NEW t \in use.threads, pc[t] \in {"in", "disown"}, level[t] > 0,
         pc[t] = "in" \/ level[t] = 1,
         Leave(t), lock' \in Fields
  PROVE  /\ UserInv' /\ [Abstract!Next]_Held
         /\ Holders' = IF level[t] = 1 THEN Holders \ {t} ELSE Holders
         /\ \A u \in Threads \ {t} : pc'[u] = pc[u] /\ level'[u] = level[u]
         /\ pc'[t] = (IF level[t] = 1 THEN "out" ELSE "in") /\ level'[t] = level[t] - 1
<1>1. t \in Threads /\ mode' = mode /\ level[t] \in Nat
  BY LocksAssumption DEF UserInv, UserTyped, Leave
<1>2. /\ \A u \in Threads \ {t} : pc'[u] = pc[u] /\ level'[u] = level[u]
      /\ pc'[t] = (IF level[t] = 1 THEN "out" ELSE "in") /\ level'[t] = level[t] - 1
      /\ UserTyped' /\ aborted' # "inconsistent" /\ use' = use /\ defined' = defined
  BY <1>1 DEF UserInv, UserTyped, Leave, Go, Places
<1>3. \A u \in Threads : Behaves(u)'
  BY <1>1, <1>2 DEF UserInv, Behaves
<1>4. Holders' = IF level[t] = 1 THEN Holders \ {t} ELSE Holders
  BY <1>1, <1>2 DEF Holders
<1>5. CASE level[t] = 1
  <2>1. Held' = [u \in Threads |-> IF u = t THEN "none" ELSE Held[u]]
    BY <1>1, <1>2, <1>5 DEF Held
  <2>2. Held' = [Held EXCEPT ![t] = "none"]
    BY <1>1, <1>5, <2>1 DEF Held
  <2>3. mode[t] = "read" \/ mode[t] = "write"
    BY <1>1 DEF UserInv, UserTyped
  <2>4. Held[t] # "none"
    BY <1>1, <2>3 DEF Held
  <2>5. Abstract!Next
    BY <1>1, <2>2, <2>4 DEF Abstract!Next, Abstract!Release
  <2> QED
    BY <1>2, <1>3, <1>4, <2>5 DEF UserInv
<1>6. CASE level[t] # 1
  <2>1. Held' = Held
    BY <1>1, <1>2, <1>6 DEF Held
  <2> QED
    BY <1>2, <1>3, <1>4, <2>1 DEF UserInv
<1> QED
  BY <1>5, <1>6

LEMMA WakesOthers ==
  ASSUME UserInv, NEW t \in use.threads, pc[t] = "in", Quits(t), use.kind = "rwlock",
         NEW woken \in SUBSET (Asleep("read") \cup Asleep("write")),
         WakeAndLeave(t, woken), lock' \in Fields
  PROVE  /\ UserInv' /\ [Abstract!Next]_Held /\ Holders' = Holders \ {t}
         /\ \A u \in Threads \ {t} :
              level'[u] = level[u] /\ pc'[u] = IF u \in woken THEN "woken" ELSE pc[u]
         /\ pc'[t] = "out" /\ level'[t] = 0
<1>1. t \in Threads /\ mode' = mode /\ level[t] \in Nat /\ level[t] > 0
  BY LocksAssumption DEF UserInv, UserTyped, Behaves, Quits
<1>2. /\ \A u \in Threads \ {t} :
           level'[u] = level[u] /\ pc'[u] = IF u \in woken THEN "woken" ELSE pc[u]
      /\ pc'[t] = "out" /\ level'[t] = 0
      /\ UserTyped' /\ aborted' # "inconsistent" /\ use' = use /\ defined' = defined
  BY <1>1 DEF UserInv, UserTyped, Quits, WakeAndLeave, Places
<1>3. \A u \in Threads : Behaves(u)'
  BY <1>1, <1>2 DEF UserInv, Behaves, Asleep
<1>4. Holders' = Holders \ {t}
  BY <1>1, <1>2 DEF Holders
<1>5. Held' = [u \in Threads |-> IF u = t THEN "none" ELSE Held[u]]
  BY <1>1, <1>2 DEF Held
<1>6. Held' = [Held EXCEPT ![t] = "none"]
  BY <1>1, <1>5 DEF Held
<1>7. mode[t] = "read" \/ mode[t] = "write"
  BY <1>1 DEF UserInv, UserTyped
<1>8. Held[t] # "none"
  BY <1>1, <1>7 DEF Held
<1>9. Abstract!Next
  BY <1>1, <1>6, <1>8 DEF Abstract!Next, Abstract!Release
<1> QED
  BY <1>2, <1>3, <1>4, <1>9 DEF UserInv

LEMMA GivesUp ==
  ASSUME UserInv, NEW why, Aborts(why), why # "inconsistent"
  PROVE  UserInv' /\ Held' = Held /\ Holders' = Holders
  BY DEF UserInv, UserTyped, Behaves, Aborts, Held, Holders

LEMMA MadeAnew ==
  ASSUME UserInv, \A t \in Threads : pc[t] = "out", lock' \in Fields, defined' \in BOOLEAN,
         UNCHANGED <<use, pc, mode, level, left, aborted>>
  PROVE  UserInv' /\ Held' = Held /\ Holders' = Holders /\ Holders = {}
  BY DEF UserInv, UserTyped, Behaves, Held, Holders
-----------------------------------------------------------------------------
(***************************************************************************)
(* Locks that their first user initialises: nobody is past the flag before *)
(* it is set, and one thread at most sets it.                              *)
(***************************************************************************)
Making == {"init", "publish"}

Early == Making \cup {"out", "test", "guard", "spin"}

Makes(t) ==
  /\ ~ lock.initialized /\ (pc[t] = "publish" => lock.ready)
  /\ use.style = "lazy" => lock.guard = t
  /\ use.style = "win32" => lock.started >= 0
  /\ \A u \in Threads : pc[u] \in Making => u = t

MadeInv ==
  /\ defined /\ lock.initialized => lock.ready
  /\ lock.started >= -1
  /\ ~ lock.initialized =>
       /\ use.style \in {"lazy", "win32"}
       /\ \A t \in Threads : pc[t] \in Early /\ level[t] = 0
  /\ \A t \in Threads :
       /\ pc[t] \in Making => Makes(t)
       /\ use.style = "win32" =>
            /\ pc[t] = "spin" => lock.started >= 0
            /\ pc[t] = "guard" /\ lock.initialized => lock.started >= 0

SameFlags ==
  /\ use' = use /\ defined' = defined
  /\ lock'.initialized = lock.initialized /\ lock'.ready = lock.ready
  /\ lock'.guard = lock.guard /\ lock'.started = lock.started

(* Steps behind the flag leave the making of the lock alone.                *)
LEMMA MadeStays ==
  ASSUME UserInv, MadeInv, SameFlags,
         \A u \in Threads :
           \/ pc'[u] = pc[u] /\ level'[u] = level[u]
           \/ lock.initialized /\ pc'[u] \notin Making \cup {"spin", "guard"}
           \/ pc[u] = "out" /\ pc'[u] \in {"test"} /\ level'[u] = level[u]
  PROVE  MadeInv'
  BY DEF MadeInv, Makes, SameFlags, Making, Early

(* What the making of a lock leaves alone.                                  *)
Apart(t) ==
  /\ use' = use /\ mode' = mode /\ level' = level /\ defined' = defined
  /\ Held' = Held /\ Holders' = Holders
  /\ pc[t] \in Early \ {"out"} /\ pc'[t] \in Early \cup {"enter", "owner"}
  /\ \A u \in Threads \ {t} : pc'[u] = pc[u]
  /\ lock'.runcount = lock.runcount
  /\ lock'.waiting_readers = lock.waiting_readers
  /\ lock'.waiting_writers = lock.waiting_writers
  /\ \/ /\ lock'.primitive = lock.primitive /\ lock'.owner = lock.owner
        /\ lock'.depth = lock.depth
     \/ /\ ~ lock.initialized /\ lock'.primitive = 0
        /\ \/ lock'.owner = lock.owner /\ lock'.depth = lock.depth
           \/ lock'.owner = None /\ lock'.depth = 0

MakingStep(t) ==
  \/ use.style \in {"lazy", "win32"} /\ (TestInitialized(t) \/ InitPrimitive(t))
  \/ use.style = "lazy" /\ (LazyGuard(t) \/ LazyPublish(t))
  \/ use.style = "win32" /\ (SpinlockStart(t) \/ SpinlockDone(t) \/ Win32Publish(t))
  \/ Win32RecursiveInit(t)

LEMMA MakingApart ==
  ASSUME UserInv, MadeInv, NEW t \in use.threads, MakingStep(t)
  PROVE  UserInv' /\ MadeInv' /\ Apart(t)
<1> USE LocksAssumption
<1> DEFINE p == pc'[t]
<1>1. t \in Threads /\ lock \in Fields
  BY DEF UserInv, UserTyped
<1>2. ASSUME NEW place \in Waits, Go(t, place), Locals' = Locals, lock' \in Fields,
             pc[t] \in Early \ {"out"}
      PROVE  /\ UserInv' /\ Held' = Held /\ Holders' = Holders
             /\ \A u \in Threads \ {t} : pc'[u] = pc[u]
             /\ pc'[t] = place /\ level' = level /\ mode' = mode /\ use' = use
             /\ defined' = defined
  BY <1>2, GoesOn DEF Early, Making, Locals
<1>3. CASE TestInitialized(t)
  <2> DEFINE place == IF ~ lock.initialized THEN "guard"
                      ELSE IF Is("recursive", "win32") THEN "owner" ELSE "enter"
  <2>1. /\ pc[t] = "test" /\ Go(t, place) /\ lock' = lock /\ Locals' = Locals
        /\ place \in Waits
    BY <1>3 DEF TestInitialized, Locals, Waits, Places
  <2>2. pc[t] \in Early \ {"out"}
    BY <2>1 DEF Early
  <2> HIDE DEF place
  <2>3. /\ UserInv' /\ Held' = Held /\ Holders' = Holders
        /\ \A u \in Threads \ {t} : pc'[u] = pc[u]
        /\ pc'[t] = place /\ level' = level /\ mode' = mode /\ use' = use
        /\ defined' = defined
    BY <1>1, <1>2, <2>1, <2>2
  <2>4. MadeInv'
    BY <1>1, <2>1, <2>3 DEF MadeInv, Makes, Making, Early, place
  <2> QED
    BY <1>1, <2>1, <2>2, <2>3, <2>4 DEF Apart, Early, Making, place
<1>4. CASE use.style \in {"lazy", "win32"} /\ InitPrimitive(t)
  <2>1. /\ pc[t] = "init" /\ Go(t, "publish") /\ Locals' = Locals /\ "publish" \in Waits
        /\ lock' = [lock EXCEPT !.ready = TRUE, !.primitive = 0]
    BY <1>4 DEF InitPrimitive, Locals, Waits, Places
  <2>2. pc[t] \in Early \ {"out"}
    BY <2>1 DEF Early, Making
  <2>3. lock' \in Fields
    BY <1>1, <2>1, PairsStay
  <2>4. /\ UserInv' /\ Held' = Held /\ Holders' = Holders
        /\ \A u \in Threads \ {t} : pc'[u] = pc[u]
        /\ pc'[t] = "publish" /\ level' = level /\ mode' = mode /\ use' = use
        /\ defined' = defined
    BY <1>2, <2>1, <2>2, <2>3
  <2>5. ~ lock.initialized
    BY <1>1, <2>1 DEF MadeInv, Makes, Making
  <2>6. /\ lock'.ready /\ lock'.primitive = 0
        /\ lock'.initialized = lock.initialized /\ lock'.guard = lock.guard
        /\ lock'.started = lock.started /\ lock'.runcount = lock.runcount
        /\ lock'.waiting_readers = lock.waiting_readers
        /\ lock'.waiting_writers = lock.waiting_writers
        /\ lock'.owner = lock.owner /\ lock'.depth = lock.depth
    BY <1>1, <2>1 DEF Fields
  <2>7. MadeInv'
    BY <1>1, <2>1, <2>4, <2>5, <2>6 DEF MadeInv, Makes, Making, Early
  <2> QED
    BY <1>1, <2>1, <2>2, <2>4, <2>5, <2>6, <2>7 DEF Apart, Early, Making
<1>5. CASE use.style = "lazy" /\ LazyGuard(t)
  <2> DEFINE place == IF lock.initialized THEN "enter" ELSE "init"
  <2>1. /\ pc[t] = "guard" /\ lock.guard = None /\ Go(t, place) /\ Locals' = Locals
        /\ lock' = IF lock.initialized THEN lock ELSE [lock EXCEPT !.guard = t]
        /\ place \in Waits
    BY <1>5 DEF LazyGuard, Locals, Waits, Places
  <2>2. pc[t] \in Early \ {"out"}
    BY <2>1 DEF Early, Making
  <2>3. lock' \in Fields
    BY <1>1, <2>1, FieldsStay
  <2> HIDE DEF place
  <2>4. /\ UserInv' /\ Held' = Held /\ Holders' = Holders
        /\ \A u \in Threads \ {t} : pc'[u] = pc[u]
        /\ pc'[t] = place /\ level' = level /\ mode' = mode /\ use' = use
        /\ defined' = defined
    BY <1>2, <2>1, <2>2, <2>3
  <2>5. /\ lock'.ready = lock.ready /\ lock'.primitive = lock.primitive
        /\ lock'.initialized = lock.initialized
        /\ lock'.guard = (IF lock.initialized THEN None ELSE t)
        /\ lock'.started = lock.started /\ lock'.runcount = lock.runcount
        /\ lock'.waiting_readers = lock.waiting_readers
        /\ lock'.waiting_writers = lock.waiting_writers
        /\ lock'.owner = lock.owner /\ lock'.depth = lock.depth
    BY <1>1, <2>1 DEF Fields
  <2>6. \A u \in Threads : pc[u] \notin Making
    BY <1>5, <2>1 DEF MadeInv, Makes
  <2>7. MadeInv'
    BY <1>1, <1>5, <2>1, <2>4, <2>5, <2>6 DEF MadeInv, Makes, Making, Early, place
  <2> QED
    BY <1>1, <2>1, <2>2, <2>4, <2>5, <2>7 DEF Apart, Early, Making, place
<1>6. CASE use.style = "lazy" /\ LazyPublish(t)
  <2>1. /\ pc[t] = "publish" /\ Go(t, "enter") /\ Locals' = Locals /\ "enter" \in Waits
        /\ lock' = [lock EXCEPT !.initialized = TRUE, !.guard = None]
    BY <1>6 DEF LazyPublish, Locals, Waits, Places
  <2>2. pc[t] \in Early \ {"out"}
    BY <2>1 DEF Early, Making
  <2>3. lock' \in Fields
    BY <1>1, <2>1, PairsStay
  <2>4. /\ UserInv' /\ Held' = Held /\ Holders' = Holders
        /\ \A u \in Threads \ {t} : pc'[u] = pc[u]
        /\ pc'[t] = "enter" /\ level' = level /\ mode' = mode /\ use' = use
        /\ defined' = defined
    BY <1>2, <2>1, <2>2, <2>3
  <2>5. /\ lock'.ready = lock.ready /\ lock'.primitive = lock.primitive
        /\ lock'.initialized = TRUE /\ lock'.guard = None
        /\ lock'.started = lock.started /\ lock'.runcount = lock.runcount
        /\ lock'.waiting_readers = lock.waiting_readers
        /\ lock'.waiting_writers = lock.waiting_writers
        /\ lock'.owner = lock.owner /\ lock'.depth = lock.depth
    BY <1>1, <2>1 DEF Fields
  <2>6. lock.ready /\ \A u \in Threads : pc[u] \in Making => u = t
    BY <1>1, <2>1 DEF MadeInv, Makes, Making
  <2>7. MadeInv'
    BY <1>1, <1>6, <2>1, <2>4, <2>5, <2>6 DEF MadeInv, Making, Early
  <2> QED
    BY <1>1, <2>1, <2>2, <2>4, <2>5, <2>7 DEF Apart, Early, Making
<1>7. CASE use.style = "win32" /\ SpinlockStart(t)
  <2> DEFINE place == IF lock.started + 1 = 0 THEN "init" ELSE "spin"
  <2>1. /\ pc[t] = "guard" /\ Go(t, place) /\ Locals' = Locals
        /\ lock' = [lock EXCEPT !.started = lock.started + 1]
        /\ place \in Waits
    BY <1>7 DEF SpinlockStart, Locals, Waits, Places
  <2>2. pc[t] \in Early \ {"out"} /\ lock.started + 1 \in Int
    BY <1>1, <2>1 DEF Early, Making, Fields
  <2>3. lock' \in Fields
    BY <1>1, <2>1, <2>2, FieldsStay
  <2> HIDE DEF place
  <2>4. /\ UserInv' /\ Held' = Held /\ Holders' = Holders
        /\ \A u \in Threads \ {t} : pc'[u] = pc[u]
        /\ pc'[t] = place /\ level' = level /\ mode' = mode /\ use' = use
        /\ defined' = defined
    BY <1>2, <2>1, <2>2, <2>3
  <2>5. /\ lock'.ready = lock.ready /\ lock'.primitive = lock.primitive
        /\ lock'.initialized = lock.initialized /\ lock'.guard = lock.guard
        /\ lock'.started = lock.started + 1 /\ lock'.runcount = lock.runcount
        /\ lock'.waiting_readers = lock.waiting_readers
        /\ lock'.waiting_writers = lock.waiting_writers
        /\ lock'.owner = lock.owner /\ lock'.depth = lock.depth
    BY <1>1, <2>1 DEF Fields
  <2>6. lock.started + 1 = 0 =>
          ~ lock.initialized /\ \A u \in Threads : pc[u] \notin Making \cup {"spin"}
    BY <1>1, <1>7, <2>1, <2>2 DEF MadeInv, Makes, Fields
  <2>7. MadeInv'
    <3>1. lock.started \in Int /\ lock.started >= -1
      BY <1>1 DEF MadeInv, Fields
    <3> QED
      BY <1>1, <1>7, <2>1, <2>4, <2>5, <2>6, <3>1 DEF MadeInv, Makes, Making, Early, place
  <2> QED
    BY <1>1, <2>1, <2>2, <2>4, <2>5, <2>7 DEF Apart, Early, Making, place
<1>8. CASE use.style = "win32" /\ SpinlockDone(t)
  <2>1. /\ pc[t] = "spin" /\ Go(t, Win32Ready) /\ lock' = lock /\ Locals' = Locals
        /\ Win32Ready \in Waits /\ Win32Ready \in {"owner", "enter"} /\ lock.initialized
    BY <1>8 DEF SpinlockDone, Locals, Waits, Places, Win32Ready
  <2>2. pc[t] \in Early \ {"out"}
    BY <2>1 DEF Early
  <2>3. /\ UserInv' /\ Held' = Held /\ Holders' = Holders
        /\ \A u \in Threads \ {t} : pc'[u] = pc[u]
        /\ pc'[t] = Win32Ready /\ level' = level /\ mode' = mode /\ use' = use
        /\ defined' = defined
    BY <1>1, <1>2, <2>1, <2>2
  <2>4. MadeInv'
    BY <1>1, <2>1, <2>3 DEF MadeInv, Makes, Making, Early
  <2> QED
    BY <1>1, <2>1, <2>2, <2>3, <2>4 DEF Apart, Early, Making
<1>9. CASE use.style = "win32" /\ Win32Publish(t)
  <2>1. /\ pc[t] = "publish" /\ Go(t, Win32Ready) /\ Locals' = Locals
        /\ Win32Ready \in Waits /\ Win32Ready \in {"owner", "enter"}
        /\ lock' = [lock EXCEPT !.initialized = TRUE]
    BY <1>9 DEF Win32Publish, Locals, Waits, Places, Win32Ready
  <2>2. pc[t] \in Early \ {"out"}
    BY <2>1 DEF Early, Making
  <2>3. lock' \in Fields
    BY <1>1, <2>1, FieldsStay
  <2>4. /\ UserInv' /\ Held' = Held /\ Holders' = Holders
        /\ \A u \in Threads \ {t} : pc'[u] = pc[u]
        /\ pc'[t] = Win32Ready /\ level' = level /\ mode' = mode /\ use' = use
        /\ defined' = defined
    BY <1>2, <2>1, <2>2, <2>3
  <2>5. /\ lock'.ready = lock.ready /\ lock'.primitive = lock.primitive
        /\ lock'.initialized = TRUE /\ lock'.guard = lock.guard
        /\ lock'.started = lock.started /\ lock'.runcount = lock.runcount
        /\ lock'.waiting_readers = lock.waiting_readers
        /\ lock'.waiting_writers = lock.waiting_writers
        /\ lock'.owner = lock.owner /\ lock'.depth = lock.depth
    BY <1>1, <2>1 DEF Fields
  <2>6. lock.ready /\ lock.started >= 0 /\ \A u \in Threads : pc[u] \in Making => u = t
    BY <1>1, <1>9, <2>1 DEF MadeInv, Makes, Making
  <2>7. MadeInv'
    BY <1>1, <1>9, <2>1, <2>4, <2>5, <2>6 DEF MadeInv, Making, Early
  <2> QED
    BY <1>1, <2>1, <2>2, <2>4, <2>5, <2>7 DEF Apart, Early, Making
<1>10. CASE Win32RecursiveInit(t) /\ pc[t] = "init"
  <2>1. /\ use.style = "win32" /\ Go(t, "publish") /\ Locals' = Locals
        /\ "publish" \in Waits
        /\ lock' = [lock EXCEPT !.owner = None, !.depth = 0, !.ready = TRUE,
                                !.primitive = 0]
    BY <1>10 DEF Win32RecursiveInit, Win32Initialize, TestInitialized, SpinlockStart,
       SpinlockDone, Win32Publish, Is, Locals, Waits, Places
  <2>2. pc[t] \in Early \ {"out"}
    BY <1>10 DEF Early, Making
  <2>3. lock' \in Fields
    BY <1>1, <2>1, PairsStay
  <2>4. /\ UserInv' /\ Held' = Held /\ Holders' = Holders
        /\ \A u \in Threads \ {t} : pc'[u] = pc[u]
        /\ pc'[t] = "publish" /\ level' = level /\ mode' = mode /\ use' = use
        /\ defined' = defined
    BY <1>2, <2>1, <2>2, <2>3
  <2>5. ~ lock.initialized
    BY <1>1, <1>10 DEF MadeInv, Makes, Making
  <2>6. /\ lock'.ready /\ lock'.primitive = 0
        /\ lock'.initialized = lock.initialized /\ lock'.guard = lock.guard
        /\ lock'.started = lock.started /\ lock'.runcount = lock.runcount
        /\ lock'.waiting_readers = lock.waiting_readers
        /\ lock'.waiting_writers = lock.waiting_writers
        /\ lock'.owner = None /\ lock'.depth = 0
    BY <1>1, <2>1 DEF Fields
  <2>7. MadeInv'
    BY <1>1, <1>10, <2>1, <2>4, <2>5, <2>6 DEF MadeInv, Makes, Making, Early
  <2> QED
    BY <1>1, <1>10, <2>2, <2>4, <2>5, <2>6, <2>7 DEF Apart, Early, Making
<1> QED
  BY <1>3, <1>4, <1>5, <1>6, <1>7, <1>8, <1>9, <1>10
     DEF MakingStep, Win32RecursiveInit, Win32Initialize, Is

LEMMA ComesMade ==
  ASSUME UserInv, MadeInv, NEW t \in use.threads, NEW md \in use.modes, Call(t, md)
  PROVE  MadeInv'
<1>1. /\ \A u \in Threads \ {t} : pc'[u] = pc[u]
      /\ pc'[t] = Entry /\ level' = level /\ lock' = lock /\ defined' = defined
      /\ \/ pc[t] = "out" /\ level[t] = 0
         \/ pc[t] = "in" /\ use.kind = "recursive"
  BY Comes
<1>2. use' = use /\ t \in Threads
  BY LocksAssumption DEF Call, UserInv, UserTyped
<1>3. Entry \notin Making \cup {"spin", "guard"} /\ (~ lock.initialized => Entry = "test")
  BY DEF Entry, Making, MadeInv
<1>4. pc[t] = "in" => lock.initialized
  BY <1>2 DEF MadeInv, Early, Making
<1> QED
  BY <1>1, <1>2, <1>3, <1>4, MadeStays DEF SameFlags
-----------------------------------------------------------------------------
(***************************************************************************)
(* Destroying a lock and defining it anew.                                 *)
(***************************************************************************)
ByOwner == Is("recursive", "owner") \/ Is("recursive", "win32")

Cleared ==
  /\ lock'.primitive = 0
  /\ Is("rwlock", "conds") => lock'.runcount = 0 /\ lock'.waiting_writers_count = 0
  /\ ByOwner => lock'.owner = None /\ lock'.depth = 0
  /\ Is("rwlock", "win32") =>
       /\ lock'.runcount = 0
       /\ lock'.waiting_readers = gl_waitqueue_init
       /\ lock'.waiting_writers = gl_waitqueue_init

SameUse ==
  /\ lock'.primitive = lock.primitive /\ lock'.runcount = lock.runcount
  /\ lock'.waiting_writers_count = lock.waiting_writers_count
  /\ lock'.waiting_readers = lock.waiting_readers
  /\ lock'.waiting_writers = lock.waiting_writers
  /\ lock'.owner = lock.owner /\ lock'.depth = lock.depth

Redone ==
  /\ use' = use /\ pc' = pc /\ mode' = mode /\ level' = level
  /\ Held' = Held /\ Holders' = Holders
  /\ \/ SameUse
     \/ Cleared /\ Holders = {} /\ \A t \in Threads : pc[t] = "out"

LEMMA AnewInside ==
  ASSUME lock \in Fields
  PROVE  /\ Anew \in Fields
         /\ \A b \in BOOLEAN : [Anew EXCEPT !.nests = b] \in Fields
         /\ [Anew EXCEPT !.waiting_writers_count = 0, !.runcount = 0] \in Fields
         /\ [Anew EXCEPT !.owner = None, !.depth = 0] \in Fields
         /\ [Anew EXCEPT !.waiting_readers = gl_waitqueue_init,
                         !.waiting_writers = gl_waitqueue_init, !.runcount = 0,
                         !.owner = None, !.depth = 0] \in Fields
<1>1. 0 \in Int /\ gl_waitqueue_init \in Queues
  BY EmptyKeeps DEF Keeps, Ringed
<1>2. Anew \in Fields
  BY <1>1, Zenon DEF Fields, Anew
<1> HIDE DEF Anew
<1> QED
  BY <1>1, <1>2, Zenon DEF Fields

LEMMA DestroyedRedone ==
  ASSUME UserInv, MadeInv, NEW checks, Destroyed(checks)
  PROVE  UserInv' /\ MadeInv' /\ Redone
<1>1. CASE Aborts("never used")
  <2>1. UserInv' /\ Held' = Held /\ Holders' = Holders
    BY <1>1, GivesUp
  <2>2. UNCHANGED <<use, lock, pc, mode, level, defined>>
    BY <1>1 DEF Aborts
  <2> QED
    BY <2>1, <2>2 DEF MadeInv, Makes, Redone, SameUse
<1>2. CASE checks
  <2> DEFINE b == use.style \notin {"lazy", "win32"}
  <2>1. /\ \A t \in Threads : pc[t] = "out"
        /\ defined' = FALSE /\ UNCHANGED <<use, pc, mode, level, left, aborted>>
        /\ lock' = [lock EXCEPT !.initialized = b, !.ready = FALSE]
    BY <1>2 DEF Destroyed
  <2>2. lock \in Fields /\ b \in BOOLEAN
    BY DEF UserInv, UserTyped
  <2> HIDE DEF b
  <2>3. lock' \in Fields
    BY <2>1, <2>2, PairsStay
  <2>4. UserInv' /\ Held' = Held /\ Holders' = Holders
    BY <2>1, <2>3, MadeAnew
  <2>5. SameUse /\ lock'.started = lock.started /\ lock'.initialized = b
    BY <2>1, <2>2 DEF Fields, SameUse
  <2>6. \A t \in Threads : level[t] = 0
    BY <2>1 DEF UserInv, Behaves
  <2>7. MadeInv'
    BY <2>1, <2>5, <2>6 DEF MadeInv, Early, Making, b
  <2> QED
    BY <2>1, <2>4, <2>5, <2>7 DEF Redone
<1> QED
  BY <1>1, <1>2 DEF Destroyed

LEMMA DefinedRedone ==
  ASSUME UserInv, MadeInv, NEW fields \in Fields, Defined(fields),
         fields.initialized, fields.ready, fields.started = lock.started, Cleared
  PROVE  UserInv' /\ MadeInv' /\ Redone
<1>1. /\ ~ defined /\ defined' = TRUE /\ lock' = fields
      /\ UNCHANGED <<use, pc, mode, level, left, aborted>>
  BY DEF Defined
<1>2. \A t \in Threads : pc[t] = "out"
  BY <1>1 DEF UserInv, Behaves
<1>3. UserInv' /\ Held' = Held /\ Holders' = Holders /\ Holders = {}
  BY <1>1, <1>2, MadeAnew
<1>4. MadeInv'
  BY <1>1, <1>2 DEF MadeInv, Early, Making
<1> QED
  BY <1>1, <1>2, <1>3, <1>4 DEF Redone

LEMMA RedefinesRedone ==
  ASSUME UserInv, MadeInv, Redefines
  PROVE  UserInv' /\ MadeInv' /\ Redone
<1>1. lock \in Fields
  BY DEF UserInv, UserTyped
<1>2. \A checks : Destroyed(checks) => UserInv' /\ MadeInv' /\ Redone
  BY DestroyedRedone
<1>3. CASE NativeDefine
  <2> DEFINE b == ~ Is("recursive", "native")
             f == [Anew EXCEPT !.nests = b]
  <2>1. Defined(f) /\ use.style \in {"native", "pth", "absent"}
    BY <1>3 DEF NativeDefine, Native
  <2>2. f \in Fields
    <3>1. b \in BOOLEAN
      OBVIOUS
    <3> HIDE DEF b
    <3> QED
      BY <1>1, <3>1, AnewInside
  <2>3. f.initialized /\ f.ready /\ f.started = lock.started /\ f.primitive = 0
    BY <1>1 DEF Fields, Anew
  <2> HIDE DEF f
  <2>4. Cleared
    BY <2>1, <2>3 DEF Cleared, Defined, Is, ByOwner
  <2> QED
    BY <2>1, <2>2, <2>3, <2>4, DefinedRedone
<1>4. CASE LazyDefine
  <2>1. Anew.initialized /\ Anew.ready /\ Anew.started = lock.started /\ Anew.primitive = 0
    BY <1>1 DEF Fields, Anew
  <2>2. Cleared
    BY <1>4, <2>1 DEF LazyDefine, Cleared, Defined, Is, ByOwner
  <2> QED
    BY <1>1, <1>4, <2>1, <2>2, AnewInside, DefinedRedone DEF LazyDefine
<1>5. CASE CondsInit
  <2> DEFINE f == [Anew EXCEPT !.waiting_writers_count = 0, !.runcount = 0]
  <2>1. /\ f.initialized /\ f.ready /\ f.started = lock.started /\ f.primitive = 0
        /\ f.waiting_writers_count = 0 /\ f.runcount = 0
    BY <1>1 DEF Fields, Anew
  <2>2. f \in Fields /\ Defined(f) /\ Is("rwlock", "conds")
    BY <1>1, <1>5, AnewInside DEF CondsInit
  <2> HIDE DEF f
  <2>3. Cleared
    BY <2>1, <2>2 DEF Cleared, Defined, Is, ByOwner
  <2> QED
    BY <2>1, <2>2, <2>3, DefinedRedone
<1>6. CASE OwnerInit
  <2> DEFINE f == [Anew EXCEPT !.owner = None, !.depth = 0]
  <2>1. /\ f.initialized /\ f.ready /\ f.started = lock.started /\ f.primitive = 0
        /\ f.owner = None /\ f.depth = 0
    BY <1>1 DEF Fields, Anew
  <2>2. f \in Fields /\ Defined(f) /\ Is("recursive", "owner")
    BY <1>1, <1>6, AnewInside DEF OwnerInit
  <2> HIDE DEF f
  <2>3. Cleared
    BY <2>1, <2>2 DEF Cleared, Defined, Is
  <2> QED
    BY <2>1, <2>2, <2>3, DefinedRedone
<1>7. CASE Win32Define
  <2> DEFINE f == [Anew EXCEPT !.waiting_readers = gl_waitqueue_init,
                               !.waiting_writers = gl_waitqueue_init, !.runcount = 0,
                               !.owner = None, !.depth = 0]
  <2>1. /\ f.initialized /\ f.ready /\ f.started = lock.started /\ f.primitive = 0
        /\ f.waiting_readers = gl_waitqueue_init /\ f.waiting_writers = gl_waitqueue_init
        /\ f.runcount = 0 /\ f.owner = None /\ f.depth = 0
    BY <1>1 DEF Fields, Anew
  <2>2. f \in Fields /\ Defined(f) /\ use.style = "win32"
    BY <1>1, <1>7, AnewInside DEF Win32Define
  <2> HIDE DEF f
  <2>3. Cleared
    BY <2>1, <2>2 DEF Cleared, Defined, Is
  <2> QED
    BY <2>1, <2>2, <2>3, DefinedRedone
<1> QED
  BY <1>2, <1>3, <1>4, <1>5, <1>6, <1>7
     DEF Redefines, NativeDestroy, LazyRwlockDestroy, LazyRecursiveDestroy, CondsDestroy,
         OwnerDestroy, Win32LockDestroy, Win32RwlockDestroy, Win32RecursiveDestroy
-----------------------------------------------------------------------------
(***************************************************************************)
(* The families of styles, by what their users are counted with.           *)
(***************************************************************************)
ByPrimitive ==
  use.style \in {"native", "pth"} \/ Is("rwlock", "lazy") \/ Is("recursive", "lazy")
    \/ Is("lock", "win32")

LEMMA Families ==
  ASSUME use \in Uses
  PROVE  \/ ByPrimitive \/ ByOwner
         \/ Is("rwlock", "conds") \/ Is("rwlock", "win32") \/ use.style = "absent"
<1>1. Macros(use.kind, use.style) \in AllLocks
  BY LocksAssumption
<1>2. \E m \in AllLocks : use.kind = m.kind /\ use.style = m.style
  BY <1>1 DEF Macros
<1>3. PICK m \in AllLocks : use.kind = m.kind /\ use.style = m.style
  BY <1>2
<1>4. \/ m.style \in {"native", "pth", "absent"}
      \/ m.style = "lazy" /\ m.kind \in {"rwlock", "recursive"}
      \/ m.style = "conds" /\ m.kind = "rwlock"
      \/ m.style = "owner" /\ m.kind = "recursive"
      \/ m.style = "win32" /\ m.kind \in {"lock", "rwlock", "recursive"}
  BY <1>3 DEF AllLocks, Macros, posix_lock, posix_rwlock, posix_rwlock_lazy,
     posix_rwlock_conds, posix_recursive, posix_recursive_lazy, posix_recursive_owner,
     pth_lock, pth_rwlock, pth_recursive, solaris_lock, solaris_rwlock, solaris_recursive,
     win32_lock, win32_rwlock, win32_recursive, no_threads
<1> QED
  BY <1>3, <1>4 DEF ByPrimitive, ByOwner, Is

(* A primitive counts who holds it.                                         *)
PrimitiveInv == Agrees(lock.primitive, Holders, mode)

LEMMA PrimitiveNext ==
  ASSUME UserInv, MadeInv, ByPrimitive, NEW t \in use.threads,
         Acquires(t) \/ Unlocks(t) \/ SpuriousWakeup(t)
  PROVE  \/ pc[t] = "enter" /\ TakePrimitive(t) /\ Obtain(t)
         \/ pc[t] = "in" /\ DropPrimitive(t) /\ Leave(t)
         \/ MakingStep(t)
<1>1. t \in Threads
  BY LocksAssumption DEF UserInv, UserTyped
<1>2. pc[t] \in {"enter", "in"} => lock.initialized /\ lock.ready
  BY <1>1 DEF MadeInv, UserInv, Behaves, Early, Making
<1>3. use.style # "owner" /\ use.style # "absent" /\ use.style # "conds"
      /\ ~ Is("rwlock", "win32") /\ ~ Is("recursive", "win32")
  BY DEF ByPrimitive, Is
<1>4. ASSUME Acquires(t)
      PROVE  MakingStep(t) \/ EnterPrimitive(t)
  BY <1>3, <1>4 DEF Acquires, Is, AbsentLock, NativeLock, LazyRwlockInit, LazyRwlockRdlock,
     LazyRwlockWrlock, LazyRecursiveInit, LazyRecursiveLock, CondsRdlock, CondsWrlock,
     OwnerLock, Win32LockInit, Win32Lock, Win32Initialize, Win32RwlockInit, Win32Rdlock,
     Win32Wrlock, Win32RecursiveInit, Win32RecursiveLock, MakingStep
<1>5. ASSUME EnterPrimitive(t)  PROVE pc[t] = "enter" /\ TakePrimitive(t) /\ Obtain(t)
  BY <1>2, <1>5 DEF EnterPrimitive
<1>6. ASSUME LazyUnlock(t)  PROVE pc[t] = "in" /\ DropPrimitive(t) /\ Leave(t)
  BY <1>2, <1>6 DEF LazyUnlock
<1>7. ASSUME Unlocks(t)  PROVE pc[t] = "in" /\ DropPrimitive(t) /\ Leave(t)
  BY <1>3, <1>6, <1>7 DEF Unlocks, Is, AbsentUnlock, NativeUnlock, LazyRwlockUnlock,
     LazyRecursiveUnlock, CondsUnlock, OwnerUnlock, Win32Unlock, Win32RwUnlock,
     Win32RecursiveUnlock
<1> QED
  BY <1>3, <1>4, <1>5, <1>7 DEF SpuriousWakeup, Is

LEMMA PrimitiveTaken ==
  ASSUME UserInv, MadeInv, PrimitiveInv, ByPrimitive, NEW t \in use.threads,
         pc[t] = "enter", TakePrimitive(t), Obtain(t)
  PROVE  UserInv' /\ MadeInv' /\ PrimitiveInv' /\ [Abstract!Next]_Held
<1>1. /\ t \in Threads /\ lock \in Fields /\ lock.primitive \in Int /\ level[t] \in Nat
      /\ mode' = mode /\ use' = use /\ defined' = defined
  BY LocksAssumption DEF UserInv, UserTyped, Fields, Obtain
<1>2. level[t] > 0 => t \in Holders /\ mode[t] = "write"
  BY <1>1 DEF UserInv, Behaves, Holders
<1>3. level[t] = 0 => t \notin Holders
  BY <1>1 DEF Holders
<1>4. /\ lock' \in Fields /\ SameFlags
      /\ \/ lock'.primitive = lock.primitive /\ t \in Holders
         \/ /\ mode[t] = "read" /\ lock.primitive >= 0 /\ t \notin Holders
            /\ lock'.primitive = lock.primitive + 1
         \/ /\ mode[t] = "write" /\ lock.primitive = 0 /\ t \notin Holders
            /\ lock'.primitive = -1
  <2>1. CASE mode[t] = "read" /\ lock.primitive >= 0
                /\ lock' = [lock EXCEPT !.primitive = @ + 1]
    <3>1. lock.primitive + 1 \in Int
      BY <1>1
    <3>2. lock' = [lock EXCEPT !.primitive = lock.primitive + 1]
      BY <2>1
    <3>3. lock' \in Fields
      BY <1>1, <3>1, <3>2, FieldsStay
    <3>4. SameFlags /\ lock'.primitive = lock.primitive + 1
      BY <1>1, <3>2 DEF SameFlags, Fields
    <3> QED
      BY <1>1, <1>2, <2>1, <3>3, <3>4 DEF Holders
  <2>2. CASE mode[t] = "write" /\ lock.primitive = 0 /\ lock' = [lock EXCEPT !.primitive = -1]
    <3>1. lock' \in Fields
      BY <1>1, <2>2, FieldsStay
    <3>2. SameFlags /\ lock'.primitive = -1
      BY <1>1, <2>2 DEF SameFlags, Fields
    <3>3. Holders = {}
      BY <2>2, WriterAgrees, <1>1 DEF PrimitiveInv
    <3> QED
      BY <1>1, <2>2, <3>1, <3>2, <3>3
  <2>3. CASE level[t] > 0 /\ lock' = lock
    BY <1>1, <1>2, <2>3 DEF SameFlags
  <2> QED
    BY <2>1, <2>2, <2>3 DEF TakePrimitive
<1>5. PrimitiveInv => Agrees(lock'.primitive, Holders \cup {t}, mode)
  <2>1. CASE t \in Holders
    <3>1. Holders \cup {t} = Holders
      BY <2>1
    <3> QED
      BY <1>4, <2>1, <3>1 DEF PrimitiveInv
  <2>2. CASE t \notin Holders
    BY <1>1, <1>4, <2>2, ReaderAgrees, WriterAgrees DEF PrimitiveInv
  <2> QED
    BY <2>1, <2>2
<1>6. level[t] = 0 =>
        \/ mode[t] = "read" /\ \A u \in Threads : level[u] > 0 => mode[u] = "read"
        \/ mode[t] = "write" /\ \A u \in Threads : level[u] = 0
  <2> SUFFICES ASSUME t \notin Holders
               PROVE  \/ mode[t] = "read" /\ \A u \in Threads : level[u] > 0 => mode[u] = "read"
                      \/ mode[t] = "write" /\ \A u \in Threads : level[u] = 0
    BY <1>3
  <2>1. CASE mode[t] = "read"
    <3>1. lock.primitive >= 0
      BY <1>4, <2>1
    <3>2. \A u \in Holders : mode[u] = "read"
      BY <3>1 DEF PrimitiveInv, Agrees
    <3> QED
      BY <2>1, <3>2 DEF Holders
  <2>2. CASE mode[t] = "write"
    <3>1. Holders = {}
      BY <1>1, <1>4, <2>2, WriterAgrees DEF PrimitiveInv
    <3>2. \A u \in Threads : level[u] \in Nat
      BY DEF UserInv, UserTyped
    <3> QED
      BY <2>2, <3>1, <3>2 DEF Holders
  <2> QED
    BY <1>4, <2>1, <2>2
<1>7. /\ UserInv' /\ [Abstract!Next]_Held /\ Holders' = Holders \cup {t}
      /\ \A u \in Threads \ {t} : pc'[u] = pc[u] /\ level'[u] = level[u]
      /\ pc'[t] = "in"
  BY <1>4, <1>6, GetsIn
<1>8. lock.initialized
  BY <1>1 DEF MadeInv, Early, Making
<1>9. MadeInv'
  BY <1>4, <1>7, <1>8, MadeStays DEF Making
<1>10. PrimitiveInv'
  BY <1>1, <1>5, <1>7 DEF PrimitiveInv
<1> QED
  BY <1>7, <1>9, <1>10

LEMMA PrimitiveDropped ==
  ASSUME UserInv, MadeInv, PrimitiveInv, ByPrimitive, NEW t \in use.threads,
         pc[t] = "in", DropPrimitive(t), Leave(t)
  PROVE  UserInv' /\ MadeInv' /\ PrimitiveInv' /\ [Abstract!Next]_Held
<1>1. /\ t \in Threads /\ lock \in Fields /\ lock.primitive \in Int /\ level[t] \in Nat
      /\ mode' = mode /\ use' = use /\ defined' = defined /\ level[t] > 0
  BY LocksAssumption DEF UserInv, UserTyped, Behaves, Fields, Leave
<1>2. t \in Holders
  BY <1>1 DEF Holders
<1>3. lock.primitive > 0 => level[t] = 1
  BY <1>1, <1>2 DEF PrimitiveInv, Agrees, UserInv, Behaves
<1>4. /\ lock' \in Fields /\ SameFlags
      /\ \/ lock'.primitive = lock.primitive /\ level[t] > 1
         \/ /\ lock'.primitive = (IF lock.primitive < 0 THEN 0 ELSE lock.primitive - 1)
            /\ level[t] = 1
  <2>1. CASE lock.primitive > 0 /\ lock' = [lock EXCEPT !.primitive = @ - 1]
    <3>1. lock.primitive - 1 \in Int
      BY <1>1
    <3>2. lock' = [lock EXCEPT !.primitive = lock.primitive - 1]
      BY <2>1
    <3>3. lock' \in Fields
      BY <1>1, <3>1, <3>2, FieldsStay
    <3>4. SameFlags /\ lock'.primitive = lock.primitive - 1
      BY <1>1, <3>2 DEF SameFlags, Fields
    <3> QED
      BY <1>1, <1>3, <2>1, <3>3, <3>4
  <2>2. CASE lock.primitive = -1 /\ level[t] = 1 /\ lock' = [lock EXCEPT !.primitive = 0]
    <3>1. lock' \in Fields
      BY <1>1, <2>2, FieldsStay
    <3>2. SameFlags /\ lock'.primitive = 0
      BY <1>1, <2>2 DEF SameFlags, Fields
    <3> QED
      BY <2>2, <3>1, <3>2
  <2>3. CASE level[t] > 1 /\ lock' = lock
    BY <1>1, <2>3 DEF SameFlags
  <2> QED
    BY <2>1, <2>2, <2>3 DEF DropPrimitive
<1>5. /\ UserInv' /\ [Abstract!Next]_Held
      /\ Holders' = IF level[t] = 1 THEN Holders \ {t} ELSE Holders
      /\ \A u \in Threads \ {t} : pc'[u] = pc[u] /\ level'[u] = level[u]
      /\ pc'[t] = (IF level[t] = 1 THEN "out" ELSE "in")
  BY <1>1, <1>4, GivesBack
<1>6. PrimitiveInv'
  <2>1. Agrees(IF lock.primitive < 0 THEN 0 ELSE lock.primitive - 1, Holders \ {t}, mode)
    BY <1>2, OneLessAgrees DEF PrimitiveInv
  <2> QED
    BY <1>1, <1>4, <1>5, <2>1 DEF PrimitiveInv
<1>7. lock.initialized
  BY <1>1 DEF MadeInv, Early, Making
<1>8. MadeInv'
  BY <1>4, <1>5, <1>7, MadeStays DEF Making
<1> QED
  BY <1>5, <1>6, <1>8

LEMMA PrimitiveStays ==
  ASSUME UserInv, MadeInv, ByPrimitive, PrimitiveInv, Next
  PROVE  UserInv' /\ MadeInv' /\ PrimitiveInv' /\ [Abstract!Next]_Held
<1>1. ASSUME NEW t \in use.threads, NEW md \in use.modes, Call(t, md)
      PROVE  UserInv' /\ MadeInv' /\ PrimitiveInv' /\ [Abstract!Next]_Held
  <2>1. /\ UserInv' /\ Held' = Held /\ Holders' = Holders /\ lock' = lock
        /\ \A u \in Threads \ {t} : mode'[u] = mode[u]
        /\ level[t] > 0 => mode'[t] = mode[t]
    BY <1>1, Comes
  <2>2. \A u \in Holders : mode'[u] = mode[u]
    BY <2>1 DEF Holders
  <2>3. PrimitiveInv'
    BY <2>1, <2>2, SameAgrees DEF PrimitiveInv
  <2> QED
    BY <1>1, <2>1, <2>3, ComesMade
<1>2. ASSUME NEW t \in use.threads, Acquires(t) \/ Unlocks(t) \/ SpuriousWakeup(t)
      PROVE  UserInv' /\ MadeInv' /\ PrimitiveInv' /\ [Abstract!Next]_Held
  <2>1. CASE pc[t] = "enter" /\ TakePrimitive(t) /\ Obtain(t)
    BY <2>1, PrimitiveTaken
  <2>2. CASE pc[t] = "in" /\ DropPrimitive(t) /\ Leave(t)
    BY <2>2, PrimitiveDropped
  <2>3. CASE MakingStep(t)
    <3>1. UserInv' /\ MadeInv' /\ Apart(t)
      BY <2>3, MakingApart
    <3>2. ~ lock.initialized => Holders = {}
      BY DEF MadeInv, Holders
    <3>3. PrimitiveInv'
      BY <3>1, <3>2, NobodyAgrees DEF PrimitiveInv, Apart
    <3> QED
      BY <3>1, <3>3 DEF Apart
  <2> QED
    BY <1>2, <2>1, <2>2, <2>3, PrimitiveNext
<1>3. CASE Redefines
  <2>1. UserInv' /\ MadeInv' /\ Redone
    BY <1>3, RedefinesRedone
  <2>2. PrimitiveInv'
    BY <2>1, NobodyAgrees DEF PrimitiveInv, Redone, SameUse, Cleared
  <2> QED
    BY <2>1, <2>2 DEF Redone
<1> QED
  BY <1>1, <1>2, <1>3 DEF Next
-----------------------------------------------------------------------------
(***************************************************************************)
(* The read-write lock made of a mutex and two conditions.                 *)
(***************************************************************************)
WaitingWriters == {t \in Threads : mode[t] = "write" /\ pc[t] \in {"asleep", "woken"}}

CondsInv ==
  /\ Agrees(lock.runcount, Holders, mode)
  /\ lock.waiting_writers_count = Cardinality(WaitingWriters)

LEMMA CondsTaken ==
  ASSUME UserInv, MadeInv, CondsInv, Is("rwlock", "conds"), NEW t \in use.threads,
         CondsRdlock(t) \/ CondsWrlock(t)
  PROVE  UserInv' /\ MadeInv' /\ CondsInv' /\ [Abstract!Next]_Held
<1>1. /\ t \in Threads /\ lock \in Fields /\ lock.runcount \in Int /\ level[t] \in Nat
      /\ lock.initialized /\ pc[t] \in {"enter", "woken"}
      /\ WaitingWriters \in SUBSET Threads
  BY LocksAssumption DEF UserInv, UserTyped, Fields, MadeInv, Is, CondsRdlock, CondsWrlock,
     WaitingWriters
<1>2. level[t] = 0 /\ t \notin Holders
  BY <1>1 DEF UserInv, Behaves, Is, Holders
<1>3. Cardinality(WaitingWriters) \in Nat
  BY <1>1, Counts
<1>4. CASE /\ mode[t] = "read" /\ lock.runcount + 1 > 0 /\ Obtain(t)
           /\ lock' = [lock EXCEPT !.runcount = @ + 1]
  <2>1. lock.runcount + 1 \in Int /\ lock.runcount >= 0
    BY <1>1, <1>4
  <2>2. lock' = [lock EXCEPT !.runcount = lock.runcount + 1]
    BY <1>4
  <2>3. lock' \in Fields
    BY <1>1, <2>1, <2>2, FieldsStay
  <2>4. /\ lock'.runcount = lock.runcount + 1 /\ SameFlags /\ use' = use /\ mode' = mode
        /\ lock'.waiting_writers_count = lock.waiting_writers_count
    BY <1>1, <1>4, <2>2 DEF Fields, SameFlags, Obtain
  <2>5. /\ Agrees(lock.runcount + 1, Holders \cup {t}, mode)
        /\ \A u \in Holders : mode[u] = "read"
    BY <1>1, <1>2, <1>4, <2>1, ReaderAgrees DEF CondsInv
  <2>6. /\ UserInv' /\ [Abstract!Next]_Held /\ Holders' = Holders \cup {t}
        /\ \A u \in Threads \ {t} : pc'[u] = pc[u] /\ level'[u] = level[u]
        /\ pc'[t] = "in"
    BY <1>1, <1>4, <2>3, <2>5, GetsIn DEF Holders
  <2>7. MadeInv'
    BY <1>1, <2>4, <2>6, MadeStays DEF Making
  <2>8. WaitingWriters' = WaitingWriters
    BY <1>4, <2>4, <2>6 DEF WaitingWriters
  <2> QED
    BY <2>4, <2>5, <2>6, <2>7, <2>8 DEF CondsInv
<1>5. CASE mode[t] = "read" /\ Go(t, "asleep") /\ UNCHANGED <<lock, Locals>>
  <2>1. "asleep" \in Waits /\ Locals' = Locals /\ lock' = lock /\ use' = use /\ mode' = mode
        /\ defined' = defined /\ level' = level
    BY <1>5 DEF Waits, Places, Locals
  <2>2. /\ UserInv' /\ Held' = Held /\ Holders' = Holders
        /\ \A u \in Threads \ {t} : pc'[u] = pc[u]
        /\ pc'[t] = "asleep"
    BY <1>1, <1>5, <2>1, GoesOn
  <2>3. MadeInv'
    BY <1>1, <2>1, <2>2, MadeStays DEF Making, SameFlags
  <2>4. WaitingWriters' = WaitingWriters
    BY <1>5, <2>1, <2>2 DEF WaitingWriters
  <2> QED
    BY <2>1, <2>2, <2>3, <2>4 DEF CondsInv
<1>6. ASSUME mode[t] = "write"
      PROVE  lock.waiting_writers_count - (IF pc[t] = "woken" THEN 1 ELSE 0)
               = Cardinality(WaitingWriters \ {t})
             /\ Cardinality(WaitingWriters \ {t}) \in Nat
  <2>1. t \in WaitingWriters <=> pc[t] = "woken"
    BY <1>1, <1>6 DEF WaitingWriters
  <2>2. /\ Cardinality(WaitingWriters \ {t}) =
             IF t \in WaitingWriters THEN Cardinality(WaitingWriters) - 1
                                     ELSE Cardinality(WaitingWriters)
        /\ WaitingWriters \ {t} \in SUBSET Threads
    BY <1>1, Counts
  <2>3. Cardinality(WaitingWriters \ {t}) \in Nat
    BY <2>2, Counts
  <2> QED
    BY <1>3, <2>1, <2>2, <2>3 DEF CondsInv
<1> DEFINE others == lock.waiting_writers_count - (IF pc[t] = "woken" THEN 1 ELSE 0)
<1>7. CASE /\ mode[t] = "write" /\ lock.runcount = 0 /\ Obtain(t)
           /\ lock' = [lock EXCEPT !.waiting_writers_count = others, !.runcount = @ - 1]
  <2>1. others \in Int /\ others = Cardinality(WaitingWriters \ {t}) /\ -1 \in Int
    BY <1>6, <1>7
  <2> HIDE DEF others
  <2>2. lock' = [lock EXCEPT !.waiting_writers_count = others, !.runcount = -1]
    BY <1>7
  <2>3. lock' \in Fields
    BY <1>1, <2>1, <2>2, PairsStay
  <2>4. /\ lock'.runcount = -1 /\ SameFlags /\ use' = use /\ mode' = mode
        /\ lock'.waiting_writers_count = others
    BY <1>1, <1>7, <2>2 DEF Fields, SameFlags, Obtain
  <2>5. Agrees(-1, Holders \cup {t}, mode) /\ Holders = {}
    BY <1>1, <1>7, WriterAgrees DEF CondsInv
  <2>6. \A u \in Threads : level[u] = 0
    BY <2>5 DEF Holders, UserInv, UserTyped
  <2>7. /\ UserInv' /\ [Abstract!Next]_Held /\ Holders' = Holders \cup {t}
        /\ \A u \in Threads \ {t} : pc'[u] = pc[u] /\ level'[u] = level[u]
        /\ pc'[t] = "in"
    BY <1>1, <1>7, <2>3, <2>6, GetsIn
  <2>8. MadeInv'
    BY <1>1, <2>4, <2>7, MadeStays DEF Making
  <2>9. WaitingWriters' = WaitingWriters \ {t}
    BY <2>4, <2>7 DEF WaitingWriters
  <2> QED
    BY <2>1, <2>4, <2>5, <2>7, <2>8, <2>9 DEF CondsInv
<1>8. CASE /\ mode[t] = "write" /\ Go(t, "asleep") /\ UNCHANGED Locals
           /\ lock' = [lock EXCEPT !.waiting_writers_count = others + 1]
  <2>1. others + 1 \in Int /\ others = Cardinality(WaitingWriters \ {t})
    BY <1>6, <1>8
  <2> HIDE DEF others
  <2>2. lock' \in Fields
    BY <1>1, <1>8, <2>1, FieldsStay
  <2>3. /\ lock'.runcount = lock.runcount /\ SameFlags
        /\ lock'.waiting_writers_count = others + 1
        /\ "asleep" \in Waits /\ Locals' = Locals /\ use' = use /\ mode' = mode
    BY <1>1, <1>8 DEF Fields, SameFlags, Waits, Places, Locals
  <2>4. /\ UserInv' /\ Held' = Held /\ Holders' = Holders
        /\ \A u \in Threads \ {t} : pc'[u] = pc[u]
        /\ pc'[t] = "asleep" /\ level' = level
    BY <1>1, <1>8, <2>2, <2>3, GoesOn DEF Locals
  <2>5. MadeInv'
    BY <1>1, <2>3, <2>4, MadeStays DEF Making
  <2>6. WaitingWriters' = (WaitingWriters \ {t}) \cup {t}
    BY <1>1, <1>8, <2>3, <2>4 DEF WaitingWriters
  <2>7. Cardinality((WaitingWriters \ {t}) \cup {t}) = Cardinality(WaitingWriters \ {t}) + 1
    <3>1. WaitingWriters \ {t} \in SUBSET Threads /\ t \notin WaitingWriters \ {t}
      BY <1>1
    <3> QED
      BY <3>1, Counts
  <2> QED
    BY <2>1, <2>3, <2>4, <2>5, <2>6, <2>7 DEF CondsInv
<1> QED
  BY <1>4, <1>5, <1>7, <1>8 DEF CondsRdlock, CondsWrlock

LEMMA CondsGivenBack ==
  ASSUME UserInv, MadeInv, CondsInv, Is("rwlock", "conds"), NEW t \in use.threads,
         CondsUnlock(t)
  PROVE  UserInv' /\ MadeInv' /\ CondsInv' /\ [Abstract!Next]_Held
<1>1. /\ t \in Threads /\ lock \in Fields /\ lock.runcount \in Int /\ level[t] > 0
      /\ lock.initialized /\ pc[t] = "in" /\ use.kind = "rwlock"
  BY LocksAssumption DEF UserInv, UserTyped, Behaves, Fields, MadeInv, Is, CondsUnlock
<1>2. t \in Holders
  BY <1>1 DEF Holders
<1>3. lock.runcount # 0 /\ lock.runcount >= -1 /\ Agrees(Dropped, Holders \ {t}, mode)
  <2>1. Agrees(lock.runcount, Holders, mode)
    BY DEF CondsInv
  <2>2. /\ lock.runcount # 0
        /\ Agrees(IF lock.runcount < 0 THEN 0 ELSE lock.runcount - 1, Holders \ {t}, mode)
    BY <1>2, <2>1, OneLessAgrees
  <2>3. lock.runcount >= -1
    BY <2>1 DEF Agrees
  <2> QED
    BY <2>2, <2>3 DEF Dropped
<1>4. PICK woken \in CondsWoken : WakeAndLeave(t, woken)
  BY <1>1, <1>3 DEF CondsUnlock, Unlockable
<1>5. lock' = [lock EXCEPT !.runcount = Dropped] /\ Quits(t)
  BY <1>3 DEF CondsUnlock, Unlockable
<1>6. woken \in SUBSET (Asleep("read") \cup Asleep("write"))
  BY <1>4 DEF CondsWoken, OneOf
<1>7. Dropped \in Int
  BY <1>1 DEF Dropped
<1>8. lock' \in Fields
  BY <1>1, <1>5, <1>7, FieldsStay
<1>9. /\ lock'.runcount = Dropped /\ SameFlags /\ use' = use /\ mode' = mode
      /\ lock'.waiting_writers_count = lock.waiting_writers_count
  BY <1>1, <1>5 DEF Fields, SameFlags, Quits
<1>10. /\ UserInv' /\ [Abstract!Next]_Held /\ Holders' = Holders \ {t}
       /\ \A u \in Threads \ {t} :
            level'[u] = level[u] /\ pc'[u] = IF u \in woken THEN "woken" ELSE pc[u]
       /\ pc'[t] = "out" /\ level'[t] = 0
  BY <1>1, <1>4, <1>5, <1>6, <1>8, WakesOthers
<1>11. MadeInv'
  BY <1>1, <1>9, <1>10, MadeStays DEF Making
<1>12. WaitingWriters' = WaitingWriters
  BY <1>1, <1>6, <1>9, <1>10 DEF WaitingWriters, Asleep
<1> QED
  BY <1>3, <1>9, <1>10, <1>11, <1>12 DEF CondsInv

LEMMA CondsStays ==
  ASSUME UserInv, MadeInv, CondsInv, Is("rwlock", "conds"), Next
  PROVE  UserInv' /\ MadeInv' /\ CondsInv' /\ [Abstract!Next]_Held
<1>1. ASSUME NEW t \in use.threads, NEW md \in use.modes, Call(t, md)
      PROVE  UserInv' /\ MadeInv' /\ CondsInv' /\ [Abstract!Next]_Held
  <2>1. /\ UserInv' /\ Held' = Held /\ Holders' = Holders /\ lock' = lock
        /\ \A u \in Threads \ {t} : mode'[u] = mode[u] /\ pc'[u] = pc[u]
        /\ level[t] > 0 => mode'[t] = mode[t]
        /\ pc'[t] = Entry /\ pc[t] \in {"in", "out"}
    BY <1>1, Comes
  <2>2. \A u \in Holders : mode'[u] = mode[u]
    BY <2>1 DEF Holders
  <2>3. WaitingWriters' = WaitingWriters
    BY <2>1 DEF WaitingWriters, Entry
  <2>4. CondsInv'
    BY <2>1, <2>2, <2>3, SameAgrees DEF CondsInv
  <2> QED
    BY <1>1, <2>1, <2>4, ComesMade
<1>2. ASSUME NEW t \in use.threads, SpuriousWakeup(t)
      PROVE  UserInv' /\ MadeInv' /\ CondsInv' /\ [Abstract!Next]_Held
  <2>1. /\ pc[t] = "asleep" /\ Go(t, "woken") /\ lock' = lock /\ Locals' = Locals
        /\ "woken" \in Waits /\ lock \in Fields /\ lock.initialized
        /\ use' = use /\ mode' = mode /\ level' = level /\ defined' = defined
    BY <1>2 DEF SpuriousWakeup, Locals, Waits, Places, UserInv, UserTyped, MadeInv, Is
  <2>2. /\ UserInv' /\ Held' = Held /\ Holders' = Holders
        /\ \A u \in Threads \ {t} : pc'[u] = pc[u]
        /\ pc'[t] = "woken"
    BY <2>1, GoesOn
  <2>3. MadeInv'
    BY <2>1, <2>2, MadeStays DEF Making, SameFlags
  <2>4. WaitingWriters' = WaitingWriters
    BY <2>1, <2>2 DEF WaitingWriters
  <2> QED
    BY <2>1, <2>2, <2>3, <2>4 DEF CondsInv
<1>3. ASSUME NEW t \in use.threads, Acquires(t) \/ Unlocks(t)
      PROVE  CondsRdlock(t) \/ CondsWrlock(t) \/ CondsUnlock(t)
  BY <1>3 DEF Is, Acquires, AbsentLock, NativeLock, Native, LazyRwlockInit, LazyRwlockRdlock,
     LazyRwlockWrlock, LazyRecursiveInit, LazyRecursiveLock, OwnerLock, Win32LockInit,
     Win32Lock, Win32RwlockInit, Win32Rdlock, Win32Wrlock, Win32RecursiveInit,
     Win32RecursiveLock, Unlocks, AbsentUnlock, NativeUnlock, LazyRwlockUnlock,
     LazyRecursiveUnlock, OwnerUnlock, Win32Unlock, Win32RwUnlock, Win32RecursiveUnlock
<1>4. CASE Redefines
  <2>1. UserInv' /\ MadeInv' /\ Redone
    BY <1>4, RedefinesRedone
  <2>2. \/ SameUse /\ WaitingWriters' = WaitingWriters
        \/ /\ lock'.runcount = 0 /\ lock'.waiting_writers_count = 0 /\ Holders = {}
           /\ WaitingWriters' = {}
    BY <2>1 DEF Redone, Cleared, WaitingWriters
  <2>3. CondsInv'
    BY <2>1, <2>2, NobodyAgrees, FS_EmptySet DEF CondsInv, Redone, SameUse
  <2> QED
    BY <2>1, <2>3 DEF Redone
<1> QED
  BY <1>1, <1>2, <1>3, <1>4, CondsTaken, CondsGivenBack DEF Next
-----------------------------------------------------------------------------
(***************************************************************************)
(* The recursive lock made of a mutex and its owner's name.                *)
(***************************************************************************)
Has(t) == level[t] > 0 \/ pc[t] \in {"own", "count", "disown"}

Owns(t) ==
  /\ Has(t) => lock.primitive = -1 /\ \A u \in Threads : Has(u) => u = t
  /\ lock.owner = t => Has(t) /\ lock.depth = level[t]
  /\ level[t] > 0 /\ pc[t] # "disown" => lock.owner = t
  /\ pc[t] = "count" => lock.owner = t
  /\ pc[t] \in {"own", "disown"} => lock.owner = None
  /\ pc[t] \in {"own", "mutex"} => level[t] = 0
  /\ pc[t] = "disown" => level[t] = 1

OwnerInv ==
  /\ lock.owner = None => lock.depth = 0
  /\ \A t \in Threads : Owns(t)

(* Steps that are not about the owner.                                      *)
LEMMA OwnerKept ==
  ASSUME UserInv, OwnerInv, level' = level,
         lock'.owner = lock.owner, lock'.depth = lock.depth,
         lock'.primitive = lock.primitive,
         \A u \in Threads :
           \/ pc'[u] = pc[u]
           \/ {pc[u], pc'[u]} \cap {"own", "count", "disown", "mutex"} = {}
  PROVE  OwnerInv'
<1>1. ASSUME NEW u \in Threads, NEW place \in {"own", "count", "disown", "mutex"}
      PROVE  pc'[u] = place <=> pc[u] = place
  BY <1>1
<1>2. ASSUME NEW u \in Threads  PROVE Has(u)' <=> Has(u)
  BY <1>1, <1>2 DEF Has
<1>3. ASSUME NEW u \in Threads  PROVE Owns(u)'
  <2>1. Owns(u)
    BY <1>3 DEF OwnerInv
  <2>2. Has(u)' => lock'.primitive = -1 /\ \A v \in Threads : Has(v)' => v = u
    BY <1>2, <2>1 DEF Owns
  <2> QED
    BY <1>1, <1>2, <2>1, <2>2 DEF Owns
<1> QED
  BY <1>3 DEF OwnerInv

LEMMA OwnerNext ==
  ASSUME UserInv, MadeInv, ByOwner, NEW t \in use.threads,
         Acquires(t) \/ Unlocks(t) \/ SpuriousWakeup(t)
  PROVE  MakingStep(t) \/ RecursiveLock(t) \/ RecursiveUnlock(t)
<1>1. use.kind = "recursive" /\ use.style \in {"owner", "win32"}
  BY DEF ByOwner, Is
<1>2. ASSUME Acquires(t)  PROVE MakingStep(t) \/ RecursiveLock(t)
  BY <1>1, <1>2 DEF Acquires, Is, AbsentLock, NativeLock, Native, LazyRwlockInit,
     LazyRwlockRdlock, LazyRwlockWrlock, LazyRecursiveInit, LazyRecursiveLock, CondsRdlock,
     CondsWrlock, OwnerLock, Win32LockInit, Win32Lock, Win32RwlockInit, Win32Rdlock,
     Win32Wrlock, Win32RecursiveLock, MakingStep
<1>3. ASSUME Unlocks(t)  PROVE RecursiveUnlock(t)
  BY <1>1, <1>3 DEF Unlocks, Is, AbsentUnlock, NativeUnlock, Native, LazyRwlockUnlock,
     LazyRecursiveUnlock, CondsUnlock, OwnerUnlock, Win32Unlock, Win32RwUnlock,
     Win32RecursiveUnlock
<1> QED
  BY <1>1, <1>2, <1>3 DEF SpuriousWakeup, Is

LEMMA OwnerTaken ==
  ASSUME UserInv, MadeInv, OwnerInv, ByOwner, NEW t \in use.threads, RecursiveLock(t)
  PROVE  UserInv' /\ MadeInv' /\ OwnerInv' /\ [Abstract!Next]_Held
<1>1. /\ t \in Threads /\ lock \in Fields /\ lock.depth \in Int /\ use.kind = "recursive"
      /\ None \notin Threads /\ lock.owner \in Threads \cup {None}
      /\ \A u \in Threads : level[u] \in Nat /\ mode[u] = "write"
  BY LocksAssumption DEF UserInv, UserTyped, Behaves, Fields, ByOwner, Is
<1>2. pc[t] \in {"owner", "mutex", "own", "count"}
  BY DEF RecursiveLock, TestOwner, TakeMutex, SetOwner, CountDepth
<1>3. lock.initialized
  BY <1>1, <1>2 DEF MadeInv, Early, Making
<1>4. ASSUME NEW place \in Waits \ {"init", "publish", "spin", "guard"}, Go(t, place),
             Locals' = Locals, lock' \in Fields, SameFlags
      PROVE  /\ UserInv' /\ MadeInv' /\ Held' = Held /\ level' = level
             /\ \A u \in Threads \ {t} : pc'[u] = pc[u]
             /\ pc'[t] = place
  <2>1. /\ UserInv' /\ Held' = Held /\ level' = level
        /\ \A u \in Threads \ {t} : pc'[u] = pc[u]
        /\ pc'[t] = place
    BY <1>2, <1>4, GoesOn DEF Locals
  <2> QED
    BY <1>3, <1>4, <2>1, MadeStays DEF Making
<1>5. CASE TestOwner(t)
  <2> DEFINE place == IF lock.owner # t THEN "mutex" ELSE "count"
  <2>1. /\ pc[t] = "owner" /\ Go(t, place) /\ lock' = lock /\ Locals' = Locals
        /\ place \in Waits \ {"init", "publish", "spin", "guard"} /\ SameFlags
    BY <1>5 DEF TestOwner, Locals, SameFlags, Waits, Places
  <2>2. place = "mutex" => level[t] = 0
    BY <1>1, <2>1 DEF OwnerInv, Owns
  <2>3. place = "count" => lock.owner = t
    OBVIOUS
  <2>4. place = "mutex" \/ place = "count"
    OBVIOUS
  <2> HIDE DEF place
  <2>5. /\ UserInv' /\ MadeInv' /\ Held' = Held /\ level' = level
        /\ \A u \in Threads \ {t} : pc'[u] = pc[u]
        /\ pc'[t] = place
    BY <1>1, <1>4, <2>1
  <2>6. \A u \in Threads : Has(u)' = Has(u)
    BY <1>1, <2>1, <2>2, <2>3, <2>4, <2>5 DEF Has, OwnerInv, Owns
  <2>7. OwnerInv'
    BY <1>1, <2>1, <2>2, <2>3, <2>4, <2>5, <2>6 DEF OwnerInv, Owns
  <2> QED
    BY <2>5, <2>7
<1>6. CASE TakeMutex(t)
  <2>1. /\ pc[t] = "mutex" /\ lock.primitive = 0 /\ Go(t, "own") /\ Locals' = Locals
        /\ lock' = [lock EXCEPT !.primitive = -1]
        /\ "own" \in Waits \ {"init", "publish", "spin", "guard"}
        /\ use' = use /\ defined' = defined /\ -1 \in Int
    BY <1>6 DEF TakeMutex, Locals, Waits, Places
  <2>2. lock' \in Fields
    BY <1>1, <2>1, FieldsStay
  <2>3. /\ SameFlags /\ lock'.primitive = -1 /\ lock'.owner = lock.owner
        /\ lock'.depth = lock.depth
    BY <1>1, <2>1 DEF Fields, SameFlags
  <2>4. /\ UserInv' /\ MadeInv' /\ Held' = Held /\ level' = level
        /\ \A u \in Threads \ {t} : pc'[u] = pc[u]
        /\ pc'[t] = "own"
    BY <1>4, <2>1, <2>2, <2>3
  <2>5. \A u \in Threads : ~ Has(u) /\ lock.owner # u
    BY <2>1 DEF OwnerInv, Owns
  <2>6. \A u \in Threads : Has(u)' <=> u = t
    BY <1>1, <2>4, <2>5 DEF Has
  <2>7. OwnerInv'
    BY <1>1, <2>1, <2>3, <2>4, <2>5, <2>6 DEF OwnerInv, Owns, Has
  <2> QED
    BY <2>4, <2>7
<1>7. CASE SetOwner(t)
  <2>1. /\ pc[t] = "own" /\ Go(t, "count") /\ Locals' = Locals
        /\ lock' = [lock EXCEPT !.owner = t]
        /\ "count" \in Waits \ {"init", "publish", "spin", "guard"}
        /\ use' = use /\ defined' = defined
    BY <1>7 DEF SetOwner, Locals, Waits, Places
  <2>2. lock' \in Fields
    BY <1>1, <2>1, FieldsStay
  <2>3. /\ SameFlags /\ lock'.primitive = lock.primitive /\ lock'.owner = t
        /\ lock'.depth = lock.depth
    BY <1>1, <2>1 DEF Fields, SameFlags
  <2>4. /\ UserInv' /\ MadeInv' /\ Held' = Held /\ level' = level
        /\ \A u \in Threads \ {t} : pc'[u] = pc[u]
        /\ pc'[t] = "count"
    BY <1>4, <2>1, <2>2, <2>3
  <2>5. \A u \in Threads : Has(u)' <=> Has(u)
    BY <1>1, <2>1, <2>4 DEF Has
  <2>6. level[t] = 0 /\ lock.depth = 0 /\ Has(t) /\ \A u \in Threads : Has(u) => u = t
    BY <1>1, <2>1 DEF OwnerInv, Owns, Has
  <2>7. OwnerInv'
    BY <1>1, <2>1, <2>3, <2>4, <2>5, <2>6 DEF OwnerInv, Owns, Has
  <2> QED
    BY <2>4, <2>7
<1>8. CASE CountDepth(t)
  <2>1. pc[t] = "count" /\ lock' = [lock EXCEPT !.depth = lock.depth + 1] /\ Obtain(t)
    BY <1>8 DEF CountDepth
  <2>2. lock.depth + 1 \in Int
    BY <1>1
  <2>3. lock' \in Fields
    BY <1>1, <2>1, <2>2, FieldsStay
  <2>4. /\ SameFlags /\ lock'.primitive = lock.primitive /\ lock'.owner = lock.owner
        /\ lock'.depth = lock.depth + 1
    BY <1>1, <2>1 DEF Fields, SameFlags, Obtain
  <2>5. /\ Has(t) /\ lock.owner = t /\ lock.depth = level[t]
        /\ \A u \in Threads : Has(u) => u = t
    BY <1>1, <2>1 DEF OwnerInv, Owns, Has
  <2>6. level[t] = 0 => \A u \in Threads : level[u] = 0
    BY <1>1, <2>5 DEF Has
  <2>7. /\ UserInv' /\ [Abstract!Next]_Held
        /\ \A u \in Threads \ {t} : pc'[u] = pc[u] /\ level'[u] = level[u]
        /\ pc'[t] = "in" /\ level'[t] = level[t] + 1
    BY <1>1, <2>1, <2>3, <2>6, GetsIn
  <2>8. MadeInv'
    BY <1>3, <2>4, <2>7, MadeStays DEF Making
  <2>9. \A u \in Threads : Has(u)' <=> Has(u)
    BY <1>1, <2>5, <2>7 DEF Has
  <2>10. OwnerInv'
    BY <1>1, <2>4, <2>5, <2>7, <2>9 DEF OwnerInv, Owns
  <2> QED
    BY <2>7, <2>8, <2>10
<1> QED
  BY <1>5, <1>6, <1>7, <1>8 DEF RecursiveLock

LEMMA OwnerGivenBack ==
  ASSUME UserInv, MadeInv, OwnerInv, ByOwner, NEW t \in use.threads, RecursiveUnlock(t)
  PROVE  UserInv' /\ MadeInv' /\ OwnerInv' /\ [Abstract!Next]_Held
<1>1. /\ t \in Threads /\ lock \in Fields /\ lock.depth \in Int /\ use.kind = "recursive"
      /\ None \notin Threads /\ lock.owner \in Threads \cup {None}
      /\ \A u \in Threads : level[u] \in Nat
  BY LocksAssumption DEF UserInv, UserTyped, Behaves, Fields, ByOwner, Is
<1>2. pc[t] \in {"in", "disown"}
  BY DEF RecursiveUnlock
<1>3. lock.initialized /\ level[t] > 0
  BY <1>1, <1>2 DEF MadeInv, Early, Making, UserInv, Behaves, OwnerInv, Owns
<1>4. Has(t) /\ \A u \in Threads : Has(u) => u = t
  BY <1>1, <1>3 DEF Has, OwnerInv, Owns
<1>5. pc[t] = "in" => lock.owner = t /\ lock.depth = level[t]
  BY <1>1, <1>3 DEF OwnerInv, Owns
<1>6. CASE /\ pc[t] = "in" /\ lock.depth > 1 /\ Leave(t)
           /\ lock' = [lock EXCEPT !.depth = @ - 1]
  <2>1. lock' = [lock EXCEPT !.depth = lock.depth - 1] /\ lock.depth - 1 \in Int
    BY <1>1, <1>6
  <2>2. lock' \in Fields
    BY <1>1, <2>1, FieldsStay
  <2>3. /\ SameFlags /\ lock'.primitive = lock.primitive /\ lock'.owner = lock.owner
        /\ lock'.depth = lock.depth - 1
    BY <1>1, <1>6, <2>1 DEF Fields, SameFlags, Leave
  <2>4. /\ UserInv' /\ [Abstract!Next]_Held
        /\ \A u \in Threads \ {t} : pc'[u] = pc[u] /\ level'[u] = level[u]
        /\ pc'[t] = "in" /\ level'[t] = level[t] - 1
    BY <1>1, <1>3, <1>5, <1>6, <2>2, GivesBack
  <2>5. MadeInv'
    BY <1>3, <2>3, <2>4, MadeStays DEF Making
  <2>6. level[t] - 1 > 0
    BY <1>1, <1>5, <1>6
  <2>7. \A u \in Threads : Has(u)' <=> Has(u)
    BY <1>1, <1>4, <2>4, <2>6 DEF Has
  <2>8. OwnerInv'
    BY <1>1, <1>4, <1>5, <1>6, <2>3, <2>4, <2>7 DEF OwnerInv, Owns
  <2> QED
    BY <2>4, <2>5, <2>8
<1>7. CASE /\ pc[t] = "in" /\ lock.depth = 1 /\ Go(t, "disown") /\ UNCHANGED Locals
           /\ lock' = [lock EXCEPT !.depth = 0, !.owner = None]
  <2>1. 0 \in Int /\ None \in Threads \cup {None}
    OBVIOUS
  <2>2. lock' \in Fields
    BY <1>1, <1>7, <2>1, PairsStay
  <2>3. /\ SameFlags /\ lock'.primitive = lock.primitive /\ lock'.owner = None
        /\ lock'.depth = 0 /\ level' = level /\ mode' = mode /\ use' = use
        /\ aborted' = aborted /\ defined' = defined /\ pc' = [pc EXCEPT ![t] = "disown"]
    BY <1>1, <1>7 DEF Fields, SameFlags, Locals, Go
  <2>4. \A u \in Threads : pc'[u] = IF u = t THEN "disown" ELSE pc[u]
    BY <1>1, <2>3 DEF UserInv, UserTyped
  <2>5. UserInv'
    <3>1. UserTyped'
      BY <1>1, <2>2, <2>3 DEF UserInv, UserTyped, Places
    <3>2. \A u \in Threads : Behaves(u)'
      BY <1>1, <1>7, <2>3, <2>4 DEF UserInv, Behaves
    <3> QED
      BY <2>3, <3>1, <3>2 DEF UserInv
  <2>6. Held' = Held
    BY <2>3 DEF Held
  <2>7. MadeInv'
    BY <1>3, <2>3, <2>4, MadeStays DEF Making
  <2>8. \A u \in Threads : Has(u)' <=> Has(u)
    BY <1>1, <1>4, <2>3, <2>4 DEF Has
  <2>9. OwnerInv'
    BY <1>1, <1>3, <1>4, <1>5, <1>7, <2>3, <2>4, <2>8 DEF OwnerInv, Owns, Has
  <2> QED
    BY <2>5, <2>6, <2>7, <2>9
<1>8. CASE /\ pc[t] = "disown" /\ Leave(t) /\ lock' = [lock EXCEPT !.primitive = 0]
  <2>1. lock' \in Fields
    BY <1>1, <1>8, FieldsStay
  <2>2. /\ SameFlags /\ lock'.primitive = 0 /\ lock'.owner = lock.owner
        /\ lock'.depth = lock.depth
    BY <1>1, <1>8 DEF Fields, SameFlags, Leave
  <2>3. level[t] = 1 /\ lock.owner = None
    BY <1>1, <1>8 DEF OwnerInv, Owns
  <2>4. /\ UserInv' /\ [Abstract!Next]_Held
        /\ \A u \in Threads \ {t} : pc'[u] = pc[u] /\ level'[u] = level[u]
        /\ pc'[t] = "out" /\ level'[t] = 0
    BY <1>1, <1>3, <1>8, <2>1, <2>3, GivesBack
  <2>5. MadeInv'
    BY <1>3, <2>2, <2>4, MadeStays DEF Making
  <2>6. \A u \in Threads : ~ Has(u)'
    BY <1>1, <1>4, <2>4 DEF Has
  <2>7. OwnerInv'
    BY <1>1, <2>2, <2>3, <2>4, <2>6 DEF OwnerInv, Owns, Has
  <2> QED
    BY <2>4, <2>5, <2>7
<1> QED
  BY <1>1, <1>3, <1>5, <1>6, <1>7, <1>8 DEF RecursiveUnlock

LEMMA OwnerStays ==
  ASSUME UserInv, MadeInv, ByOwner, OwnerInv, Next
  PROVE  UserInv' /\ MadeInv' /\ OwnerInv' /\ [Abstract!Next]_Held
<1>1. ASSUME NEW t \in use.threads, NEW md \in use.modes, Call(t, md)
      PROVE  UserInv' /\ MadeInv' /\ OwnerInv' /\ [Abstract!Next]_Held
  <2>1. /\ UserInv' /\ Held' = Held /\ lock' = lock /\ level' = level
        /\ \A u \in Threads \ {t} : pc'[u] = pc[u]
        /\ pc'[t] = Entry /\ pc[t] \in {"in", "out"}
    BY <1>1, Comes
  <2>2. Entry \in {"test", "owner", "enter"}
    BY DEF Entry
  <2>3. OwnerInv'
    BY <2>1, <2>2, OwnerKept
  <2> QED
    BY <1>1, <2>1, <2>3, ComesMade
<1>2. ASSUME NEW t \in use.threads, MakingStep(t)
      PROVE  UserInv' /\ MadeInv' /\ OwnerInv' /\ [Abstract!Next]_Held
  <2>1. UserInv' /\ MadeInv' /\ Apart(t)
    BY <1>2, MakingApart
  <2>2. CASE /\ lock'.primitive = lock.primitive /\ lock'.owner = lock.owner
             /\ lock'.depth = lock.depth
    BY <2>1, <2>2, OwnerKept DEF Apart, Early, Making
  <2>3. CASE ~ lock.initialized
    <3>1. \A u \in Threads : /\ level'[u] = 0
                             /\ pc'[u] \notin {"own", "count", "disown", "mutex"}
      BY <2>1, <2>3 DEF MadeInv, Apart, Early, Making
    <3>2. \A u \in Threads : ~ Has(u) /\ lock.owner # u
      BY <2>3 DEF MadeInv, Early, Making, OwnerInv, Owns, Has
    <3>3. lock'.owner = None /\ lock'.depth = 0
      BY <2>1, <3>2, LocksAssumption
         DEF Apart, OwnerInv, UserInv, UserTyped, Fields
    <3> QED
      BY <2>1, <3>1, <3>3, LocksAssumption DEF OwnerInv, Owns, Has, Apart
  <2> QED
    BY <2>1, <2>2, <2>3 DEF Apart
<1>3. CASE Redefines
  <2>1. UserInv' /\ MadeInv' /\ Redone
    BY <1>3, RedefinesRedone
  <2>2. CASE SameUse
    BY <2>1, <2>2, OwnerKept DEF Redone, SameUse
  <2>3. CASE Cleared /\ Holders = {} /\ \A t \in Threads : pc[t] = "out"
    <3>1. \A u \in Threads : pc'[u] = "out" /\ level'[u] = 0
      BY <2>1, <2>3 DEF Redone, UserInv, Behaves
    <3> QED
      BY <2>1, <2>3, <3>1, LocksAssumption DEF OwnerInv, Owns, Has, Cleared, Redone
  <2> QED
    BY <2>1, <2>2, <2>3 DEF Redone
<1>4. ASSUME NEW t \in use.threads, Acquires(t) \/ Unlocks(t) \/ SpuriousWakeup(t)
      PROVE  UserInv' /\ MadeInv' /\ OwnerInv' /\ [Abstract!Next]_Held
  BY <1>2, <1>4, OwnerNext, OwnerTaken, OwnerGivenBack
<1> QED
  BY <1>1, <1>3, <1>4 DEF Next
-----------------------------------------------------------------------------
(***************************************************************************)
(* The Win32 read-write lock: whom an unlock wakes holds it already.       *)
(***************************************************************************)
Granted == {t \in Threads : level[t] > 0 \/ pc[t] = "woken"}

QueuesInv ==
  /\ Agrees(lock.runcount, Granted, mode)
  /\ Keeps(lock.waiting_readers, Asleep("read"))
  /\ Keeps(lock.waiting_writers, Asleep("write"))

LEMMA QueuesNext ==
  ASSUME Is("rwlock", "win32"), NEW t \in use.threads,
         Acquires(t) \/ Unlocks(t) \/ SpuriousWakeup(t)
  PROVE  MakingStep(t) \/ Win32Rdlock(t) \/ Win32Wrlock(t) \/ Win32RwUnlock(t)
<1>1. ASSUME Acquires(t)  PROVE MakingStep(t) \/ Win32Rdlock(t) \/ Win32Wrlock(t)
  BY <1>1 DEF Acquires, Is, AbsentLock, NativeLock, Native, LazyRwlockInit,
     LazyRwlockRdlock, LazyRwlockWrlock, LazyRecursiveInit, LazyRecursiveLock, CondsRdlock,
     CondsWrlock, OwnerLock, Win32LockInit, Win32Lock, Win32RwlockInit, Win32Initialize,
     Win32RecursiveInit, Win32RecursiveLock, MakingStep
<1>2. ASSUME Unlocks(t)  PROVE Win32RwUnlock(t)
  BY <1>2 DEF Unlocks, Is, AbsentUnlock, NativeUnlock, Native, LazyRwlockUnlock,
     LazyRecursiveUnlock, CondsUnlock, OwnerUnlock, Win32Unlock, Win32RecursiveUnlock
<1> QED
  BY <1>1, <1>2 DEF SpuriousWakeup, Is

(* A thread that enters at once, or after polling.                          *)
LEMMA QueuesEntered ==
  ASSUME UserInv, MadeInv, QueuesInv, Is("rwlock", "win32"), NEW t \in use.threads,
         pc[t] \in {"enter", "poll"}, Obtain(t), NEW n,
         lock' = [lock EXCEPT !.runcount = n],
         \/ mode[t] = "read" /\ lock.runcount + 1 > 0 /\ n = lock.runcount + 1
         \/ mode[t] = "write" /\ lock.runcount = 0 /\ n = lock.runcount - 1
  PROVE  UserInv' /\ MadeInv' /\ QueuesInv' /\ [Abstract!Next]_Held
<1>1. /\ t \in Threads /\ lock \in Fields /\ lock.runcount \in Int /\ use.kind = "rwlock"
      /\ lock.initialized
      /\ \A u \in Threads : level[u] \in Nat
  BY LocksAssumption DEF UserInv, UserTyped, Fields, Is, MadeInv, Early, Making
<1>2. level[t] = 0 /\ t \notin Granted
  BY <1>1 DEF UserInv, Behaves, Granted
<1>3. n \in Int
  BY <1>1
<1>4. lock' \in Fields
  BY <1>1, <1>3, FieldsStay
<1>5. /\ SameFlags /\ lock'.runcount = n /\ mode' = mode /\ use' = use
      /\ lock'.waiting_readers = lock.waiting_readers
      /\ lock'.waiting_writers = lock.waiting_writers
  BY <1>1 DEF Fields, SameFlags, Obtain
<1>6. /\ Agrees(n, Granted \cup {t}, mode)
      /\ \/ mode[t] = "read" /\ \A u \in Granted : mode[u] = "read"
         \/ mode[t] = "write" /\ Granted = {}
  <2>1. Agrees(lock.runcount, Granted, mode)
    BY DEF QueuesInv
  <2>2. CASE mode[t] = "read" /\ lock.runcount + 1 > 0 /\ n = lock.runcount + 1
    <3>1. lock.runcount >= 0
      BY <1>1, <2>2
    <3> QED
      BY <1>1, <1>2, <2>1, <2>2, <3>1, ReaderAgrees
  <2>3. CASE mode[t] = "write" /\ lock.runcount = 0 /\ n = lock.runcount - 1
    <3>1. n = -1
      BY <2>3
    <3> QED
      BY <1>1, <2>1, <2>3, <3>1, WriterAgrees
  <2> QED
    BY <2>2, <2>3
<1>7. \/ mode[t] = "read" /\ \A u \in Threads : level[u] > 0 => mode[u] = "read"
      \/ mode[t] = "write" /\ \A u \in Threads : level[u] = 0
  BY <1>1, <1>6 DEF Granted
<1>8. /\ UserInv' /\ [Abstract!Next]_Held
      /\ \A u \in Threads \ {t} : pc'[u] = pc[u] /\ level'[u] = level[u]
      /\ pc'[t] = "in" /\ level'[t] = level[t] + 1
  BY <1>4, <1>7, GetsIn
<1>9. MadeInv'
  BY <1>1, <1>5, <1>8, MadeStays DEF Making
<1>10. Granted' = Granted \cup {t} /\ \A md : Asleep(md)' = Asleep(md)
  BY <1>1, <1>2, <1>5, <1>8 DEF Granted, Asleep
<1> QED
  BY <1>5, <1>6, <1>8, <1>9, <1>10 DEF QueuesInv

(* A thread that enters its name in a queue.                                *)
LEMMA QueuesEnqueued ==
  ASSUME UserInv, MadeInv, QueuesInv, Is("rwlock", "win32"), NEW t \in use.threads,
         pc[t] = "enter",
         \/ mode[t] = "read" /\ Enqueue(t, "waiting_readers")
         \/ mode[t] = "write" /\ Enqueue(t, "waiting_writers")
  PROVE  UserInv' /\ MadeInv' /\ QueuesInv' /\ [Abstract!Next]_Held
<1>1. /\ t \in Threads /\ lock \in Fields /\ lock.initialized
      /\ Asleep("read") \in SUBSET Threads /\ Asleep("write") \in SUBSET Threads
      /\ t \notin Asleep("read") /\ t \notin Asleep("write")
  BY LocksAssumption DEF UserInv, UserTyped, MadeInv, Early, Making, Asleep
<1>2. IsFiniteSet(Asleep("read")) /\ IsFiniteSet(Asleep("write"))
  BY <1>1, Counts
<1>3. CASE Aborts("no event")
  <2>1. UserInv' /\ Held' = Held
    BY <1>3, GivesUp
  <2>2. UNCHANGED <<use, lock, pc, mode, level, defined>>
    BY <1>3 DEF Aborts
  <2> QED
    BY <2>1, <2>2 DEF MadeInv, Makes, QueuesInv, Granted, Asleep
<1>4. ASSUME NEW place \in {"asleep", "poll"}, Go(t, place), UNCHANGED Locals, lock' \in Fields,
             SameFlags
      PROVE  /\ UserInv' /\ MadeInv' /\ Held' = Held /\ level' = level /\ mode' = mode
             /\ Granted' = Granted
             /\ \A md \in {"read", "write"} :
                  Asleep(md)' = IF place = "asleep" /\ mode[t] = md THEN Asleep(md) \cup {t}
                                                                   ELSE Asleep(md)
  <2>1. place \in Waits /\ Locals' = Locals /\ level' = level /\ mode' = mode
    BY <1>4 DEF Waits, Places, Locals
  <2>2. /\ UserInv' /\ Held' = Held
        /\ \A u \in Threads \ {t} : pc'[u] = pc[u]
        /\ pc'[t] = place
    BY <1>4, <2>1, GoesOn
  <2>3. MadeInv'
    BY <1>1, <1>4, <2>1, <2>2, MadeStays DEF Making
  <2>4. Granted' = Granted
    BY <1>1, <1>4, <2>1, <2>2 DEF Granted
  <2>5. \A md \in {"read", "write"} :
          Asleep(md)' = IF place = "asleep" /\ mode[t] = md THEN Asleep(md) \cup {t}
                                                           ELSE Asleep(md)
    BY <1>1, <1>4, <2>1, <2>2 DEF Asleep
  <2> QED
    BY <2>1, <2>2, <2>3, <2>4, <2>5
<1>5. CASE Go(t, "poll") /\ UNCHANGED <<lock, Locals>>
  <2>1. SameFlags
    BY <1>5 DEF SameFlags, Locals
  <2>2. /\ UserInv' /\ MadeInv' /\ Held' = Held /\ Granted' = Granted /\ mode' = mode
        /\ Asleep("read")' = Asleep("read") /\ Asleep("write")' = Asleep("write")
    BY <1>1, <1>4, <1>5, <2>1
  <2> QED
    BY <1>5, <2>2 DEF QueuesInv
<1>6. CASE /\ mode[t] = "read" /\ Go(t, "asleep") /\ UNCHANGED Locals
           /\ lock' = [lock EXCEPT !["waiting_readers"] = gl_waitqueue_add(@, t)]
  <2> DEFINE q == gl_waitqueue_add(lock.waiting_readers, t)
  <2>1. Keeps(q, Asleep("read") \cup {t})
    BY <1>1, <1>2, AddKeeps DEF QueuesInv
  <2>2. q \in Queues
    BY <2>1 DEF Keeps, Ringed
  <2>3. lock' = [lock EXCEPT !.waiting_readers = q]
    BY <1>6
  <2> HIDE DEF q
  <2>4. lock' \in Fields
    BY <1>1, <2>2, <2>3, FieldsStay
  <2>5. /\ SameFlags /\ lock'.waiting_readers = q /\ lock'.runcount = lock.runcount
        /\ lock'.waiting_writers = lock.waiting_writers
    BY <1>1, <1>6, <2>3 DEF Fields, SameFlags, Locals
  <2>6. /\ UserInv' /\ MadeInv' /\ Held' = Held /\ Granted' = Granted /\ mode' = mode
        /\ Asleep("read")' = Asleep("read") \cup {t} /\ Asleep("write")' = Asleep("write")
    BY <1>1, <1>4, <1>6, <2>4, <2>5
  <2> QED
    BY <2>1, <2>5, <2>6 DEF QueuesInv
<1>7. CASE /\ mode[t] = "write" /\ Go(t, "asleep") /\ UNCHANGED Locals
           /\ lock' = [lock EXCEPT !["waiting_writers"] = gl_waitqueue_add(@, t)]
  <2> DEFINE q == gl_waitqueue_add(lock.waiting_writers, t)
  <2>1. Keeps(q, Asleep("write") \cup {t})
    BY <1>1, <1>2, AddKeeps DEF QueuesInv
  <2>2. q \in Queues
    BY <2>1 DEF Keeps, Ringed
  <2>3. lock' = [lock EXCEPT !.waiting_writers = q]
    BY <1>7
  <2> HIDE DEF q
  <2>4. lock' \in Fields
    BY <1>1, <2>2, <2>3, FieldsStay
  <2>5. /\ SameFlags /\ lock'.waiting_writers = q /\ lock'.runcount = lock.runcount
        /\ lock'.waiting_readers = lock.waiting_readers
    BY <1>1, <1>7, <2>3 DEF Fields, SameFlags, Locals
  <2>6. /\ UserInv' /\ MadeInv' /\ Held' = Held /\ Granted' = Granted /\ mode' = mode
        /\ Asleep("write")' = Asleep("write") \cup {t} /\ Asleep("read")' = Asleep("read")
    BY <1>1, <1>4, <1>7, <2>4, <2>5
  <2> QED
    BY <2>1, <2>5, <2>6 DEF QueuesInv
<1> QED
  BY <1>3, <1>5, <1>6, <1>7 DEF Enqueue

(* A thread that was woken finds runcount as it needs it.                   *)
LEMMA QueuesResumed ==
  ASSUME UserInv, MadeInv, QueuesInv, Is("rwlock", "win32"), NEW t \in use.threads,
         \/ mode[t] = "read" /\ Resumes(t, lock.runcount > 0)
         \/ mode[t] = "write" /\ Resumes(t, lock.runcount = -1)
  PROVE  UserInv' /\ MadeInv' /\ QueuesInv' /\ [Abstract!Next]_Held
<1>1. /\ t \in Threads /\ lock \in Fields /\ lock.initialized /\ lock.runcount \in Int
      /\ pc[t] = "woken" /\ use.kind = "rwlock" /\ \A u \in Threads : level[u] \in Nat
  BY LocksAssumption DEF UserInv, UserTyped, MadeInv, Fields, Is, Resumes, Early, Making
<1>2. t \in Granted /\ level[t] = 0
  BY <1>1 DEF Granted, UserInv, Behaves
<1>3. \/ /\ mode[t] = "read" /\ lock.runcount > 0
         /\ \A u \in Granted : mode[u] = "read"
      \/ mode[t] = "write" /\ lock.runcount = -1 /\ Granted = {t}
  <2>1. Agrees(lock.runcount, Granted, mode)
    BY DEF QueuesInv
  <2>2. lock.runcount # 0
    BY <1>2, <2>1, OneLessAgrees
  <2> QED
    BY <1>1, <1>2, <2>1, <2>2 DEF Agrees
<1>4. Obtain(t) /\ lock' = lock
  BY <1>3 DEF Resumes
<1>5. \/ mode[t] = "read" /\ \A u \in Threads : level[u] > 0 => mode[u] = "read"
      \/ mode[t] = "write" /\ \A u \in Threads : level[u] = 0
  BY <1>1, <1>2, <1>3 DEF Granted
<1>6. /\ UserInv' /\ [Abstract!Next]_Held
      /\ \A u \in Threads \ {t} : pc'[u] = pc[u] /\ level'[u] = level[u]
      /\ pc'[t] = "in" /\ level'[t] = level[t] + 1
  BY <1>1, <1>4, <1>5, GetsIn
<1>7. SameFlags /\ mode' = mode
  BY <1>4 DEF SameFlags, Obtain
<1>8. MadeInv'
  BY <1>1, <1>6, <1>7, MadeStays DEF Making
<1>9. Granted' = Granted /\ \A md : Asleep(md)' = Asleep(md)
  BY <1>1, <1>2, <1>6, <1>7 DEF Granted, Asleep
<1> QED
  BY <1>4, <1>6, <1>7, <1>8, <1>9 DEF QueuesInv

(* The last to leave hands the lock to the first writer, or to all readers. *)
LEMMA QueuesGivenBack ==
  ASSUME UserInv, MadeInv, QueuesInv, Is("rwlock", "win32"), NEW t \in use.threads,
         Win32RwUnlock(t)
  PROVE  UserInv' /\ MadeInv' /\ QueuesInv' /\ [Abstract!Next]_Held
<1>1. /\ t \in Threads /\ lock \in Fields /\ lock.initialized /\ lock.runcount \in Int
      /\ pc[t] = "in" /\ use.kind = "rwlock" /\ level[t] > 0
      /\ Asleep("read") \in SUBSET Threads /\ Asleep("write") \in SUBSET Threads
      /\ \A u \in Threads : level[u] \in Nat
  BY LocksAssumption DEF UserInv, UserTyped, Behaves, MadeInv, Fields, Is, Win32RwUnlock,
     Early, Making, Asleep
<1>2. IsFiniteSet(Asleep("read")) /\ IsFiniteSet(Asleep("write"))
  BY <1>1, Counts
<1>3. t \in Granted
  BY <1>1 DEF Granted
<1>4. lock.runcount # 0 /\ lock.runcount >= -1 /\ Agrees(Dropped, Granted \ {t}, mode)
  <2>1. Agrees(lock.runcount, Granted, mode)
    BY DEF QueuesInv
  <2>2. /\ lock.runcount # 0
        /\ Agrees(IF lock.runcount < 0 THEN 0 ELSE lock.runcount - 1, Granted \ {t}, mode)
    BY <1>3, <2>1, OneLessAgrees
  <2>3. lock.runcount >= -1
    BY <2>1 DEF Agrees
  <2> QED
    BY <2>2, <2>3 DEF Dropped
<1>5. /\ Quits(t)
      /\ IF Dropped = 0
           THEN lock' = HandOver.lock /\ WakeAndLeave(t, HandOver.woken)
           ELSE lock' = [lock EXCEPT !.runcount = Dropped] /\ Go(t, "out")
  BY <1>4 DEF Win32RwUnlock, Unlockable
<1>6. ASSUME NEW woken \in SUBSET (Asleep("read") \cup Asleep("write")),
             WakeAndLeave(t, woken), lock' \in Fields, SameFlags
      PROVE  /\ UserInv' /\ MadeInv' /\ [Abstract!Next]_Held /\ mode' = mode
             /\ Granted' = (Granted \ {t}) \cup woken
             /\ \A md : Asleep(md)' = Asleep(md) \ woken
  <2>1. /\ UserInv' /\ [Abstract!Next]_Held
        /\ \A u \in Threads \ {t} :
             level'[u] = level[u] /\ pc'[u] = IF u \in woken THEN "woken" ELSE pc[u]
        /\ pc'[t] = "out" /\ level'[t] = 0
    BY <1>1, <1>5, <1>6, WakesOthers
  <2>2. MadeInv'
    BY <1>1, <1>6, <2>1, MadeStays DEF Making
  <2>3. mode' = mode
    BY <1>5 DEF Quits
  <2>4. Granted' = (Granted \ {t}) \cup woken
    BY <1>1, <1>6, <2>1 DEF Granted, Asleep
  <2>5. \A md : Asleep(md)' = Asleep(md) \ woken
    BY <1>1, <1>6, <2>1, <2>3 DEF Asleep
  <2> QED
    BY <2>1, <2>2, <2>3, <2>4, <2>5
<1>7. CASE Dropped # 0
  <2>1. lock' = [lock EXCEPT !.runcount = Dropped] /\ Go(t, "out") /\ Dropped \in Int
    BY <1>1, <1>5, <1>7 DEF Dropped
  <2>2. WakeAndLeave(t, {})
    BY <1>1, <2>1 DEF WakeAndLeave, Go, UserInv, UserTyped
  <2>3. lock' \in Fields
    BY <1>1, <2>1, FieldsStay
  <2>4. /\ SameFlags /\ lock'.runcount = Dropped
        /\ lock'.waiting_readers = lock.waiting_readers
        /\ lock'.waiting_writers = lock.waiting_writers
    BY <1>1, <1>5, <2>1 DEF Fields, SameFlags, Quits
  <2>5. /\ UserInv' /\ MadeInv' /\ [Abstract!Next]_Held /\ mode' = mode
        /\ Granted' = Granted \ {t} /\ \A md : Asleep(md)' = Asleep(md)
    BY <1>6, <2>2, <2>3, <2>4
  <2> QED
    BY <1>4, <2>4, <2>5 DEF QueuesInv
<1>8. CASE Dropped = 0 /\ lock.waiting_writers.count > 0
  <2> DEFINE w == First(lock.waiting_writers)
             q == gl_waitqueue_notify_first(lock.waiting_writers)
  <2>1. w \in Asleep("write") /\ Keeps(q, Asleep("write") \ {w})
    BY <1>2, <1>8, NotifyFirstKeeps DEF QueuesInv
  <2>2. lock' = [lock EXCEPT !.runcount = -1, !.waiting_writers = q] /\ WakeAndLeave(t, {w})
    BY <1>5, <1>8 DEF HandOver
  <2>3. q \in Queues /\ -1 \in Int
    BY <2>1 DEF Keeps, Ringed
  <2> HIDE DEF w, q
  <2>4. lock' \in Fields
    BY <1>1, <2>2, <2>3, PairsStay
  <2>5. /\ SameFlags /\ lock'.runcount = -1
        /\ lock'.waiting_readers = lock.waiting_readers /\ lock'.waiting_writers = q
    BY <1>1, <1>5, <2>2 DEF Fields, SameFlags, Quits
  <2>6. {w} \in SUBSET (Asleep("read") \cup Asleep("write"))
    BY <2>1
  <2>7. /\ UserInv' /\ MadeInv' /\ [Abstract!Next]_Held /\ mode' = mode
        /\ Granted' = (Granted \ {t}) \cup {w}
        /\ \A md : Asleep(md)' = Asleep(md) \ {w}
    BY <1>6, <2>2, <2>4, <2>5, <2>6
  <2>8. w \in Threads /\ mode[w] = "write" /\ w \notin Asleep("read")
    BY <2>1 DEF Asleep
  <2>9. Agrees(-1, (Granted \ {t}) \cup {w}, mode)
    BY <1>4, <1>8, <2>8, WriterAgrees
  <2>10. Asleep("read") \ {w} = Asleep("read")
    BY <2>8
  <2> QED
    BY <2>1, <2>5, <2>7, <2>9, <2>10 DEF QueuesInv
<1>9. CASE Dropped = 0 /\ ~ lock.waiting_writers.count > 0
  <2> DEFINE r == Asleep("read")
             q == gl_waitqueue_notify_all(lock.waiting_readers)
             n == lock.waiting_readers.count
  <2>1. /\ Keeps(q, {}) /\ r = Queued(lock.waiting_readers) /\ Cardinality(r) = n
        /\ lock.waiting_readers \in Queues
    BY NotifyAllKeeps DEF QueuesInv, Keeps, Ringed, Queued, At
  <2>2. lock' = [lock EXCEPT !.runcount = n, !.waiting_readers = q] /\ WakeAndLeave(t, r)
    BY <1>5, <1>9, <2>1 DEF HandOver
  <2>3. q \in Queues /\ n \in Int /\ n >= 0
    BY <2>1 DEF Keeps, Ringed, Queues
  <2>4. r \in SUBSET (Asleep("read") \cup Asleep("write")) /\ r \cap Asleep("write") = {}
        /\ \A u \in r : mode[u] = "read"
    BY DEF Asleep
  <2> HIDE DEF q, n
  <2>5. lock' \in Fields
    BY <1>1, <2>2, <2>3, PairsStay
  <2>6. /\ SameFlags /\ lock'.runcount = n
        /\ lock'.waiting_writers = lock.waiting_writers /\ lock'.waiting_readers = q
    BY <1>1, <1>5, <2>2 DEF Fields, SameFlags, Quits
  <2>7. /\ UserInv' /\ MadeInv' /\ [Abstract!Next]_Held /\ mode' = mode
        /\ Granted' = (Granted \ {t}) \cup r
        /\ \A md : Asleep(md)' = Asleep(md) \ r
    BY <1>6, <2>2, <2>4, <2>5, <2>6
  <2>8. Granted \ {t} = {}
    <3>1. Granted \ {t} \in SUBSET Threads
      BY DEF Granted
    <3> QED
      BY <1>4, <1>9, <3>1, Counts DEF Agrees
  <2>9. Agrees(n, r, mode)
    BY <1>1, <2>1, <2>3, <2>4 DEF Agrees
  <2>10. Asleep("read") \ r = {} /\ Asleep("write") \ r = Asleep("write")
    BY <2>4
  <2> HIDE DEF r
  <2> QED
    BY <2>1, <2>6, <2>7, <2>8, <2>9, <2>10 DEF QueuesInv
<1> QED
  BY <1>7, <1>8, <1>9

LEMMA QueuesStays ==
  ASSUME UserInv, MadeInv, QueuesInv, Is("rwlock", "win32"), Next
  PROVE  UserInv' /\ MadeInv' /\ QueuesInv' /\ [Abstract!Next]_Held
<1>1. ASSUME NEW t \in use.threads, NEW md \in use.modes, Call(t, md)
      PROVE  UserInv' /\ MadeInv' /\ QueuesInv' /\ [Abstract!Next]_Held
  <2>1. /\ UserInv' /\ Held' = Held /\ lock' = lock /\ level' = level
        /\ \A u \in Threads \ {t} : mode'[u] = mode[u] /\ pc'[u] = pc[u]
        /\ level[t] > 0 => mode'[t] = mode[t]
        /\ pc'[t] = Entry /\ pc[t] \in {"in", "out"}
    BY <1>1, Comes
  <2>2. Granted' = Granted /\ \A u \in Granted : mode'[u] = mode[u]
    BY <2>1 DEF Granted, Entry
  <2>3. \A m : Asleep(m)' = Asleep(m)
    BY <2>1 DEF Asleep, Entry
  <2>4. QueuesInv'
    BY <2>1, <2>2, <2>3, SameAgrees DEF QueuesInv
  <2> QED
    BY <1>1, <2>1, <2>4, ComesMade
<1>2. ASSUME NEW t \in use.threads, MakingStep(t)
      PROVE  UserInv' /\ MadeInv' /\ QueuesInv' /\ [Abstract!Next]_Held
  <2>1. UserInv' /\ MadeInv' /\ Apart(t)
    BY <1>2, MakingApart
  <2>2. Granted' = Granted /\ \A m : Asleep(m)' = Asleep(m)
    BY <2>1 DEF Apart, Granted, Asleep, Early, Making
  <2> QED
    BY <2>1, <2>2 DEF QueuesInv, Apart
<1>3. ASSUME NEW t \in use.threads, Win32Rdlock(t) \/ Win32Wrlock(t)
      PROVE  UserInv' /\ MadeInv' /\ QueuesInv' /\ [Abstract!Next]_Held
  <2>1. CASE Win32Rdlock(t)
    <3>1. CASE Enters(t, lock.runcount + 1 > 0, lock.runcount + 1, "waiting_readers")
      BY <2>1, <3>1, QueuesEntered, QueuesEnqueued DEF Win32Rdlock, Enters
    <3>2. CASE Resumes(t, lock.runcount > 0)
      BY <2>1, <3>2, QueuesResumed DEF Win32Rdlock
    <3> QED
      BY <2>1, <3>1, <3>2 DEF Win32Rdlock
  <2>2. CASE Win32Wrlock(t)
    <3>1. CASE Enters(t, lock.runcount = 0, lock.runcount - 1, "waiting_writers")
      BY <2>2, <3>1, QueuesEntered, QueuesEnqueued DEF Win32Wrlock, Enters
    <3>2. CASE Resumes(t, lock.runcount = -1)
      BY <2>2, <3>2, QueuesResumed DEF Win32Wrlock
    <3> QED
      BY <2>2, <3>1, <3>2 DEF Win32Wrlock
  <2> QED
    BY <1>3, <2>1, <2>2
<1>4. CASE Redefines
  <2>1. UserInv' /\ MadeInv' /\ Redone
    BY <1>4, RedefinesRedone
  <2>2. Granted' = Granted /\ \A m : Asleep(m)' = Asleep(m)
    BY <2>1 DEF Redone, Granted, Asleep
  <2>3. CASE SameUse
    BY <2>1, <2>2, <2>3 DEF QueuesInv, Redone, SameUse
  <2>4. CASE Cleared /\ Holders = {} /\ \A t \in Threads : pc[t] = "out"
    <3>1. Granted = {} /\ \A m : Asleep(m) = {}
      BY <2>4 DEF Granted, Holders, Asleep
    <3> QED
      BY <2>1, <2>2, <2>4, <3>1, NobodyAgrees, EmptyKeeps DEF QueuesInv, Redone, Cleared
  <2> QED
    BY <2>1, <2>3, <2>4 DEF Redone
<1>5. ASSUME NEW t \in use.threads, Acquires(t) \/ Unlocks(t) \/ SpuriousWakeup(t)
      PROVE  UserInv' /\ MadeInv' /\ QueuesInv' /\ [Abstract!Next]_Held
  BY <1>2, <1>3, <1>5, QueuesNext, QueuesGivenBack
<1> QED
  BY <1>1, <1>4, <1>5 DEF Next
-----------------------------------------------------------------------------
(* Without threads nobody else comes.                                       *)
LEMMA AbsentStays ==
  ASSUME UserInv, MadeInv, use.style = "absent", Next
  PROVE  UserInv' /\ MadeInv' /\ [Abstract!Next]_Held
<1>1. ASSUME NEW t \in use.threads, NEW md \in use.modes, Call(t, md)
      PROVE  UserInv' /\ MadeInv' /\ [Abstract!Next]_Held
  BY <1>1, Comes, ComesMade
<1>2. ASSUME NEW t \in use.threads, Acquires(t) \/ Unlocks(t) \/ SpuriousWakeup(t)
      PROVE  AbsentLock(t) \/ AbsentUnlock(t)
  BY <1>2 DEF Acquires, Unlocks, SpuriousWakeup, Is, NativeLock, Native, LazyRwlockInit,
     LazyRwlockRdlock, LazyRwlockWrlock, LazyRecursiveInit, LazyRecursiveLock, CondsRdlock,
     CondsWrlock, OwnerLock, Win32LockInit, Win32Lock, Win32RwlockInit, Win32Rdlock,
     Win32Wrlock, Win32RecursiveInit, Win32RecursiveLock, NativeUnlock, LazyRwlockUnlock,
     LazyRecursiveUnlock, CondsUnlock, OwnerUnlock, Win32Unlock, Win32RwUnlock,
     Win32RecursiveUnlock
<1>3. ASSUME NEW t \in use.threads, AbsentLock(t)
      PROVE  UserInv' /\ MadeInv' /\ [Abstract!Next]_Held
  <2>1. /\ t \in Threads /\ lock \in Fields /\ lock.initialized /\ pc[t] = "enter"
        /\ Obtain(t) /\ lock' = lock /\ SameFlags
        /\ \A u \in use.threads : u = t
    BY <1>3, LocksAssumption DEF UserInv, UserTyped, MadeInv, AbsentLock, Obtain, SameFlags,
       Early, Making
  <2>2. \A u \in Threads \ {t} : level[u] = 0
    BY <2>1 DEF UserInv, Behaves
  <2>3. level[t] = 0 =>
          \/ mode[t] = "read" /\ \A u \in Threads : level[u] > 0 => mode[u] = "read"
          \/ mode[t] = "write" /\ \A u \in Threads : level[u] = 0
    <3>1. mode[t] = "read" \/ mode[t] = "write"
      BY <2>1 DEF UserInv, UserTyped
    <3> QED
      BY <2>2, <3>1
  <2>4. /\ UserInv' /\ [Abstract!Next]_Held
        /\ \A u \in Threads \ {t} : pc'[u] = pc[u] /\ level'[u] = level[u]
        /\ pc'[t] = "in"
    BY <2>1, <2>3, GetsIn
  <2>5. MadeInv'
    BY <2>1, <2>4, MadeStays DEF Making
  <2> QED
    BY <2>4, <2>5
<1>4. ASSUME NEW t \in use.threads, AbsentUnlock(t)
      PROVE  UserInv' /\ MadeInv' /\ [Abstract!Next]_Held
  <2>1. /\ t \in Threads /\ lock \in Fields /\ lock.initialized /\ pc[t] = "in"
        /\ level[t] > 0 /\ Leave(t) /\ lock' = lock /\ SameFlags
    BY <1>4, LocksAssumption DEF UserInv, UserTyped, Behaves, MadeInv, AbsentUnlock, Leave,
       SameFlags, Early, Making
  <2>2. /\ UserInv' /\ [Abstract!Next]_Held
        /\ \A u \in Threads \ {t} : pc'[u] = pc[u] /\ level'[u] = level[u]
        /\ pc'[t] = (IF level[t] = 1 THEN "out" ELSE "in")
    BY <2>1, GivesBack
  <2>3. MadeInv'
    BY <2>1, <2>2, MadeStays DEF Making
  <2> QED
    BY <2>2, <2>3
<1>5. CASE Redefines
  BY <1>5, RedefinesRedone DEF Redone
<1> QED
  BY <1>1, <1>2, <1>3, <1>4, <1>5 DEF Next
-----------------------------------------------------------------------------
LocksInv ==
  /\ UserInv /\ MadeInv
  /\ ByPrimitive => PrimitiveInv
  /\ Is("rwlock", "conds") => CondsInv
  /\ ByOwner => OwnerInv
  /\ Is("rwlock", "win32") => QueuesInv

LEMMA LocksInit ==
  ASSUME Init
  PROVE  LocksInv /\ Abstract!Init
<1>1. /\ use \in Uses /\ defined = TRUE /\ aborted = "no"
      /\ pc = [t \in Threads |-> "out"] /\ mode = [t \in Threads |-> "write"]
      /\ level = [t \in Threads |-> 0]
  BY DEF Init
<1>2. gl_waitqueue_init \in Queues
  BY EmptyKeeps DEF Keeps, Ringed
<1>3. gl_initializer(use.style) \in Fields
  <2>1. 0 \in Int /\ -1 \in Int
    OBVIOUS
  <2> QED
    BY <1>2, <2>1, Zenon DEF gl_initializer, Fields
<1>4. [gl_initializer(use.style) EXCEPT !.initialized = TRUE, !.ready = TRUE] \in Fields
  BY <1>3, PairsStay
<1>5. lock \in Fields
  BY <1>3, <1>4 DEF Init
<1>6. /\ lock.primitive = 0 /\ lock.runcount = 0 /\ lock.waiting_writers_count = 0
      /\ lock.waiting_readers = gl_waitqueue_init /\ lock.waiting_writers = gl_waitqueue_init
      /\ lock.owner = None /\ lock.depth = 0 /\ lock.started = -1 /\ lock.guard = None
      /\ lock.ready = lock.initialized
      /\ ~ lock.initialized => use.style \in {"lazy", "win32"}
  BY DEF Init, gl_initializer
<1>7. UserInv
  BY <1>1, <1>5 DEF UserInv, UserTyped, Behaves, Places
<1>8. MadeInv
  BY <1>1, <1>6 DEF MadeInv, Early, Making
<1>9. Holders = {} /\ Granted = {} /\ WaitingWriters = {} /\ \A md : Asleep(md) = {}
  BY <1>1 DEF Holders, Granted, WaitingWriters, Asleep
<1>10. PrimitiveInv /\ CondsInv /\ QueuesInv
  BY <1>6, <1>9, NobodyAgrees, EmptyKeeps, FS_EmptySet DEF PrimitiveInv, CondsInv, QueuesInv
<1>11. OwnerInv
  BY <1>1, <1>6, LocksAssumption DEF OwnerInv, Owns, Has
<1>12. Abstract!Init
  BY <1>1 DEF Abstract!Init, Held
<1> QED
  BY <1>7, <1>8, <1>10, <1>11, <1>12 DEF LocksInv

(* Whatever the style, what makes a lock.                                   *)
MakingAny(t) ==
  \/ TestInitialized(t) \/ LazyGuard(t) \/ InitPrimitive(t) \/ LazyPublish(t)
  \/ SpinlockStart(t) \/ SpinlockDone(t) \/ Win32Publish(t) \/ Win32RecursiveInit(t)

LEMMA UseStays ==
  ASSUME Next
  PROVE  use' = use
<1>1. ASSUME NEW t \in use.threads, Acquires(t)  PROVE use' = use
  <2>1. CASE MakingAny(t)
    BY <2>1 DEF MakingAny, TestInitialized, LazyGuard, InitPrimitive, LazyPublish,
       SpinlockStart, SpinlockDone, Win32Publish, Win32RecursiveInit, Win32Initialize, Locals
  <2>2. CASE EnterPrimitive(t)
    BY <2>2 DEF EnterPrimitive, Obtain, Aborts
  <2>3. CASE RecursiveLock(t)
    BY <2>3 DEF RecursiveLock, TestOwner, TakeMutex, SetOwner, CountDepth, Obtain, Locals
  <2>4. CASE CondsRdlock(t) \/ CondsWrlock(t)
    BY <2>4 DEF CondsRdlock, CondsWrlock, Obtain, Locals
  <2>5. CASE Win32Rdlock(t) \/ Win32Wrlock(t)
    BY <2>5 DEF Win32Rdlock, Win32Wrlock, Enters, Enqueue, Resumes, Obtain, Aborts, Locals
  <2>6. CASE AbsentLock(t)
    BY <2>6 DEF AbsentLock, Obtain
  <2> QED
    BY <1>1, <2>1, <2>2, <2>3, <2>4, <2>5, <2>6
       DEF Acquires, MakingAny, NativeLock, LazyRwlockInit, LazyRwlockRdlock,
           LazyRwlockWrlock, LazyRecursiveInit, LazyRecursiveLock, OwnerLock, Win32LockInit,
           Win32Lock, Win32RwlockInit, Win32Initialize, Win32RecursiveLock
<1>2. ASSUME NEW t \in use.threads, Unlocks(t)  PROVE use' = use
  <2>1. CASE LazyUnlock(t) \/ AbsentUnlock(t) \/ NativeUnlock(t)
    BY <2>1 DEF LazyUnlock, AbsentUnlock, NativeUnlock, Leave, Aborts
  <2>2. CASE RecursiveUnlock(t)
    BY <2>2 DEF RecursiveUnlock, Leave, Aborts, Locals
  <2>3. CASE CondsUnlock(t) \/ Win32RwUnlock(t)
    BY <2>3 DEF CondsUnlock, Win32RwUnlock, Quits, Aborts
  <2> QED
    BY <1>2, <2>1, <2>2, <2>3 DEF Unlocks, LazyRwlockUnlock, LazyRecursiveUnlock,
       OwnerUnlock, Win32Unlock, Win32RecursiveUnlock
<1>3. CASE Redefines
  <2>1. \A checks : Destroyed(checks) => use' = use
    BY DEF Destroyed, Aborts
  <2>2. \A fields : Defined(fields) => use' = use
    BY DEF Defined
  <2> QED
    BY <1>3, <2>1, <2>2
       DEF Redefines, NativeDestroy, NativeDefine, LazyRwlockDestroy,
           LazyRecursiveDestroy, LazyDefine, CondsDestroy, CondsInit, OwnerInit,
           OwnerDestroy, Win32LockDestroy, Win32RwlockDestroy, Win32RecursiveDestroy,
           Win32Define
<1>4. \A t : SpuriousWakeup(t) => use' = use
  BY DEF SpuriousWakeup, Locals
<1>5. \A t, md : Call(t, md) => use' = use
  BY DEF Call
<1> QED
  BY <1>1, <1>2, <1>3, <1>4, <1>5 DEF Next

LEMMA LocksStay ==
  ASSUME LocksInv, [Next]_vars
  PROVE  LocksInv' /\ [Abstract!Next]_Held
<1>1. CASE UNCHANGED vars
  <2>1. Held' = Held
    BY <1>1 DEF vars, Held
  <2>2. LocksInv'
    BY <1>1 DEF vars, LocksInv, UserInv, UserTyped, Behaves, MadeInv, Makes, ByPrimitive,
       PrimitiveInv, Holders, Is, CondsInv, WaitingWriters, ByOwner, OwnerInv, Owns, Has,
       QueuesInv, Granted, Asleep
  <2> QED
    BY <2>1, <2>2
<1>2. CASE Next
  <2>1. use' = use
    BY <1>2, UseStays
  <2>2. /\ ByPrimitive' = ByPrimitive /\ ByOwner' = ByOwner
        /\ Is("rwlock", "conds")' = Is("rwlock", "conds")
        /\ Is("rwlock", "win32")' = Is("rwlock", "win32")
    BY <2>1 DEF ByPrimitive, ByOwner, Is
  <2>3. CASE ByPrimitive
    <3>1. UserInv' /\ MadeInv' /\ PrimitiveInv' /\ [Abstract!Next]_Held
      BY <1>2, <2>3, PrimitiveStays DEF LocksInv
    <3>2. ~ Is("rwlock", "conds") /\ ~ ByOwner /\ ~ Is("rwlock", "win32")
      BY <2>3 DEF ByPrimitive, ByOwner, Is
    <3> QED
      BY <2>2, <3>1, <3>2 DEF LocksInv
  <2>4. CASE ByOwner
    <3>1. UserInv' /\ MadeInv' /\ OwnerInv' /\ [Abstract!Next]_Held
      BY <1>2, <2>4, OwnerStays DEF LocksInv
    <3>2. ~ Is("rwlock", "conds") /\ ~ ByPrimitive /\ ~ Is("rwlock", "win32")
      BY <2>4 DEF ByPrimitive, ByOwner, Is
    <3> QED
      BY <2>2, <3>1, <3>2 DEF LocksInv
  <2>5. CASE Is("rwlock", "conds")
    <3>1. UserInv' /\ MadeInv' /\ CondsInv' /\ [Abstract!Next]_Held
      BY <1>2, <2>5, CondsStays DEF LocksInv
    <3>2. ~ ByOwner /\ ~ ByPrimitive /\ ~ Is("rwlock", "win32")
      BY <2>5 DEF ByPrimitive, ByOwner, Is
    <3> QED
      BY <2>2, <3>1, <3>2 DEF LocksInv
  <2>6. CASE Is("rwlock", "win32")
    <3>1. UserInv' /\ MadeInv' /\ QueuesInv' /\ [Abstract!Next]_Held
      BY <1>2, <2>6, QueuesStays DEF LocksInv
    <3>2. ~ ByOwner /\ ~ ByPrimitive /\ ~ Is("rwlock", "conds")
      BY <2>6 DEF ByPrimitive, ByOwner, Is
    <3> QED
      BY <2>2, <3>1, <3>2 DEF LocksInv
  <2>7. CASE use.style = "absent"
    <3>1. UserInv' /\ MadeInv' /\ [Abstract!Next]_Held
      BY <1>2, <2>7, AbsentStays DEF LocksInv
    <3>2. /\ ~ ByOwner /\ ~ ByPrimitive
          /\ ~ Is("rwlock", "conds") /\ ~ Is("rwlock", "win32")
      BY <2>7 DEF ByPrimitive, ByOwner, Is
    <3> QED
      BY <2>2, <3>1, <3>2 DEF LocksInv
  <2> QED
    BY <2>3, <2>4, <2>5, <2>6, <2>7, Families DEF LocksInv, UserInv, UserTyped
<1> QED
  BY <1>1, <1>2

LEMMA LocksConsistent ==
  ASSUME LocksInv
  PROVE  Consistent
<1>1. aborted # "inconsistent"
  BY DEF LocksInv, UserInv
<1>2. Is("rwlock", "conds") =>
        lock.waiting_writers_count =
          Cardinality({t \in Threads : mode[t] = "write"
                                         /\ pc[t] \in {"asleep", "woken"}})
  BY DEF LocksInv, CondsInv, WaitingWriters
<1>3. ASSUME Is("rwlock", "win32")
      PROVE  /\ Queued(lock.waiting_readers) = Asleep("read")
             /\ Queued(lock.waiting_writers) = Asleep("write")
             /\ lock.waiting_readers.count = Cardinality(Asleep("read"))
             /\ lock.waiting_writers.count = Cardinality(Asleep("write"))
  <2>1. /\ Keeps(lock.waiting_readers, Asleep("read"))
        /\ Keeps(lock.waiting_writers, Asleep("write"))
    BY <1>3 DEF LocksInv, QueuesInv
  <2>2. \A q, S : Keeps(q, S) => Queued(q) = S /\ q.count = Cardinality(S)
    BY DEF Keeps, Queued, At
  <2> QED
    BY <2>1, <2>2
<1> QED
  BY <1>1, <1>2, <1>3 DEF Consistent

(* Whatever the style of a lock, and for any number of threads, any number  *)
(* of readers or one writer hold it: the locks of lock.c implement RWLock.  *)
THEOREM LocksExclude == Spec => Exclusion
<1>1. Init => LocksInv /\ Abstract!Init
  BY LocksInit
<1>2. LocksInv /\ [Next]_vars => LocksInv' /\ [Abstract!Next]_Held
  BY LocksStay
<1> QED
  BY <1>1, <1>2, PTL DEF Spec, Exclusion, Abstract!Spec

(* No abort () of lock.c is reached by threads that lock and unlock in      *)
(* turn, and the conditions and queues know exactly the threads asleep.     *)
THEOREM BookkeepingHolds == Spec => []Consistent
<1>1. Init => LocksInv
  BY LocksInit
<1>2. LocksInv /\ [Next]_vars => LocksInv'
  BY LocksStay
<1>3. LocksInv => Consistent
  BY LocksConsistent
<1> QED
  BY <1>1, <1>2, <1>3, PTL DEF Spec
-----------------------------------------------------------------------------
(***************************************************************************)
(* gl_once: however many threads come, and in whatever order they read and *)
(* count.                                                                  *)
(***************************************************************************)
OncePlaces ==
  {"first", "calling", "returned", "lock", "start", "make", "begin", "leave",
   "undo", "await", "wait", "check"}

Onces ==
  [inited : -1 .. 1, started : Int, lock : Comers \cup {Nobody}, ready : BOOLEAN]

OnceCounts == [count : Nat, done : BOOLEAN]

OnceTypeOK ==
  /\ once \in Onces
  /\ comer \in [Comers -> OncePlaces]
  /\ calls \in OnceCounts

(* The marker is inverted before the call, when no other thread is inside.  *)
SinglethreadedInv ==
  /\ \A t \in Comers : comer[t] \in {"first", "calling", "returned"}
  /\ \A t \in Comers : comer[t] = "returned" => calls.done
  /\ calls.count = IF once.inited = 0 THEN 0 ELSE 1
  /\ once.inited = 0 => \A t \in Comers : comer[t] = "first"
  /\ once.inited # 0 => calls.done \/ \E t \in Comers : comer[t] = "calling"

SolarisInv ==
  /\ \A t \in Comers : comer[t] \in {"first", "lock", "calling", "returned"}
  /\ once.inited \in {0, 1} /\ calls.count = once.inited

(* started counts the threads that are about to take their increment back,  *)
(* and one more as soon as one is chosen: so no other is chosen after it.   *)
Maker(t) == comer[t] \in {"make", "begin", "calling", "leave"}
Made     == (\E t \in Comers : Maker(t)) \/ once.inited = 1
Undoing  == {t \in Comers : comer[t] = "undo"}

Win32Inv ==
  /\ once.started = Cardinality(Undoing) - (IF Made THEN 0 ELSE 1)
  /\ \A t, u \in Comers : Maker(t) /\ Maker(u) => t = u
  /\ \A t \in Comers :
       /\ comer[t] # "lock"
       /\ comer[t] \in {"make", "begin"} => once.inited = -1
       /\ comer[t] = "calling" => once.inited = 0
       /\ comer[t] \in {"leave", "check", "returned"} => once.inited = 1
       /\ comer[t] = "wait" => once.inited >= 0
       /\ comer[t] \in {"begin", "calling", "leave"} => once.lock = t
  /\ once.inited = 0 => \E t \in Comers : comer[t] = "calling"
  /\ calls.count = IF once.inited = -1 THEN 0 ELSE 1
  /\ once.inited = 1 => calls.done

OnceInv ==
  /\ OnceTypeOK /\ style \in {"singlethreaded", "solaris", "win32"}
  /\ style = "singlethreaded" => SinglethreadedInv
  /\ style = "solaris" => SolarisInv
  /\ style = "win32" => Win32Inv

(* What is left to show of a step of call_once under Windows.               *)
LEMMA Win32Kept ==
  ASSUME once'.started = Cardinality(Undoing') - (IF Made' THEN 0 ELSE 1),
         \A t, u \in Comers : Maker(t)' /\ Maker(u)' => t = u,
         \A t \in Comers :
           /\ comer'[t] # "lock"
           /\ comer'[t] \in {"make", "begin"} => once'.inited = -1
           /\ comer'[t] = "calling" => once'.inited = 0
           /\ comer'[t] \in {"leave", "check", "returned"} => once'.inited = 1
           /\ comer'[t] = "wait" => once'.inited >= 0
           /\ comer'[t] \in {"begin", "calling", "leave"} => once'.lock = t,
         once'.inited = 0 => \E t \in Comers : comer'[t] = "calling",
         calls'.count = IF once'.inited = -1 THEN 0 ELSE 1,
         once'.inited = 1 => calls'.done
  PROVE  Win32Inv'
  BY Zenon DEF Win32Inv

LEMMA OnceInitial ==
  ASSUME OnceStyles \subseteq {"singlethreaded", "solaris", "win32"}, OnceInit
  PROVE  OnceInv
<1>1. OnceTypeOK
  BY DEF OnceInit, gl_once_define, OnceTypeOK, Onces, OnceCounts, OncePlaces
<1>2. ASSUME style = "win32"  PROVE Win32Inv
  <2>1. Undoing = {} /\ ~Made
    BY <1>2 DEF OnceInit, Undoing, Made, Maker, gl_once_define
  <2>2. Cardinality(Undoing) = 0
    BY <2>1, FS_EmptySet
  <2> QED
    BY <1>2, <2>1, <2>2 DEF OnceInit, Win32Inv, Maker, gl_once_define
<1>3. ASSUME style = "singlethreaded"  PROVE SinglethreadedInv
  BY <1>3 DEF OnceInit, SinglethreadedInv, gl_once_define
<1>4. ASSUME style = "solaris"  PROVE SolarisInv
  BY <1>4 DEF OnceInit, SolarisInv, gl_once_define
<1> QED
  BY <1>1, <1>2, <1>3, <1>4 DEF OnceInv, OnceInit

LEMMA OnceTyped ==
  ASSUME OnceTypeOK, NEW t \in Comers, gl_once(t), Win32Wait(t) => comer'[t] # "aborted"
  PROVE  OnceTypeOK'
<1>1. ASSUME NEW place \in OncePlaces, Moves(t, place)  PROVE comer' \in [Comers -> OncePlaces]
  BY <1>1 DEF OnceTypeOK, Moves
<1>2. ASSUME Begins  PROVE calls' \in OnceCounts
  <2>1. calls' = [count |-> calls.count + 1, done |-> calls.done]
    BY <1>2 DEF OnceTypeOK, OnceCounts, Begins
  <2>2. calls.count + 1 \in Nat /\ calls.done \in BOOLEAN
    BY DEF OnceTypeOK, OnceCounts
  <2> QED
    BY <2>1, <2>2 DEF OnceCounts
<1>3. ASSUME Ends  PROVE calls' \in OnceCounts
  <2>1. calls' = [count |-> calls.count, done |-> TRUE]
    BY <1>3 DEF OnceTypeOK, OnceCounts, Ends
  <2>2. calls.count \in Nat /\ TRUE \in BOOLEAN
    BY DEF OnceTypeOK, OnceCounts
  <2> QED
    BY <2>1, <2>2 DEF OnceCounts
<1>4. /\ once \in Onces /\ once.inited \in -1 .. 1 /\ once.started \in Int
      /\ once.lock \in Comers \cup {Nobody} /\ once.ready \in BOOLEAN
      /\ once.started + 1 \in Int /\ once.started - 1 \in Int
  BY DEF OnceTypeOK, Onces
<1>5. /\ \A f \in -1 .. 1 : [once EXCEPT !.inited = f] \in Onces
      /\ \A n \in Int : [once EXCEPT !.started = n] \in Onces
      /\ \A l \in Comers \cup {Nobody} : [once EXCEPT !.lock = l] \in Onces
  BY <1>4 DEF Onces
<1>6. /\ \A f \in -1 .. 1, l \in Comers \cup {Nobody} :
           [once EXCEPT !.inited = f, !.lock = l] \in Onces
      /\ \A b \in BOOLEAN, l \in Comers \cup {Nobody} :
           [once EXCEPT !.ready = b, !.lock = l] \in Onces
  BY <1>4 DEF Onces
<1>7. CASE glthread_once_singlethreaded(t) \/ glthread_once_call(t)
  <2>0. -1 \in -1 .. 1 /\ 0 \in -1 .. 1 /\ 1 \in -1 .. 1 /\ TRUE \in BOOLEAN
    OBVIOUS
  <2>1. once' \in Onces
    BY <2>0, <1>2, <1>3, <1>4, <1>5, <1>6, <1>7
       DEF glthread_once_singlethreaded, glthread_once_call, OnceTypeOK
  <2>3. calls' \in OnceCounts
    BY <1>2, <1>3, <1>4, <1>5, <1>6, <1>7
       DEF glthread_once_singlethreaded, glthread_once_call, OnceTypeOK
  <2>2. comer' \in [Comers -> OncePlaces]
    BY <1>1, <1>7 DEF glthread_once_singlethreaded, glthread_once_call, OncePlaces
  <2> QED
    BY <2>1, <2>2, <2>3 DEF OnceTypeOK
<1>8. CASE solaris_glthread_once(t)
  <2>0. -1 \in -1 .. 1 /\ 0 \in -1 .. 1 /\ 1 \in -1 .. 1 /\ TRUE \in BOOLEAN
    OBVIOUS
  <2>1. once' \in Onces
    <3>1. CASE SolarisTest(t)
      BY <1>4, <3>1 DEF SolarisTest
    <3>2. CASE SolarisLock(t)
      <4>1. CASE once.inited = 0
        <5>1. once' = [inited |-> 1, started |-> once.started, lock |-> t,
                       ready |-> once.ready]
          BY <3>2, <4>1 DEF SolarisLock, OnceTypeOK, Onces
        <5>2. 1 \in -1 .. 1 /\ t \in Comers \cup {Nobody}
          OBVIOUS
        <5> QED
          BY <1>4, <5>1, <5>2 DEF Onces
      <4>2. CASE once.inited # 0
        BY <1>4, <3>2, <4>2 DEF SolarisLock
      <4> QED
        BY <4>1, <4>2
    <3>3. CASE SolarisUnlock(t)
      BY <1>4, <1>5, <3>3 DEF SolarisUnlock
    <3> QED
      BY <1>8, <3>1, <3>2, <3>3 DEF solaris_glthread_once
  <2>3. calls' \in OnceCounts
    BY <1>2, <1>3, <1>8
       DEF solaris_glthread_once, SolarisTest, SolarisLock, SolarisUnlock, OnceTypeOK
  <2>2. comer' \in [Comers -> OncePlaces]
    BY <1>1, <1>8 DEF solaris_glthread_once, SolarisTest, SolarisLock, SolarisUnlock, OncePlaces
  <2> QED
    BY <2>1, <2>2, <2>3 DEF OnceTypeOK
<1>9. CASE Win32Start(t)
  <2>0. -1 \in -1 .. 1 /\ 0 \in -1 .. 1 /\ 1 \in -1 .. 1 /\ TRUE \in BOOLEAN
    OBVIOUS
  <2>1. once' \in Onces
    BY <2>0, <1>4, <1>5, <1>6, <1>9 DEF Win32Start, OnceTypeOK
  <2>3. calls' \in OnceCounts
    BY <1>4, <1>5, <1>6, <1>9 DEF Win32Start, OnceTypeOK
  <2>2. comer' \in [Comers -> OncePlaces]
    BY <1>1, <1>9 DEF Win32Start, OncePlaces
  <2> QED
    BY <2>1, <2>2, <2>3 DEF OnceTypeOK
<1>10. CASE Win32Call(t)
  <2>0. -1 \in -1 .. 1 /\ 0 \in -1 .. 1 /\ 1 \in -1 .. 1 /\ TRUE \in BOOLEAN
    OBVIOUS
  <2>1. once' \in Onces
    <3>1. \/ once' = [once EXCEPT !.ready = TRUE, !.lock = t]
          \/ once' = [once EXCEPT !.inited = 0]
          \/ once' = [once EXCEPT !.inited = 1]
          \/ once' = [once EXCEPT !.lock = Nobody]
      BY <1>10, Zenon DEF Win32Call
    <3> QED
      BY <2>0, <1>2, <1>3, <1>4, <1>5, <1>6, <3>1
  <2>3. calls' \in OnceCounts
    BY <1>2, <1>3, <1>4, <1>5, <1>6, <1>10 DEF Win32Call, OnceTypeOK
  <2>2. comer' \in [Comers -> OncePlaces]
    BY <1>1, <1>10 DEF Win32Call, OncePlaces
  <2> QED
    BY <2>1, <2>2, <2>3 DEF OnceTypeOK
<1>11. CASE Win32Wait(t)
  <2>0. -1 \in -1 .. 1 /\ 0 \in -1 .. 1 /\ 1 \in -1 .. 1 /\ TRUE \in BOOLEAN
    OBVIOUS
  <2>1. once' \in Onces
    BY <2>0, <1>4, <1>5, <1>6, <1>11 DEF Win32Wait, OnceTypeOK
  <2>3. calls' \in OnceCounts
    BY <1>4, <1>5, <1>6, <1>11 DEF Win32Wait, OnceTypeOK
  <2>2. comer' = [comer EXCEPT ![t] = comer'[t]]
    BY <1>11 DEF Win32Wait, Moves, OnceTypeOK
  <2>4. comer'[t] \in OncePlaces
    BY <1>11, <2>2 DEF Win32Wait, Moves, OnceTypeOK, OncePlaces
  <2> QED
    BY <1>1, <2>1, <2>2, <2>3, <2>4 DEF OnceTypeOK, Moves
<1> QED
  BY <1>7, <1>8, <1>9, <1>10, <1>11 DEF gl_once, win32_glthread_once

LEMMA SinglethreadedStays ==
  ASSUME OnceTypeOK, SinglethreadedInv, NEW t \in Comers,
         glthread_once_singlethreaded(t) \/ glthread_once_call(t)
  PROVE  SinglethreadedInv'
<1>1. \A u \in Comers : comer'[u] = IF u = t THEN comer'[t] ELSE comer[u]
  BY DEF OnceTypeOK, Moves, glthread_once_singlethreaded, glthread_once_call
<1>2. CASE glthread_once_singlethreaded(t) /\ once.inited = 0
  <2>1. once'.inited = -1 /\ calls'.count = 1 /\ comer'[t] = "calling" /\ calls.count = 0
    BY <1>2 DEF glthread_once_singlethreaded, Begins, Moves, OnceTypeOK, Onces, OnceCounts,
       SinglethreadedInv
  <2>2. \A u \in Comers : comer[u] = "first"
    BY <1>2 DEF SinglethreadedInv
  <2> QED
    BY <1>1, <2>1, <2>2 DEF SinglethreadedInv
<1>3. CASE glthread_once_singlethreaded(t) /\ once.inited # 0
  <2>1. once' = once /\ calls' = calls /\ comer'[t] = "returned"
        /\ \A u \in Comers : comer[u] \in {"first", "returned"}
    BY <1>3 DEF glthread_once_singlethreaded, Moves, OnceTypeOK
  <2>2. calls.done
    BY <1>3, <2>1 DEF SinglethreadedInv
  <2> QED
    BY <1>1, <1>3, <2>1, <2>2 DEF SinglethreadedInv
<1>4. CASE glthread_once_call(t)
  <2>1. once' = once /\ comer'[t] = "returned" /\ comer[t] = "calling"
        /\ calls'.count = calls.count /\ calls'.done
    BY <1>4 DEF glthread_once_call, Moves, Ends, OnceTypeOK, OnceCounts
  <2>2. once.inited # 0
    BY <2>1 DEF SinglethreadedInv
  <2> QED
    BY <1>1, <2>1, <2>2 DEF SinglethreadedInv
<1> QED
  BY <1>2, <1>3, <1>4

LEMMA SolarisStays ==
  ASSUME OnceTypeOK, SolarisInv, NEW t \in Comers, solaris_glthread_once(t)
  PROVE  SolarisInv'
<1>1. \A u \in Comers : comer'[u] = IF u = t THEN comer'[t] ELSE comer[u]
  BY DEF OnceTypeOK, Moves, solaris_glthread_once, SolarisTest, SolarisLock, SolarisUnlock
<1>2. comer'[t] \in {"lock", "returned", "calling"}
  BY DEF OnceTypeOK, Moves, solaris_glthread_once, SolarisTest, SolarisLock, SolarisUnlock
<1>3. once'.inited \in {0, 1} /\ calls'.count = once'.inited
  <2>1. CASE SolarisTest(t)
    BY <2>1 DEF SolarisTest, SolarisInv
  <2>2. CASE SolarisLock(t) /\ once.inited = 0
    <3>1. once' = [once EXCEPT !.inited = 1, !.lock = t] /\ Begins
      BY <2>2 DEF SolarisLock
    <3>2. once'.inited = 1
      BY <3>1 DEF OnceTypeOK, Onces
    <3>3. calls'.count = calls.count + 1 /\ calls.count = 0
      BY <2>2, <3>1 DEF Begins, OnceTypeOK, OnceCounts, SolarisInv
    <3> QED
      BY <3>2, <3>3
  <2>3. CASE SolarisLock(t) /\ once.inited # 0
    BY <2>3 DEF SolarisLock, SolarisInv
  <2>4. CASE SolarisUnlock(t)
    BY <2>4 DEF SolarisUnlock, Ends, SolarisInv, OnceTypeOK, Onces, OnceCounts
  <2> QED
    BY <2>1, <2>2, <2>3, <2>4 DEF solaris_glthread_once
<1> QED
  BY <1>1, <1>2, <1>3 DEF SolarisInv

(* The counter follows the threads that take their increment back. *)
LEMMA Counted ==
  ASSUME IsFiniteSet(Comers), OnceTypeOK, NEW t \in Comers
  PROVE  /\ Cardinality(Undoing) \in Nat
         /\ comer[t] # "undo" => Cardinality(Undoing \cup {t}) = Cardinality(Undoing) + 1
         /\ comer[t] = "undo" => Cardinality(Undoing \ {t}) = Cardinality(Undoing) - 1
<1>1. IsFiniteSet(Undoing)
  BY FS_Subset DEF Undoing
<1>2. t \in Undoing <=> comer[t] = "undo"
  BY DEF Undoing
<1> QED
  BY <1>1, <1>2, FS_CardinalityType, FS_AddElement, FS_RemoveElement

LEMMA Win32Stays ==
  ASSUME IsFiniteSet(Comers), Nobody \notin Comers,
         OnceTypeOK, Win32Inv, NEW t \in Comers, win32_glthread_once(t)
  PROVE  Win32Inv' /\ comer'[t] # "aborted"
<1> USE DEF Moves
<1>1. /\ comer \in [Comers -> OncePlaces] /\ once.started \in Int
      /\ once.inited \in -1 .. 1 /\ once.inited \in {-1, 0, 1}
      /\ calls.count \in Nat /\ Cardinality(Undoing) \in Nat
  <2>1. comer \in [Comers -> OncePlaces] /\ once.started \in Int /\ once.inited \in -1 .. 1
    BY DEF OnceTypeOK, Onces
  <2>2. once.inited \in {-1, 0, 1}
    BY <2>1
  <2>3. calls.count \in Nat /\ Cardinality(Undoing) \in Nat
    BY Counted DEF OnceTypeOK, OnceCounts
  <2> QED
    BY <2>1, <2>2, <2>3
<1>2. \A place : comer' = [comer EXCEPT ![t] = place] =>
        /\ comer'[t] = place /\ \A u \in Comers \ {t} : comer'[u] = comer[u]
        /\ Undoing' = IF place = "undo" THEN Undoing \cup {t} ELSE Undoing \ {t}
  BY <1>1 DEF Undoing
<1>3. comer[t] # "undo" => Undoing \ {t} = Undoing
  BY DEF Undoing
<1>4. CASE Win32Start(t) /\ comer[t] = "first"
  <2>1. /\ comer'[t] \in {"start", "returned"} /\ (comer'[t] = "returned" => once.inited = 1)
        /\ \A u \in Comers \ {t} : comer'[u] = comer[u]
        /\ once' = once /\ calls' = calls /\ Undoing' = Undoing
    BY <1>1, <1>2, <1>3, <1>4 DEF Win32Start
  <2>2. Made' <=> Made
    BY <1>4, <2>1 DEF Made, Maker
  <2> QED
    BY <1>4, <2>1, <2>2 DEF Win32Inv, Maker
<1>5. CASE Win32Start(t) /\ comer[t] = "start" /\ once.started + 1 = 0
  <2>1. /\ comer'[t] = "make"
        /\ \A u \in Comers \ {t} : comer'[u] = comer[u]
        /\ once'.started = 0 /\ once'.inited = once.inited /\ once'.lock = once.lock
        /\ calls' = calls /\ Undoing' = Undoing
    BY <1>1, <1>2, <1>3, <1>5 DEF Win32Start, OnceTypeOK, Onces
  <2>2. Cardinality(Undoing) = 0 /\ ~Made
    BY <1>1, <1>5 DEF Win32Inv
  <2>3. once.inited = -1 /\ \A u \in Comers : ~Maker(u)
    BY <1>1, <2>2 DEF Win32Inv, Made, Maker
  <2>4. Made'
    BY <2>1 DEF Made, Maker
  <2>5. once'.started = Cardinality(Undoing') - (IF Made' THEN 0 ELSE 1)
    <3>1. Cardinality(Undoing') = 0
      BY <2>1, <2>2
    <3>2. once'.started = 0
      BY <2>1
    <3> DEFINE chosen == IF Made' THEN 0 ELSE 1
    <3>3. chosen = 0
      BY <2>4
    <3> HIDE DEF chosen
    <3>4. once'.started = Cardinality(Undoing') - chosen
      BY <3>1, <3>2, <3>3
    <3> QED
      BY <3>4 DEF chosen
  <2>6. \A u, v \in Comers : Maker(u)' /\ Maker(v)' => u = v
    BY <2>1, <2>3 DEF Maker
  <2>7. /\ \A u \in Comers \ {t} : comer'[u] = comer[u] /\ comer[u] # "lock" /\ ~Maker(u)
        /\ \A u \in Comers : comer[u] = "wait" => once.inited >= 0
    BY <2>1, <2>3 DEF Win32Inv
  <2>8. /\ once'.inited = -1
        /\ \A u \in Comers : comer'[u] \notin {"lock", "calling", "leave", "check", "returned",
                                               "wait", "begin"}
    <3>1. ASSUME NEW u \in Comers \ {t}
          PROVE  comer[u] \notin {"check", "returned", "wait"}
      BY <2>3, <3>1 DEF Win32Inv
    <3> QED
      BY <2>1, <2>3, <2>7, <3>1 DEF Maker
  <2>9. calls'.count = 0
    BY <2>1, <2>3 DEF Win32Inv
  <2>10. ASSUME NEW u \in Comers
         PROVE  /\ comer'[u] # "lock"
                /\ comer'[u] \in {"make", "begin"} => once'.inited = -1
                /\ comer'[u] = "calling" => once'.inited = 0
                /\ comer'[u] \in {"leave", "check", "returned"} => once'.inited = 1
                /\ comer'[u] = "wait" => once'.inited >= 0
                /\ comer'[u] \in {"begin", "calling", "leave"} => once'.lock = u
    BY <2>8
  <2>11. /\ once'.inited # 0 /\ once'.inited # 1
         /\ calls'.count = IF once'.inited = -1 THEN 0 ELSE 1
    BY <2>8, <2>9
  <2>12. Win32Inv'
    BY <2>5, <2>6, <2>10, <2>11, Win32Kept, Zenon
  <2> QED
    BY <2>1, <2>12
<1>6. CASE Win32Start(t) /\ comer[t] = "start" /\ once.started + 1 # 0
  <2>1. /\ comer'[t] = "undo"
        /\ \A u \in Comers \ {t} : comer'[u] = comer[u]
        /\ once'.started = once.started + 1 /\ once'.inited = once.inited
        /\ once'.lock = once.lock
        /\ calls' = calls /\ Undoing' = Undoing \cup {t}
    BY <1>1, <1>2, <1>3, <1>6 DEF Win32Start, OnceTypeOK, Onces
  <2>2. Cardinality(Undoing') = Cardinality(Undoing) + 1
    BY <1>6, <2>1, Counted
  <2>3. Made' <=> Made
    BY <1>6, <2>1 DEF Made, Maker
  <2>4. once'.started = Cardinality(Undoing') - (IF Made' THEN 0 ELSE 1)
    BY <1>1, <2>1, <2>2, <2>3 DEF Win32Inv
  <2> QED
    BY <1>6, <2>1, <2>4 DEF Win32Inv, Maker
<1>7. CASE Win32Call(t) /\ comer[t] = "make"
  <2>1. /\ comer'[t] = "begin"
        /\ \A u \in Comers \ {t} : comer'[u] = comer[u]
        /\ once'.started = once.started /\ once'.inited = once.inited
        /\ once'.lock = t
        /\ calls' = calls /\ Undoing' = Undoing
    BY <1>1, <1>2, <1>3, <1>7 DEF Win32Call, OnceTypeOK, Onces
  <2>2. Made' /\ Made
    BY <1>7, <2>1 DEF Made, Maker
  <2> QED
    BY <1>7, <2>1, <2>2 DEF Win32Inv, Maker
<1>8. CASE Win32Call(t) /\ comer[t] = "begin"
  <2>1. /\ comer'[t] = "calling"
        /\ \A u \in Comers \ {t} : comer'[u] = comer[u]
        /\ once'.started = once.started /\ once'.inited = 0
        /\ once'.lock = once.lock
        /\ calls'.count = calls.count + 1 /\ Undoing' = Undoing
    BY <1>1, <1>2, <1>3, <1>8 DEF Win32Call, Begins, OnceTypeOK, Onces, OnceCounts
  <2>2. Made' /\ Made
    BY <1>8, <2>1 DEF Made, Maker
  <2>3. once.inited = -1 /\ calls.count = 0
    BY <1>8 DEF Win32Inv
  <2> QED
    BY <1>8, <2>1, <2>2, <2>3 DEF Win32Inv, Maker
<1>9. CASE Win32Call(t) /\ comer[t] = "calling"
  <2>1. /\ comer'[t] = "leave"
        /\ \A u \in Comers \ {t} : comer'[u] = comer[u]
        /\ once'.started = once.started /\ once'.inited = 1
        /\ once'.lock = once.lock
        /\ calls'.count = calls.count /\ calls'.done /\ Undoing' = Undoing
    BY <1>1, <1>2, <1>3, <1>9 DEF Win32Call, Ends, OnceTypeOK, Onces, OnceCounts
  <2>2. Made' /\ Made
    BY <1>9, <2>1 DEF Made, Maker
  <2>3. once.inited = 0 /\ calls.count = 1
    BY <1>9 DEF Win32Inv
  <2> QED
    BY <1>9, <2>1, <2>2, <2>3 DEF Win32Inv, Maker
<1>10. CASE Win32Call(t) /\ comer[t] = "leave"
  <2>1. /\ comer'[t] = "returned"
        /\ \A u \in Comers \ {t} : comer'[u] = comer[u]
        /\ once'.started = once.started /\ once'.inited = once.inited
        /\ calls' = calls /\ Undoing' = Undoing
    BY <1>1, <1>2, <1>3, <1>10 DEF Win32Call, OnceTypeOK, Onces
  <2>2. once.inited = 1 /\ \A u \in Comers \ {t} : ~Maker(u)
    BY <1>10 DEF Win32Inv, Maker
  <2>3. Made' /\ Made
    BY <2>1, <2>2 DEF Made
  <2> QED
    BY <2>1, <2>2, <2>3 DEF Win32Inv, Maker
<1>11. CASE Win32Wait(t) /\ comer[t] = "undo"
  <2>1. /\ comer'[t] = "await"
        /\ \A u \in Comers \ {t} : comer'[u] = comer[u]
        /\ once'.started = once.started - 1 /\ once'.inited = once.inited
        /\ once'.lock = once.lock
        /\ calls' = calls /\ Undoing' = Undoing \ {t}
    BY <1>1, <1>2, <1>3, <1>11 DEF Win32Wait, OnceTypeOK, Onces
  <2>2. Cardinality(Undoing') = Cardinality(Undoing) - 1
    BY <1>11, <2>1, Counted
  <2>3. Made' <=> Made
    BY <1>11, <2>1 DEF Made, Maker
  <2>4. once'.started = Cardinality(Undoing') - (IF Made' THEN 0 ELSE 1)
    BY <1>1, <2>1, <2>2, <2>3 DEF Win32Inv
  <2> QED
    BY <1>11, <2>1, <2>4 DEF Win32Inv, Maker
<1>12. CASE Win32Wait(t) /\ comer[t] \in {"await", "wait", "check"}
  <2>1. /\ once' = once /\ calls' = calls
        /\ \/ comer[t] = "await" /\ once.inited >= 0
              /\ comer' = [comer EXCEPT ![t] = IF once.inited <= 0 THEN "wait" ELSE "returned"]
           \/ comer[t] = "wait" /\ once.lock = Nobody /\ comer' = [comer EXCEPT ![t] = "check"]
           \/ comer[t] = "check"
              /\ comer' = [comer EXCEPT ![t] = IF once.inited > 0 THEN "returned" ELSE "aborted"]
    BY <1>1, <1>2, <1>3, <1>12 DEF Win32Wait
  <2>2. comer[t] = "wait" /\ once.lock = Nobody => once.inited = 1
    BY <1>1 DEF Win32Inv
  <2>3. comer[t] = "check" => once.inited = 1
    BY DEF Win32Inv
  <2>4. /\ comer'[t] \in {"wait", "check", "returned"}
        /\ comer'[t] = "wait" => once.inited >= 0
        /\ comer'[t] \in {"check", "returned"} => once.inited = 1
        /\ \A u \in Comers \ {t} : comer'[u] = comer[u]
    BY <1>1, <1>2, <2>1, <2>2, <2>3
  <2>5. Undoing' = Undoing
    BY <1>12, <2>4 DEF Undoing
  <2>6. Made' <=> Made
    BY <1>12, <2>1, <2>4 DEF Made, Maker
  <2> QED
    BY <1>12, <2>1, <2>4, <2>5, <2>6 DEF Win32Inv, Maker
<1> QED
  BY <1>4, <1>5, <1>6, <1>7, <1>8, <1>9, <1>10, <1>11, <1>12
     DEF win32_glthread_once, Win32Start, Win32Call, Win32Wait

LEMMA OnceStays ==
  ASSUME IsFiniteSet(Comers), Nobody \notin Comers, OnceInv, [OnceNext]_onceVars
  PROVE  OnceInv'
<1>1. ASSUME NEW t \in Comers, gl_once(t)  PROVE OnceInv'
  <2>1. style' = style
    BY <1>1 DEF gl_once, glthread_once_singlethreaded, glthread_once_call,
       solaris_glthread_once, win32_glthread_once
  <2>2. CASE style = "singlethreaded"
    <3>1. glthread_once_singlethreaded(t) \/ glthread_once_call(t)
      BY <1>1, <2>2 DEF gl_once, solaris_glthread_once, win32_glthread_once
    <3>2. SinglethreadedInv'
      BY <2>2, <3>1, SinglethreadedStays DEF OnceInv
    <3>3. OnceTypeOK'
      <4>1. Win32Wait(t) => comer[t] \notin {"first", "calling"}
        BY DEF Win32Wait
      <4>2. comer[t] \in {"first", "calling"}
        BY <3>1 DEF glthread_once_singlethreaded, glthread_once_call
      <4> QED
        BY <1>1, <4>1, <4>2, OnceTyped DEF OnceInv
    <3> QED
      BY <2>1, <2>2, <3>2, <3>3 DEF OnceInv
  <2>3. CASE style = "solaris"
    <3>1. solaris_glthread_once(t)
      BY <1>1, <2>3 DEF gl_once, glthread_once_singlethreaded, glthread_once_call,
         win32_glthread_once
    <3>2. SolarisInv'
      BY <2>3, <3>1, SolarisStays DEF OnceInv
    <3>3. OnceTypeOK'
      <4>1. Win32Wait(t) => comer[t] \notin {"first", "lock", "calling"}
        BY DEF Win32Wait
      <4>2. comer[t] \in {"first", "lock", "calling"}
        BY <3>1 DEF solaris_glthread_once, SolarisTest, SolarisLock, SolarisUnlock
      <4> QED
        BY <1>1, <4>1, <4>2, OnceTyped DEF OnceInv
    <3> QED
      BY <2>1, <2>3, <3>2, <3>3 DEF OnceInv
  <2>4. CASE style = "win32"
    <3>1. win32_glthread_once(t)
      BY <1>1, <2>4 DEF gl_once, glthread_once_singlethreaded, glthread_once_call,
         solaris_glthread_once
    <3>2. Win32Inv' /\ comer'[t] # "aborted"
      BY <2>4, <3>1, Win32Stays DEF OnceInv
    <3>3. OnceTypeOK'
      BY <1>1, <3>2, OnceTyped DEF OnceInv
    <3> QED
      BY <2>1, <2>4, <3>2, <3>3 DEF OnceInv
  <2> QED
    BY <1>1, <2>2, <2>3, <2>4 DEF gl_once, glthread_once_singlethreaded,
       glthread_once_call, solaris_glthread_once, win32_glthread_once
<1>2. CASE UNCHANGED onceVars
  BY <1>2 DEF onceVars, OnceInv, OnceTypeOK, SinglethreadedInv, SolarisInv, Win32Inv,
     Undoing, Made, Maker
<1> QED
  BY <1>1, <1>2 DEF OnceNext

(* Whoever comes first, and in whatever order the counters are read, the    *)
(* initialisation is called once, nobody gives up, and whoever is back      *)
(* (but on Solaris) finds it done.                                          *)
THEOREM InitialisedOnce ==
  ASSUME IsFiniteSet(Comers), Nobody \notin Comers,
         OnceStyles \subseteq {"singlethreaded", "solaris", "win32"}
  PROVE  OnceSpec => []CalledOnce
<1>1. OnceInit => OnceInv
  BY OnceInitial
<1>2. OnceInv /\ [OnceNext]_onceVars => OnceInv'
  BY OnceStays
<1>3. OnceInv => CalledOnce
  BY DEF OnceInv, OnceTypeOK, Onces, OnceCounts, SinglethreadedInv, SolarisInv, Win32Inv,
     OncePlaces, CalledOnce
<1> QED
  BY <1>1, <1>2, <1>3, PTL DEF OnceSpec
=============================================================================
