------------------------------- MODULE Locks -------------------------------
(***************************************************************************)
(* The locks of src/intl/lock.h and lock.c: plain, read-write and          *)
(* recursive locks on top of whichever thread library the build found.     *)
(* A lock of some kind is made in one of these styles:                     *)
(*                                                                         *)
(*   native   a statically initialised primitive of the library            *)
(*   pth      the same of GNU Pth, whose mutexes are all recursive         *)
(*   lazy     the primitive, initialised by the first user under a mutex   *)
(*   conds    a read-write lock made of a mutex and two conditions         *)
(*   owner    a recursive lock made of a mutex and the owner's name        *)
(*   win32    all three kinds made of critical sections and events, and    *)
(*            initialised by the first user behind a spin lock             *)
(*   absent   no threads are in use, and every operation is empty          *)
(*                                                                         *)
(* What the code does inside a critical section is one step; waiting for a *)
(* condition or an event, and every unprotected read, splits a step.       *)
(***************************************************************************)
EXTENDS Integers, FiniteSets

CONSTANTS
  Threads,
  None,        (* no thread: a free guard, owner 0, an array slot never set *)
  Uses,        (* the locks and users to look at, see User                  *)
  MaxDepth     (* bound: how often a thread nests a recursive lock          *)

VARIABLES
  use,      (* the lock and its users, one of Uses                          *)
  lock,     (* the fields of the gl_..._t                                   *)
  pc,       (* where each thread is in a lock operation                     *)
  mode,     (* "read" or "write", of the thread's last call                 *)
  level,    (* how many times the thread holds the lock                     *)
  left,     (* bound: how many more times the thread takes it               *)
  defined,  (* the lock has not been destroyed                              *)
  aborted   (* why abort() was called, or "no"                              *)

vars == <<use, lock, pc, mode, level, left, defined, aborted>>

Is(kind, style) == use.kind = kind /\ use.style = style
-----------------------------------------------------------------------------
(***************************************************************************)
(* The macros of lock.h: which style each thread library gives each kind.  *)
(***************************************************************************)
Macros(kind, style) == [kind |-> kind, style |-> style]

posix_lock            == Macros("lock", "native")
posix_rwlock          == Macros("rwlock", "native")
posix_rwlock_lazy     == Macros("rwlock", "lazy")
posix_rwlock_conds    == Macros("rwlock", "conds")
posix_recursive       == Macros("recursive", "native")
posix_recursive_lazy  == Macros("recursive", "lazy")
posix_recursive_owner == Macros("recursive", "owner")
pth_lock              == Macros("lock", "pth")
pth_rwlock            == Macros("rwlock", "pth")
pth_recursive         == Macros("recursive", "pth")
solaris_lock          == Macros("lock", "native")
solaris_rwlock        == Macros("rwlock", "native")
solaris_recursive     == Macros("recursive", "owner")
win32_lock            == Macros("lock", "win32")
win32_rwlock          == Macros("rwlock", "win32")
win32_recursive       == Macros("recursive", "win32")
no_threads            == {Macros(kind, "absent") :
                            kind \in {"lock", "rwlock", "recursive"}}

AllLocks ==
  {posix_lock, posix_rwlock, posix_rwlock_lazy, posix_rwlock_conds,
   posix_recursive, posix_recursive_lazy, posix_recursive_owner, pth_lock,
   pth_rwlock, pth_recursive, solaris_lock, solaris_rwlock,
   solaris_recursive, win32_lock, win32_rwlock, win32_recursive} \cup no_threads

(* The users of a lock: without threads only one thread may come.           *)
ASSUME LocksAssumption ==
  /\ IsFiniteSet(Threads) /\ None \notin Threads
  /\ \A u \in Uses :
       /\ Macros(u.kind, u.style) \in AllLocks
       /\ u.threads \subseteq Threads /\ u.modes \subseteq {"read", "write"}
       /\ u.style = "absent" => \A t, v \in u.threads : t = v

(* The wait queue of a Win32 read-write lock, its array a function on the   *)
(* indices 0 .. alloc-1.                                                    *)
gl_waitqueue_init == [array |-> <<>>, count |-> 0, alloc |-> 0, offset |-> 0]

(* The initialisers: a lazily made lock has no primitive yet.               *)
gl_initializer(style) ==
  [initialized |-> style \notin {"lazy", "win32"},
   ready       |-> style \notin {"lazy", "win32"},
   guard |-> None, started |-> -1,
   primitive |-> 0,          (* external: -1 a writer, n > 0 readers        *)
   nests |-> TRUE,           (* external: its holder may take it again      *)
   runcount |-> 0, waiting_writers_count |-> 0,
   waiting_readers |-> gl_waitqueue_init,
   waiting_writers |-> gl_waitqueue_init,
   owner |-> None, depth |-> 0]

Init ==
  /\ use \in Uses
  /\ lock = IF use.initialized THEN [gl_initializer(use.style) EXCEPT
                                    !.initialized = TRUE, !.ready = TRUE]
                              ELSE gl_initializer(use.style)
  /\ pc = [t \in Threads |-> "out"]
  /\ mode = [t \in Threads |-> "write"]
  /\ level = [t \in Threads |-> 0]
  /\ left = use.left
  /\ defined = TRUE /\ aborted = "no"

Go(t, place) == pc' = [pc EXCEPT ![t] = place]

Aborts(why) ==
  /\ aborted' = why
  /\ UNCHANGED <<use, lock, pc, mode, level, left, defined>>

Locals == <<use, mode, level, left, defined, aborted>>

Obtain(t) ==
  /\ Go(t, "in")
  /\ level' = [level EXCEPT ![t] = @ + 1]
  /\ UNCHANGED <<use, mode, left, defined, aborted>>

Leave(t) ==
  /\ Go(t, IF level[t] = 1 THEN "out" ELSE "in")
  /\ level' = [level EXCEPT ![t] = @ - 1]
  /\ UNCHANGED <<use, mode, left, defined, aborted>>
-----------------------------------------------------------------------------
(***************************************************************************)
(* A call of gl_..._lock, and its entry into the function of the style.    *)
(***************************************************************************)
Entry ==
  CASE use.style \in {"lazy", "win32"} -> "test"
    [] use.style = "owner" -> "owner"
    [] OTHER -> "enter"

(* Threads are alike, so let them come in the order of their numbers.       *)
InTurn(t) == \A u \in use.threads : u < t => left[u] < use.left[u]

Call(t, md) ==
  /\ defined /\ left[t] > 0 /\ InTurn(t)
  /\ \/ pc[t] = "out" /\ level[t] = 0
     \/ pc[t] = "in" /\ use.kind = "recursive" /\ level[t] < MaxDepth
  /\ md = "read" => use.kind = "rwlock"
  /\ mode' = [mode EXCEPT ![t] = md]
  /\ left' = [left EXCEPT ![t] = @ - 1]
  /\ Go(t, Entry)
  /\ UNCHANGED <<use, lock, level, defined, aborted>>

(* gl_lock_lock and its like when pthread_in_use () is 0.                   *)
AbsentLock(t) ==
  /\ use.style = "absent" /\ pc[t] = "enter"
  /\ Obtain(t) /\ UNCHANGED lock

AbsentUnlock(t) ==
  /\ use.style = "absent" /\ pc[t] = "in"
  /\ Leave(t) /\ UNCHANGED lock
-----------------------------------------------------------------------------
(***************************************************************************)
(* The primitives of the thread library, from how lock.c uses them.        *)
(***************************************************************************)
TakePrimitive(t) ==
  \/ /\ mode[t] = "read" /\ lock.primitive >= 0
     /\ lock' = [lock EXCEPT !.primitive = @ + 1]
  \/ /\ mode[t] = "write" /\ lock.primitive = 0
     /\ lock' = [lock EXCEPT !.primitive = -1]
  \/ /\ use.kind = "recursive" /\ use.style # "owner" /\ level[t] > 0
     /\ lock.nests /\ UNCHANGED lock

DropPrimitive(t) ==
  \/ /\ lock.primitive > 0
     /\ lock' = [lock EXCEPT !.primitive = @ - 1]
  \/ /\ lock.primitive = -1 /\ level[t] = 1
     /\ lock' = [lock EXCEPT !.primitive = 0]
  \/ /\ level[t] > 1
     /\ UNCHANGED lock

(* An operation on a primitive nobody initialised fails.                    *)
EnterPrimitive(t) ==
  /\ pc[t] = "enter"
  /\ IF lock.ready THEN TakePrimitive(t) /\ Obtain(t)
                   ELSE Aborts("inconsistent")

Native == use.style \in {"native", "pth"}

NativeLock(t) == Native /\ EnterPrimitive(t)

NativeUnlock(t) ==
  /\ Native /\ pc[t] = "in"
  /\ DropPrimitive(t) /\ Leave(t)
-----------------------------------------------------------------------------
(***************************************************************************)
(* Locks that their first user initialises.                                *)
(***************************************************************************)
TestInitialized(t) ==
  /\ pc[t] = "test"
  /\ Go(t, IF ~ lock.initialized THEN "guard"
           ELSE IF Is("recursive", "win32") THEN "owner" ELSE "enter")
  /\ UNCHANGED <<lock, Locals>>

(* Deliberately wrong: under the guard the flag is not tested again.        *)
guard_untested(t) ==
  /\ pc[t] = "guard" /\ lock.guard = None
  /\ Go(t, "init") /\ lock' = [lock EXCEPT !.guard = t]
  /\ UNCHANGED Locals

(* Under the guard the flag is tested again.                                *)
LazyGuard(t) ==
  /\ pc[t] = "guard" /\ lock.guard = None
  /\ IF lock.initialized
       THEN Go(t, "enter") /\ UNCHANGED lock
       ELSE Go(t, "init") /\ lock' = [lock EXCEPT !.guard = t]
  /\ UNCHANGED Locals

InitPrimitive(t) ==
  /\ pc[t] = "init"
  /\ lock' = [lock EXCEPT !.ready = TRUE, !.primitive = 0]
  /\ Go(t, "publish")
  /\ UNCHANGED Locals

LazyPublish(t) ==
  /\ pc[t] = "publish"
  /\ lock' = [lock EXCEPT !.initialized = TRUE, !.guard = None]
  /\ Go(t, "enter")
  /\ UNCHANGED Locals

LazyRwlockInit(t) == Is("rwlock", "lazy") /\ (InitPrimitive(t) \/ LazyPublish(t))

LazyRwlockRdlock(t) ==
  /\ Is("rwlock", "lazy") /\ mode[t] = "read"
  /\ TestInitialized(t) \/ LazyGuard(t) \/ EnterPrimitive(t)

LazyRwlockWrlock(t) ==
  /\ Is("rwlock", "lazy") /\ mode[t] = "write"
  /\ TestInitialized(t) \/ LazyGuard(t) \/ EnterPrimitive(t)

LazyUnlock(t) ==
  /\ pc[t] = "in"
  /\ IF lock.initialized THEN DropPrimitive(t) /\ Leave(t)
                         ELSE Aborts("inconsistent")

LazyRwlockUnlock(t) == Is("rwlock", "lazy") /\ LazyUnlock(t)

LazyRecursiveInit(t) ==
  Is("recursive", "lazy") /\ (InitPrimitive(t) \/ LazyPublish(t))

LazyRecursiveLock(t) ==
  /\ Is("recursive", "lazy")
  /\ TestInitialized(t) \/ LazyGuard(t) \/ EnterPrimitive(t)

LazyRecursiveUnlock(t) == Is("recursive", "lazy") /\ LazyUnlock(t)
-----------------------------------------------------------------------------
(***************************************************************************)
(* The read-write lock made of a mutex and two conditions.                 *)
(***************************************************************************)
Asleep(md) == {t \in Threads : pc[t] = "asleep" /\ mode[t] = md}

(* POSIX lets a condition wake its thread for no reason.                    *)
SpuriousWakeup(t) ==
  /\ Is("rwlock", "conds") /\ use.failures /\ pc[t] = "asleep"
  /\ Go(t, "woken")
  /\ UNCHANGED <<lock, Locals>>

CondsRdlock(t) ==
  /\ Is("rwlock", "conds") /\ mode[t] = "read" /\ pc[t] \in {"enter", "woken"}
  /\ IF lock.runcount + 1 > 0 /\ lock.waiting_writers_count = 0
       THEN lock' = [lock EXCEPT !.runcount = @ + 1] /\ Obtain(t)
       ELSE Go(t, "asleep") /\ UNCHANGED <<lock, Locals>>

CondsWrlock(t) ==
  /\ Is("rwlock", "conds") /\ mode[t] = "write" /\ pc[t] \in {"enter", "woken"}
  /\ LET waited == IF pc[t] = "woken" THEN 1 ELSE 0
         others == lock.waiting_writers_count - waited
     IN IF lock.runcount = 0
          THEN /\ lock' = [lock EXCEPT !.waiting_writers_count = others,
                                       !.runcount = @ - 1]
               /\ Obtain(t)
          ELSE /\ lock' = [lock EXCEPT !.waiting_writers_count = others + 1]
               /\ Go(t, "asleep") /\ UNCHANGED Locals

(* Deliberately wrong: a writer's -1 is counted down as well.               *)
drops_below == lock.runcount - 1

(* What both read-write locks of lock.c do with runcount on unlocking.      *)
Dropped == IF lock.runcount < 0 THEN 0 ELSE lock.runcount - 1

Unlockable == lock.runcount >= -1 /\ lock.runcount # 0

Quits(t) ==
  /\ level' = [level EXCEPT ![t] = 0]
  /\ UNCHANGED <<use, mode, left, defined, aborted>>

WakeAndLeave(t, woken) ==
  pc' = [u \in Threads |-> IF u = t THEN "out"
                           ELSE IF u \in woken THEN "woken" ELSE pc[u]]

(* Whom pthread_cond_signal may wake.                                       *)
OneOf(S) == IF S = {} THEN {{}} ELSE {{u} : u \in S}

(* Deliberately wrong: nobody wakes the readers.                            *)
forgets_readers ==
  IF Dropped = 0 /\ lock.waiting_writers_count > 0
    THEN OneOf(Asleep("write")) ELSE {{}}

(* Whom an unlock may wake.                                                 *)
CondsWoken ==
  IF Dropped # 0 THEN {{}}
  ELSE IF lock.waiting_writers_count > 0 THEN OneOf(Asleep("write"))
  ELSE {Asleep("read")}

CondsUnlock(t) ==
  /\ Is("rwlock", "conds") /\ pc[t] = "in"
  /\ IF Unlockable
       THEN /\ lock' = [lock EXCEPT !.runcount = Dropped]
            /\ \E woken \in CondsWoken : WakeAndLeave(t, woken)
            /\ Quits(t)
       ELSE Aborts("inconsistent")
-----------------------------------------------------------------------------
(***************************************************************************)
(* The recursive lock made of a mutex and its owner's name.  The owner is  *)
(* read without the mutex.                                                 *)
(***************************************************************************)
TestOwner(t) ==
  /\ pc[t] = "owner"
  /\ Go(t, IF lock.owner # t THEN "mutex" ELSE "count")
  /\ UNCHANGED <<lock, Locals>>

TakeMutex(t) ==
  /\ pc[t] = "mutex" /\ lock.primitive = 0
  /\ lock' = [lock EXCEPT !.primitive = -1]
  /\ Go(t, "own")
  /\ UNCHANGED Locals

SetOwner(t) ==
  /\ pc[t] = "own"
  /\ lock' = [lock EXCEPT !.owner = t]
  /\ Go(t, "count")
  /\ UNCHANGED Locals

CountDepth(t) ==
  /\ pc[t] = "count"
  /\ lock' = [lock EXCEPT !.depth = @ + 1]
  /\ Obtain(t)

RecursiveLock(t) ==
  TestOwner(t) \/ TakeMutex(t) \/ SetOwner(t) \/ CountDepth(t)

(* Deliberately wrong: the mutex is given back before the name is erased.   *)
erase_late(t) ==
  \/ /\ pc[t] = "in" /\ lock.owner = t /\ lock.depth > 1
     /\ lock' = [lock EXCEPT !.depth = @ - 1] /\ Leave(t)
  \/ /\ pc[t] = "in" /\ lock.owner = t /\ lock.depth = 1
     /\ lock' = [lock EXCEPT !.depth = 0, !.primitive = 0]
     /\ Go(t, "disown") /\ UNCHANGED Locals
  \/ /\ pc[t] = "disown"
     /\ lock' = [lock EXCEPT !.owner = None] /\ Leave(t)
  \/ pc[t] = "in" /\ lock.owner # t /\ Aborts("inconsistent")

RecursiveUnlock(t) ==
  \/ /\ pc[t] = "in" /\ (lock.owner # t \/ lock.depth = 0)
     /\ Aborts("inconsistent")
  \/ /\ pc[t] = "in" /\ lock.owner = t /\ lock.depth > 1
     /\ lock' = [lock EXCEPT !.depth = @ - 1]
     /\ Leave(t)
  \/ /\ pc[t] = "in" /\ lock.owner = t /\ lock.depth = 1
     /\ lock' = [lock EXCEPT !.depth = 0, !.owner = None]
     /\ Go(t, "disown") /\ UNCHANGED Locals
  \/ /\ pc[t] = "disown"
     /\ lock' = [lock EXCEPT !.primitive = 0]
     /\ Leave(t)

OwnerLock(t) == Is("recursive", "owner") /\ RecursiveLock(t)

OwnerUnlock(t) == Is("recursive", "owner") /\ RecursiveUnlock(t)
-----------------------------------------------------------------------------
(***************************************************************************)
(* Win32: the first user of a lock initialises it, the others spin.        *)
(***************************************************************************)
Win32Ready == IF use.kind = "recursive" THEN "owner" ELSE "enter"

(* InterlockedIncrement (&lock->guard.started) == 0                         *)
SpinlockStart(t) ==
  /\ pc[t] = "guard"
  /\ lock' = [lock EXCEPT !.started = @ + 1]
  /\ Go(t, IF lock.started + 1 = 0 THEN "init" ELSE "spin")
  /\ UNCHANGED Locals

SpinlockDone(t) ==
  /\ pc[t] = "spin" /\ lock.initialized
  /\ Go(t, Win32Ready)
  /\ UNCHANGED <<lock, Locals>>

Win32Publish(t) ==
  /\ pc[t] = "publish"
  /\ lock' = [lock EXCEPT !.initialized = TRUE]
  /\ Go(t, Win32Ready)
  /\ UNCHANGED Locals

Win32Initialize(t) ==
  TestInitialized(t) \/ SpinlockStart(t) \/ SpinlockDone(t) \/ Win32Publish(t)

Win32LockInit(t) == Is("lock", "win32") /\ (InitPrimitive(t) \/ Win32Initialize(t))

Win32Lock(t) == Is("lock", "win32") /\ EnterPrimitive(t)

Win32Unlock(t) == Is("lock", "win32") /\ LazyUnlock(t)

Win32RecursiveInit(t) ==
  /\ Is("recursive", "win32")
  /\ \/ /\ pc[t] = "init"
        /\ lock' = [lock EXCEPT !.owner = None, !.depth = 0, !.ready = TRUE,
                                !.primitive = 0]
        /\ Go(t, "publish")
        /\ UNCHANGED Locals
     \/ Win32Initialize(t)

Win32RecursiveLock(t) == Is("recursive", "win32") /\ RecursiveLock(t)

Win32RecursiveUnlock(t) == Is("recursive", "win32") /\ RecursiveUnlock(t)
-----------------------------------------------------------------------------
(***************************************************************************)
(* The wait queues: rings of events, one event for each waiting thread.    *)
(***************************************************************************)
Ring(q, n) ==
  LET index == q.offset + n
  IN IF index >= q.alloc THEN index - q.alloc ELSE index

(* A full array is made longer and rotated, so that it starts at 0 again.   *)
Grown(q) ==
  [q EXCEPT
     !.array = [i \in 0 .. 2 * q.alloc |->
                  IF i < q.count THEN q.array[Ring(q, i)] ELSE None],
     !.alloc = 2 * @ + 1,
     !.offset = 0]

Full(q) == q.count = q.alloc

gl_waitqueue_add(q, t) ==
  LET room == IF Full(q) THEN Grown(q) ELSE q
  IN [room EXCEPT !.array[Ring(room, room.count)] = t, !.count = @ + 1]

First(q) == q.array[q.offset]

gl_waitqueue_notify_first(q) ==
  [q EXCEPT !.count = @ - 1,
            !.offset = IF q.count = 1 \/ @ + 1 = q.alloc THEN 0 ELSE @ + 1]

gl_waitqueue_notify_all(q) == [q EXCEPT !.count = 0, !.offset = 0]

Queued(q) == {q.array[Ring(q, n)] : n \in 0 .. q.count - 1}
-----------------------------------------------------------------------------
(***************************************************************************)
(* The Win32 read-write lock: an unlock that finds threads waiting enters  *)
(* runcount on their behalf before it sets their events.                   *)
(***************************************************************************)
Win32RwlockInit(t) ==
  Is("rwlock", "win32") /\ (InitPrimitive(t) \/ Win32Initialize(t))

(* Without memory for a longer array the thread polls instead.  CreateEvent *)
(* reports a failure as NULL, which the code does not test for, and waiting *)
(* for a NULL event fails.                                                  *)
Enqueue(t, queue) ==
  \/ /\ lock' = [lock EXCEPT ![queue] = gl_waitqueue_add(@, t)]
     /\ Go(t, "asleep")
     /\ UNCHANGED Locals
  \/ /\ use.failures /\ Full(lock[queue])
     /\ Go(t, "poll")
     /\ UNCHANGED <<lock, Locals>>
  \/ use.failures /\ Aborts("no event")

Enters(t, free, count, queue) ==
  \/ /\ pc[t] \in {"enter", "poll"} /\ free
     /\ lock' = [lock EXCEPT !.runcount = count]
     /\ Obtain(t)
  \/ pc[t] = "enter" /\ ~ free /\ Enqueue(t, queue)

(* Back from WaitForSingleObject.                                           *)
Resumes(t, entered) ==
  /\ pc[t] = "woken"
  /\ IF entered THEN Obtain(t) /\ UNCHANGED lock ELSE Aborts("inconsistent")

Win32Rdlock(t) ==
  /\ Is("rwlock", "win32") /\ mode[t] = "read"
  /\ \/ Enters(t, lock.runcount + 1 > 0, lock.runcount + 1, "waiting_readers")
     \/ Resumes(t, lock.runcount > 0)

Win32Wrlock(t) ==
  /\ Is("rwlock", "win32") /\ mode[t] = "write"
  /\ \/ Enters(t, lock.runcount = 0, lock.runcount - 1, "waiting_writers")
     \/ Resumes(t, lock.runcount = -1)

HandOver ==
  IF lock.waiting_writers.count > 0
    THEN [woken |-> {First(lock.waiting_writers)},
          lock |-> [lock EXCEPT !.runcount = -1,
                      !.waiting_writers = gl_waitqueue_notify_first(@)]]
    ELSE [woken |-> Queued(lock.waiting_readers),
          lock |-> [lock EXCEPT !.runcount = lock.waiting_readers.count,
                      !.waiting_readers = gl_waitqueue_notify_all(@)]]

Win32RwUnlock(t) ==
  /\ Is("rwlock", "win32") /\ pc[t] = "in"
  /\ IF ~ Unlockable THEN Aborts("inconsistent")
     ELSE /\ Quits(t)
          /\ IF Dropped = 0
               THEN lock' = HandOver.lock /\ WakeAndLeave(t, HandOver.woken)
               ELSE lock' = [lock EXCEPT !.runcount = Dropped] /\ Go(t, "out")
-----------------------------------------------------------------------------
(***************************************************************************)
(* Destroying a lock that no thread uses, and defining it anew.  A lazy    *)
(* lock that no thread ever used is not there to be destroyed.             *)
(***************************************************************************)
Destroyed(checks) ==
  /\ use.destroyed /\ defined /\ \A t \in Threads : pc[t] = "out"
  /\ IF ~ checks THEN Aborts("never used")
     ELSE /\ defined' = FALSE
          /\ lock' = [lock EXCEPT !.initialized = use.style \notin {"lazy", "win32"},
                                  !.ready = FALSE]
          /\ UNCHANGED <<use, pc, mode, level, left, aborted>>

Defined(fields) ==
  /\ ~ defined /\ defined' = TRUE
  /\ lock' = fields
  /\ UNCHANGED <<use, pc, mode, level, left, aborted>>

Anew == [lock EXCEPT !.initialized = TRUE, !.ready = TRUE, !.primitive = 0]

NativeDestroy == (Native \/ use.style = "absent") /\ Destroyed(TRUE)

(* gl_recursive_lock_init for POSIX: the mutex it makes is a plain one.     *)
NativeDefine ==
  /\ Native \/ use.style = "absent"
  /\ Defined([Anew EXCEPT !.nests = ~ Is("recursive", "native")])

LazyRwlockDestroy    == Is("rwlock", "lazy") /\ Destroyed(lock.initialized)
LazyRecursiveDestroy == Is("recursive", "lazy") /\ Destroyed(lock.initialized)
LazyDefine           == use.style = "lazy" /\ Defined(Anew)

CondsDestroy == Is("rwlock", "conds") /\ Destroyed(TRUE)

CondsInit ==
  /\ Is("rwlock", "conds")
  /\ Defined([Anew EXCEPT !.waiting_writers_count = 0, !.runcount = 0])

OwnerInit ==
  /\ Is("recursive", "owner")
  /\ Defined([Anew EXCEPT !.owner = None, !.depth = 0])

OwnerDestroy == Is("recursive", "owner") /\ Destroyed(lock.owner = None)

Win32LockDestroy   == Is("lock", "win32") /\ Destroyed(lock.initialized)
Win32RwlockDestroy ==
  Is("rwlock", "win32") /\ Destroyed(lock.initialized /\ lock.runcount = 0)

(* Never used, its critical section is destroyed without having been made.  *)
Win32RecursiveDestroy ==
  Is("recursive", "win32") /\ Destroyed(lock.initialized /\ lock.owner = None)

Win32Define ==
  /\ use.style = "win32"
  /\ Defined([Anew EXCEPT !.waiting_readers = gl_waitqueue_init,
                          !.waiting_writers = gl_waitqueue_init, !.runcount = 0,
                          !.owner = None, !.depth = 0])
-----------------------------------------------------------------------------
(* What a thread inside a lock operation does next.                         *)
Acquires(t) ==
  \/ AbsentLock(t) \/ NativeLock(t)
  \/ LazyRwlockInit(t) \/ LazyRwlockRdlock(t) \/ LazyRwlockWrlock(t)
  \/ LazyRecursiveInit(t) \/ LazyRecursiveLock(t)
  \/ CondsRdlock(t) \/ CondsWrlock(t) \/ OwnerLock(t)
  \/ Win32LockInit(t) \/ Win32Lock(t)
  \/ Win32RwlockInit(t) \/ Win32Rdlock(t) \/ Win32Wrlock(t)
  \/ Win32RecursiveInit(t) \/ Win32RecursiveLock(t)

Unlocks(t) ==
  \/ AbsentUnlock(t) \/ NativeUnlock(t)
  \/ LazyRwlockUnlock(t) \/ LazyRecursiveUnlock(t)
  \/ CondsUnlock(t) \/ OwnerUnlock(t)
  \/ Win32Unlock(t) \/ Win32RwUnlock(t) \/ Win32RecursiveUnlock(t)

Redefines ==
  \/ NativeDestroy \/ NativeDefine \/ LazyRwlockDestroy \/ LazyRecursiveDestroy
  \/ LazyDefine \/ CondsDestroy \/ CondsInit \/ OwnerInit \/ OwnerDestroy
  \/ Win32LockDestroy \/ Win32RwlockDestroy \/ Win32RecursiveDestroy
  \/ Win32Define

Next ==
  /\ aborted = "no"
  /\ \/ \E t \in use.threads :
          \/ \E md \in use.modes : Call(t, md)
          \/ Acquires(t) \/ Unlocks(t) \/ SpuriousWakeup(t)
     \/ Redefines

(* A thread that is not put to sleep goes on, and gives back what it took.  *)
Fairness ==
  \A t \in Threads :
    WF_vars(aborted = "no" /\ t \in use.threads /\ (Acquires(t) \/ Unlocks(t)))

Spec == Init /\ [][Next]_vars /\ Fairness
-----------------------------------------------------------------------------
Places == {"out", "test", "guard", "init", "publish", "spin", "enter", "asleep",
           "woken", "poll", "owner", "mutex", "own", "count", "in", "disown"}

(* The fields stay in their ranges.                                         *)
TypeOK ==
  /\ use \in Uses
  /\ lock.runcount \in -1 .. Cardinality(Threads)
  /\ lock.primitive \in -1 .. Cardinality(Threads)
  /\ lock.waiting_writers_count \in 0 .. Cardinality(Threads)
  /\ lock.owner \in Threads \cup {None} /\ lock.guard \in Threads \cup {None}
  /\ lock.depth \in 0 .. MaxDepth
  /\ pc \in [Threads -> Places] /\ mode \in [Threads -> {"read", "write"}]
  /\ level \in [Threads -> 0 .. MaxDepth]
  /\ aborted \in {"no", "never used", "no event", "inconsistent"}

(* The locks of lock.c let in any number of readers or one writer: each     *)
(* implements RWLock, whatever its style.                                   *)
Held == [t \in Threads |-> IF level[t] = 0 THEN "none" ELSE mode[t]]
Abstract == INSTANCE RWLock WITH holds <- Held
Exclusion == Abstract!Spec

(* The bookkeeping of a lock agrees with what its users do: no abort () of  *)
(* lock.c is reached by threads that lock and unlock in turn, and a thread  *)
(* is asleep exactly when the condition or the queue knows of it.           *)
Consistent ==
  /\ aborted # "inconsistent"
  /\ Is("rwlock", "conds") =>
       lock.waiting_writers_count =
         Cardinality({t \in Threads : mode[t] = "write"
                                        /\ pc[t] \in {"asleep", "woken"}})
  /\ Is("rwlock", "win32") =>
       /\ Queued(lock.waiting_readers) = Asleep("read")
       /\ Queued(lock.waiting_writers) = Asleep("write")
       /\ lock.waiting_readers.count = Cardinality(Asleep("read"))
       /\ lock.waiting_writers.count = Cardinality(Asleep("write"))

(* A thread waits for the plain mutex it holds itself.                      *)
SelfBlocked == ~ lock.nests /\ \E t \in Threads : pc[t] = "enter" /\ level[t] > 0

(* No wakeup is lost: once the others have had their turns, every thread    *)
(* that waits for the lock has it -- unless the holder waits for itself, as *)
(* happens with what gl_recursive_lock_init of lock.h (270) makes.          *)
Served == \A t \in Threads :
  (pc[t] \notin {"in", "out"} /\ level[t] = 0)
    ~> (level[t] > 0 \/ aborted # "no" \/ SelfBlocked)
=============================================================================
