-------------------------------- MODULE Once --------------------------------
(***************************************************************************)
(* gl_once of src/intl/lock.h and lock.c: the first thread to come calls   *)
(* initfunction, the others wait for it.  The styles are the old Solaris   *)
(* threads (a flag and a mutex), Win32 (two counters and a critical        *)
(* section), and the single-threaded marker of every other library.        *)
(***************************************************************************)
EXTENDS Integers

CONSTANTS
  Comers,      (* the threads                                              *)
  Nobody,
  OnceStyles   (* which of the styles to look at                           *)

VARIABLES
  style,
  once,     (* the fields of the gl_once_t                                 *)
  comer,       (* where each thread is in gl_once                             *)
  calls     (* how often initfunction was called, and whether it is done   *)

onceVars == <<style, once, comer, calls>>

gl_once_define ==
  [inited |-> IF style = "win32" THEN -1 ELSE 0, started |-> -1,
   lock |-> Nobody, ready |-> style # "win32"]

OnceInit ==
  /\ style \in OnceStyles
  /\ once = gl_once_define
  /\ comer = [t \in Comers |-> "first"]
  /\ calls = [count |-> 0, done |-> FALSE]

Moves(t, place) == comer' = [comer EXCEPT ![t] = place]

Begins == calls' = [calls EXCEPT !.count = @ + 1]
Ends   == calls' = [calls EXCEPT !.done = TRUE]
-----------------------------------------------------------------------------
(* One thread only: the marker is inverted before the call.                 *)
glthread_once_singlethreaded(t) ==
  /\ style = "singlethreaded" /\ comer[t] = "first"
  /\ \A u \in Comers : comer[u] \in {"first", "returned"}
  /\ IF once.inited = 0
       THEN once' = [once EXCEPT !.inited = -1] /\ Moves(t, "calling") /\ Begins
       ELSE Moves(t, "returned") /\ UNCHANGED <<once, calls>>
  /\ UNCHANGED style

glthread_once_call(t) ==
  /\ style = "singlethreaded" /\ comer[t] = "calling"
  /\ Ends /\ Moves(t, "returned")
  /\ UNCHANGED <<style, once>>
-----------------------------------------------------------------------------
(* The flag is tested without the mutex, and set before the call.           *)
SolarisTest(t) ==
  /\ comer[t] = "first"
  /\ Moves(t, IF once.inited = 0 THEN "lock" ELSE "returned")
  /\ UNCHANGED <<once, calls>>

SolarisLock(t) ==
  /\ comer[t] = "lock" /\ once.lock = Nobody
  /\ IF once.inited = 0
       THEN /\ once' = [once EXCEPT !.inited = 1, !.lock = t]
            /\ Moves(t, "calling") /\ Begins
       ELSE Moves(t, "returned") /\ UNCHANGED <<once, calls>>

SolarisUnlock(t) ==
  /\ comer[t] = "calling"
  /\ Ends
  /\ once' = [once EXCEPT !.lock = Nobody]
  /\ Moves(t, "returned")

solaris_glthread_once(t) ==
  /\ style = "solaris"
  /\ SolarisTest(t) \/ SolarisLock(t) \/ SolarisUnlock(t)
  /\ UNCHANGED style
-----------------------------------------------------------------------------
(* The first thread to raise started calls initfunction under the lock.     *)
Win32Start(t) ==
  \/ /\ comer[t] = "first"
     /\ Moves(t, IF once.inited <= 0 THEN "start" ELSE "returned")
     /\ UNCHANGED <<once, calls>>
  \/ /\ comer[t] = "start"
     /\ once' = [once EXCEPT !.started = @ + 1]
     /\ Moves(t, IF once.started + 1 = 0 THEN "make" ELSE "undo")
     /\ UNCHANGED calls

Win32Call(t) ==
  \/ /\ comer[t] = "make"
     /\ once' = [once EXCEPT !.ready = TRUE, !.lock = t]
     /\ Moves(t, "begin") /\ UNCHANGED calls
  \/ /\ comer[t] = "begin"
     /\ once' = [once EXCEPT !.inited = 0]
     /\ Moves(t, "calling") /\ Begins
  \/ /\ comer[t] = "calling"
     /\ once' = [once EXCEPT !.inited = 1]
     /\ Moves(t, "leave") /\ Ends
  \/ /\ comer[t] = "leave"
     /\ once' = [once EXCEPT !.lock = Nobody]
     /\ Moves(t, "returned") /\ UNCHANGED calls

(* Deliberately wrong: the others do not wait for the lock to be taken.     *)
await_no_lock(t) ==
  /\ \/ comer[t] = "undo" /\ once' = [once EXCEPT !.started = @ - 1] /\ Moves(t, "await")
     \/ /\ comer[t] = "await"
        /\ Moves(t, IF once.inited <= 0 THEN "wait" ELSE "returned")
        /\ UNCHANGED once
     \/ comer[t] = "wait" /\ once.lock = Nobody /\ Moves(t, "check") /\ UNCHANGED once
     \/ /\ comer[t] = "check"
        /\ Moves(t, IF once.inited > 0 THEN "returned" ELSE "aborted")
        /\ UNCHANGED once
  /\ UNCHANGED calls

Win32Wait(t) ==
  /\ \/ comer[t] = "undo" /\ once' = [once EXCEPT !.started = @ - 1] /\ Moves(t, "await")
     \/ /\ comer[t] = "await" /\ once.inited >= 0
        /\ Moves(t, IF once.inited <= 0 THEN "wait" ELSE "returned")
        /\ UNCHANGED once
     \/ comer[t] = "wait" /\ once.lock = Nobody /\ Moves(t, "check") /\ UNCHANGED once
     \/ /\ comer[t] = "check"
        /\ Moves(t, IF once.inited > 0 THEN "returned" ELSE "aborted")
        /\ UNCHANGED once
  /\ UNCHANGED calls

win32_glthread_once(t) ==
  /\ style = "win32"
  /\ Win32Start(t) \/ Win32Call(t) \/ Win32Wait(t)
  /\ UNCHANGED style
-----------------------------------------------------------------------------
gl_once(t) ==
  \/ glthread_once_singlethreaded(t) \/ glthread_once_call(t)
  \/ solaris_glthread_once(t) \/ win32_glthread_once(t)

OnceNext == \E t \in Comers : gl_once(t)

OnceSpec == OnceInit /\ [][OnceNext]_onceVars
-----------------------------------------------------------------------------
(* initfunction is called once, whoever comes first; no thread gives up;    *)
(* and a thread back from gl_once finds it finished -- but not on Solaris,  *)
(* where the flag other threads test is set before the call begins.         *)
CalledOnce ==
  /\ calls.count <= 1
  /\ \A t \in Comers :
       /\ comer[t] # "aborted"
       /\ comer[t] = "returned" /\ style # "solaris" => calls.done
=============================================================================
