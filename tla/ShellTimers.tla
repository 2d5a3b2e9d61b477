---------------------------- MODULE ShellTimers ----------------------------
(***************************************************************************)
(* The timers of the MicroQuickJS shell (mqjs.c): a fixed table of slots,  *)
(* each holding a deadline and a JSGCRef that keeps the callback alive,    *)
(* and the loop run_timers that calls expired callbacks until none is      *)
(* left.  The references of the slots are linked into the context's list   *)
(* last_gc_ref, which the collector takes as roots.  A callback is known   *)
(* by the number of the setTimeout call that armed it.                     *)
(***************************************************************************)
EXTENDS Integers, FiniteSets, FiniteSetsExt, Sequences

CONSTANTS
    MAX_TIMERS,   \* slots of js_timer_list
    MAX_SLEEP,    \* the longest nanosleep of run_timers (1000 ms in the code)
    Delays,       \* the delays a script may ask for
    MaxArmed,     \* bound on the number of setTimeout calls
    MaxNow        \* bound on the clock

VARIABLES
    js_timer_list,  \* slot -> [allocated, func, timeout, prev]
    last_gc_ref,    \* first slot of the list of references
    now,            \* the clock get_time_ms reads
    mode,           \* "script", "timers", "callback", "sleep", "exit"
    wake,           \* when the sleep ends
    armed,          \* number of timers armed so far
    fired, cleared  \* the timers whose callback was called, or removed

timer_vars == <<js_timer_list, last_gc_ref, now, mode, wake, armed, fired, cleared>>

Slots == 0 .. MAX_TIMERS - 1
NULL == -1

Allocated == {i \in Slots : js_timer_list[i].allocated}
Delay(i) == js_timer_list[i].timeout - now
Expired == {i \in Allocated : Delay(i) <= 0}

timers_init ==
    /\ js_timer_list = [i \in Slots |-> [allocated |-> FALSE, func |-> 0,
                                         timeout |-> 0, prev |-> NULL]]
    /\ last_gc_ref = NULL
    /\ now = 0
    /\ mode = "script"
    /\ wake = 0
    /\ armed = 0
    /\ fired = {}
    /\ cleared = {}

-----------------------------------------------------------------------------
(* The list of references, by following prev from last_gc_ref. *)
GCRefs[ref \in Slots \cup {NULL}, n \in Nat] ==
    IF ref = NULL \/ n = 0 THEN << >>
                           ELSE <<ref>> \o GCRefs[js_timer_list[ref].prev, n - 1]

GCRefList == GCRefs[last_gc_ref, MAX_TIMERS + 1]

(* Mutant: the reference is popped like one of the stack top_gc_ref. *)
PopGCRef(ref) ==
    /\ last_gc_ref' = js_timer_list[ref].prev
    /\ js_timer_list' = [js_timer_list EXCEPT ![ref].allocated = FALSE]

(* JS_DeleteGCRef walks the list to ref and unlinks it from its            *)
(* predecessor; the slot is free afterwards.                               *)
JS_DeleteGCRef(ref) ==
    \E k \in DOMAIN GCRefList :
        /\ GCRefList[k] = ref
        /\ IF k = 1
             THEN /\ last_gc_ref' = js_timer_list[ref].prev
                  /\ js_timer_list' = [js_timer_list EXCEPT ![ref].allocated = FALSE]
             ELSE /\ last_gc_ref' = last_gc_ref
                  /\ js_timer_list' = [js_timer_list EXCEPT
                        ![ref].allocated = FALSE,
                        ![GCRefList[k - 1]].prev = js_timer_list[ref].prev]

Running == mode \in {"script", "callback"}

(* The clock advances while a script runs or the shell sleeps. *)
Tick ==
    /\ mode # "exit"
    /\ now < MaxNow
    /\ now' = now + 1
    /\ UNCHANGED <<js_timer_list, last_gc_ref, mode, wake, armed, fired, cleared>>

(* setTimeout takes the first free slot, links its reference and stores    *)
(* the deadline.  With every slot taken it throws: a script that catches   *)
(* the exception goes on, and otherwise the shell ends (ScriptFails).      *)
js_setTimeout(delay) ==
    /\ Running
    /\ armed < MaxArmed /\ now + delay <= MaxNow
    /\ Allocated # Slots
    /\ LET i == Min(Slots \ Allocated) IN
       /\ js_timer_list' = [js_timer_list EXCEPT ![i] =
              [allocated |-> TRUE, func |-> armed + 1, timeout |-> now + delay,
               prev |-> last_gc_ref]]
       /\ last_gc_ref' = i
    /\ armed' = armed + 1
    /\ UNCHANGED <<now, mode, wake, fired, cleared>>

(* clearTimeout ignores a number that is no slot, or a slot that is free. *)
js_clearTimeout(timer_id) ==
    /\ Running
    /\ IF timer_id \in Slots /\ js_timer_list[timer_id].allocated
         THEN /\ JS_DeleteGCRef(timer_id)
              /\ cleared' = cleared \cup {js_timer_list[timer_id].func}
         ELSE UNCHANGED <<js_timer_list, last_gc_ref, cleared>>
    /\ UNCHANGED <<now, mode, wake, armed, fired>>

(* The script or the callback returns to run_timers. *)
ScriptReturns ==
    /\ Running
    /\ mode' = "timers"
    /\ UNCHANGED <<js_timer_list, last_gc_ref, now, wake, armed, fired, cleared>>

(* An exception of the script or of a callback ends the shell; so does a   *)
(* JS_StackCheck that fails before the call.                               *)
ScriptFails ==
    /\ Running \/ (mode = "timers" /\ Expired # {})
    /\ mode' = "exit"
    /\ UNCHANGED <<js_timer_list, last_gc_ref, now, wake, armed, fired, cleared>>

(* How long a pass of run_timers that finds no expired timer sleeps. *)
min_delay == Min({MAX_SLEEP} \cup {Delay(i) : i \in Allocated})

(* One pass over the table: the first expired slot is freed and its        *)
(* callback called; with no timer left the loop ends; otherwise the shell  *)
(* sleeps until the next deadline.                                         *)
run_timers ==
    /\ mode = "timers"
    /\ \/ /\ Expired # {}
          /\ LET i == Min(Expired) IN
             /\ JS_DeleteGCRef(i)
             /\ fired' = fired \cup {js_timer_list[i].func}
          /\ mode' = "callback"
          /\ UNCHANGED wake
       \/ /\ Expired = {}
          /\ mode' = IF Allocated = {} THEN "exit" ELSE "sleep"
          /\ wake' = IF Allocated = {} THEN wake ELSE now + min_delay
          /\ UNCHANGED <<js_timer_list, last_gc_ref, fired>>
    /\ UNCHANGED <<now, armed, cleared>>

Wakes ==
    /\ mode = "sleep"
    /\ now >= wake
    /\ mode' = "timers"
    /\ UNCHANGED <<js_timer_list, last_gc_ref, now, wake, armed, fired, cleared>>

timers_next ==
    \/ Tick
    \/ \E delay \in Delays : js_setTimeout(delay)
    \/ \E timer_id \in -1 .. MAX_TIMERS : js_clearTimeout(timer_id)
    \/ ScriptReturns
    \/ ScriptFails
    \/ run_timers
    \/ Wakes

-----------------------------------------------------------------------------
(* Type invariant. *)
TimersTypeOK ==
    /\ js_timer_list \in [Slots -> [allocated : BOOLEAN, func : 0 .. MaxArmed,
                                    timeout : Int, prev : Slots \cup {NULL}]]
    /\ last_gc_ref \in Slots \cup {NULL}
    /\ now \in 0 .. MaxNow
    /\ mode \in {"script", "timers", "callback", "sleep", "exit"}
    /\ wake \in 0 .. MaxNow + MAX_SLEEP
    /\ armed \in 0 .. MaxArmed
    /\ fired \subseteq 1 .. armed
    /\ cleared \subseteq 1 .. armed

(* Every armed timer is pending in exactly one slot, or was fired, or was  *)
(* cleared, and never two of these; the callbacks the collector sees       *)
(* through last_gc_ref are exactly those of the pending slots, each once;  *)
(* and a sleep of run_timers ends no later than the next deadline.         *)
TimersSound ==
    /\ LET Pending == {js_timer_list[i].func : i \in Allocated}
           refs == GCRefList
       IN  /\ Pending \cup fired \cup cleared = 1 .. armed
           /\ Cardinality(Pending) = Cardinality(Allocated)
           /\ Cardinality(Pending) + Cardinality(fired) + Cardinality(cleared) = armed
           /\ Len(refs) = Cardinality(Allocated)
           /\ {refs[k] : k \in DOMAIN refs} = Allocated
    /\ mode = "sleep" => \A i \in Allocated : wake <= js_timer_list[i].timeout

(* The shell ends: run_timers does not sleep forever, and returns once     *)
(* every timer was fired or cleared.                                       *)
ShellExits == <>(mode = "exit")
=============================================================================
