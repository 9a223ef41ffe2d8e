------------------------------ MODULE MetadataCalls ------------------------------
(***************************************************************************)
(* The class wpcpp::Metadata: threads read and write the metadata, which   *)
(* belong to the GLib main loop.                                           *)
(*                                                                         *)
(* A call takes the mutex against parallel calls and the one it will wait  *)
(* with, adds an idle source that points to its local variables, and waits *)
(* without a predicate.  The main loop runs the source under the second    *)
(* mutex and notifies.  What is read or written is left out, and so is the *)
(* call of the thread that owns the main loop, which sets a value at once: *)
(* no caller here is that thread.                                          *)
(***************************************************************************)
EXTENDS Integers, Sequences

CONSTANTS Callers,   \* threads: one in the console, several in the gRPC API
          NoCaller

ASSUME CallersAssumption == NoCaller \notin Callers

VARIABLES
  parallel,     \* who holds _no_parallel_calls_mutex
  at,           \* where each caller stands
  idle,         \* idle sources: whose, or NoCaller when that call has returned
  found,        \* the metadata object was announced
  captured,     \* it was when the present call took its pointer
  outcome,      \* what became of a caller's call
  \* history
  woken_early,  \* there was a spurious wake-up
  dangling      \* a source ran whose caller had returned

calls == <<parallel, at, idle, found, captured, outcome, woken_early, dangling>>

-----------------------------------------------------------------------------
\* Mutant: the source is added before the mutex is taken.
NoMutex == TRUE

\* _wait_for_completion_mutex: held from before the source is added until the wait.
MutexFree == \A c \in Callers : at[c] # "added"

Enter(c) ==
  /\ at[c] = "outside"
  /\ at' = [at EXCEPT ![c] = "parallel"]
  /\ UNCHANGED <<parallel, idle, found, captured, outcome, woken_early, dangling>>

\* The call copies the pointer to the metadata: what is announced later is not seen by it.
Lock(c) ==
  /\ at[c] = "parallel" /\ parallel = NoCaller
  /\ parallel' = c
  /\ captured' = found
  /\ at' = [at EXCEPT ![c] = "mutex"]
  /\ UNCHANGED <<idle, found, outcome, woken_early, dangling>>

\* g_idle_add_once
AddSource(c) ==
  /\ at[c] = "mutex" /\ MutexFree
  /\ idle' = Append(idle, c)
  /\ outcome' = [outcome EXCEPT ![c] = "none"]
  /\ at' = [at EXCEPT ![c] = "added"]
  /\ UNCHANGED <<parallel, found, captured, woken_early, dangling>>

Wait(c) ==
  /\ at[c] = "added"
  /\ at' = [at EXCEPT ![c] = "waiting"]
  /\ UNCHANGED <<parallel, idle, found, captured, outcome, woken_early, dangling>>

SpuriousWakeUp(c) ==
  /\ at[c] = "waiting"
  /\ at' = [at EXCEPT ![c] = "woken"]
  /\ woken_early' = TRUE
  /\ UNCHANGED <<parallel, idle, found, captured, outcome, dangling>>

\* The source of the caller's present call has not run.
Queued(c) == \E i \in 1 .. Len(idle) : idle[i] = c

SourceOf(c) == CHOOSE i \in 1 .. Len(idle) : idle[i] = c

\* The call returns; a source that has not run points to what is gone.
Return(c) ==
  /\ at[c] = "woken" /\ MutexFree
  /\ at' = [at EXCEPT ![c] = "outside"]
  /\ parallel' = NoCaller
  /\ idle' = IF Queued(c) THEN [idle EXCEPT ![SourceOf(c)] = NoCaller] ELSE idle
  /\ UNCHANGED <<found, captured, outcome, woken_early, dangling>>

-----------------------------------------------------------------------------
(* The main loop *)

\* A source runs: notify_all wakes its caller if that waits already.
RunSource ==
  /\ idle # << >> /\ MutexFree
  /\ idle' = Tail(idle)
  /\ LET c == Head(idle) IN
     IF c # NoCaller
       THEN /\ outcome' = [outcome EXCEPT ![c] = IF captured THEN "done" ELSE "no metadata"]
            /\ at' = [at EXCEPT ![c] = IF @ = "waiting" THEN "woken" ELSE @]
            /\ UNCHANGED dangling
       ELSE dangling' = TRUE /\ UNCHANGED <<outcome, at>>
  /\ UNCHANGED <<parallel, found, captured, woken_early>>

\* metadata_added_callback
MetadataFound ==
  /\ ~found
  /\ found' = TRUE
  /\ UNCHANGED <<parallel, at, idle, captured, outcome, woken_early, dangling>>

-----------------------------------------------------------------------------
CallsInit ==
  /\ parallel = NoCaller /\ at = [c \in Callers |-> "outside"] /\ idle = << >>
  /\ found = FALSE /\ captured = FALSE /\ outcome = [c \in Callers |-> "none"]
  /\ woken_early = FALSE /\ dangling = FALSE

InCall(c) == Lock(c) \/ AddSource(c) \/ Wait(c) \/ SpuriousWakeUp(c) \/ Return(c)

MainLoop == RunSource \/ MetadataFound

Steps == {"outside", "parallel", "mutex", "added", "waiting", "woken"}

CallsTypeOK ==
  /\ parallel \in Callers \union {NoCaller} /\ at \in [Callers -> Steps]
  /\ idle \in Seq(Callers \union {NoCaller})
  /\ found \in BOOLEAN /\ captured \in BOOLEAN /\ outcome \in [Callers -> {"none", "done", "no metadata"}]
  /\ woken_early \in BOOLEAN /\ dangling \in BOOLEAN

(***************************************************************************)
(* A caller never waits for a source that has run already, one that is     *)
(* woken finds its call carried out, and no source uses the variables of a *)
(* call that has returned, unless there was a spurious wake-up: the wait   *)
(* has no predicate, and the mutex alone orders the notification after it. *)
(***************************************************************************)
NoCallForgotten ==
  /\ \A c \in Callers : at[c] = "waiting" => Queued(c)
  /\ \A c \in Callers : at[c] = "woken" => outcome[c] # "none" \/ woken_early
  /\ dangling => woken_early
=============================================================================
