---------------------------- MODULE MetadataManager ----------------------------
(***************************************************************************)
(* The application pmx-metadata-manager: the port and the group of every   *)
(* input channel live in a metadata object of the session, which clients   *)
(* change at any time, and in a file, from which they are restored.        *)
(*                                                                         *)
(* At its start the manager reads the file, asks the session to set what   *)
(* it read and then listens.  The session tells it of every change; a      *)
(* callback queues the change, a second thread collects what is queued,    *)
(* applies it to its own copy of the configuration and writes the file.    *)
(***************************************************************************)
EXTENDS Integers, Sequences

CONSTANTS PortKeys, GroupKeys,   \* "channel_port_<n>" and "channel_group_<n>"
          Ports, Groups,         \* their values
          Null,                  \* no value
          NoFile, Torn,          \* the file does not exist, was truncated and not written
          MaxEvents              \* bound: clients wait while so many changes are under way

ASSUME KeysAssumption ==
  /\ PortKeys \intersect GroupKeys = {}
  /\ 1 \in Groups
  /\ Null \notin Ports \union Groups
  /\ MaxEvents \in Nat

Keys == PortKeys \union GroupKeys
Values == Ports \union Groups \union {Null}
ValuesOf(k) == IF k \in PortKeys THEN Ports ELSE Groups

\* A port may be missing, a group may not: the first one is the default.
Default == [k \in Keys |-> IF k \in PortKeys THEN Null ELSE 1]
Config == {c \in [Keys -> Values] :
              \A k \in Keys : c[k] \in ValuesOf(k) \/ (k \in PortKeys /\ c[k] = Null)}

ASSUME FileAssumption == {NoFile, Torn} \intersect Config = {}

\* A change; of value Null when the key was cleared.
Event == [key : Keys, value : Values]

VARIABLES
  metadata,    \* the metadata object of the session
  file,        \* config.yaml
  manager,     \* the manager is "down", "starting" or "up" and listening
  requests,    \* what it asked the session to set at its start, not yet done
  onTheWay,    \* the session's messages to the manager
  updates,     \* the queue of the watcher
  \* the thread that writes the file
  writer, batch, config, changed,
  \* history
  wish,        \* what was last asked for, for every key
  lost         \* the keys for which that came in vain, see Remembered

session == <<metadata, requests, onTheWay>>
thread == <<writer, batch, config, changed>>
history == <<wish, lost>>
vars == <<metadata, file, manager, requests, onTheWay, updates, writer, batch, config,
          changed, wish, lost>>

\* Mutant: what the file does not say stays empty, for groups too.
ContentsOrNull == IF file \in {NoFile, Torn} THEN [k \in Keys |-> Null] ELSE file

\* What read_config makes of the file.
Contents == IF file \in {NoFile, Torn} THEN Default ELSE file

-----------------------------------------------------------------------------
(* The session *)

\* Every key that gets another value is announced to a manager that is there.
Set(k, v) ==
  /\ metadata' = [metadata EXCEPT ![k] = v]
  /\ onTheWay' = IF metadata[k] # v /\ manager # "down"
                   THEN Append(onTheWay, [key |-> k, value |-> v])
                   ELSE onTheWay

Asked(k) == \E r \in requests : r.key = k

\* SetupInputPort and ClearInputPort of the gRPC service, or any other client.
Client(k, v) ==
  /\ Len(onTheWay) + Len(updates) + Len(batch) < MaxEvents
  /\ Set(k, v)
  /\ wish' = [wish EXCEPT ![k] = v]
  /\ lost' = IF manager # "up" \/ Asked(k) THEN lost \union {k}
             ELSE IF metadata[k] = v THEN lost ELSE lost \ {k}
  /\ UNCHANGED <<file, manager, requests, updates, thread>>

SetupInputPort == \E k \in Keys : \E v \in ValuesOf(k) : Client(k, v)
ClearInputPort == \E k \in PortKeys : Client(k, Null)

\* The session does what the manager asked for at its start.
Serve(r) ==
  /\ Set(r.key, r.value)
  /\ requests' = requests \ {r}
  /\ UNCHANGED <<file, manager, updates, thread, history>>

\* The session ends and a new one begins: its metadata is empty.
Reboot ==
  /\ manager = "down"
  /\ metadata' = [k \in Keys |-> Null]
  /\ UNCHANGED <<file, manager, requests, onTheWay, updates, thread, history>>

-----------------------------------------------------------------------------
(* The main thread of the manager *)

read_config ==
  /\ manager = "down"
  /\ manager' = "starting"
  /\ config' = Contents
  /\ file' = IF file = NoFile THEN Default ELSE file
  /\ UNCHANGED <<session, updates, writer, batch, changed, history>>

\* Mutant: the ports are forgotten.
restored_groups == {[key |-> k, value |-> config[k]] : k \in GroupKeys}

\* What set_initial_metadata sets: the ports there are, and every group.
restored == {[key |-> k, value |-> config[k]] : k \in {l \in Keys : config[l] # Null}}

\* set_initial_metadata, then the signal is connected and the writer started.
set_initial_metadata ==
  /\ manager = "starting"
  /\ manager' = "up"
  /\ requests' = restored
  /\ writer' = "poll"
  /\ UNCHANGED <<metadata, file, onTheWay, updates, batch, config, changed, history>>

\* The callback of the signal, under the mutex; before it is connected nobody listens.
metadata_changed ==
  /\ onTheWay # << >>
  /\ onTheWay' = Tail(onTheWay)
  /\ IF manager = "up"
       THEN /\ updates' = Append(updates, Head(onTheWay))
            /\ writer' = IF writer = "waiting" THEN "poll" ELSE writer
       ELSE UNCHANGED <<updates, writer>>
  /\ UNCHANGED <<metadata, file, manager, requests, batch, config, changed, history>>

-----------------------------------------------------------------------------
(* The thread that writes the file *)

pop_metadata_update ==
  /\ writer = "poll" /\ updates # << >>
  /\ batch' = Append(batch, Head(updates))
  /\ updates' = Tail(updates)
  /\ UNCHANGED <<session, file, manager, writer, config, changed, history>>

\* Nothing is queued any more: apply the batch, or wait.
NothingQueued ==
  /\ writer = "poll" /\ updates = << >>
  /\ writer' = IF batch # << >> THEN "apply" ELSE "idle"
  /\ changed' = FALSE
  /\ UNCHANGED <<session, file, manager, updates, batch, config, history>>

\* Mutant: only what has a value is stored.
updates_only(c, e) == IF e.value = Null THEN c ELSE [c EXCEPT ![e.key] = e.value]

\* The configuration c after event e; a group that was cleared stays as it is.
updated(c, e) ==
  IF e.key \in GroupKeys /\ e.value = Null THEN c ELSE [c EXCEPT ![e.key] = e.value]

\* A port that did not change is no reason to write, any group or deletion is.
Apply ==
  /\ writer = "apply" /\ batch # << >>
  /\ LET e == Head(batch) IN
       /\ config' = updated(config, e)
       /\ changed' = (changed \/ (IF e.key \in PortKeys
                                    THEN e.value = Null \/ config[e.key] # e.value
                                    ELSE e.value # Null))
  /\ batch' = Tail(batch)
  /\ UNCHANGED <<session, file, manager, updates, writer, history>>

Applied ==
  /\ writer = "apply" /\ batch = << >>
  /\ writer' = IF changed THEN "open" ELSE "poll"
  /\ UNCHANGED <<session, file, manager, updates, batch, config, changed, history>>

\* write_config opens the file, which truncates it, ...
OpenFile ==
  /\ writer = "open"
  /\ file' = Torn
  /\ writer' = "write"
  /\ UNCHANGED <<session, manager, updates, batch, config, changed, history>>

\* ... and the text arrives in it.
WriteFile ==
  /\ writer = "write"
  /\ file' = config
  /\ writer' = "poll"
  /\ UNCHANGED <<session, manager, updates, batch, config, changed, history>>

\* wait_for takes the mutex; what was announced since the queue was looked at is over.
Wait ==
  /\ writer = "idle"
  /\ writer' = "waiting"
  /\ UNCHANGED <<session, file, manager, updates, batch, config, changed, history>>

\* Mutant: wait instead of wait_for.
WaitForever == FALSE

TimedOut ==
  /\ writer = "waiting"
  /\ writer' = "poll"
  /\ UNCHANGED <<session, file, manager, updates, batch, config, changed, history>>

-----------------------------------------------------------------------------
\* The manager stops, at any point: no signal is handled.  Memory is gone.
Crash ==
  /\ manager # "down"
  /\ manager' = "down"
  /\ requests' = {} /\ onTheWay' = << >> /\ updates' = << >>
  /\ writer' = "none" /\ batch' = << >> /\ config' = Default /\ changed' = FALSE
  /\ lost' = lost \union {k \in Keys : Contents[k] # wish[k]}
  /\ UNCHANGED <<metadata, file, wish>>

Init ==
  /\ metadata = [k \in Keys |-> Null] /\ file = NoFile
  /\ manager = "down" /\ requests = {} /\ onTheWay = << >> /\ updates = << >>
  /\ writer = "none" /\ batch = << >> /\ config = Default /\ changed = FALSE
  /\ wish = Default /\ lost = {}

Writer ==
  \/ pop_metadata_update \/ NothingQueued \/ Apply \/ Applied \/ OpenFile \/ WriteFile
  \/ Wait \/ TimedOut

Served == \E r \in requests : Serve(r)

Next ==
  \/ SetupInputPort \/ ClearInputPort \/ Served \/ Reboot
  \/ read_config \/ set_initial_metadata \/ metadata_changed \/ Writer \/ Crash

Spec == Init /\ [][Next]_vars

\* The session and the main loop deliver, the thread runs; nothing forces a start.
FairSpec == Spec /\ WF_vars(Served) /\ WF_vars(metadata_changed) /\ WF_vars(Writer)

-----------------------------------------------------------------------------
TypeOK ==
  /\ metadata \in [Keys -> Values]
  /\ file \in Config \union {NoFile, Torn}
  /\ manager \in {"down", "starting", "up"}
  /\ requests \subseteq Event
  /\ onTheWay \in Seq(Event) /\ updates \in Seq(Event) /\ batch \in Seq(Event)
  /\ writer \in {"none", "poll", "apply", "open", "write", "idle", "waiting"}
  /\ config \in Config /\ changed \in BOOLEAN
  /\ wish \in [Keys -> Values] /\ lost \subseteq Keys

\* The manager is up and has nothing left to do.
Settled ==
  /\ manager = "up" /\ requests = {}
  /\ onTheWay = << >> /\ updates = << >> /\ batch = << >>
  /\ writer \in {"poll", "idle", "waiting"}

(***************************************************************************)
(* The file is the metadata whenever the manager is up and has nothing     *)
(* left to do, whatever was changed, crashed and restarted before.  The    *)
(* one exception: a port the file has no value for was set while nobody    *)
(* listened, or set and not yet written when the manager stopped; the      *)
(* manager never asks the session for its values, so it does not learn it. *)
(***************************************************************************)
FileIsMetadata ==
  Settled => \A k \in Keys :
    \/ metadata[k] = Contents[k]
    \/ k \in PortKeys \intersect lost /\ Contents[k] = Null

(***************************************************************************)
(* What a client set is what the session has once the manager settled, in  *)
(* this session and every later one.  It is lost only if it was set while  *)
(* the manager was down or had not yet restored that key, or if the file   *)
(* did not hold it when the manager stopped; in the window between the     *)
(* truncation and the write the file holds nothing.                        *)
(***************************************************************************)
Remembered == Settled => \A k \in Keys \ lost : metadata[k] = wish[k]

(***************************************************************************)
(* When the manager stays up and the metadata is left alone, it settles:   *)
(* the timeout of the wait makes up for a notification that came between   *)
(* the look at the queue and the wait.                                     *)
(***************************************************************************)
CatchesUp ==
  (<>[](manager = "up") /\ <>[][FALSE]_metadata) => []<>Settled
=============================================================================
