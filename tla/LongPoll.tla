------------------------------ MODULE LongPoll ------------------------------
(***************************************************************************)
(* Serve's long poll between the controller's LongPollHost and the         *)
(* LongPollClient of one router, for the one key a router listens to.  The *)
(* client has one listen_for_change call out at a time and makes the next  *)
(* when the callback of the last has run, or when it is told to start over.*)
(* A call of a controller that crashed is run again by the next one, with  *)
(* the snapshot id it was made with.                                       *)
(***************************************************************************)
EXTENDS Integers

CONSTANTS Nothing,      \* no snapshot
          FirstIds      \* the ids a host may start from, random in the code

ASSUME FirstIdsAssumption == \A i \in FirstIds : i \in Nat

VARIABLES host_id,      \* snapshot_ids[key] of the host, Nothing before the first notify
          host_object,  \* object_snapshots[key] of the host
          snapshot_id,  \* snapshot_ids[key] of the client, -1 after a reset
          poll,         \* the call: sent, waiting, woken, answered, timed_out,
                        \* scheduled (its callback is in the event loop), failed or stopped
          answer        \* what the call returned: [id, object]

longPollVars == <<host_id, host_object, snapshot_id, poll, answer>>

LongPollInit ==
    /\ host_id = Nothing
    /\ host_object = Nothing
    /\ snapshot_id = -1
    /\ poll = "sent"
    /\ answer = Nothing

\* notify_changed; a waiting call is woken, and reads the snapshot when it runs.
NotifyChanged(object) ==
    /\ host_id' \in IF host_id = Nothing THEN {i + 1 : i \in FirstIds} ELSE {host_id + 1}
    /\ host_object' = object
    /\ poll' = IF poll = "waiting" THEN "woken" ELSE poll
    /\ UNCHANGED <<snapshot_id, answer>>

Snapshot == [id |-> host_id, object |-> host_object]

\* listen_for_change up to its wait: an outdated client is answered at once.
Outdated == host_id # Nothing /\ host_id # snapshot_id

Listen ==
    /\ poll = "sent"
    /\ IF Outdated THEN poll' = "answered" /\ answer' = Snapshot
                   ELSE poll' = "waiting" /\ answer' = answer
    /\ UNCHANGED <<host_id, host_object, snapshot_id>>

ListenWakes ==
    /\ poll = "woken"
    /\ poll' = "answered"
    /\ answer' = Snapshot
    /\ UNCHANGED <<host_id, host_object, snapshot_id>>

ListenTimesOut ==
    /\ poll = "waiting"
    /\ poll' = "timed_out"
    /\ UNCHANGED <<host_id, host_object, snapshot_id, answer>>

\* _process_update: the callback is put into the event loop.
ProcessUpdate ==
    /\ poll = "answered"
    /\ poll' = "scheduled"
    /\ snapshot_id' = answer.id
    /\ UNCHANGED <<host_id, host_object, answer>>

\* A mutant: after a timeout the client only waits for a newer snapshot.
Reset_KeepsId ==
    /\ poll = "timed_out"
    /\ poll' = "sent"
    /\ answer' = Nothing
    /\ UNCHANGED <<host_id, host_object, snapshot_id>>

\* _reset: after a timeout the client asks for whatever there is.
Reset ==
    /\ poll = "timed_out"
    /\ poll' = "sent"
    /\ snapshot_id' = -1
    /\ answer' = Nothing
    /\ UNCHANGED <<host_id, host_object>>

\* The callback has run: _on_callback_completed, _poll_next.
PollNext ==
    /\ poll = "scheduled"
    /\ poll' = "sent"
    /\ answer' = Nothing
    /\ UNCHANGED <<host_id, host_object, snapshot_id>>

\* A new controller has a new host; a call in progress is made again.
HostRestarts ==
    /\ host_id' = Nothing
    /\ host_object' = Nothing
    /\ \/ /\ poll \in {"waiting", "woken", "answered"}
          /\ poll' = "sent"
          /\ answer' = Nothing
       \/ /\ poll \in {"sent", "answered", "timed_out", "scheduled", "stopped"}
          /\ UNCHANGED <<poll, answer>>
    /\ UNCHANGED snapshot_id

\* The controller is killed for good: the call fails and the client stops.
HostKilled ==
    /\ poll \in {"sent", "waiting", "woken"}
    /\ poll' = "failed"
    /\ UNCHANGED <<host_id, host_object, snapshot_id, answer>>

ClientStops ==
    /\ poll = "failed"
    /\ poll' = "stopped"
    /\ UNCHANGED <<host_id, host_object, snapshot_id, answer>>
=============================================================================
