------------------------------- MODULE Fanout -------------------------------
(***************************************************************************)
(* From a status change to the dashboards (services/state_cache.py,        *)
(* services/ws_manager.py, api/routes/ws.py, pages/Dashboard.tsx), for one *)
(* device.  Whoever changes the status writes the snapshot and then        *)
(* publishes.  A gateway listens, keeps the newest change it heard of, and *)
(* every quarter of a second sends it to its sockets one after the other.  *)
(* Pub/sub keeps nothing for a gateway that is reconnecting, and a browser *)
(* that is reconnecting gets no frames; but a browser fetches the list     *)
(* again now and then, if nothing keeps it from that.                      *)
(***************************************************************************)
EXTENDS Sequences, Naturals

CONSTANTS
  Statuses,
  Writers,     \* who may change the status: the collector, simulate requests
  Browsers,
  Silence,     \* no status
  MaxInbox     \* bound of the model: messages on their way to the gateway

ASSUME FanoutAssumption == Statuses # {} /\ Silence \notin Statuses /\ MaxInbox \in Nat

VARIABLES
  snapshot,    \* the status in the snapshot in Redis
  writer,      \* what each writer has still to publish
  subscribed,  \* the subscriber is connected
  inbox,       \* messages on their way to it
  pending,     \* pending: the newest change not yet flushed
  batch,       \* the frame being sent
  unsent,      \* the sockets it has still to go to
  sockets,     \* _connections
  shown,       \* the status in each browser's list
  fetched      \* the answer of a refetch that is on its way

fanoutVars ==
  <<snapshot, writer, subscribed, inbox, pending, batch, unsent, sockets, shown, fetched>>

(* update_and_publish: the entry first, then the message.                  *)
WriteSnapshot(w, st) ==
  /\ writer[w] = Silence
  /\ snapshot' = st
  /\ writer' = [writer EXCEPT ![w] = st]
  /\ UNCHANGED <<subscribed, inbox, pending, batch, unsent, sockets, shown, fetched>>

Publish(w) ==
  /\ writer[w] # Silence
  /\ Len(inbox) < MaxInbox
  /\ inbox' = IF subscribed THEN Append(inbox, writer[w]) ELSE inbox
  /\ writer' = [writer EXCEPT ![w] = Silence]
  /\ UNCHANGED <<snapshot, subscribed, pending, batch, unsent, sockets, shown, fetched>>

(* The writer dies, or Redis fails, between the two.                       *)
PublishFails(w) ==
  /\ writer[w] # Silence
  /\ writer' = [writer EXCEPT ![w] = Silence]
  /\ UNCHANGED <<snapshot, subscribed, inbox, pending, batch, unsent, sockets, shown, fetched>>

-----------------------------------------------------------------------------
(* redis_status_subscriber: latest wins; a dropped connection loses what   *)
(* was on its way, but not what is pending.                                *)
Listen ==
  /\ inbox # <<>>
  /\ pending' = Head(inbox)
  /\ inbox' = Tail(inbox)
  /\ UNCHANGED <<snapshot, writer, subscribed, batch, unsent, sockets, shown, fetched>>

Drop ==
  /\ subscribed
  /\ subscribed' = FALSE
  /\ inbox' = <<>>
  /\ UNCHANGED <<snapshot, writer, pending, batch, unsent, sockets, shown, fetched>>

Resubscribe ==
  /\ ~subscribed
  /\ subscribed' = TRUE
  /\ UNCHANGED <<snapshot, writer, inbox, pending, batch, unsent, sockets, shown, fetched>>

(* flusher, and the copy of the connections that fanout makes.             *)
Flush ==
  /\ batch = Silence
  /\ pending # Silence
  /\ batch' = IF sockets = {} THEN Silence ELSE pending
  /\ unsent' = sockets
  /\ pending' = Silence
  /\ UNCHANGED <<snapshot, writer, subscribed, inbox, sockets, shown, fetched>>

(* One socket's turn; handleWs puts the status into the list.  A send to a *)
(* socket that has closed meanwhile fails, and is the same as none.        *)
Skip(b) ==
  /\ unsent' = unsent \ {b}
  /\ batch' = IF unsent' = {} THEN Silence ELSE batch

Send(b) ==
  /\ b \in unsent
  /\ Skip(b)
  /\ shown' = [shown EXCEPT ![b] = batch]
  /\ UNCHANGED <<snapshot, writer, subscribed, inbox, pending, sockets, fetched>>

(* ws_status: connect and disconnect.                                      *)
Connect(b) ==
  /\ b \notin sockets
  /\ sockets' = sockets \cup {b}
  /\ UNCHANGED <<snapshot, writer, subscribed, inbox, pending, batch, unsent, shown, fetched>>

Disconnect(b) ==
  /\ b \in sockets
  /\ sockets' = sockets \ {b}
  /\ Skip(b)
  /\ UNCHANGED <<snapshot, writer, subscribed, inbox, pending, shown, fetched>>

-----------------------------------------------------------------------------
(* The query of the dashboard: list_devices answers from the snapshot, and *)
(* its answer replaces the list whatever was shown meanwhile.  It is asked *)
(* when the tab is looked at again, after a change the user made, and by a *)
(* timer; but the timer starts anew whenever a frame touches the list,     *)
(* frames about other devices too (setQueryData), and rests while the tab  *)
(* is hidden: nothing says that it ever fires.                             *)
Refetch(b) ==
  /\ fetched[b] = Silence
  /\ fetched' = [fetched EXCEPT ![b] = snapshot]
  /\ UNCHANGED <<snapshot, writer, subscribed, inbox, pending, batch, unsent, sockets, shown>>

Fault_Refetched(b) ==
  /\ fetched[b] # Silence
  /\ shown' = IF b \in sockets THEN shown ELSE [shown EXCEPT ![b] = fetched[b]]
  /\ fetched' = [fetched EXCEPT ![b] = Silence]
  /\ UNCHANGED <<snapshot, writer, subscribed, inbox, pending, batch, unsent, sockets>>

Refetched(b) ==
  /\ fetched[b] # Silence
  /\ shown' = [shown EXCEPT ![b] = fetched[b]]
  /\ fetched' = [fetched EXCEPT ![b] = Silence]
  /\ UNCHANGED <<snapshot, writer, subscribed, inbox, pending, batch, unsent, sockets>>

(* No answer comes: the list stays as it is.                               *)
RefetchFails(b) ==
  /\ fetched[b] # Silence
  /\ fetched' = [fetched EXCEPT ![b] = Silence]
  /\ UNCHANGED <<snapshot, writer, subscribed, inbox, pending, batch, unsent, sockets, shown>>

FanoutInit(statuses) ==
  /\ snapshot \in statuses
  /\ writer = [w \in Writers |-> Silence]
  /\ subscribed = FALSE
  /\ inbox = <<>>
  /\ pending = Silence /\ batch = Silence
  /\ unsent = {} /\ sockets = {}
  /\ shown = [b \in Browsers |-> snapshot]
  /\ fetched = [b \in Browsers |-> Silence]

FanoutNext ==
  \/ \E w \in Writers :
       (\E st \in Statuses : WriteSnapshot(w, st)) \/ Publish(w) \/ PublishFails(w)
  \/ Listen \/ Drop \/ Resubscribe \/ Flush
  \/ \E b \in Browsers :
       \/ Send(b) \/ Connect(b) \/ Disconnect(b)
       \/ Refetch(b) \/ Refetched(b) \/ RefetchFails(b)

(* A gateway restarts: its sockets close, what it held is gone.            *)
GatewayRestart ==
  /\ subscribed' = FALSE
  /\ inbox' = <<>>
  /\ pending' = Silence /\ batch' = Silence
  /\ unsent' = {} /\ sockets' = {}
  /\ UNCHANGED <<snapshot, writer, shown, fetched>>

-----------------------------------------------------------------------------
(* Whatever was lost, and in whatever order writers, frames and answers    *)
(* crossed: once the status in the snapshot does not change any more, a    *)
(* dashboard whose refetches are answered again and again comes to show    *)
(* it, and to show nothing else.  Frames alone do not do it: nothing       *)
(* repeats a lost one.                                                     *)
NewestShown ==
  \A st \in Statuses, b \in Browsers :
    <>[](snapshot = st) /\ []<><<Refetched(b)>>_fanoutVars => <>[](shown[b] = st)

=============================================================================
