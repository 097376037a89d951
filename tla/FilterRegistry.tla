--------------------------- MODULE FilterRegistry ---------------------------
(***************************************************************************)
(* The pull filters of src/rpc/api/filters/filter_api.go: the filters map *)
(* guarded by filtersMu, each filter's deadline timer (a Go timer with a  *)
(* one-slot channel), the listener goroutine of each filter, the 5-minute *)
(* sweep of timeoutLoop, and the callers of NewFilter, GetFilterChanges   *)
(* and UninstallFilter.  A step that holds filtersMu for its whole length *)
(* is one action; the code releases the lock between the steps that are   *)
(* separate actions here.  Blocks are published by the virtual chain.     *)
(* The event system (not in this repository) follows spec 4.5/5:         *)
(* delivery to a subscription never blocks the publisher, is in publish  *)
(* order, and Unsubscribe makes the subscription's Err channel ready.     *)
(* Time is abstracted: a timer fires and the sweep ticks at any moment.   *)
(***************************************************************************)
EXTENDS Naturals, Sequences

CONSTANTS
    Ids,            \* subscription ids of pull filters
    PushIds,        \* ids of websocket subscriptions, made by NewHeads or Logs
    BlockIds,       \* the ids of block filters (NewBlockFilter); the others are log filters
    MaxEvents,      \* blocks published in a behaviour
    MaxPolls        \* GetFilterChanges calls in a behaviour

ASSUME MaxEvents \in Nat /\ MaxPolls \in Nat /\ BlockIds \subseteq Ids
       /\ Ids \cap PushIds = {}

VARIABLES
    phase,      \* phase[id]: "new", "subscribed" (before the map insert), "installed" (in api.filters), "removed"
    buf,        \* buf[id]: f.logs / f.hashes of the map entry
    timer,      \* timer[id]: state of f.deadline: "off", "running", "fired"
    timerC,     \* timerC[id]: f.deadline.C holds a value
    lst,        \* lst[id]: listener goroutine: "none", "wait" (in select), "got" (received, wants the lock), "done"
    inflight,   \* inflight[id]: the batch the listener received and has not appended yet
    subs,       \* subscriptions the event system delivers to
    errd,       \* subscriptions whose Err() channel is ready
    chanQ,      \* chanQ[id]: blocks delivered to the subscription, not yet received
    unsub,      \* UninstallFilter calls between the map delete and Unsubscribe
    since,      \* since[id]: blocks published before id subscribed
    got,        \* got[id]: blocks returned by the polls of id
    published,  \* blocks published so far
    polls,      \* GetFilterChanges calls so far
    stuck,      \* a GetFilterChanges call blocks forever holding filtersMu
    push,       \* push[p]: "none", "returned" (rpcSub replied, goroutine not yet
                \* subscribed), "live" (goroutine in its select loop), "closed"
    gone        \* push subscriptions whose rpcSub.Err() or notifier.Closed() is ready

\* Every subscription the event system hands out.
AllIds == Ids \cup PushIds

vars == <<phase, buf, timer, timerC, lst, inflight, subs, errd, chanQ, unsub,
          since, got, published, polls, stuck, push, gone>>

pushVars == <<push, gone>>

Init ==
    /\ phase = [id \in Ids |-> "new"]
    /\ buf = [id \in Ids |-> <<>>]
    /\ timer = [id \in Ids |-> "off"]
    /\ timerC = [id \in Ids |-> FALSE]
    /\ lst = [id \in Ids |-> "none"]
    /\ inflight = [id \in Ids |-> <<>>]
    /\ subs = {}
    /\ errd = {}
    /\ chanQ = [id \in AllIds |-> <<>>]
    /\ unsub = {}
    /\ since = [id \in Ids |-> 0]
    /\ got = [id \in Ids |-> <<>>]
    /\ published = 0
    /\ polls = 0
    /\ stuck = FALSE
    /\ push = [p \in PushIds |-> "none"]
    /\ gone = {}

\* Every step that takes filtersMu waits for a caller stuck holding it.
Locked == ~stuck

\* The map entry is deleted: its buffer and timer become unreachable.
DeleteEntries(S) ==
    /\ phase' = [id \in Ids |-> IF id \in S THEN "removed" ELSE phase[id]]
    /\ buf' = [id \in Ids |-> IF id \in S THEN <<>> ELSE buf[id]]
    /\ timer' = [id \in Ids |-> IF id \in S THEN "off" ELSE timer[id]]
    /\ timerC' = [id \in Ids |-> IF id \in S THEN FALSE ELSE timerC[id]]

\* Subscription.Unsubscribe of the event system: no more deliveries, Err()
\* becomes ready; blocks already delivered stay receivable.
Unsubscribe(S) ==
    /\ subs' = subs \ S
    /\ errd' = errd \cup S

\* publishNewBlock: the block's event reaches every live subscription.
Publish ==
    /\ published < MaxEvents
    /\ published' = published + 1
    /\ chanQ' = [id \in AllIds |-> IF id \in subs THEN Append(chanQ[id], published + 1)
                                                  ELSE chanQ[id]]
    /\ UNCHANGED <<phase, buf, timer, timerC, lst, inflight, subs, errd, unsub,
                   since, got, polls, stuck, pushVars>>

\* NewFilter, first part: events.SubscribeLogs, before filtersMu is taken.
NewFilter(id) ==
    /\ id \notin BlockIds
    /\ phase[id] = "new"
    /\ phase' = [phase EXCEPT ![id] = "subscribed"]
    /\ subs' = subs \cup {id}
    /\ since' = [since EXCEPT ![id] = published]
    /\ UNCHANGED <<buf, timer, timerC, lst, inflight, errd, chanQ, unsub, got,
                   published, polls, stuck, pushVars>>

\* NewBlockFilter, first part: events.SubscribeNewHeads, before filtersMu is
\* taken; the rest (insert with a fresh timer, the listener appending
\* header hashes to f.hashes) is InstallFilter and the Listener actions.
NewBlockFilter(id) ==
    /\ id \in BlockIds
    /\ phase[id] = "new"
    /\ phase' = [phase EXCEPT ![id] = "subscribed"]
    /\ subs' = subs \cup {id}
    /\ since' = [since EXCEPT ![id] = published]
    /\ UNCHANGED <<buf, timer, timerC, lst, inflight, errd, chanQ, unsub, got,
                   published, polls, stuck, pushVars>>

\* NewFilter, second part: under filtersMu the entry is stored with a fresh
\* deadline timer; after the unlock the listener goroutine is started.
InstallFilter(id) ==
    /\ Locked
    /\ phase[id] = "subscribed"
    /\ phase' = [phase EXCEPT ![id] = "installed"]
    /\ buf' = [buf EXCEPT ![id] = <<>>]
    /\ timer' = [timer EXCEPT ![id] = "running"]
    /\ lst' = [lst EXCEPT ![id] = "wait"]
    /\ UNCHANGED <<timerC, inflight, subs, errd, chanQ, unsub, since, got,
                   published, polls, stuck, pushVars>>

\* The Go runtime fires f.deadline: the value goes into its channel.
TimerFire(id) ==
    /\ timer[id] = "running"
    /\ timer' = [timer EXCEPT ![id] = "fired"]
    /\ timerC' = [timerC EXCEPT ![id] = TRUE]
    /\ UNCHANGED <<phase, buf, lst, inflight, subs, errd, chanQ, unsub, since,
                   got, published, polls, stuck, pushVars>>

\* Listener: case l := <-logs.
ListenerRecv(id) ==
    /\ lst[id] = "wait"
    /\ chanQ[id] # <<>>
    /\ inflight' = [inflight EXCEPT ![id] = <<Head(chanQ[id])>>]
    /\ chanQ' = [chanQ EXCEPT ![id] = Tail(@)]
    /\ lst' = [lst EXCEPT ![id] = "got"]
    /\ UNCHANGED <<phase, buf, timer, timerC, subs, errd, unsub, since, got,
                   published, polls, stuck, pushVars>>

\* Listener: under filtersMu, append to f.logs if the filter is still found.
ListenerAppend(id) ==
    /\ Locked
    /\ lst[id] = "got"
    /\ buf' = IF phase[id] = "installed"
              THEN [buf EXCEPT ![id] = @ \o inflight[id]] ELSE buf
    /\ inflight' = [inflight EXCEPT ![id] = <<>>]
    /\ lst' = [lst EXCEPT ![id] = "wait"]
    /\ UNCHANGED <<phase, timer, timerC, subs, errd, chanQ, unsub, since, got,
                   published, polls, stuck, pushVars>>

\* Listener: case <-logsSub.Err(): delete the entry under filtersMu, exit.
ListenerErr(id) ==
    /\ Locked
    /\ lst[id] = "wait"
    /\ id \in errd
    /\ IF phase[id] = "installed" THEN DeleteEntries({id})
                                  ELSE UNCHANGED <<phase, buf, timer, timerC>>
    /\ lst' = [lst EXCEPT ![id] = "done"]
    /\ UNCHANGED <<inflight, subs, errd, chanQ, unsub, since, got, published,
                   polls, stuck, pushVars>>

\* UninstallFilter, under filtersMu: delete the entry if found.
UninstallFilter(id) ==
    /\ Locked
    /\ phase[id] = "installed"
    /\ DeleteEntries({id})
    /\ unsub' = unsub \cup {id}
    /\ UNCHANGED <<lst, inflight, subs, errd, chanQ, since, got, published,
                   polls, stuck, pushVars>>

\* UninstallFilter, after the unlock: f.s.Unsubscribe().
UninstallUnsubscribe(id) ==
    /\ id \in unsub
    /\ unsub' = unsub \ {id}
    /\ Unsubscribe({id})
    /\ UNCHANGED <<phase, buf, timer, timerC, lst, inflight, chanQ, since, got,
                   published, polls, stuck, pushVars>>

\* Mutant: the result of Stop() is ignored and the channel always drained.
GetFilterChangesAlwaysDrain(id) ==
    /\ Locked
    /\ phase[id] = "installed"
    /\ polls < MaxPolls
    /\ polls' = polls + 1
    /\ IF ~timerC[id]
       THEN /\ stuck' = TRUE
            /\ UNCHANGED <<buf, timer, timerC, got>>
       ELSE /\ timer' = [timer EXCEPT ![id] = "running"]
            /\ timerC' = [timerC EXCEPT ![id] = FALSE]
            /\ got' = [got EXCEPT ![id] = @ \o buf[id]]
            /\ buf' = [buf EXCEPT ![id] = <<>>]
            /\ UNCHANGED stuck
    /\ UNCHANGED <<phase, lst, inflight, subs, errd, chanQ, unsub, since,
                   published, pushVars>>

\* Mutant: the buffer is returned but not reset.
GetFilterChangesNoReset(id) ==
    /\ Locked
    /\ phase[id] = "installed"
    /\ polls < MaxPolls
    /\ polls' = polls + 1
    /\ IF timer[id] = "fired" /\ ~timerC[id]
       THEN /\ stuck' = TRUE
            /\ UNCHANGED <<buf, timer, timerC, got>>
       ELSE /\ timer' = [timer EXCEPT ![id] = "running"]
            /\ timerC' = [timerC EXCEPT ![id] = FALSE]
            /\ got' = [got EXCEPT ![id] = @ \o buf[id]]
            /\ UNCHANGED <<buf, stuck>>
    /\ UNCHANGED <<phase, lst, inflight, subs, errd, chanQ, unsub, since,
                   published, pushVars>>

\* GetFilterChanges on a found filter, all under filtersMu: if Stop()
\* reports the timer already fired, receive its value (blocking); Reset;
\* hand back the buffer (f.hashes of a block filter, f.logs of a log filter)
\* and empty it.  Not found is an error, no step.
GetFilterChanges(id) ==
    /\ Locked
    /\ phase[id] = "installed"
    /\ polls < MaxPolls
    /\ polls' = polls + 1
    /\ IF timer[id] = "fired" /\ ~timerC[id]
       THEN /\ stuck' = TRUE
            /\ UNCHANGED <<buf, timer, timerC, got>>
       ELSE /\ timer' = [timer EXCEPT ![id] = "running"]
            /\ timerC' = [timerC EXCEPT ![id] = FALSE]
            /\ got' = [got EXCEPT ![id] = @ \o buf[id]]
            /\ buf' = [buf EXCEPT ![id] = <<>>]
            /\ UNCHANGED stuck
    /\ UNCHANGED <<phase, lst, inflight, subs, errd, chanQ, unsub, since,
                   published, pushVars>>

Expired == {id \in Ids : phase[id] = "installed" /\ timerC[id]}

\* Mutant: expired entries are deleted but their subscriptions kept.
SweepNoUnsubscribe ==
    /\ Locked
    /\ DeleteEntries(Expired)
    /\ UNCHANGED <<lst, inflight, subs, errd, chanQ, unsub, since, got,
                   published, polls, stuck, pushVars>>

\* A tick of timeoutLoop: under filtersMu, every entry whose deadline
\* channel holds a value is unsubscribed and deleted (the receive empties
\* the channel); the others are skipped.
Sweep ==
    /\ Locked
    /\ Unsubscribe(Expired)
    /\ DeleteEntries(Expired)
    /\ UNCHANGED <<lst, inflight, chanQ, unsub, since, got, published, polls,
                   stuck, pushVars>>

-----------------------------------------------------------------------------
(* Websocket subscriptions: NewHeads and Logs.  Over a transport without  *)
(* notifications both return ErrNotificationsUnsupported and change       *)
(* nothing, so that branch is no step.                                    *)

\* NewHeads: CreateSubscription, start the goroutine, reply with rpcSub.
\* The goroutine has not called SubscribeNewHeads yet.
NewHeads(p) ==
    /\ push[p] = "none"
    /\ push' = [push EXCEPT ![p] = "returned"]
    /\ UNCHANGED <<phase, buf, timer, timerC, lst, inflight, subs, errd, chanQ,
                   unsub, since, got, published, polls, stuck, gone>>

\* The NewHeads goroutine: events.SubscribeNewHeads, then its select loop.
HeadsSubscribe(p) ==
    /\ push[p] = "returned"
    /\ push' = [push EXCEPT ![p] = "live"]
    /\ subs' = subs \cup {p}
    /\ UNCHANGED <<phase, buf, timer, timerC, lst, inflight, errd, chanQ, unsub,
                   since, got, published, polls, stuck, gone>>

\* Logs: CreateSubscription, events.SubscribeLogs, start the goroutine,
\* reply with rpcSub (a criterion SubscribeLogs rejects changes nothing).
Logs(p) ==
    /\ push[p] = "none"
    /\ push' = [push EXCEPT ![p] = "live"]
    /\ subs' = subs \cup {p}
    /\ UNCHANGED <<phase, buf, timer, timerC, lst, inflight, errd, chanQ, unsub,
                   since, got, published, polls, stuck, gone>>

\* The client sends eth_unsubscribe or drops the connection: rpcSub.Err()
\* or notifier.Closed() becomes ready.  Possible once rpcSub is replied.
ClientGone(p) ==
    /\ push[p] \in {"returned", "live"}
    /\ p \notin gone
    /\ gone' = gone \cup {p}
    /\ UNCHANGED <<phase, buf, timer, timerC, lst, inflight, subs, errd, chanQ,
                   unsub, since, got, published, polls, stuck, push>>

\* The goroutine's select takes a delivered block and calls
\* notifier.Notify (per log of the batch, for Logs); its error is ignored.
PushNotify(p) ==
    /\ push[p] = "live"
    /\ chanQ[p] # <<>>
    /\ chanQ' = [chanQ EXCEPT ![p] = Tail(@)]
    /\ UNCHANGED <<phase, buf, timer, timerC, lst, inflight, subs, errd, unsub,
                   since, got, published, polls, stuck, push, gone>>

\* Mutant: the goroutine returns on Err()/Closed() without Unsubscribe.
PushReturnNoUnsubscribe(p) ==
    /\ push[p] = "live"
    /\ p \in gone
    /\ push' = [push EXCEPT ![p] = "closed"]
    /\ UNCHANGED <<phase, buf, timer, timerC, lst, inflight, subs, errd, chanQ,
                   unsub, since, got, published, polls, stuck, gone>>

\* The goroutine's select takes rpcSub.Err() or notifier.Closed():
\* Unsubscribe the event subscription and return.
PushUnsubscribe(p) ==
    /\ push[p] = "live"
    /\ p \in gone
    /\ push' = [push EXCEPT ![p] = "closed"]
    /\ Unsubscribe({p})
    /\ UNCHANGED <<phase, buf, timer, timerC, lst, inflight, chanQ, unsub,
                   since, got, published, polls, stuck, gone>>

-----------------------------------------------------------------------------
Next ==
    \/ Publish
    \/ Sweep
    \/ \E id \in Ids :
         \/ NewFilter(id)
         \/ NewBlockFilter(id)
         \/ InstallFilter(id)
         \/ TimerFire(id)
         \/ ListenerRecv(id)
         \/ ListenerAppend(id)
         \/ ListenerErr(id)
         \/ UninstallFilter(id)
         \/ UninstallUnsubscribe(id)
         \/ GetFilterChanges(id)
    \/ \E p \in PushIds :
         \/ NewHeads(p)
         \/ HeadsSubscribe(p)
         \/ Logs(p)
         \/ ClientGone(p)
         \/ PushNotify(p)
         \/ PushUnsubscribe(p)

\* Goroutines and the Go runtime are scheduled: the rest of NewFilter, the
\* Unsubscribe after UninstallFilter's unlock, the listeners, the timers,
\* the sweep ticker and the websocket goroutines (whose select picks among
\* ready cases at random).  Callers, clients and block production are not
\* fair.
Fairness ==
    /\ WF_vars(Sweep)
    /\ \A id \in Ids :
         /\ WF_vars(InstallFilter(id))
         /\ WF_vars(UninstallUnsubscribe(id))
         /\ WF_vars(TimerFire(id))
         /\ WF_vars(ListenerRecv(id))
         /\ WF_vars(ListenerAppend(id))
         /\ WF_vars(ListenerErr(id))
    /\ \A p \in PushIds :
         /\ WF_vars(HeadsSubscribe(p))
         /\ WF_vars(PushNotify(p))
         /\ WF_vars(PushUnsubscribe(p))

Spec == Init /\ [][Next]_vars /\ Fairness

-----------------------------------------------------------------------------
(* Safety *)

Live == {id \in Ids : phase[id] \in {"subscribed", "installed"}}

\* Blocks published since id subscribed, in publish order.
PublishedSince(id) == [i \in 1..(published - since[id]) |-> since[id] + i]

\* No GetFilterChanges call blocks for ever on <-f.deadline.C while holding
\* filtersMu: whenever Stop() reports a fired timer its value is still in
\* the channel, because only the sweep receives it, and the sweep deletes
\* the filter in the same critical section.
NoStuckPoll == ~stuck

\* For a live filter, what its polls returned, then its buffer, the batch
\* its listener holds and what the event system still queues for it are,
\* together, exactly the blocks published since it subscribed: the window
\* between SubscribeLogs and the map insert, the listener's receive before
\* it takes the lock, and a poll emptying the buffer lose, duplicate or
\* reorder nothing.
ChangesExact ==
    \A id \in Live :
        got[id] \o buf[id] \o inflight[id] \o chanQ[id] = PublishedSince(id)

-----------------------------------------------------------------------------
(* Liveness *)

\* A filter that is installed is eventually removed from the map, its
\* subscription closed and its listener goroutine gone: callers poll only
\* finitely often, so the deadline fires, the sweep removes and
\* unsubscribes it, and the listener sees Err() (spec 8).
EventuallyReleased ==
    \A id \in Ids :
        phase[id] = "installed" ~>
            (phase[id] = "removed" /\ id \notin subs /\ lst[id] = "done")

\* A websocket subscription whose client unsubscribed or disconnected is
\* eventually released: its goroutine ends and the event system stops
\* delivering to it, also when the client leaves a NewHeads subscription
\* before the goroutine has subscribed (it subscribes, then sees Err()).
\* A goroutine that returned without Unsubscribe would leave the event
\* system queueing blocks for nobody.
PushReleased ==
    \A p \in PushIds : p \in gone ~> (push[p] = "closed" /\ p \notin subs)

=============================================================================
