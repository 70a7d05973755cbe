------------------------------ MODULE A2APush -------------------------------
(***************************************************************************)
(* src/plugins/a2a-push.ts: webhooks that are told of a task's events, as  *)
(* a2a.plugin.ts emits them when the task's entry in its table changes.    *)
(* The posts of one event, and of successive events, are all on their way  *)
(* at once.  The module follows one task id.                               *)
(***************************************************************************)
EXTENDS Integers, Sequences

CONSTANTS Configs,    \* [url, https, host, blocked, events]: what a client may ask for
          MaxEvents,  \* bound: events of the task id
          MaxConfigs  \* bound: subscriptions

VARIABLES status,         \* of the id in the task table, "absent" without entry
          subscriptions,  \* this.subscriptions, each with a number of its own and the
                          \* events there were before it
          emitted,        \* history: the events
          posts           \* history: every fetch

vars == <<status, subscriptions, emitted, posts>>

Types == {"queued", "running", "completed", "failed", "cancelled"}
Settled == {"completed", "failed", "cancelled"}

Init == status = "absent" /\ subscriptions = {} /\ emitted = <<>> /\ posts = {}

\* What subscribe does not throw at: https, or this very host by one of its
\* usual names; and no header that the notifier sets or must not leak.
Accepts(c) == /\ c.https \/ c.host \in {"localhost", "127.0.0.1"}
              /\ ~c.blocked

Unused == {n \in 1..MaxConfigs : \A s \in subscriptions : s.nth # n}

\* The same webhook may subscribe more than once.
Subscribe(c) ==
  /\ Unused # {}
  /\ Accepts(c)
  /\ subscriptions' = subscriptions \cup {[nth |-> CHOOSE n \in Unused : TRUE, config |-> c, since |-> Len(emitted)]}
  /\ UNCHANGED <<status, emitted, posts>>

Unsubscribe(url) ==
  /\ subscriptions' = {s \in subscriptions : s.config.url # url}
  /\ UNCHANGED <<status, emitted, posts>>

\* notify: a post for every subscription that wants the event.  Each carries
\* a copy of the task.
Posts(event, number) ==
  {[to |-> s, number |-> number, status |-> event, place |-> "sent"] :
     s \in {s \in subscriptions : event \in s.config.events}}

\* emitTaskEvent, for each of the statuses the entry takes in one turn.
Emits(events) ==
  LET first == Len(emitted) IN
  /\ Len(emitted) + Len(events) <= MaxEvents
  /\ emitted' = emitted \o events
  /\ posts' = posts \cup UNION {Posts(events[i], first + i) : i \in DOMAIN events}

\* queueTask and markTaskRunning, also over an earlier task with the id.
SendTask ==
  /\ status' = "running"
  /\ Emits(<<"queued", "running">>)
  /\ UNCHANGED subscriptions

\* markTaskRunning, markTaskCompleted, markTaskFailed: nothing checks the old status.
Mark(s) ==
  /\ status # "absent"
  /\ status' = s
  /\ Emits(<<s>>)
  /\ UNCHANGED subscriptions

CancelTask ==
  /\ status \in {"queued", "running", "cancelled"}
  /\ status' = "cancelled"
  /\ Emits(<<"cancelled">>)
  /\ UNCHANGED subscriptions

\* evictStaleTasks: the subscriptions of a settled task go with it, those of
\* an orphan stay and are of the next task with its id.
Evict ==
  /\ status # "absent"
  /\ status' = "absent"
  /\ subscriptions' = IF status \in Settled THEN {} ELSE subscriptions
  /\ UNCHANGED <<emitted, posts>>

\* The fetch of a post is over, in any order: the webhook has answered, or
\* the fetch is rejected, which makes no difference to anybody else.
Over(p) ==
  /\ p.place = "sent"
  /\ posts' = (posts \ {p}) \cup {[p EXCEPT !.place = "over"]}
  /\ UNCHANGED <<status, subscriptions, emitted>>

Next ==
  \/ \E c \in Configs : Subscribe(c)
  \/ \E s \in subscriptions : Unsubscribe(s.config.url)
  \/ SendTask
  \/ \E s \in {"running", "completed", "failed"} : Mark(s)
  \/ CancelTask
  \/ Evict
  \/ \E p \in posts : Over(p)

-----------------------------------------------------------------------------
(* Webhooks can follow their task although posts overtake one another and  *)
(* endpoints fail: while it is subscribed, each is posted every event it   *)
(* wants, once, whatever becomes of other posts; nobody is posted an event *)
(* from before it subscribed; and the newest event says the task's status. *)
Newest == emitted[Len(emitted)]
WebhooksAreTold ==
  /\ status # "absent" => status = Newest
  /\ \A s \in subscriptions, n \in DOMAIN emitted :
       LET told == {p \in posts : p.to = s /\ p.number = n}
       IN IF n > s.since /\ emitted[n] \in s.config.events
            THEN \E place \in {"sent", "over"} :
                   told = {[to |-> s, number |-> n, status |-> emitted[n], place |-> place]}
            ELSE told = {}
=============================================================================
