----------------------------- MODULE MessageBus ------------------------------
(***************************************************************************)
(* The in-process message bus (go/internal/bus): Subscribe, Unsubscribe,   *)
(* Publish and Close over bounded Go channels.  Publish takes its targets  *)
(* under the read lock and sends to them without it.  A send on a closed   *)
(* channel panics, also when the sender was already waiting in the select; *)
(* nobody recovers it, so the process ends.                                *)
(***************************************************************************)
EXTENDS Integers, Sequences, FiniteSets

CONSTANTS Ids,      \* subscriber ids
          Chans,    \* channel objects, each made by one Subscribe
          Pubs,     \* calls of Publish; a message is named after its call
          To,       \* msg.To of each call, or All for a broadcast
          All,
          Cap       \* the buffer of a channel

ASSUME TargetAssumption == To \in [Pubs -> Ids \cup {All}]
ASSUME CapAssumption == Cap \in Nat \ {0}

VARIABLES subs,    \* b.subs: the channel of each id, as a set of at most one
          fresh,   \* channel objects not made yet
          closed,  \* channels that were closed
          buf,     \* what is in each channel
          got,     \* history: what the reader of each channel received
          done,    \* b.done is closed
          at,      \* where each Publish is
          targets, \* channels a Publish took under the lock
          left,    \* those it has not sent to yet
          up       \* the process runs

bus == <<subs, fresh, closed, done>>
busVars == <<subs, fresh, closed, buf, got, done, at, targets, left, up>>

-----------------------------------------------------------------------------
(* Faulty variants of definitions below, one plausible slip each. *)

\* A send that finds the buffer full gives the message up.
SendOrSkip(p, c) ==
  /\ up /\ c \in left[p] /\ c \notin closed
  /\ buf' = IF Len(buf[c]) < Cap THEN [buf EXCEPT ![c] = Append(@, p)] ELSE buf
  /\ left' = [left EXCEPT ![p] = @ \ {c}]
  /\ UNCHANGED <<bus, got, at, targets, up>>
\* Publish waits for room and for nothing else.
CannotGiveUp(p) == FALSE

-----------------------------------------------------------------------------
Without(i) == [subs EXCEPT ![i] = {}]

\* Subscribe replaces and closes the id's channel; after Close it does nothing.
Subscribe(i) ==
  /\ up /\ ~done
  /\ \E c \in fresh :
       /\ fresh' = fresh \ {c}
       /\ closed' = closed \cup subs[i]
       /\ subs' = [subs EXCEPT ![i] = {c}]
  /\ UNCHANGED <<buf, got, done, at, targets, left, up>>

Unsubscribe(i) ==
  /\ up /\ subs[i] # {}
  /\ closed' = closed \cup subs[i]
  /\ subs' = Without(i)
  /\ UNCHANGED <<fresh, buf, got, done, at, targets, left, up>>

CloseBus ==
  /\ up /\ ~done /\ done' = TRUE
  /\ closed' = closed \cup UNION {subs[i] : i \in Ids}
  /\ subs' = [i \in Ids |-> {}]
  /\ UNCHANGED <<fresh, buf, got, at, targets, left, up>>

Targets(p) == UNION {subs[i] : i \in IF To[p] = All THEN Ids ELSE {To[p]}}

\* Publish under the read lock: ErrClosed, or the targets.
PublishTargets(p) ==
  /\ up /\ at[p] = "idle"
  /\ IF done
       THEN at' = [at EXCEPT ![p] = "closed"] /\ UNCHANGED <<targets, left>>
       ELSE /\ at' = [at EXCEPT ![p] = "sending"]
            /\ targets' = [targets EXCEPT ![p] = Targets(p)]
            /\ left' = [left EXCEPT ![p] = Targets(p)]
  /\ UNCHANGED <<bus, buf, got, up>>

\* The select's send, into an open channel with room.  The targets are a Go
\* map's values: any order.
Send(p, c) ==
  /\ up /\ c \in left[p] /\ c \notin closed /\ Len(buf[c]) < Cap
  /\ buf' = [buf EXCEPT ![c] = Append(@, p)]
  /\ left' = [left EXCEPT ![p] = @ \ {c}]
  /\ UNCHANGED <<bus, got, at, targets, up>>

\* The select's send on a channel that was closed meanwhile.
SendOnClosed(p, c) ==
  /\ up /\ c \in left[p] /\ c \in closed
  /\ up' = FALSE
  /\ at' = [at EXCEPT ![p] = "panic"]
  /\ UNCHANGED <<bus, buf, got, targets, left>>

CanGiveUp(p) == at[p] = "sending" /\ left[p] # {}

\* The select's other cases: the caller's context ends or the bus is closed.
GiveUp(p) ==
  /\ up /\ CanGiveUp(p)
  /\ \E r \in {"cancelled"} \cup (IF done THEN {"closed"} ELSE {}) :
       at' = [at EXCEPT ![p] = r]
  /\ left' = [left EXCEPT ![p] = {}]
  /\ UNCHANGED <<bus, buf, got, targets, up>>

PublishReturns(p) ==
  /\ up /\ at[p] = "sending" /\ left[p] = {}
  /\ at' = [at EXCEPT ![p] = "ok"]
  /\ UNCHANGED <<bus, buf, got, targets, left, up>>

\* A reader takes the next message; a closed channel still gives what it holds.
Receive(c) ==
  /\ up /\ buf[c] # <<>>
  /\ buf' = [buf EXCEPT ![c] = Tail(@)]
  /\ got' = [got EXCEPT ![c] = Append(@, Head(buf[c]))]
  /\ UNCHANGED <<bus, at, targets, left, up>>

BusInit ==
  /\ subs = [i \in Ids |-> {}] /\ fresh = Chans /\ closed = {} /\ done = FALSE
  /\ buf = [c \in Chans |-> <<>>] /\ got = [c \in Chans |-> <<>>]
  /\ at = [p \in Pubs |-> "idle"]
  /\ targets = [p \in Pubs |-> {}] /\ left = [p \in Pubs |-> {}]
  /\ up = TRUE

Publish(p) == \/ PublishTargets(p) \/ GiveUp(p) \/ PublishReturns(p)
              \/ \E c \in Chans : Send(p, c) \/ SendOnClosed(p, c)

BusNext == \/ \E i \in Ids : Subscribe(i) \/ Unsubscribe(i)
           \/ \E p \in Pubs : Publish(p)
           \/ \E c \in Chans : Receive(c)
           \/ CloseBus

\* A goroutine in Publish runs on, and its context ends at the latest when its
\* timeout does (handleTask).
BusFairness == \A p \in Pubs : WF_busVars(PublishReturns(p) \/ GiveUp(p))

BusSpec == BusInit /\ [][BusNext]_busVars
FairBus == BusSpec /\ BusFairness

-----------------------------------------------------------------------------
(* Properties *)

Returned == {"ok", "cancelled", "closed", "panic"}

\* Every variable has its type.
BusTypeOK ==
  /\ subs \in [Ids -> SUBSET Chans] /\ \A i \in Ids : Cardinality(subs[i]) <= 1
  /\ fresh \subseteq Chans /\ closed \subseteq Chans
  /\ \A c \in Chans : buf[c] \in Seq(Pubs) /\ got[c] \in Seq(Pubs) /\ Len(buf[c]) <= Cap
  /\ done \in BOOLEAN /\ up \in BOOLEAN
  /\ at \in [Pubs -> {"idle", "sending"} \cup Returned]
  /\ targets \in [Pubs -> SUBSET Chans] /\ left \in [Pubs -> SUBSET Chans]

\* A Publish that returns nil was accepted by every subscriber there was when it
\* looked, exactly once each, and by nobody else, however slow they read and
\* whoever subscribes or leaves meanwhile.
OkMeansAccepted ==
  \A p \in Pubs : at[p] = "ok" =>
    \A c \in Chans :
      Cardinality({i \in DOMAIN got[c] : got[c][i] = p})
        + Cardinality({i \in DOMAIN buf[c] : buf[c][i] = p}) = (IF c \in targets[p] THEN 1 ELSE 0)

\* Every Publish returns: its caller is not held by a subscriber that stopped
\* reading (unless another Publish ended the process).
PublishEnds == \A p \in Pubs : at[p] = "sending" ~> (at[p] \in Returned \/ ~up)
=============================================================================
