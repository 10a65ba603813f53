-------------------------- MODULE OrchestratorProofs --------------------------
(***************************************************************************)
(* An idempotency key runs at most once, for any number of starts, keys,    *)
(* workers and any capacity.  A start holds its key in o.started from       *)
(* Reserve until abandonStart; a start in the channel holds it for ever, so *)
(* what is queued has distinct keys and none of them has run.  The second   *)
(* part is about the message bus that the same process keeps.               *)
(***************************************************************************)
EXTENDS Orchestrator, MessageBus, FiniteSetTheorems, TLAPS

Holding == {"ensure", "register", "enqueue", "send", "unsee", "abandon", "accepted"}

\* A key that is held is in o.started, and only one start holds it.
KeyIsHeld ==
  /\ \A s \in Starts : pc[s] \in Holding => KeyOf[s] \in started
  /\ \A s, q \in Starts : pc[s] \in Holding /\ pc[q] \in Holding /\ KeyOf[s] = KeyOf[q] => s = q

\* What is in the channel was accepted, is there once and has not run.
ChannelIsFresh ==
  /\ \A i \in DOMAIN ch : pc[ch[i]] = "accepted" /\ runs[KeyOf[ch[i]]] = 0
  /\ \A i, j \in DOMAIN ch : ch[i] = ch[j] => i = j

\* A key that has run belongs to an accepted start.
RanWasAccepted ==
  \A k \in Keys : runs[k] # 0 => \E s \in Starts : pc[s] = "accepted" /\ KeyOf[s] = k

Inv == TypeOK /\ KeyIsHeld /\ ChannelIsFresh /\ RanWasAccepted /\ KeyRunsOnce

LEMMA InitInv == Init => Inv
<1> SUFFICES ASSUME Init PROVE Inv
  OBVIOUS
<1> USE StartAssumption DEF Init
<1>1. TypeOK
  BY DEF TypeOK, Inside
<1>2. KeyIsHeld /\ ChannelIsFresh /\ RanWasAccepted /\ KeyRunsOnce
  BY DEF KeyIsHeld, Holding, ChannelIsFresh, RanWasAccepted, KeyRunsOnce
<1> QED BY <1>1, <1>2 DEF Inv

\* A step of one start other than the send leaves the channel and the runs alone,
\* and a start that is accepted takes no step.
LEMMA StartStep ==
  ASSUME Inv, NEW s \in Starts, Start(s), ~EnqueueSend(s)
  PROVE  Inv'
<1> USE StartAssumption DEF Inv
<1>1. /\ pc[s] # "accepted" /\ pc'[s] # "accepted"
      /\ pc' = [pc EXCEPT ![s] = pc'[s]]
      /\ ch' = ch /\ runs' = runs
  BY DEF Start, Reserve, EnsureAttempt, EnsureFails, RegisterScope, EnqueueCheck, EnqueueCancelled,
         EnqueueUnsee, Abandon, Forget, ForgetFails, DropScope, queue, TypeOK
<1>2. TypeOK'
  <2> USE DEF queue, book, record, TypeOK, Inside
  <2>1. KeyOf[s] \in Keys /\ AttOf[s] \in Attempts
    OBVIOUS
  <2>2. CASE EnsureFails(s) \/ EnqueueCancelled(s) \/ ForgetFails(s)
    BY <2>2 DEF EnsureFails, EnqueueCancelled, ForgetFails
  <2>3. CASE Reserve(s)
    <3>1. CASE KeyOf[s] \in started
      BY <2>3, <3>1 DEF Reserve
    <3>2. CASE KeyOf[s] \notin started
      BY <2>1, <2>3, <3>2 DEF Reserve
    <3> QED BY <3>1, <3>2
  <2>4. CASE EnsureAttempt(s)
    BY <2>4 DEF EnsureAttempt
  <2>5. CASE RegisterScope(s) \/ DropScope(s)
    BY <2>5 DEF RegisterScope, DropScope
  <2>6. CASE EnqueueUnsee(s)
    BY <2>6 DEF EnqueueUnsee
  <2>7. CASE EnqueueCheck(s)
    <3>1. CASE closing # "open" \/ KeyOf[s] \in seen
      BY <2>7, <3>1 DEF EnqueueCheck
    <3>2. CASE ~(closing # "open" \/ KeyOf[s] \in seen)
      BY <2>1, <2>7, <3>2 DEF EnqueueCheck
    <3> QED BY <3>1, <3>2
  <2>8. CASE Abandon(s)
    BY <2>8 DEF Abandon
  <2>9. CASE Forget(s)
    BY <2>9 DEF Forget
  <2> QED BY <2>2, <2>3, <2>4, <2>5, <2>6, <2>7, <2>8, <2>9 DEF Start
<1>3. KeyIsHeld'
  <2>1. CASE Reserve(s)
    <3>1. CASE KeyOf[s] \in started
      BY <2>1, <3>1 DEF Reserve, KeyIsHeld, Holding, TypeOK, book
    <3>2. CASE KeyOf[s] \notin started
      BY <2>1, <3>2 DEF Reserve, KeyIsHeld, Holding, TypeOK
    <3> QED BY <3>1, <3>2
  <2>2. CASE Abandon(s)
    BY <2>2 DEF Abandon, KeyIsHeld, Holding, TypeOK
  <2>3. CASE ~Reserve(s) /\ ~Abandon(s)
    <3>1. started' = started /\ (pc'[s] \in Holding => pc[s] \in Holding)
      BY <2>3 DEF Start, EnsureAttempt, EnsureFails, RegisterScope, EnqueueCheck, EnqueueCancelled,
         EnqueueUnsee, Forget, ForgetFails, DropScope, book, TypeOK, Holding
    <3> QED BY <1>1, <3>1 DEF KeyIsHeld, TypeOK
  <2> QED BY <2>1, <2>2, <2>3
<1>4. ChannelIsFresh'
  BY <1>1 DEF ChannelIsFresh, TypeOK
<1>5. RanWasAccepted' /\ KeyRunsOnce'
  BY <1>1 DEF RanWasAccepted, KeyRunsOnce, TypeOK
<1> QED BY <1>2, <1>3, <1>4, <1>5

\* The send: the key has not run, since another start would have held it.
LEMMA SendStep ==
  ASSUME Inv, NEW s \in Starts, EnqueueSend(s)
  PROVE  Inv'
<1> USE StartAssumption DEF Inv
<1>1. /\ pc[s] = "send" /\ pc' = [pc EXCEPT ![s] = "accepted"]
      /\ ch' = Append(ch, s) /\ runs' = runs /\ started' = started
  BY DEF EnqueueSend, book
<1>2. TypeOK'
  BY DEF EnqueueSend, book, record, TypeOK, Inside
<1>3. runs[KeyOf[s]] = 0
  BY <1>1 DEF RanWasAccepted, KeyIsHeld, Holding, TypeOK
<1>4. KeyIsHeld'
  BY <1>1 DEF KeyIsHeld, Holding, TypeOK
<1>5. ChannelIsFresh'
  <2>1. /\ Len(ch') = Len(ch) + 1 /\ ch'[Len(ch) + 1] = s /\ DOMAIN ch = 1 .. Len(ch)
        /\ DOMAIN ch' = 1 .. Len(ch) + 1 /\ Len(ch) \in Nat
        /\ \A i \in 1 .. Len(ch) : ch'[i] = ch[i] /\ ch[i] \in Starts
    BY <1>1 DEF TypeOK
  <2>2. \A i \in DOMAIN ch : ch[i] # s
    BY <1>1 DEF ChannelIsFresh
  <2>3. \A i \in DOMAIN ch' : pc'[ch'[i]] = "accepted" /\ runs'[KeyOf[ch'[i]]] = 0
    BY <1>1, <1>3, <2>1, <2>2 DEF ChannelIsFresh, TypeOK
  <2>4. \A i, j \in DOMAIN ch' : ch'[i] = ch'[j] => i = j
    BY <2>1, <2>2 DEF ChannelIsFresh
  <2> QED BY <2>3, <2>4 DEF ChannelIsFresh
<1>6. RanWasAccepted' /\ KeyRunsOnce'
  BY <1>1 DEF RanWasAccepted, KeyRunsOnce, TypeOK
<1> QED BY <1>2, <1>4, <1>5, <1>6

\* A worker takes the head: its key runs for the first time, and the rest of the
\* channel has other keys.
LEMMA DequeueStep ==
  ASSUME Inv, NEW w \in Workers, Dequeue(w)
  PROVE  Inv'
<1> USE StartAssumption DEF Inv
<1> DEFINE h == Head(ch)
           k == KeyOf[h]
<1>1. /\ Len(ch) \in Nat \ {0} /\ DOMAIN ch = 1 .. Len(ch) /\ h = ch[1] /\ h \in Starts
      /\ ch' = Tail(ch) /\ ch' \in Seq(Starts) /\ DOMAIN ch' = 1 .. Len(ch) - 1
      /\ \A i \in 1 .. Len(ch) - 1 : ch'[i] = ch[i + 1]
      /\ \A i \in 1 .. Len(ch) : ch[i] \in Starts
  BY DEF Dequeue, TypeOK
<1>2. /\ pc[h] = "accepted" /\ k \in Keys /\ runs[k] = 0
      /\ runs' = [runs EXCEPT ![k] = 1] /\ pc' = pc /\ started' = started
  <2>1. pc[h] = "accepted" /\ k \in Keys /\ runs[k] = 0
    BY <1>1 DEF ChannelIsFresh
  <2>2. runs' = [runs EXCEPT ![k] = 0 + 1] /\ pc' = pc /\ started' = started
    BY <2>1 DEF Dequeue, book
  <2> QED BY <2>1, <2>2
<1>3. TypeOK'
  <2>1. running' \in [Workers -> SUBSET Starts]
    BY <1>1 DEF Dequeue, TypeOK
  <2>2. runs' \in [Keys -> Nat]
    BY <1>2 DEF TypeOK
  <2> QED BY <1>1, <2>1, <2>2 DEF Dequeue, book, record, TypeOK
<1>4. KeyIsHeld'
  BY <1>2 DEF KeyIsHeld
<1>5. ChannelIsFresh'
  <2>1. \A i \in DOMAIN ch' : ch'[i] # h /\ pc[ch'[i]] = "accepted" /\ runs[KeyOf[ch'[i]]] = 0
    BY <1>1 DEF ChannelIsFresh
  <2>2. \A i \in DOMAIN ch' : KeyOf[ch'[i]] # k /\ ch'[i] \in Starts
    BY <1>1, <1>2, <2>1 DEF KeyIsHeld, Holding
  <2>3. \A i, j \in DOMAIN ch' : ch'[i] = ch'[j] => i = j
    BY <1>1 DEF ChannelIsFresh
  <2> QED BY <1>2, <2>1, <2>2, <2>3 DEF ChannelIsFresh, TypeOK
<1>6. RanWasAccepted' /\ KeyRunsOnce'
  BY <1>1, <1>2 DEF RanWasAccepted, KeyRunsOnce, TypeOK
<1> QED BY <1>3, <1>4, <1>5, <1>6

LEMMA InvStep == Inv /\ [Next]_vars => Inv'
<1> SUFFICES ASSUME Inv, [Next]_vars PROVE Inv'
  OBVIOUS
<1>1. ASSUME UNCHANGED <<pc, started, ch, runs>>, TypeOK' PROVE Inv'
  BY <1>1 DEF Inv, KeyIsHeld, ChannelIsFresh, RanWasAccepted, KeyRunsOnce
<1>2. CASE UNCHANGED vars
  BY <1>1, <1>2 DEF vars, Inv, TypeOK
<1>3. ASSUME NEW s \in Starts, ConfirmLive(s) PROVE Inv'
  BY <1>1, <1>3 DEF ConfirmLive, book, queue, Inv, TypeOK
<1>4. ASSUME NEW w \in Workers, HandleTaskReturns(w) \/ WorkerReturns(w) PROVE Inv'
  BY <1>1, <1>4 DEF HandleTaskReturns, WorkerReturns, book, record, Inv, TypeOK
<1>5. CASE Close
  BY <1>1, <1>5 DEF Close, book, record, queue, Inv, TypeOK
<1> QED BY <1>2, <1>3, <1>4, <1>5, StartStep, SendStep, DequeueStep DEF Next

\* Start and Queue.Enqueue together run a key at most once.
THEOREM EveryKeyRunsOnce == Spec => []KeyRunsOnce
<1>1. Inv => KeyRunsOnce
  BY DEF Inv
<1> QED BY InitInv, InvStep, <1>1, PTL DEF Spec

-----------------------------------------------------------------------------
(***************************************************************************)
(* The message bus beside the orchestrator: a Publish that returns nil was *)
(* accepted once by each of its targets, for any number of subscribers,    *)
(* channels and calls and any buffer.  A channel and what its reader took  *)
(* from it hold a message once for every target that the call has left     *)
(* behind.                                                                 *)
(***************************************************************************)
\* How often a message is in a channel.
Count(s, p) == Cardinality({i \in DOMAIN s : s[i] = p})

LEMMA CountAppend ==
  ASSUME NEW S, NEW s \in Seq(S), NEW q \in S, NEW p
  PROVE  Count(s, p) \in Nat /\ Count(Append(s, q), p) = Count(s, p) + (IF q = p THEN 1 ELSE 0)
<1> DEFINE n == Len(s)
           X == {i \in DOMAIN s : s[i] = p}
           Y == {i \in DOMAIN Append(s, q) : Append(s, q)[i] = p}
<1>1. n \in Nat /\ DOMAIN s = 1 .. n /\ DOMAIN Append(s, q) = 1 .. n + 1
  OBVIOUS
<1>2. Append(s, q)[n + 1] = q /\ \A i \in 1 .. n : Append(s, q)[i] = s[i]
  OBVIOUS
<1>3. IsFiniteSet(X) /\ Cardinality(X) \in Nat
  <2>1. IsFiniteSet(1 .. n) /\ X \subseteq 1 .. n
    BY <1>1, FS_Interval
  <2>2. QED BY <2>1, FS_Subset, FS_CardinalityType
<1>4. Y = IF q = p THEN X \cup {n + 1} ELSE X
  BY <1>1, <1>2
<1>5. n + 1 \notin X
  BY <1>1
<1> HIDE DEF n, X, Y
<1>6. Cardinality(Y) = Cardinality(X) + (IF q = p THEN 1 ELSE 0)
  <2>1. Cardinality(X \cup {n + 1}) = Cardinality(X) + 1
    BY <1>3, <1>5, FS_AddElement
  <2>2. CASE q = p
    <3>1. Y = X \cup {n + 1}
      BY <1>4, <2>2
    <3>2. QED BY <2>1, <2>2, <3>1
  <2>3. CASE q # p
    <3>1. Y = X
      BY <1>4, <2>3
    <3>2. QED BY <1>3, <2>3, <3>1
  <2>4. QED BY <2>2, <2>3
<1>7. QED BY <1>3, <1>6 DEF Count, X, Y

LEMMA CountTail ==
  ASSUME NEW S, NEW s \in Seq(S), s # <<>>, NEW p
  PROVE  Count(Tail(s), p) \in Nat /\ Count(s, p) = Count(Tail(s), p) + (IF Head(s) = p THEN 1 ELSE 0)
<1> DEFINE n == Len(s)
           X == {i \in DOMAIN s : s[i] = p}
           Y == {i \in DOMAIN Tail(s) : Tail(s)[i] = p}
           f == [i \in Y |-> i + 1]
<1>1. n \in Nat \ {0} /\ DOMAIN s = 1 .. n /\ DOMAIN Tail(s) = 1 .. n - 1 /\ Head(s) = s[1]
      /\ \A i \in 1 .. n - 1 : Tail(s)[i] = s[i + 1]
  OBVIOUS
<1>2. IsFiniteSet(Y) /\ Cardinality(Y) \in Nat
  <2>1. IsFiniteSet(1 .. n - 1) /\ Y \subseteq 1 .. n - 1
    BY <1>1, FS_Interval
  <2>2. QED BY <2>1, FS_Subset, FS_CardinalityType
<1>3. f \in Bijection(Y, X \ {1})
  <2>1. \A i \in Y : i \in 1 .. n - 1 /\ i + 1 \in X \ {1}
    BY <1>1
  <2>2. \A j \in X \ {1} : j - 1 \in Y /\ (j - 1) + 1 = j
    BY <1>1
  <2>3. f \in [Y -> X \ {1}]
    BY <2>1
  <2>4. \A a, b \in Y : f[a] = f[b] => a = b
    BY <2>1
  <2>5. \A j \in X \ {1} : \E i \in Y : f[i] = j
    BY <2>2
  <2> HIDE DEF f, X, Y
  <2>6. QED BY <2>3, <2>4, <2>5 DEF Bijection, Injection, Surjection, IsInjective
<1>4. IsFiniteSet(X \ {1}) /\ Cardinality(X \ {1}) = Cardinality(Y)
  <2> HIDE DEF f, X, Y
  <2>1. ExistsBijection(Y, X \ {1})
    BY <1>3 DEF ExistsBijection
  <2>2. QED BY <1>2, <2>1, FS_Bijection
<1>5. X = IF Head(s) = p THEN (X \ {1}) \cup {1} ELSE X \ {1}
  BY <1>1
<1> HIDE DEF n, X, Y, f
<1>6. Cardinality((X \ {1}) \cup {1}) = Cardinality(Y) + 1
  BY <1>2, <1>4, FS_AddElement
<1>7. Cardinality(X) = Cardinality(Y) + (IF Head(s) = p THEN 1 ELSE 0)
  <2>1. CASE Head(s) = p
    <3>1. X = (X \ {1}) \cup {1}
      BY <1>5, <2>1
    <3>2. QED BY <1>6, <2>1, <3>1
  <2>2. CASE Head(s) # p
    <3>1. X = X \ {1}
      BY <1>5, <2>2
    <3>2. Cardinality(X) = Cardinality(X \ {1})
      BY <3>1, Zenon
    <3>3. QED BY <1>2, <1>4, <2>2, <3>2
  <2>3. QED BY <2>1, <2>2
<1>8. QED BY <1>2, <1>7 DEF Count, X, Y

\* A call that has not given up has sent to the targets it has left behind, once.
Taken(p, c) == Count(got[c], p) + Count(buf[c], p)
BusType ==
  /\ buf \in [Chans -> Seq(Pubs)] /\ got \in [Chans -> Seq(Pubs)]
  /\ DOMAIN at = Pubs /\ DOMAIN targets = Pubs /\ DOMAIN left = Pubs
Pending(p) ==
  /\ left[p] \subseteq targets[p]
  /\ at[p] = "idle" => targets[p] = {}
  /\ at[p] \in {"idle", "ok"} => left[p] = {}
Counted(p) ==
  at[p] \in {"idle", "sending", "ok"} =>
    \A c \in Chans : Taken(p, c) = IF c \in targets[p] \ left[p] THEN 1 ELSE 0
BusInv == BusType /\ \A p \in Pubs : Pending(p) /\ Counted(p)

\* Init: nothing was sent, and nothing is in a channel.
LEMMA BusInitInv == BusInit => BusInv
<1> SUFFICES ASSUME BusInit PROVE BusInv
  OBVIOUS
<1>1. BusType
  BY DEF BusInit, BusType
<1>2. \A c \in Chans, p \in Pubs : Taken(p, c) = 0
  <2>1. \A p : Count(<<>>, p) = 0
    <3>1. \A p : {i \in DOMAIN <<>> : <<>>[i] = p} = {}
      OBVIOUS
    <3>2. QED BY <3>1, FS_EmptySet DEF Count
  <2>2. \A c \in Chans : got[c] = <<>> /\ buf[c] = <<>>
    BY DEF BusInit
  <2>3. QED BY <2>1, <2>2 DEF Taken
<1>3. \A p \in Pubs : at[p] = "idle" /\ targets[p] = {} /\ left[p] = {}
  BY DEF BusInit
<1>4. QED BY <1>1, <1>2, <1>3 DEF BusInv, Pending, Counted

\* A message is sent to one target, which leaves what is left.
LEMMA SendCounts ==
  ASSUME BusInv, NEW q \in Pubs, NEW d \in Chans, Send(q, d)
  PROVE  BusInv'
<1>a. /\ d \in left[q] /\ buf' = [buf EXCEPT ![d] = Append(@, q)] /\ left' = [left EXCEPT ![q] = @ \ {d}]
      /\ UNCHANGED <<got, at, targets>>
  BY DEF Send
<1>b. buf[d] \in Seq(Pubs) /\ buf'[d] = Append(buf[d], q) /\ \A c \in Chans : c # d => buf'[c] = buf[c]
  BY <1>a DEF BusInv, BusType
<1>c. left'[q] = left[q] \ {d} /\ \A p \in Pubs : p # q => left'[p] = left[p]
  BY <1>a DEF BusInv, BusType
<1>1. BusType'
  BY <1>a, <1>b DEF BusInv, BusType
<1>2. ASSUME NEW p \in Pubs PROVE Pending(p)'
  BY <1>a, <1>c DEF BusInv, Pending
<1>3. ASSUME NEW p \in Pubs, NEW c \in Chans
      PROVE  Taken(p, c)' = Taken(p, c) + (IF p = q /\ c = d THEN 1 ELSE 0)
  <2>1. Count(got[c], p) \in Nat /\ Count(buf[c], p) \in Nat
    BY CountAppend DEF BusInv, BusType
  <2>2. c # d => Taken(p, c)' = Taken(p, c)
    BY <1>a, <1>b DEF Taken
  <2>3. CASE c = d
    <3>1. Count(Append(buf[d], q), p) = Count(buf[d], p) + (IF q = p THEN 1 ELSE 0)
      BY <1>b, CountAppend
    <3>2. Taken(p, d)' = Count(got[d], p) + Count(Append(buf[d], q), p)
      BY <1>a, <1>b DEF Taken
    <3>3. QED BY <2>1, <2>3, <3>1, <3>2 DEF Taken
  <2>4. QED BY <2>1, <2>2, <2>3 DEF Taken
<1>4. ASSUME NEW p \in Pubs PROVE Counted(p)'
  <2>1. SUFFICES ASSUME at[p] \in {"idle", "sending", "ok"}, NEW c \in Chans
                 PROVE  Taken(p, c)' = IF c \in targets[p] \ left'[p] THEN 1 ELSE 0
    BY <1>a DEF Counted
  <2>2. Taken(p, c) = IF c \in targets[p] \ left[p] THEN 1 ELSE 0
    BY <2>1 DEF BusInv, Counted
  <2>3. CASE p = q /\ c = d
    <3>1. c \in left[p] /\ c \in targets[p] /\ c \notin left'[p]
      BY <1>a, <1>c, <2>3 DEF BusInv, Pending
    <3>2. QED BY <1>3, <2>2, <2>3, <3>1
  <2>4. CASE ~(p = q /\ c = d)
    <3>1. c \in left'[p] <=> c \in left[p]
      BY <1>c, <2>4
    <3>2. QED BY <1>3, <2>2, <2>4, <3>1
  <2>5. QED BY <2>3, <2>4
<1>5. QED BY <1>1, <1>2, <1>4 DEF BusInv

\* A reader takes a message from its channel, and has it.
LEMMA ReceiveCounts ==
  ASSUME BusInv, NEW d \in Chans, Receive(d)
  PROVE  BusInv'
<1>a. /\ buf[d] # <<>> /\ buf' = [buf EXCEPT ![d] = Tail(@)]
      /\ got' = [got EXCEPT ![d] = Append(@, Head(buf[d]))] /\ UNCHANGED <<at, targets, left>>
  BY DEF Receive
<1>b. /\ buf[d] \in Seq(Pubs) /\ got[d] \in Seq(Pubs) /\ Head(buf[d]) \in Pubs
      /\ buf'[d] = Tail(buf[d]) /\ got'[d] = Append(got[d], Head(buf[d]))
      /\ \A c \in Chans : c # d => buf'[c] = buf[c] /\ got'[c] = got[c]
  BY <1>a DEF BusInv, BusType
<1>1. BusType'
  BY <1>a, <1>b DEF BusInv, BusType
<1>2. ASSUME NEW p \in Pubs, NEW c \in Chans PROVE Taken(p, c)' = Taken(p, c)
  <2>1. c # d => Taken(p, c)' = Taken(p, c)
    BY <1>b DEF Taken
  <2>2. CASE c = d
    <3>1. PICK h : h = Head(buf[d])
      OBVIOUS
    <3>2. /\ Count(got[d], p) \in Nat
          /\ Count(Append(got[d], h), p) = Count(got[d], p) + (IF h = p THEN 1 ELSE 0)
      BY <1>b, <3>1, CountAppend
    <3>3. /\ Count(Tail(buf[d]), p) \in Nat
          /\ Count(buf[d], p) = Count(Tail(buf[d]), p) + (IF h = p THEN 1 ELSE 0)
      BY <1>a, <1>b, <3>1, CountTail
    <3>4. Taken(p, d)' = Count(Append(got[d], h), p) + Count(Tail(buf[d]), p)
      BY <1>b, <3>1 DEF Taken
    <3>5. QED BY <2>2, <3>2, <3>3, <3>4 DEF Taken
  <2>3. QED BY <2>1, <2>2
<1>3. ASSUME NEW p \in Pubs PROVE Pending(p)' /\ Counted(p)'
  BY <1>a, <1>2 DEF BusInv, Pending, Counted
<1>4. QED BY <1>1, <1>3 DEF BusInv

\* A call looks for its targets, gives up, returns or panics: no channel changes.
LEMMA PublishCounts ==
  ASSUME BusInv, NEW q \in Pubs, NEW d,
         PublishTargets(q) \/ GiveUp(q) \/ PublishReturns(q) \/ SendOnClosed(q, d)
  PROVE  BusInv'
<1>a. /\ UNCHANGED <<buf, got>> /\ DOMAIN at' = Pubs /\ DOMAIN targets' = Pubs /\ DOMAIN left' = Pubs
      /\ \A p \in Pubs : p # q => at'[p] = at[p] /\ targets'[p] = targets[p] /\ left'[p] = left[p]
  BY DEF BusInv, BusType, PublishTargets, GiveUp, PublishReturns, SendOnClosed
<1>1. BusType'
  BY <1>a DEF BusInv, BusType
<1>2. \A p \in Pubs, c \in Chans : Taken(p, c)' = Taken(p, c)
  BY <1>a DEF Taken
<1>3. ASSUME NEW p \in Pubs, p # q PROVE Pending(p)' /\ Counted(p)'
  BY <1>a, <1>2, <1>3 DEF BusInv, Pending, Counted
<1>4. Pending(q)' /\ Counted(q)'
  <2>a. Pending(q) /\ Counted(q) /\ DOMAIN at = Pubs /\ DOMAIN targets = Pubs /\ DOMAIN left = Pubs
    BY DEF BusInv, BusType
  <2>1. CASE PublishTargets(q)
    <3>1. at[q] = "idle" /\ left[q] = {} /\ targets[q] = {}
      BY <2>a, <2>1 DEF PublishTargets, Pending
    <3>2. \/ at'[q] = "closed" /\ targets'[q] = {} /\ left'[q] = {}
          \/ at'[q] = "sending" /\ targets'[q] = left'[q]
      BY <2>a, <2>1, <3>1 DEF PublishTargets
    <3>3. \A c \in Chans : Taken(q, c) = 0
      BY <2>a, <3>1 DEF Counted
    <3>4. QED BY <1>2, <3>2, <3>3 DEF Pending, Counted
  <2>2. CASE GiveUp(q)
    <3>1. at'[q] \in {"cancelled", "closed"} /\ left'[q] = {}
      BY <2>a, <2>2 DEF GiveUp
    <3>2. QED BY <3>1 DEF Pending, Counted
  <2>3. CASE PublishReturns(q)
    <3>1. at[q] = "sending" /\ left[q] = {} /\ at'[q] = "ok" /\ UNCHANGED <<targets, left>>
      BY <2>a, <2>3 DEF PublishReturns
    <3>2. QED BY <1>2, <2>a, <3>1 DEF Pending, Counted
  <2>4. CASE SendOnClosed(q, d)
    <3>1. at'[q] = "panic" /\ UNCHANGED <<targets, left>>
      BY <2>a, <2>4 DEF SendOnClosed
    <3>2. QED BY <2>a, <3>1 DEF Pending, Counted
  <2>5. QED BY <2>1, <2>2, <2>3, <2>4
<1>5. QED BY <1>1, <1>3, <1>4 DEF BusInv

LEMMA BusStep == BusInv /\ [BusNext]_busVars => BusInv'
<1> SUFFICES ASSUME BusInv, [BusNext]_busVars PROVE BusInv'
  OBVIOUS
<1>1. ASSUME UNCHANGED <<buf, got, at, targets, left>> PROVE BusInv'
  BY <1>1 DEF BusInv, BusType, Pending, Counted, Taken
<1>2. ASSUME NEW i \in Ids, Subscribe(i) \/ Unsubscribe(i) PROVE BusInv'
  BY <1>1, <1>2 DEF Subscribe, Unsubscribe
<1>3. CASE CloseBus
  BY <1>1, <1>3 DEF CloseBus
<1>4. CASE UNCHANGED busVars
  BY <1>1, <1>4 DEF busVars
<1>5. ASSUME NEW p \in Pubs, Publish(p) PROVE BusInv'
  BY <1>5, SendCounts, PublishCounts DEF Publish
<1>6. QED BY <1>2, <1>3, <1>4, <1>5, ReceiveCounts DEF BusNext

\* Bus.Publish that returns nil has put its message once into every channel it took
\* under the lock and into no other, whoever subscribes, leaves or reads meanwhile.
THEOREM NilMeansAccepted == BusSpec => []OkMeansAccepted
<1>1. ASSUME BusInv PROVE OkMeansAccepted
  <2>1. SUFFICES ASSUME NEW p \in Pubs, at[p] = "ok", NEW c \in Chans
                 PROVE  Cardinality({i \in DOMAIN got[c] : got[c][i] = p})
                          + Cardinality({i \in DOMAIN buf[c] : buf[c][i] = p})
                            = (IF c \in targets[p] THEN 1 ELSE 0)
    BY DEF OkMeansAccepted
  <2>2. left[p] = {} /\ Taken(p, c) = IF c \in targets[p] \ left[p] THEN 1 ELSE 0
    BY <1>1, <2>1 DEF BusInv, Pending, Counted
  <2>3. Taken(p, c) = IF c \in targets[p] THEN 1 ELSE 0
    BY <2>2
  <2>4. QED BY <2>3 DEF Taken, Count
<1>2. QED BY BusInitInv, BusStep, <1>1, PTL DEF BusSpec
=============================================================================
