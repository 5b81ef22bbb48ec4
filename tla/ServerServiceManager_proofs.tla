-------------------- MODULE ServerServiceManager_proofs --------------------
(***************************************************************************)
(* Proofs about the relay, for every set of requesters, clients, requests  *)
(* and ids.                                                                *)
(***************************************************************************)
EXTENDS ServerServiceManager, SequenceTheorems, FiniteSetTheorems, TLAPS

(* Entering a frame puts it in front of the others.                        *)
LEMMA PushLemma ==
    ASSUME NEW S, NEW f \in S, NEW q \in Seq(S)
    PROVE  /\ <<f>> \o q \in Seq(S)
           /\ Len(<<f>> \o q) = Len(q) + 1
           /\ (<<f>> \o q)[1] = f
           /\ Head(<<f>> \o q) = f
           /\ \A i \in 1..Len(<<f>> \o q) :
                 i # 1 => i - 1 \in 1..Len(q) /\ (<<f>> \o q)[i] = q[i - 1]
  OBVIOUS

LEMMA PopLemma ==
    ASSUME NEW S, NEW q \in Seq(S), q # <<>>
    PROVE  /\ Tail(q) \in Seq(S)
           /\ Head(q) \in S
           /\ Head(q) = q[1]
           /\ Len(q) \in Nat \ {0}
           /\ Len(Tail(q)) = Len(q) - 1
           /\ \A i \in 1..Len(Tail(q)) : i + 1 \in 1..Len(q) /\ Tail(q)[i] = q[i + 1]
  OBVIOUS

-----------------------------------------------------------------------------
(* Every request that is anywhere in the system has been sent, and it is   *)
(* read from the socket it was sent on.                                    *)
SentInv ==
    /\ \A s \in Requesters : \A i \in 1..Len(inbox[s]) :
          Sent(inbox[s][i]) /\ req[inbox[s][i]].from = s
    /\ \A c \in Clients : \A r \in work[c] : Sent(r)
    /\ \A c \in Clients : \A i \in 1..Len(replies[c]) : Sent(replies[c][i])
    /\ \A r \in util : Sent(r)
    /\ \A r \in Requests : waiter[r].state = "live" => Sent(r)
    /\ \A i \in 1..Len(stack) : Sent(stack[i].r)

RelayInv == TypeOK /\ SentInv /\ QueueHoldsLiveWaiters

LEMMA MessageFacts ==
    ASSUME TypeOK, NEW r \in Requests, Sent(r)
    PROVE  /\ req[r] \in Message
           /\ req[r].from \in Requesters
           /\ req[r].from \in Sockets
           /\ req[r].id \in Ids
           /\ req[r].target \in Clients \cup {None}
           /\ req[r].uid \in Clients \cup {None}
  BY DEF TypeOK, Sent, Message, Sockets

LEMMA FrameFacts ==
    ASSUME NEW f \in Frame
    PROVE  /\ f.kind \in {"request", "native", "direct", "reply", "timeout"}
           /\ f.r \in Requests
           /\ f.peer \in Sockets \cup {None}
           /\ f.reader \in Sockets \cup {None}
  BY DEF Frame

LEMMA WaiterFacts ==
    ASSUME NEW x \in Waiter, NEW m \in Requests \cup {None}
    PROVE  /\ [x EXCEPT !.platform = "header"] \in Waiter
           /\ [x EXCEPT !.platform = "header"].state = x.state
           /\ [x EXCEPT !.platform = "full", !.canRespond = TRUE] \in Waiter
           /\ [x EXCEPT !.platform = "full", !.canRespond = TRUE].state = x.state
           /\ [x EXCEPT !.responded = TRUE, !.armed = FALSE, !.msg = m] \in Waiter
           /\ [x EXCEPT !.responded = TRUE, !.armed = FALSE, !.msg = m].state = x.state
           /\ [x EXCEPT !.armed = FALSE] \in Waiter
           /\ [x EXCEPT !.armed = FALSE].state = x.state
           /\ [x EXCEPT !.state = "done", !.armed = FALSE] \in Waiter
           /\ [x EXCEPT !.state = "done", !.armed = FALSE].state = "done"
  BY DEF Waiter

(* Entering a frame for a request that was sent.                           *)
LEMMA EnterInv ==
    ASSUME NEW kind \in {"request", "native", "direct", "reply", "timeout"},
           NEW r \in Requests, Sent(r),
           NEW peer \in Sockets \cup {None}, NEW reader \in Sockets \cup {None},
           NEW q \in Seq(Frame), \A i \in 1..Len(q) : Sent(q[i].r),
           Enter(kind, r, peer, reader, q), req' = req
    PROVE  /\ stack' \in Seq(Frame)
           /\ (\A i \in 1..Len(stack) : Sent(stack[i].r))'
<1> DEFINE f == [kind |-> kind, r |-> r, peer |-> peer, reader |-> reader]
<1>1. f \in Frame /\ f.r = r
  BY DEF Frame
<1>2. stack' = <<f>> \o q
  BY DEF Enter
<1> HIDE DEF f
<1>3. stack' \in Seq(Frame)
  BY <1>1, <1>2, PushLemma
<1>4. ASSUME NEW i \in 1..Len(stack')
      PROVE  req[stack'[i].r] # None
  <2>1. CASE i = 1
    BY <1>1, <1>2, <2>1, PushLemma DEF Sent
  <2>2. CASE i # 1
    BY <1>1, <1>2, <2>2, PushLemma DEF Sent
  <2>3. QED
    BY <2>1, <2>2
<1>5. QED
  BY <1>3, <1>4 DEF Sent

(* The innermost frame and what is left without it.                        *)
LEMMA LeaveInv ==
    ASSUME RelayInv, stack # <<>>
    PROVE  /\ Head(stack) \in Frame
           /\ Head(stack) = stack[1]
           /\ Head(stack).r \in Requests
           /\ Head(stack).reader \in Sockets \cup {None}
           /\ Sent(Head(stack).r)
           /\ Tail(stack) \in Seq(Frame)
           /\ \A i \in 1..Len(Tail(stack)) : Sent(Tail(stack)[i].r)
<1>1. stack \in Seq(Frame)
  BY DEF RelayInv, TypeOK
<1>2. /\ Head(stack) \in Frame /\ Head(stack) = stack[1]
      /\ Tail(stack) \in Seq(Frame) /\ 1 \in 1..Len(stack)
      /\ \A i \in 1..Len(Tail(stack)) :
            i + 1 \in 1..Len(stack) /\ Tail(stack)[i] = stack[i + 1]
  BY <1>1, PopLemma
<1>3. QED
  BY <1>2, FrameFacts DEF RelayInv, SentInv

(* The handlers leave the messages alone; if they keep what the other      *)
(* variables refer to within what was sent, SentInv is preserved.          *)
LEMMA SentInvStep ==
    ASSUME RelayInv, req' = req,
           \A s \in Requesters :
              \/ inbox'[s] = inbox[s] \/ inbox'[s] = <<>>
              \/ inbox[s] # <<>> /\ inbox'[s] = Tail(inbox[s]),
           \A c \in Clients : \A r \in work'[c] : Sent(r),
           \A c \in Clients : \A i \in 1..Len(replies'[c]) : Sent(replies'[c][i]),
           \A r \in util' : Sent(r),
           \A r \in Requests : waiter'[r].state = "live" => Sent(r),
           (\A i \in 1..Len(stack) : Sent(stack[i].r))'
    PROVE  SentInv'
<1>1. ASSUME NEW s \in Requesters, NEW i \in 1..Len(inbox[s])'
      PROVE  (Sent(inbox[s][i]) /\ req[inbox[s][i]].from = s)'
  <2>1. inbox[s] \in Seq(Requests)
    BY DEF RelayInv, TypeOK
  <2>2. CASE inbox'[s] = inbox[s]
    BY <2>2 DEF RelayInv, SentInv, Sent
  <2>3. CASE inbox'[s] = <<>>
    BY <2>3
  <2>4. CASE inbox[s] # <<>> /\ inbox'[s] = Tail(inbox[s])
    <3>1. i + 1 \in 1..Len(inbox[s]) /\ inbox'[s][i] = inbox[s][i + 1]
      BY <2>1, <2>4, PopLemma
    <3>2. QED
      BY <3>1 DEF RelayInv, SentInv, Sent
  <2>5. QED
    BY <2>2, <2>3, <2>4
<1>2. QED
  BY <1>1 DEF SentInv, Sent

LEMMA InitRelayInv == Init => RelayInv
  BY RelayAssumption DEF Init, RelayInv, TypeOK, SentInv, QueueHoldsLiveWaiters,
     Message, Waiter, NoWaiter, Frame, Sent, Answer

LEMMA SendRelayInv ==
    ASSUME RelayInv, NEW r \in Requests, NEW s \in Requesters, Send(r, s)
    PROVE  RelayInv'
<1>1. PICK m \in Message : req' = [req EXCEPT ![r] = m] /\ m.from = s
  <2>1. PICK i \in Ids, k \in Services, t, u \in Clients \cup {None} :
           /\ k = "close" \/ u = None
           /\ req' = [req EXCEPT ![r] = [from |-> s, id |-> i, kind |-> k,
                                         target |-> t, uid |-> u]]
    BY DEF Send
  <2>2. [from |-> s, id |-> i, kind |-> k, target |-> t, uid |-> u] \in Message
    BY RelayAssumption DEF Message
  <2>3. QED
    BY <2>1, <2>2
<1>2. /\ \A q \in Requests : Sent(q) => Sent(q)' /\ req'[q] = req[q]
      /\ Sent(r)' /\ req'[r].from = s
  BY <1>1, RelayAssumption DEF Send, Sent, RelayInv, TypeOK
<1>3. TypeOK'
  BY <1>1 DEF RelayInv, TypeOK, Send
<1>4. SentInv'
  <2>1. ASSUME NEW t \in Requesters, NEW i \in 1..Len(inbox[t])'
        PROVE  (Sent(inbox[t][i]) /\ req[inbox[t][i]].from = t)'
    <3>1. CASE t # s
      BY <1>2, <3>1 DEF RelayInv, TypeOK, SentInv, Send
    <3>2. CASE t = s /\ i = Len(inbox[s]) + 1
      BY <1>2, <3>2 DEF RelayInv, TypeOK, SentInv, Send
    <3>3. CASE t = s /\ i # Len(inbox[s]) + 1
      <4>1. inbox[s] \in Seq(Requests) /\ inbox'[s] = Append(inbox[s], r)
        BY DEF RelayInv, TypeOK, Send
      <4>2. i \in 1..Len(inbox[s]) /\ inbox'[s][i] = inbox[s][i]
            /\ inbox[s][i] \in Requests
        BY <3>3, <4>1
      <4>3. QED
        BY <1>2, <3>3, <4>2 DEF RelayInv, SentInv
    <3>4. QED
      BY <3>1, <3>2, <3>3
  <2>2. (\A c \in Clients : \A q \in work[c] : Sent(q))'
    BY <1>2 DEF RelayInv, TypeOK, SentInv, Send
  <2>3. (\A c \in Clients : \A i \in 1..Len(replies[c]) : Sent(replies[c][i]))'
    <3>1. \A c \in Clients : \A i \in 1..Len(replies[c]) : replies[c][i] \in Requests
      BY DEF RelayInv, TypeOK
    <3>2. QED
      BY <1>2, <3>1 DEF RelayInv, SentInv, Send
  <2>4. (\A q \in util : Sent(q))'
    BY <1>2 DEF RelayInv, TypeOK, SentInv, Send
  <2>5. (\A q \in Requests : waiter[q].state = "live" => Sent(q))'
    BY <1>2 DEF RelayInv, TypeOK, SentInv, Send
  <2>6. (\A i \in 1..Len(stack) : Sent(stack[i].r))'
    <3>1. \A i \in 1..Len(stack) : stack[i].r \in Requests
      BY FrameFacts DEF RelayInv, TypeOK
    <3>2. QED
      BY <1>2, <3>1 DEF RelayInv, SentInv, Send
  <2>7. QED
    BY <2>1, <2>2, <2>3, <2>4, <2>5, <2>6 DEF SentInv
<1>5. QueueHoldsLiveWaiters'
  BY <1>2, RelayAssumption
  DEF RelayInv, TypeOK, SentInv, QueueHoldsLiveWaiters, Send
<1>6. QED
  BY <1>3, <1>4, <1>5 DEF RelayInv

(* The first request of an inbox.                                          *)
LEMMA InboxFacts ==
    ASSUME RelayInv, NEW s \in Requesters, inbox[s] # <<>>
    PROVE  /\ Head(inbox[s]) \in Requests
           /\ Sent(Head(inbox[s]))
           /\ req[Head(inbox[s])].from = s
           /\ Tail(inbox[s]) \in Seq(Requests)
<1>1. inbox[s] \in Seq(Requests)
  BY DEF RelayInv, TypeOK
<1>2. Head(inbox[s]) = inbox[s][1] /\ 1 \in 1..Len(inbox[s])
      /\ Head(inbox[s]) \in Requests /\ Tail(inbox[s]) \in Seq(Requests)
  BY <1>1, PopLemma
<1>3. QED
  BY <1>2 DEF RelayInv, SentInv

LEMMA HandleRelayInv ==
    ASSUME RelayInv, NEW s \in Requesters, HandleServiceRequest(s)
    PROVE  RelayInv'
<1> DEFINE r == Head(inbox[s])
<1>1. /\ r \in Requests /\ Sent(r) /\ req[r].from = s
      /\ req[r] \in Message /\ req[r].id \in Ids /\ s \in Sockets
      /\ Tail(inbox[s]) \in Seq(Requests) /\ inbox[s] # <<>>
  BY InboxFacts, MessageFacts DEF HandleServiceRequest, RelayInv, Sockets
<1>2. /\ UNCHANGED <<req, open, answers, up, work, replies>>
      /\ inbox' = [inbox EXCEPT ![s] = Tail(@)]
      /\ \/ \E c \in Candidates(req[r]) : Relay(r, c)
         \/ AnswerDirectly(r)
         \/ StartUtilApp(r)
  BY DEF HandleServiceRequest
<1>3. stack \in Seq(Frame) /\ \A i \in 1..Len(stack) : Sent(stack[i].r)
  BY DEF RelayInv, TypeOK, SentInv
<1>4. inbox' \in [Requesters -> Seq(Requests)]
      /\ \A t \in Requesters :
            \/ inbox'[t] = inbox[t]
            \/ inbox[t] # <<>> /\ inbox'[t] = Tail(inbox[t])
  <2>1. inbox \in [Requesters -> Seq(Requests)]
    BY DEF RelayInv, TypeOK
  <2>2. \A t \in Requesters : inbox'[t] = IF t = s THEN Tail(inbox[s]) ELSE inbox[t]
    BY <1>2, <2>1
  <2>3. inbox' \in [Requesters -> Seq(Requests)]
    BY <1>1, <1>2, <2>1
  <2>4. QED
    BY <1>1, <2>2, <2>3
<1> HIDE DEF r
<1>5. NewWaiter(TRUE) \in Waiter /\ NewWaiter(FALSE) \in Waiter
      /\ NewWaiter(TRUE).state = "live" /\ NewWaiter(FALSE).state = "live"
  BY RelayAssumption DEF NewWaiter, NoWaiter, Waiter
<1>6. ASSUME NEW b \in BOOLEAN,
             waiter' = [waiter EXCEPT ![r] = NewWaiter(b)],
             queue' = [queue EXCEPT ![req[r].id] = r]
      PROVE  /\ waiter' \in [Requests -> Waiter]
             /\ queue' \in [Ids -> Requests \cup {None}]
             /\ \A q \in Requests : waiter'[q].state = "live" => Sent(q)
             /\ QueueHoldsLiveWaiters'
  <2>1. /\ waiter \in [Requests -> Waiter]
        /\ queue \in [Ids -> Requests \cup {None}]
        /\ None \notin Requests
    BY RelayAssumption DEF RelayInv, TypeOK
  <2>2. NewWaiter(b) \in Waiter /\ NewWaiter(b).state = "live"
    BY <1>5
  <2>3. /\ waiter' \in [Requests -> Waiter] /\ waiter'[r].state = "live"
        /\ \A q \in Requests : q # r => waiter'[q] = waiter[q]
    BY <1>1, <1>6, <2>1, <2>2
  <2>4. /\ queue' \in [Ids -> Requests \cup {None}]
        /\ \A i \in Ids : queue'[i] = IF i = req[r].id THEN r ELSE queue[i]
    BY <1>1, <1>6, <2>1
  <2>5. \A q \in Requests : waiter'[q].state = "live" => Sent(q)
    BY <1>1, <2>3 DEF RelayInv, SentInv
  <2>6. QueueHoldsLiveWaiters'
    BY <1>1, <1>2, <2>1, <2>3, <2>4 DEF RelayInv, QueueHoldsLiveWaiters
  <2>7. QED
    BY <2>3, <2>4, <2>5, <2>6
<1>7. CASE \E c \in Candidates(req[r]) : Relay(r, c)
  <2>1. PICK c \in Candidates(req[r]) : Relay(r, c)
    BY <1>7
  <2>2. c \in Sockets
    BY <2>1 DEF Candidates, RelayInv, TypeOK, Sockets
  <2>3. stack' \in Seq(Frame) /\ (\A i \in 1..Len(stack) : Sent(stack[i].r))'
    BY <1>1, <1>2, <1>3, <2>1, <2>2, EnterInv DEF Relay
  <2>4. /\ waiter' \in [Requests -> Waiter]
        /\ queue' \in [Ids -> Requests \cup {None}]
        /\ \A q \in Requests : waiter'[q].state = "live" => Sent(q)
        /\ QueueHoldsLiveWaiters'
    BY <1>6, <2>1 DEF Relay
  <2>5. TypeOK'
    BY <1>2, <1>4, <2>1, <2>3, <2>4 DEF RelayInv, TypeOK, Relay
  <2>6. SentInv'
    BY <1>2, <1>4, <2>1, <2>3, <2>4, SentInvStep DEF RelayInv, SentInv, Relay
  <2>7. QED
    BY <2>4, <2>5, <2>6 DEF RelayInv
<1>8. CASE AnswerDirectly(r)
  <2>1. stack' \in Seq(Frame) /\ (\A i \in 1..Len(stack) : Sent(stack[i].r))'
    BY <1>1, <1>2, <1>3, <1>8, EnterInv DEF AnswerDirectly
  <2>2. reg' \subseteq Clients
    BY <1>8 DEF AnswerDirectly, NoTarget, RelayInv, TypeOK
  <2>3. TypeOK'
    BY <1>2, <1>4, <1>8, <2>1, <2>2 DEF RelayInv, TypeOK, AnswerDirectly
  <2>4. SentInv'
    BY <1>2, <1>4, <1>8, <2>1, SentInvStep DEF RelayInv, SentInv, AnswerDirectly
  <2>5. QueueHoldsLiveWaiters'
    BY <1>2, <1>8 DEF RelayInv, QueueHoldsLiveWaiters, AnswerDirectly
  <2>6. QED
    BY <2>3, <2>4, <2>5 DEF RelayInv
<1>9. CASE StartUtilApp(r)
  <2>1. reg' \subseteq Clients /\ util' = util \cup {r} /\ stack' = stack
    BY <1>9 DEF StartUtilApp, NoTarget, RelayInv, TypeOK
  <2>2. /\ waiter' \in [Requests -> Waiter]
        /\ queue' \in [Ids -> Requests \cup {None}]
        /\ \A q \in Requests : waiter'[q].state = "live" => Sent(q)
        /\ QueueHoldsLiveWaiters'
    BY <1>6, <1>9 DEF StartUtilApp
  <2>3. TypeOK'
    BY <1>1, <1>2, <1>4, <2>1, <2>2 DEF RelayInv, TypeOK
  <2>4. \A q \in util' : Sent(q)
    BY <1>1, <2>1 DEF RelayInv, SentInv
  <2>5. (\A i \in 1..Len(stack) : Sent(stack[i].r))'
    BY <1>2, <1>3, <2>1 DEF Sent
  <2>6. SentInv'
    BY <1>2, <1>4, <2>2, <2>4, <2>5, SentInvStep DEF RelayInv, SentInv
  <2>7. QED
    BY <2>2, <2>3, <2>6 DEF RelayInv
<1>10. QED
  BY <1>2, <1>7, <1>8, <1>9

(* Facts about the waiter that the queue holds for an id.                  *)
LEMMA QueueFacts ==
    ASSUME RelayInv, NEW i \in Ids, queue[i] # None
    PROVE  /\ queue[i] \in Requests /\ Sent(queue[i])
           /\ waiter[queue[i]].state = "live"
           /\ req[queue[i]].from \in Requesters
           /\ req[queue[i]].from \in Sockets
<1>1. queue[i] \in Requests
  BY DEF RelayInv, TypeOK
<1>2. Sent(queue[i]) /\ waiter[queue[i]].state = "live"
  BY <1>1 DEF RelayInv, SentInv, QueueHoldsLiveWaiters
<1>3. QED
  BY <1>1, <1>2, MessageFacts DEF RelayInv

(* A waiter's flags may change without changing which waiters are live.    *)
LEMMA SameStates ==
    ASSUME RelayInv, UNCHANGED <<req, queue>>,
           waiter' \in [Requests -> Waiter],
           \A q \in Requests : waiter'[q].state = waiter[q].state
    PROVE  /\ \A q \in Requests : waiter'[q].state = "live" => Sent(q)
           /\ QueueHoldsLiveWaiters'
<1>1. \A q \in Requests : waiter'[q].state = "live" => Sent(q)
  BY DEF RelayInv, SentInv
<1>2. \A i \in Ids : queue[i] # None => queue[i] \in Requests
  BY QueueFacts
<1>3. QED
  BY <1>1, <1>2 DEF RelayInv, QueueHoldsLiveWaiters

LEMMA FinishRequestRelayInv ==
    ASSUME RelayInv, FinishRequest
    PROVE  RelayInv'
<1> DEFINE r == Head(stack).r
           c == Head(stack).peer
           w == queue[req[r].id]
<1>1. /\ r \in Requests /\ Sent(r) /\ req[r].id \in Ids
      /\ Head(stack).reader \in Sockets \cup {None}
      /\ Tail(stack) \in Seq(Frame)
      /\ \A i \in 1..Len(Tail(stack)) : Sent(Tail(stack)[i].r)
  BY LeaveInv, MessageFacts DEF FinishRequest, RelayInv
<1>2. /\ UNCHANGED <<req, inbox, open, answers, reg, up, replies, util, queue>>
      /\ work' = IF c \in up THEN [work EXCEPT ![c] = @ \cup {r}] ELSE work
      /\ \/ /\ w # None
            /\ waiter' = [waiter EXCEPT ![w].platform = "header"]
            /\ Enter("native", r, None, Head(stack).reader, Tail(stack))
         \/ /\ stack' = Tail(stack)
            /\ UNCHANGED waiter
  BY DEF FinishRequest
<1> HIDE DEF r, c, w
<1>3. work' \in [Clients -> SUBSET Requests]
      /\ \A d \in Clients : \A q \in work'[d] : Sent(q)
  BY <1>1, <1>2 DEF RelayInv, TypeOK, SentInv
<1>4. /\ waiter' \in [Requests -> Waiter]
      /\ \A q \in Requests : waiter'[q].state = waiter[q].state
  <2>1. waiter \in [Requests -> Waiter]
    BY DEF RelayInv, TypeOK
  <2>2. CASE w # None /\ waiter' = [waiter EXCEPT ![w].platform = "header"]
    <3>1. w \in Requests
      BY <1>1, <2>2, QueueFacts DEF w
    <3>2. [waiter[w] EXCEPT !.platform = "header"] \in Waiter
          /\ [waiter[w] EXCEPT !.platform = "header"].state = waiter[w].state
      BY <2>1, <3>1, WaiterFacts
    <3>3. QED
      BY <2>1, <2>2, <3>1, <3>2
  <2>3. CASE UNCHANGED waiter
    BY <2>1, <2>3
  <2>4. QED
    BY <1>2, <2>2, <2>3
<1>5. stack' \in Seq(Frame) /\ (\A i \in 1..Len(stack) : Sent(stack[i].r))'
  <2>1. CASE Enter("native", r, None, Head(stack).reader, Tail(stack))
    BY <1>1, <1>2, <2>1, EnterInv
  <2>2. CASE stack' = Tail(stack)
    BY <1>1, <1>2, <2>2 DEF Sent
  <2>3. QED
    BY <1>2, <2>1, <2>2
<1>6. /\ \A q \in Requests : waiter'[q].state = "live" => Sent(q)
      /\ QueueHoldsLiveWaiters'
  BY <1>2, <1>4, SameStates
<1>7. TypeOK'
  BY <1>2, <1>3, <1>4, <1>5 DEF RelayInv, TypeOK
<1>8. SentInv'
  BY <1>2, <1>3, <1>5, <1>6, SentInvStep DEF RelayInv, SentInv
<1>9. QED
  BY <1>6, <1>7, <1>8 DEF RelayInv

(* The close filter takes out clients, and what is on its way from them.   *)
LEMMA FilterInv ==
    ASSUME RelayInv, NEW r \in Requests,
           NEW incoming \in [Clients -> Seq(Requests)],
           \A c \in Clients : \A i \in 1..Len(incoming[c]) : Sent(incoming[c][i]),
           FilterResponse(r, incoming)
    PROVE  /\ reg' \subseteq Clients /\ up' \subseteq Clients
           /\ work' \in [Clients -> SUBSET Requests]
           /\ replies' \in [Clients -> Seq(Requests)]
           /\ \A c \in Clients : \A q \in work'[c] : Sent(q)
           /\ \A c \in Clients : \A i \in 1..Len(replies'[c]) : Sent(replies'[c][i])
  BY DEF FilterResponse, RelayInv, TypeOK, SentInv

(* A response for the waiter w is sent on, if it may be.                   *)
LEMMA SendMessageInv ==
    ASSUME RelayInv, NEW w \in Requests, Sent(w),
           NEW reader \in Sockets \cup {None},
           NEW q \in Seq(Frame), \A i \in 1..Len(q) : Sent(q[i].r),
           NEW incoming \in [Clients -> Seq(Requests)],
           \A c \in Clients : \A i \in 1..Len(incoming[c]) : Sent(incoming[c][i]),
           req' = req,
           SendMessage(w, reader, q, incoming)
    PROVE  /\ reg' \subseteq Clients /\ up' \subseteq Clients
           /\ work' \in [Clients -> SUBSET Requests]
           /\ replies' \in [Clients -> Seq(Requests)]
           /\ \A c \in Clients : \A r \in work'[c] : Sent(r)
           /\ \A c \in Clients : \A i \in 1..Len(replies'[c]) : Sent(replies'[c][i])
           /\ stack' \in Seq(Frame)
           /\ (\A i \in 1..Len(stack) : Sent(stack[i].r))'
<1>1. FilterResponse(w, incoming) /\ Enter("reply", w, req[w].from, reader, q)
  BY DEF SendMessage
<1>2. req[w].from \in Sockets \cup {None}
  BY MessageFacts DEF RelayInv
<1>3. stack' \in Seq(Frame) /\ (\A i \in 1..Len(stack) : Sent(stack[i].r))'
  BY <1>1, <1>2, EnterInv
<1>4. QED
  BY <1>1, <1>3, FilterInv

LEMMA FinishNativeRelayInv ==
    ASSUME RelayInv, FinishNative
    PROVE  RelayInv'
<1> DEFINE r == Head(stack).r
           w == queue[req[r].id]
<1>1. /\ r \in Requests /\ Sent(r) /\ req[r].id \in Ids
      /\ Head(stack).reader \in Sockets \cup {None}
      /\ Tail(stack) \in Seq(Frame)
      /\ \A i \in 1..Len(Tail(stack)) : Sent(Tail(stack)[i].r)
  BY LeaveInv, MessageFacts DEF FinishNative, RelayInv
<1>2. /\ UNCHANGED <<req, inbox, open, answers, util, queue>>
      /\ \/ UNCHANGED waiter
         \/ /\ w # None
            /\ waiter' = [waiter EXCEPT ![w].platform = "full",
                                        ![w].canRespond = TRUE]
      /\ \/ stack' = Tail(stack) /\ UNCHANGED <<reg, up, work, replies>>
         \/ /\ w # None
            /\ SendMessage(w, Head(stack).reader, Tail(stack), replies)
  BY DEF FinishNative
<1>3. w # None => w \in Requests /\ Sent(w)
  BY <1>1, QueueFacts
<1> HIDE DEF r, w
<1>4. /\ waiter' \in [Requests -> Waiter]
      /\ \A q \in Requests : waiter'[q].state = waiter[q].state
  <2>1. waiter \in [Requests -> Waiter]
    BY DEF RelayInv, TypeOK
  <2>2. CASE w # None /\ waiter' = [waiter EXCEPT ![w].platform = "full",
                                                  ![w].canRespond = TRUE]
    <3>1. [waiter[w] EXCEPT !.platform = "full", !.canRespond = TRUE] \in Waiter
          /\ [waiter[w] EXCEPT !.platform = "full", !.canRespond = TRUE].state
                = waiter[w].state
      BY <1>3, <2>1, <2>2, WaiterFacts
    <3>2. QED
      BY <1>3, <2>1, <2>2, <3>1
  <2>3. QED
    BY <1>2, <2>1, <2>2
<1>5. /\ reg' \subseteq Clients /\ up' \subseteq Clients
      /\ work' \in [Clients -> SUBSET Requests]
      /\ replies' \in [Clients -> Seq(Requests)]
      /\ \A c \in Clients : \A q \in work'[c] : Sent(q)
      /\ \A c \in Clients : \A i \in 1..Len(replies'[c]) : Sent(replies'[c][i])
      /\ stack' \in Seq(Frame)
      /\ (\A i \in 1..Len(stack) : Sent(stack[i].r))'
  <2>1. CASE stack' = Tail(stack) /\ UNCHANGED <<reg, up, work, replies>>
    BY <1>1, <1>2, <2>1 DEF RelayInv, TypeOK, SentInv, Sent
  <2>2. CASE w # None /\ SendMessage(w, Head(stack).reader, Tail(stack), replies)
    <3>1. replies \in [Clients -> Seq(Requests)]
          /\ \A c \in Clients : \A i \in 1..Len(replies[c]) : Sent(replies[c][i])
      BY DEF RelayInv, TypeOK, SentInv
    <3>2. QED
      BY <1>1, <1>2, <1>3, <2>2, <3>1, SendMessageInv
  <2>3. QED
    BY <1>2, <2>1, <2>2
<1>6. /\ \A q \in Requests : waiter'[q].state = "live" => Sent(q)
      /\ QueueHoldsLiveWaiters'
  BY <1>2, <1>4, SameStates
<1>7. TypeOK'
  BY <1>2, <1>4, <1>5 DEF RelayInv, TypeOK
<1>8. SentInv'
  BY <1>2, <1>5, <1>6, SentInvStep DEF RelayInv, SentInv
<1>9. QED
  BY <1>6, <1>7, <1>8 DEF RelayInv

(* A response, wherever it was read from, keeps the invariant.             *)
LEMMA ServiceResponseInv ==
    ASSUME RelayInv, NEW m \in Requests, Sent(m),
           NEW reader \in Sockets \cup {None},
           NEW incoming \in [Clients -> Seq(Requests)],
           \A c \in Clients : \A i \in 1..Len(incoming[c]) : Sent(incoming[c][i]),
           UNCHANGED <<req, inbox, open, answers, queue>>, util' \subseteq util,
           ServiceResponse(m, reader, incoming)
    PROVE  RelayInv'
<1> DEFINE w == queue[req[m].id]
<1>1. /\ \/ UNCHANGED waiter
         \/ /\ w # None
            /\ waiter' = [waiter EXCEPT ![w].responded = TRUE,
                                        ![w].armed = FALSE, ![w].msg = m]
      /\ \/ replies' = incoming /\ UNCHANGED <<stack, reg, up, work>>
         \/ w # None /\ SendMessage(w, reader, stack, incoming)
  BY DEF ServiceResponse
<1>2. w # None => w \in Requests /\ Sent(w)
  BY QueueFacts, MessageFacts DEF RelayInv
<1> HIDE DEF w
<1>3. /\ waiter' \in [Requests -> Waiter]
      /\ \A q \in Requests : waiter'[q].state = waiter[q].state
  <2>1. waiter \in [Requests -> Waiter]
    BY DEF RelayInv, TypeOK
  <2>2. CASE /\ w # None
             /\ waiter' = [waiter EXCEPT ![w].responded = TRUE,
                                         ![w].armed = FALSE, ![w].msg = m]
    <3>1. [waiter[w] EXCEPT !.responded = TRUE, !.armed = FALSE, !.msg = m] \in Waiter
          /\ [waiter[w] EXCEPT !.responded = TRUE, !.armed = FALSE, !.msg = m].state
                = waiter[w].state
      BY <1>2, <2>1, <2>2, WaiterFacts
    <3>2. QED
      BY <1>2, <2>1, <2>2, <3>1
  <2>3. QED
    BY <1>1, <2>1, <2>2
<1>4. stack \in Seq(Frame) /\ \A i \in 1..Len(stack) : Sent(stack[i].r)
  BY DEF RelayInv, TypeOK, SentInv
<1>5. /\ reg' \subseteq Clients /\ up' \subseteq Clients
      /\ work' \in [Clients -> SUBSET Requests]
      /\ replies' \in [Clients -> Seq(Requests)]
      /\ \A c \in Clients : \A q \in work'[c] : Sent(q)
      /\ \A c \in Clients : \A i \in 1..Len(replies'[c]) : Sent(replies'[c][i])
      /\ stack' \in Seq(Frame)
      /\ (\A i \in 1..Len(stack) : Sent(stack[i].r))'
  <2>1. CASE replies' = incoming /\ UNCHANGED <<stack, reg, up, work>>
    BY <1>4, <2>1 DEF RelayInv, TypeOK, SentInv, Sent
  <2>2. CASE w # None /\ SendMessage(w, reader, stack, incoming)
    BY <1>2, <1>4, <2>2, SendMessageInv
  <2>3. QED
    BY <1>1, <2>1, <2>2
<1>6. /\ \A q \in Requests : waiter'[q].state = "live" => Sent(q)
      /\ QueueHoldsLiveWaiters'
  BY <1>3, SameStates
<1>7. TypeOK'
  BY <1>3, <1>5 DEF RelayInv, TypeOK
<1>8. SentInv'
  BY <1>5, <1>6, SentInvStep DEF RelayInv, SentInv
<1>9. QED
  BY <1>6, <1>7, <1>8 DEF RelayInv

(* The first response on its way from a client.                            *)
LEMMA ReplyFacts ==
    ASSUME RelayInv, NEW c \in Clients, replies[c] # <<>>
    PROVE  /\ Head(replies[c]) \in Requests /\ Sent(Head(replies[c]))
           /\ [replies EXCEPT ![c] = Tail(@)] \in [Clients -> Seq(Requests)]
           /\ \A d \in Clients : \A i \in 1..Len([replies EXCEPT ![c] = Tail(@)][d]) :
                 Sent([replies EXCEPT ![c] = Tail(@)][d][i])
<1>1. replies \in [Clients -> Seq(Requests)]
  BY DEF RelayInv, TypeOK
<1>2. /\ Head(replies[c]) \in Requests /\ Head(replies[c]) = replies[c][1]
      /\ 1 \in 1..Len(replies[c]) /\ Tail(replies[c]) \in Seq(Requests)
      /\ \A i \in 1..Len(Tail(replies[c])) :
            i + 1 \in 1..Len(replies[c]) /\ Tail(replies[c])[i] = replies[c][i + 1]
  BY <1>1, PopLemma
<1>3. \A i \in 1..Len(Tail(replies[c])) : Sent(Tail(replies[c])[i])
  BY <1>2 DEF RelayInv, SentInv
<1>4. \A d \in Clients : [replies EXCEPT ![c] = Tail(@)][d]
                           = IF d = c THEN Tail(replies[c]) ELSE replies[d]
  BY <1>1
<1>5. [replies EXCEPT ![c] = Tail(@)] \in [Clients -> Seq(Requests)]
  BY <1>1, <1>2
<1>6. Sent(Head(replies[c]))
  BY <1>2 DEF RelayInv, SentInv
<1>7. QED
  BY <1>2, <1>3, <1>4, <1>5, <1>6 DEF RelayInv, SentInv

LEMMA ReadReplyRelayInv ==
    ASSUME RelayInv, NEW c \in Clients, ReadReply(c)
    PROVE  RelayInv'
<1>1. replies[c] # <<>> /\ c \in Sockets
  BY DEF ReadReply, Sockets
<1>2. /\ ServiceResponse(Head(replies[c]), c, [replies EXCEPT ![c] = Tail(@)])
      /\ UNCHANGED <<req, inbox, open, answers, util, queue>>
  BY DEF ReadReply
<1>3. QED
  BY <1>1, <1>2, ReplyFacts, ServiceResponseInv

LEMMA UtilAppRelayInv ==
    ASSUME RelayInv, NEW r \in Requests, UtilAppAnswers(r)
    PROVE  RelayInv'
<1>1. /\ r \in util /\ util' \subseteq util
      /\ ServiceResponse(r, None, replies)
      /\ UNCHANGED <<req, inbox, open, answers, queue>>
  BY DEF UtilAppAnswers
<1>2. Sent(r) /\ replies \in [Clients -> Seq(Requests)]
      /\ \A c \in Clients : \A i \in 1..Len(replies[c]) : Sent(replies[c][i])
  BY <1>1 DEF RelayInv, TypeOK, SentInv
<1>3. QED
  BY <1>1, <1>2, ServiceResponseInv

LEMMA TimeoutRelayInv ==
    ASSUME RelayInv, NEW r \in Requests, Timeout(r)
    PROVE  RelayInv'
<1>1. /\ waiter' = [waiter EXCEPT ![r].armed = FALSE]
      /\ waiter[r].state = "live"
      /\ FilterResponse(r, replies)
      /\ Enter("timeout", r, req[r].from, None, stack)
      /\ UNCHANGED <<req, inbox, open, answers, util, queue>>
  BY DEF Timeout
<1>2. Sent(r) /\ req[r].from \in Sockets \cup {None}
  BY <1>1, MessageFacts DEF RelayInv, SentInv
<1>3. /\ stack \in Seq(Frame) /\ \A i \in 1..Len(stack) : Sent(stack[i].r)
      /\ replies \in [Clients -> Seq(Requests)]
      /\ \A c \in Clients : \A i \in 1..Len(replies[c]) : Sent(replies[c][i])
  BY DEF RelayInv, TypeOK, SentInv
<1>4. stack' \in Seq(Frame) /\ (\A i \in 1..Len(stack) : Sent(stack[i].r))'
  BY <1>1, <1>2, <1>3, EnterInv
<1>5. /\ waiter' \in [Requests -> Waiter]
      /\ \A q \in Requests : waiter'[q].state = waiter[q].state
  <2>1. waiter \in [Requests -> Waiter]
    BY DEF RelayInv, TypeOK
  <2>2. [waiter[r] EXCEPT !.armed = FALSE] \in Waiter
        /\ [waiter[r] EXCEPT !.armed = FALSE].state = waiter[r].state
    BY <2>1, WaiterFacts
  <2>3. QED
    BY <1>1, <2>1, <2>2
<1>6. /\ reg' \subseteq Clients /\ up' \subseteq Clients
      /\ work' \in [Clients -> SUBSET Requests]
      /\ replies' \in [Clients -> Seq(Requests)]
      /\ \A c \in Clients : \A q \in work'[c] : Sent(q)
      /\ \A c \in Clients : \A i \in 1..Len(replies'[c]) : Sent(replies'[c][i])
  BY <1>1, <1>3, FilterInv
<1>7. /\ \A q \in Requests : waiter'[q].state = "live" => Sent(q)
      /\ QueueHoldsLiveWaiters'
  BY <1>1, <1>5, SameStates
<1>8. TypeOK'
  BY <1>1, <1>4, <1>5, <1>6 DEF RelayInv, TypeOK
<1>9. SentInv'
  BY <1>1, <1>4, <1>6, <1>7, SentInvStep DEF RelayInv, SentInv
<1>10. QED
  BY <1>7, <1>8, <1>9 DEF RelayInv

LEMMA DeliverType ==
    ASSUME RelayInv, NEW r \in Requests, NEW what \in {"direct", "reply", "timeout"},
           Deliver(r, what)
    PROVE  answers' \in [Requests -> Seq(Answer)]
<1> DEFINE a == [what |-> what,
                 of |-> IF what = "reply" THEN waiter[r].msg ELSE None,
                 platform |-> IF what = "reply" THEN waiter[r].platform ELSE "empty"]
<1>1. answers \in [Requests -> Seq(Answer)] /\ waiter[r] \in Waiter
  BY DEF RelayInv, TypeOK
<1>2. a \in Answer
  BY <1>1 DEF Waiter, Answer
<1>3. Append(answers[r], a) \in Seq(Answer)
  BY <1>1, <1>2
<1>4. answers' = answers \/ answers' = [answers EXCEPT ![r] = Append(@, a)]
  BY DEF Deliver
<1>5. QED
  BY <1>1, <1>3, <1>4

LEMMA FinishAnswerRelayInv ==
    ASSUME RelayInv, FinishAnswer
    PROVE  RelayInv'
<1> DEFINE r == Head(stack).r
<1>1. /\ r \in Requests /\ Sent(r) /\ req[r].id \in Ids
      /\ Tail(stack) \in Seq(Frame)
      /\ \A i \in 1..Len(Tail(stack)) : Sent(Tail(stack)[i].r)
  BY LeaveInv, MessageFacts DEF FinishAnswer, RelayInv
<1>2. /\ Head(stack).kind \in {"reply", "timeout"}
      /\ Deliver(r, Head(stack).kind)
      /\ queue' = [queue EXCEPT ![req[r].id] = None]
      /\ waiter' = [waiter EXCEPT ![r].state = "done", ![r].armed = FALSE]
      /\ stack' = Tail(stack)
      /\ UNCHANGED <<req, inbox, open, reg, up, work, replies, util>>
  BY DEF FinishAnswer, Responded
<1>3. answers' \in [Requests -> Seq(Answer)]
  BY <1>1, <1>2, DeliverType
<1> HIDE DEF r
<1>4. waiter \in [Requests -> Waiter] /\ queue \in [Ids -> Requests \cup {None}]
  BY DEF RelayInv, TypeOK
<1>5. /\ waiter' \in [Requests -> Waiter]
      /\ \A q \in Requests : q # r => waiter'[q] = waiter[q]
      /\ waiter'[r].state = "done"
  <2>1. [waiter[r] EXCEPT !.state = "done", !.armed = FALSE] \in Waiter
        /\ [waiter[r] EXCEPT !.state = "done", !.armed = FALSE].state = "done"
    BY <1>1, <1>4, WaiterFacts
  <2>2. QED
    BY <1>1, <1>2, <1>4, <2>1
<1>6. /\ queue' \in [Ids -> Requests \cup {None}]
      /\ \A i \in Ids : queue'[i] = IF i = req[r].id THEN None ELSE queue[i]
  BY <1>1, <1>2, <1>4
<1>7. QueueHoldsLiveWaiters'
  <2>1. ASSUME NEW i \in Ids, queue'[i] # None
        PROVE  waiter'[queue'[i]].state = "live" /\ req'[queue'[i]].id = i
    <3>1. queue'[i] = queue[i] /\ i # req[r].id
      BY <1>6, <2>1
    <3>2. queue[i] \in Requests /\ req[queue[i]].id = i
          /\ waiter[queue[i]].state = "live"
      BY <1>4, <2>1, <3>1 DEF RelayInv, QueueHoldsLiveWaiters
    <3>3. QED
      BY <1>2, <1>5, <3>1, <3>2
  <2>2. QED
    BY <2>1 DEF QueueHoldsLiveWaiters
<1>8. \A q \in Requests : waiter'[q].state = "live" => Sent(q)
  BY <1>1, <1>5 DEF RelayInv, SentInv
<1>9. TypeOK'
  BY <1>1, <1>2, <1>3, <1>5, <1>6 DEF RelayInv, TypeOK
<1>10. SentInv'
  <2>1. (\A i \in 1..Len(stack) : Sent(stack[i].r))'
    BY <1>1, <1>2 DEF Sent
  <2>2. QED
    BY <1>2, <1>8, <2>1, SentInvStep DEF RelayInv, SentInv
<1>11. QED
  BY <1>7, <1>9, <1>10 DEF RelayInv

LEMMA FinishDirectRelayInv ==
    ASSUME RelayInv, FinishDirect
    PROVE  RelayInv'
<1>1. /\ Tail(stack) \in Seq(Frame) /\ Head(stack).r \in Requests
      /\ \A i \in 1..Len(Tail(stack)) : Sent(Tail(stack)[i].r)
  BY LeaveInv DEF FinishDirect
<1>2. /\ Deliver(Head(stack).r, "direct") /\ stack' = Tail(stack)
      /\ UNCHANGED <<req, inbox, open, reg, up, work, replies, util, queue, waiter>>
  BY DEF FinishDirect
<1>3. answers' \in [Requests -> Seq(Answer)]
  BY <1>1, <1>2, DeliverType
<1>4. TypeOK'
  BY <1>1, <1>2, <1>3 DEF RelayInv, TypeOK
<1>5. SentInv'
  <2>1. (\A i \in 1..Len(stack) : Sent(stack[i].r))'
    BY <1>1, <1>2 DEF Sent
  <2>2. QED
    BY <1>2, <2>1, SentInvStep DEF RelayInv, SentInv
<1>6. QueueHoldsLiveWaiters'
  BY <1>2 DEF RelayInv, QueueHoldsLiveWaiters
<1>7. QED
  BY <1>4, <1>5, <1>6 DEF RelayInv

LEMMA LoseRequesterRelayInv ==
    ASSUME RelayInv, NEW s \in Requesters, LoseRequester(s)
    PROVE  RelayInv'
<1>1. /\ open' \subseteq Requesters
      /\ inbox' = [inbox EXCEPT ![s] = <<>>]
      /\ UNCHANGED <<req, answers, reg, up, work, replies, util, stack>>
  BY DEF LoseRequester, RelayInv, TypeOK
<1>2. waiter \in [Requests -> Waiter] /\ queue \in [Ids -> Requests \cup {None}]
  BY DEF RelayInv, TypeOK
<1>3. /\ waiter' \in [Requests -> Waiter]
      /\ queue' \in [Ids -> Requests \cup {None}]
      /\ \A q \in Requests : waiter'[q].state = "live" => waiter[q].state = "live"
      /\ QueueHoldsLiveWaiters'
  <2>1. CASE UNCHANGED <<waiter, queue>>
    BY <1>1, <1>2, <2>1 DEF RelayInv, QueueHoldsLiveWaiters
  <2>2. CASE /\ waiter' = [r \in Requests |->
                   IF r \in LiveWaitersOf(s)
                   THEN [waiter[r] EXCEPT !.state = "done", !.armed = FALSE]
                   ELSE waiter[r]]
             /\ queue' = [i \in Ids |->
                   IF \E r \in LiveWaitersOf(s) : req[r].id = i
                   THEN None ELSE queue[i]]
    <3>1. \A r \in Requests :
             /\ [waiter[r] EXCEPT !.state = "done", !.armed = FALSE] \in Waiter
             /\ [waiter[r] EXCEPT !.state = "done", !.armed = FALSE].state = "done"
      BY <1>2, WaiterFacts
    <3>2. waiter' \in [Requests -> Waiter]
          /\ \A q \in Requests : waiter'[q].state = "live" => waiter[q].state = "live"
      BY <1>2, <2>2, <3>1
    <3>3. queue' \in [Ids -> Requests \cup {None}]
      BY <1>2, <2>2
    <3>4. ASSUME NEW i \in Ids, queue'[i] # None
          PROVE  waiter'[queue'[i]].state = "live" /\ req'[queue'[i]].id = i
      <4>1. queue'[i] = queue[i] /\ \A r \in LiveWaitersOf(s) : req[r].id # i
        BY <2>2, <3>4
      <4>2. queue[i] \in Requests /\ req[queue[i]].id = i
            /\ waiter[queue[i]].state = "live"
        BY <1>2, <3>4, <4>1 DEF RelayInv, QueueHoldsLiveWaiters
      <4>3. waiter'[queue[i]] = waiter[queue[i]]
        BY <2>2, <4>1, <4>2
      <4>4. QED
        BY <1>1, <4>1, <4>2, <4>3
    <3>5. QED
      BY <3>2, <3>3, <3>4 DEF QueueHoldsLiveWaiters
  <2>3. QED
    BY <2>1, <2>2 DEF LoseRequester
<1>4. inbox' \in [Requesters -> Seq(Requests)]
      /\ \A t \in Requesters : inbox'[t] = inbox[t] \/ inbox'[t] = <<>>
  BY <1>1 DEF RelayInv, TypeOK
<1>5. TypeOK'
  BY <1>1, <1>3, <1>4 DEF RelayInv, TypeOK
<1>6. SentInv'
  <2>1. \A q \in Requests : waiter'[q].state = "live" => Sent(q)
    BY <1>3 DEF RelayInv, SentInv
  <2>2. (\A i \in 1..Len(stack) : Sent(stack[i].r))'
    BY <1>1 DEF Sent, RelayInv, SentInv
  <2>3. QED
    BY <1>1, <1>4, <2>1, <2>2, SentInvStep DEF RelayInv, SentInv
<1>7. QED
  BY <1>3, <1>5, <1>6 DEF RelayInv

LEMMA LoseClientRelayInv ==
    ASSUME RelayInv, NEW c \in Clients, LoseClient(c)
    PROVE  RelayInv'
<1>1. /\ work' = [work EXCEPT ![c] = {}]
      /\ replies' = [replies EXCEPT ![c] = <<>>]
      /\ UNCHANGED <<req, inbox, open, answers, util, queue, waiter, stack>>
  BY DEF LoseClient
<1>2. TypeOK'
  BY DEF RelayInv, TypeOK, LoseClient
<1>3. /\ \A d \in Clients : \A q \in work'[d] : Sent(q)
      /\ \A d \in Clients : \A i \in 1..Len(replies'[d]) : Sent(replies'[d][i])
      /\ (\A i \in 1..Len(stack) : Sent(stack[i].r))'
  BY <1>1 DEF RelayInv, TypeOK, SentInv, Sent
<1>4. SentInv'
  BY <1>1, <1>3, SentInvStep DEF RelayInv, SentInv
<1>5. QueueHoldsLiveWaiters'
  BY <1>1 DEF RelayInv, QueueHoldsLiveWaiters
<1>6. QED
  BY <1>2, <1>4, <1>5 DEF RelayInv

LEMMA ClientAnswersRelayInv ==
    ASSUME RelayInv, NEW c \in Clients, NEW r \in Requests, ClientAnswers(c, r)
    PROVE  RelayInv'
<1>1. /\ r \in work[c]
      /\ work' = [work EXCEPT ![c] = @ \ {r}]
      /\ replies' = [replies EXCEPT ![c] = Append(@, r)]
      /\ UNCHANGED <<req, inbox, open, answers, reg, up, util, queue, waiter, stack>>
  BY DEF ClientAnswers
<1>2. TypeOK'
  BY <1>1 DEF RelayInv, TypeOK
<1>3. ASSUME NEW d \in Clients, NEW i \in 1..Len(replies'[d])
      PROVE  Sent(replies'[d][i])
  <2>1. replies[c] \in Seq(Requests) /\ Sent(r)
    BY <1>1 DEF RelayInv, TypeOK, SentInv
  <2>2. CASE d # c
    BY <1>1, <2>2 DEF RelayInv, TypeOK, SentInv
  <2>3. CASE d = c
    <3>1. replies'[c] = Append(replies[c], r)
      BY <1>1 DEF RelayInv, TypeOK
    <3>2. replies'[c][i] = IF i = Len(replies[c]) + 1 THEN r ELSE replies[c][i]
      BY <2>1, <2>3, <3>1
    <3>3. i # Len(replies[c]) + 1 => i \in 1..Len(replies[c])
      BY <2>1, <2>3, <3>1
    <3>4. QED
      BY <2>1, <2>3, <3>2, <3>3 DEF RelayInv, SentInv
  <2>4. QED
    BY <2>2, <2>3
<1>4. /\ \A d \in Clients : \A q \in work'[d] : Sent(q)
      /\ (\A i \in 1..Len(stack) : Sent(stack[i].r))'
  BY <1>1 DEF RelayInv, TypeOK, SentInv, Sent
<1>5. SentInv'
  BY <1>1, <1>3, <1>4, SentInvStep DEF RelayInv, SentInv
<1>6. QueueHoldsLiveWaiters'
  BY <1>1 DEF RelayInv, QueueHoldsLiveWaiters
<1>7. QED
  BY <1>2, <1>5, <1>6 DEF RelayInv

LEMMA StutterRelayInv ==
    ASSUME RelayInv, UNCHANGED vars
    PROVE  RelayInv'
<1>1. (\A i \in 1..Len(stack) : Sent(stack[i].r))'
  BY DEF RelayInv, SentInv, Sent, vars
<1>2. SentInv'
  BY <1>1, SentInvStep DEF RelayInv, SentInv, vars
<1>3. QED
  BY <1>2 DEF RelayInv, TypeOK, QueueHoldsLiveWaiters, vars

(* No handler, however it is nested in others, breaks the invariant.       *)
THEOREM RelayInvariant == Spec => []RelayInv
<1>1. RelayInv /\ [Next]_vars => RelayInv'
  <2> SUFFICES ASSUME RelayInv, [Next]_vars PROVE RelayInv'
    OBVIOUS
  <2>1. ASSUME NEW r \in Requests, NEW s \in Requesters, Send(r, s)
        PROVE  RelayInv'
    BY <2>1, SendRelayInv
  <2>2. ASSUME NEW s \in Requesters, HandleServiceRequest(s) PROVE RelayInv'
    BY <2>2, HandleRelayInv
  <2>3. ASSUME NEW s \in Requesters, LoseRequester(s) PROVE RelayInv'
    BY <2>3, LoseRequesterRelayInv
  <2>4. CASE FinishRequest
    BY <2>4, FinishRequestRelayInv
  <2>5. CASE FinishNative
    BY <2>5, FinishNativeRelayInv
  <2>6. CASE FinishAnswer
    BY <2>6, FinishAnswerRelayInv
  <2>7. CASE FinishDirect
    BY <2>7, FinishDirectRelayInv
  <2>8. ASSUME NEW c \in Clients, ReadReply(c) PROVE RelayInv'
    BY <2>8, ReadReplyRelayInv
  <2>9. ASSUME NEW c \in Clients, LoseClient(c) PROVE RelayInv'
    BY <2>9, LoseClientRelayInv
  <2>10. ASSUME NEW r \in Requests, Timeout(r) PROVE RelayInv'
    BY <2>10, TimeoutRelayInv
  <2>11. ASSUME NEW r \in Requests, UtilAppAnswers(r) PROVE RelayInv'
    BY <2>11, UtilAppRelayInv
  <2>12. ASSUME NEW c \in Clients, NEW r \in Requests, ClientAnswers(c, r)
         PROVE  RelayInv'
    BY <2>12, ClientAnswersRelayInv
  <2>13. CASE UNCHANGED vars
    BY <2>13, StutterRelayInv
  <2>14. QED
    BY <2>1, <2>2, <2>3, <2>4, <2>5, <2>6, <2>7, <2>8, <2>9, <2>10, <2>11,
       <2>12, <2>13 DEF Next
<1>2. QED
  BY InitRelayInv, <1>1, PTL DEF Spec

(* The types of the relay's state, in every behaviour.                     *)
THEOREM TypeCorrect == Spec => []TypeOK
<1>1. RelayInv => TypeOK
  BY DEF RelayInv
<1>2. QED
  BY RelayInvariant, <1>1, PTL

(* mResponseQueue never refers to a waiter that has been released, also if *)
(* ids collide and requesters do not wait for their answers.               *)
THEOREM QueueIsLive == Spec => []QueueHoldsLiveWaiters
<1>1. RelayInv => QueueHoldsLiveWaiters
  BY DEF RelayInv
<1>2. QED
  BY RelayInvariant, <1>1, PTL
-----------------------------------------------------------------------------
(***************************************************************************)
(* The answers of the relay: how many a request gets, whose they are, and  *)
(* what has happened by the time they are given.                           *)
(***************************************************************************)

AnswerKinds == {"direct", "reply", "timeout"}

(* Nothing has been done for a request yet.                                *)
Fresh(r) ==
    /\ waiter[r].state = "none"
    /\ answers[r] = <<>>
    /\ \A i \in 1..Len(stack) : stack[i].r # r

(* A request is read once: what has not been sent, or not been read, is    *)
(* fresh, and lies in its inbox once.                                      *)
FreshInv ==
    /\ \A r \in Requests : ~Sent(r) => Fresh(r)
    /\ \A s \in Requesters : \A i \in 1..Len(inbox[s]) :
          /\ Fresh(inbox[s][i])
          /\ \A j \in 1..Len(inbox[s]) : inbox[s][i] = inbox[s][j] => i = j

-----------------------------------------------------------------------------
(* What entering and leaving does to the frames.                           *)

LEMMA OnTop ==
    ASSUME RelayInv, NEW kind, NEW r, NEW peer, NEW reader,
           [kind |-> kind, r |-> r, peer |-> peer, reader |-> reader] \in Frame,
           Enter(kind, r, peer, reader, stack)
    PROVE  /\ 1 \in 1..Len(stack')
           /\ stack'[1] = [kind |-> kind, r |-> r, peer |-> peer, reader |-> reader]
           /\ \A i \in 1..Len(stack') :
                 i # 1 => i - 1 \in 1..Len(stack) /\ stack'[i] = stack[i - 1]
<1> DEFINE f == [kind |-> kind, r |-> r, peer |-> peer, reader |-> reader]
<1>1. stack \in Seq(Frame) /\ f \in Frame /\ stack' = <<f>> \o stack
  BY DEF RelayInv, TypeOK, Enter
<1> HIDE DEF f
<1>2. QED
  BY <1>1, PushLemma DEF f

LEMMA Instead ==
    ASSUME RelayInv, stack # <<>>, NEW kind, NEW r, NEW peer, NEW reader,
           [kind |-> kind, r |-> r, peer |-> peer, reader |-> reader] \in Frame,
           Enter(kind, r, peer, reader, Tail(stack))
    PROVE  /\ 1 \in 1..Len(stack')
           /\ stack'[1] = [kind |-> kind, r |-> r, peer |-> peer, reader |-> reader]
           /\ \A i \in 1..Len(stack') :
                 i # 1 => i \in 1..Len(stack) /\ stack'[i] = stack[i]
<1> DEFINE f == [kind |-> kind, r |-> r, peer |-> peer, reader |-> reader]
           q == Tail(stack)
<1>1. stack \in Seq(Frame)
  BY DEF RelayInv, TypeOK
<1>2. /\ q \in Seq(Frame)
      /\ \A i \in 1..Len(q) : i + 1 \in 1..Len(stack) /\ q[i] = stack[i + 1]
  BY <1>1, PopLemma
<1>3. f \in Frame /\ stack' = <<f>> \o q
  BY DEF Enter
<1> HIDE DEF f, q
<1>4. /\ Len(stack') = Len(q) + 1 /\ stack'[1] = f
      /\ \A i \in 1..Len(stack') :
            i # 1 => i - 1 \in 1..Len(q) /\ stack'[i] = q[i - 1]
  BY <1>2, <1>3, PushLemma
<1>5. ASSUME NEW i \in 1..Len(stack'), i # 1
      PROVE  i \in 1..Len(stack) /\ stack'[i] = stack[i]
  <2>1. i - 1 \in 1..Len(q) /\ stack'[i] = q[i - 1]
    BY <1>4, <1>5
  <2>2. (i - 1) + 1 \in 1..Len(stack) /\ q[i - 1] = stack[(i - 1) + 1]
    BY <1>2, <2>1
  <2>3. (i - 1) + 1 = i
    OBVIOUS
  <2>4. QED
    BY <2>1, <2>2, <2>3
<1>6. 1 \in 1..Len(stack')
  BY <1>2, <1>4
<1>7. QED
  BY <1>4, <1>5, <1>6 DEF f

LEMMA Popped ==
    ASSUME RelayInv, stack # <<>>, stack' = Tail(stack)
    PROVE  \A i \in 1..Len(stack') :
              i + 1 \in 1..Len(stack) /\ stack'[i] = stack[i + 1]
<1>1. stack \in Seq(Frame)
  BY DEF RelayInv, TypeOK
<1>2. QED
  BY <1>1, PopLemma

(* The innermost frame.                                                    *)
LEMMA Innermost ==
    ASSUME RelayInv, stack # <<>>
    PROVE  /\ 1 \in 1..Len(stack) /\ Head(stack) = stack[1]
           /\ stack[1] \in Frame
           /\ stack[1].r \in Requests /\ Sent(stack[1].r)
           /\ req[stack[1].r].id \in Ids
           /\ stack[1].reader \in Sockets \cup {None}
<1>1. stack \in Seq(Frame)
  BY DEF RelayInv, TypeOK
<1>2. 1 \in 1..Len(stack)
  BY <1>1
<1>3. QED
  BY <1>2, LeaveInv, MessageFacts DEF RelayInv

LEMMA FramesAreFrames ==
    ASSUME RelayInv, NEW i \in 1..Len(stack)
    PROVE  stack[i] \in Frame /\ stack[i].r \in Requests /\ Sent(stack[i].r)
<1>1. stack \in Seq(Frame)
  BY DEF RelayInv, TypeOK
<1>2. QED
  BY <1>1, FrameFacts DEF RelayInv, SentInv

-----------------------------------------------------------------------------
(* What each handler does to the frames, the waiters and the registry.     *)

Pushed(kind, r, peer) ==
    /\ 1 \in 1..Len(stack')
    /\ stack'[1].kind = kind /\ stack'[1].r = r /\ stack'[1].peer = peer
    /\ \A i \in 1..Len(stack') :
          i # 1 => i - 1 \in 1..Len(stack) /\ stack'[i] = stack[i - 1]

Replaced(kind, r, peer) ==
    /\ 1 \in 1..Len(stack')
    /\ stack'[1].kind = kind /\ stack'[1].r = r /\ stack'[1].peer = peer
    /\ \A i \in 1..Len(stack') :
          i # 1 => i \in 1..Len(stack) /\ stack'[i] = stack[i]

Removed == \A i \in 1..Len(stack') :
              i + 1 \in 1..Len(stack) /\ stack'[i] = stack[i + 1]

(* No waiter but that of w changes.                                        *)
Only(w) == \A q \in Requests : q # w => waiter'[q] = waiter[q]

(* The waiter that the queue holds for the id of request m.                *)
WaitsForId(w, m) ==
    /\ w \in Requests /\ Sent(w) /\ waiter[w].state = "live"
    /\ req[w].id = req[m].id

(* An answer comes from the server itself or from the relay, and tells the *)
(* end of the application addressed, or of the one the Close command names.*)
Ways == {"direct", "relayed"}
Way(kind) == IF kind = "direct" THEN "direct" ELSE "relayed"
Named(r, way) == IF way = "direct" THEN req[r].target ELSE req[r].uid

(* The application that r was to close is out of the registry.             *)
ClosedFor(r, way) == req[r].kind = "close" => Named(r, way) \notin reg'

LEMMA QueuedWaits ==
    ASSUME RelayInv, NEW m \in Requests, Sent(m), queue[req[m].id] # None
    PROVE  WaitsForId(queue[req[m].id], m)
<1>1. req[m].id \in Ids
  BY MessageFacts DEF RelayInv
<1>2. QED
  BY <1>1, QueueFacts DEF RelayInv, QueueHoldsLiveWaiters, WaitsForId

LEMMA EnterPushes ==
    ASSUME RelayInv, NEW kind \in {"request", "native", "direct", "reply", "timeout"},
           NEW r \in Requests, NEW peer \in Sockets \cup {None},
           NEW reader \in Sockets \cup {None},
           Enter(kind, r, peer, reader, stack)
    PROVE  Pushed(kind, r, peer)
<1>1. [kind |-> kind, r |-> r, peer |-> peer, reader |-> reader] \in Frame
  BY DEF Frame
<1>2. QED
  BY <1>1, OnTop DEF Pushed

LEMMA EnterReplaces ==
    ASSUME RelayInv, stack # <<>>,
           NEW kind \in {"request", "native", "direct", "reply", "timeout"},
           NEW r \in Requests, NEW peer \in Sockets \cup {None},
           NEW reader \in Sockets \cup {None},
           Enter(kind, r, peer, reader, Tail(stack))
    PROVE  Replaced(kind, r, peer)
<1>1. [kind |-> kind, r |-> r, peer |-> peer, reader |-> reader] \in Frame
  BY DEF Frame
<1>2. QED
  BY <1>1, Instead DEF Replaced

LEMMA FilterCloses ==
    ASSUME RelayInv, NEW r \in Requests, NEW incoming, FilterResponse(r, incoming)
    PROVE  reg' \subseteq reg /\ ClosedFor(r, "relayed")
  BY DEF FilterResponse, Closes, ClosedFor, Named

LEMMA HandleEffect ==
    ASSUME RelayInv, NEW s \in Requesters, HandleServiceRequest(s),
           NEW r, r = Head(inbox[s])
    PROVE  /\ inbox[s] # <<>> /\ CanRead(s)
           /\ r \in Requests /\ Sent(r) /\ req[r].from = s
           /\ UNCHANGED <<req, open, answers>>
           /\ inbox' = [inbox EXCEPT ![s] = Tail(@)]
           /\ reg' \subseteq reg
           /\ \/ /\ \E c \in Clients : Pushed("request", r, c)
                 /\ Only(r)
                 /\ waiter'[r] = NewWaiter(req[r].kind # "ui_state")
              \/ /\ Pushed("direct", r, s)
                 /\ waiter' = waiter
                 /\ ClosedFor(r, "direct")
              \/ /\ stack' = stack
                 /\ Only(r)
                 /\ waiter'[r] = NewWaiter(FALSE)
                 /\ req[r].kind = "screen_shot"
<1>1. /\ inbox[s] # <<>> /\ CanRead(s)
      /\ UNCHANGED <<req, open, answers>>
      /\ inbox' = [inbox EXCEPT ![s] = Tail(@)]
      /\ \/ \E c \in Candidates(req[r]) : Relay(r, c)
         \/ AnswerDirectly(r)
         \/ StartUtilApp(r)
  BY DEF HandleServiceRequest
<1>2. r \in Requests /\ Sent(r) /\ req[r].from = s /\ s \in Sockets
  BY <1>1, InboxFacts DEF Sockets
<1>3. waiter \in [Requests -> Waiter] /\ reg \subseteq Clients
  BY DEF RelayInv, TypeOK
<1>4. CASE \E c \in Candidates(req[r]) : Relay(r, c)
  <2>1. PICK c \in Candidates(req[r]) : Relay(r, c)
    BY <1>4
  <2>2. c \in Clients /\ c \in Sockets
    BY <1>3, <2>1 DEF Candidates, Sockets
  <2>3. Pushed("request", r, c)
    BY <1>2, <2>1, <2>2, EnterPushes DEF Relay
  <2>4. Only(r) /\ waiter'[r] = NewWaiter(req[r].kind # "ui_state") /\ reg' = reg
    BY <1>2, <1>3, <2>1 DEF Relay, Only
  <2>5. QED
    BY <1>1, <1>2, <2>2, <2>3, <2>4
<1>5. CASE AnswerDirectly(r)
  <2>1. Pushed("direct", r, s) /\ waiter' = waiter
    BY <1>2, <1>5, EnterPushes DEF AnswerDirectly
  <2>2. reg' \subseteq reg
    BY <1>5 DEF AnswerDirectly, NoTarget
  <2>3. ClosedFor(r, "direct")
    BY <1>2, <1>3, <1>5, RelayAssumption, MessageFacts
    DEF AnswerDirectly, NoTarget, Candidates, ClosedFor, Named, RelayInv, Sockets
  <2>4. QED
    BY <1>1, <1>2, <2>1, <2>2, <2>3
<1>6. CASE StartUtilApp(r)
  BY <1>1, <1>2, <1>3, <1>6 DEF StartUtilApp, NoTarget, Only
<1>7. QED
  BY <1>1, <1>4, <1>5, <1>6

LEMMA FinishRequestEffect ==
    ASSUME RelayInv, FinishRequest
    PROVE  /\ stack # <<>> /\ stack[1].kind = "request"
           /\ UNCHANGED <<req, inbox, open, answers, reg>>
           /\ \/ /\ Removed /\ waiter' = waiter
              \/ /\ Replaced("native", stack[1].r, None)
                 /\ req[stack[1].r].kind = "ui_state"
                 /\ \E w \in Requests :
                       /\ WaitsForId(w, stack[1].r) /\ Only(w)
                       /\ waiter'[w] = [waiter[w] EXCEPT !.platform = "header"]
<1> DEFINE r == stack[1].r
           w == queue[req[r].id]
<1>1. /\ stack # <<>> /\ Head(stack) = stack[1] /\ r \in Requests /\ Sent(r)
      /\ stack[1].reader \in Sockets \cup {None}
  BY Innermost DEF FinishRequest
<1>2. /\ stack[1].kind = "request"
      /\ UNCHANGED <<req, inbox, open, answers, reg>>
      /\ \/ /\ req[r].kind = "ui_state" /\ w # None
            /\ waiter' = [waiter EXCEPT ![w].platform = "header"]
            /\ Enter("native", r, None, stack[1].reader, Tail(stack))
         \/ stack' = Tail(stack) /\ UNCHANGED waiter
  BY <1>1 DEF FinishRequest
<1>3. waiter \in [Requests -> Waiter]
  BY DEF RelayInv, TypeOK
<1>4. CASE stack' = Tail(stack) /\ UNCHANGED waiter
  BY <1>1, <1>2, <1>4, Popped DEF Removed
<1>5. CASE /\ req[r].kind = "ui_state" /\ w # None
           /\ waiter' = [waiter EXCEPT ![w].platform = "header"]
           /\ Enter("native", r, None, stack[1].reader, Tail(stack))
  <2>1. WaitsForId(w, r)
    BY <1>1, <1>5, QueuedWaits
  <2>2. w \in Requests
    BY <2>1 DEF WaitsForId
  <2>3. Replaced("native", r, None)
    BY <1>1, <1>5, EnterReplaces
  <2>4. Only(w) /\ waiter'[w] = [waiter[w] EXCEPT !.platform = "header"]
    BY <1>3, <1>5, <2>2 DEF Only
  <2>5. QED
    BY <1>1, <1>2, <1>5, <2>1, <2>2, <2>3, <2>4
<1>6. QED
  BY <1>2, <1>4, <1>5

LEMMA SendMessageEffect ==
    ASSUME RelayInv, NEW w \in Requests, Sent(w), NEW reader, NEW q, NEW incoming,
           SendMessage(w, reader, q, incoming)
    PROVE  /\ reg' \subseteq reg /\ ClosedFor(w, "relayed")
           /\ Enter("reply", w, req[w].from, reader, q)
           /\ req[w].from \in Sockets \cup {None}
  BY FilterCloses, MessageFacts DEF SendMessage, RelayInv

LEMMA FinishNativeEffect ==
    ASSUME RelayInv, FinishNative
    PROVE  /\ stack # <<>> /\ stack[1].kind = "native"
           /\ UNCHANGED <<req, inbox, open, answers>>
           /\ reg' \subseteq reg
           /\ \/ Removed /\ waiter' = waiter
              \/ \E w \in Requests :
                    /\ WaitsForId(w, stack[1].r) /\ Only(w)
                    /\ waiter'[w] = [waiter[w] EXCEPT !.platform = "full",
                                                      !.canRespond = TRUE]
                    /\ \/ Removed
                       \/ /\ waiter[w].responded
                          /\ Replaced("reply", w, req[w].from)
                          /\ ClosedFor(w, "relayed")
<1> DEFINE r == stack[1].r
           w == queue[req[r].id]
<1>1. /\ stack # <<>> /\ Head(stack) = stack[1] /\ r \in Requests /\ Sent(r)
      /\ stack[1].reader \in Sockets \cup {None}
  BY Innermost DEF FinishNative
<1>2. /\ stack[1].kind = "native"
      /\ UNCHANGED <<req, inbox, open, answers>>
      /\ \/ stack' = Tail(stack) /\ UNCHANGED <<waiter, reg>>
         \/ /\ w # None
            /\ waiter' = [waiter EXCEPT ![w].platform = "full",
                                        ![w].canRespond = TRUE]
            /\ \/ /\ waiter[w].responded
                  /\ SendMessage(w, stack[1].reader, Tail(stack), replies)
               \/ stack' = Tail(stack) /\ UNCHANGED reg
  BY <1>1 DEF FinishNative
<1>3. waiter \in [Requests -> Waiter]
  BY DEF RelayInv, TypeOK
<1>4. CASE stack' = Tail(stack) /\ UNCHANGED <<waiter, reg>>
  BY <1>1, <1>2, <1>4, Popped DEF Removed
<1>5. CASE /\ w # None
           /\ waiter' = [waiter EXCEPT ![w].platform = "full",
                                       ![w].canRespond = TRUE]
           /\ \/ /\ waiter[w].responded
                 /\ SendMessage(w, stack[1].reader, Tail(stack), replies)
              \/ stack' = Tail(stack) /\ UNCHANGED reg
  <2>1. WaitsForId(w, r)
    BY <1>1, <1>5, QueuedWaits
  <2>2. w \in Requests /\ Sent(w)
    BY <2>1 DEF WaitsForId
  <2>3. /\ Only(w)
        /\ waiter'[w] = [waiter[w] EXCEPT !.platform = "full", !.canRespond = TRUE]
    BY <1>3, <1>5, <2>2 DEF Only
  <2>4. CASE stack' = Tail(stack) /\ UNCHANGED reg
    BY <1>1, <1>2, <2>1, <2>2, <2>3, <2>4, Popped DEF Removed
  <2>5. CASE /\ waiter[w].responded
             /\ SendMessage(w, stack[1].reader, Tail(stack), replies)
    <3>1. Replaced("reply", w, req[w].from) /\ reg' \subseteq reg /\ ClosedFor(w, "relayed")
      BY <1>1, <2>2, <2>5, SendMessageEffect, EnterReplaces
    <3>2. QED
      BY <1>1, <1>2, <2>1, <2>2, <2>3, <2>5, <3>1
  <2>6. QED
    BY <1>5, <2>4, <2>5
<1>6. QED
  BY <1>2, <1>4, <1>5

LEMMA ServiceResponseEffect ==
    ASSUME RelayInv, NEW m \in Requests, Sent(m),
           NEW reader \in Sockets \cup {None}, NEW incoming,
           ServiceResponse(m, reader, incoming)
    PROVE  /\ reg' \subseteq reg
           /\ \/ UNCHANGED <<waiter, stack>>
              \/ \E w \in Requests :
                    /\ WaitsForId(w, m) /\ Only(w)
                    /\ waiter'[w] = [waiter[w] EXCEPT !.responded = TRUE,
                                                      !.armed = FALSE, !.msg = m]
                    /\ \/ stack' = stack
                       \/ /\ waiter[w].canRespond
                          /\ Pushed("reply", w, req[w].from)
                          /\ ClosedFor(w, "relayed")
<1> DEFINE w == queue[req[m].id]
<1>1. \/ UNCHANGED <<waiter, stack, reg>>
      \/ /\ w # None
         /\ waiter' = [waiter EXCEPT ![w].responded = TRUE,
                                     ![w].armed = FALSE, ![w].msg = m]
         /\ \/ /\ waiter[w].canRespond
               /\ SendMessage(w, reader, stack, incoming)
            \/ UNCHANGED <<stack, reg>>
  BY DEF ServiceResponse
<1>2. waiter \in [Requests -> Waiter]
  BY DEF RelayInv, TypeOK
<1>3. CASE UNCHANGED <<waiter, stack, reg>>
  BY <1>3
<1>4. CASE /\ w # None
           /\ waiter' = [waiter EXCEPT ![w].responded = TRUE,
                                       ![w].armed = FALSE, ![w].msg = m]
           /\ \/ /\ waiter[w].canRespond
                 /\ SendMessage(w, reader, stack, incoming)
              \/ UNCHANGED <<stack, reg>>
  <2>1. WaitsForId(w, m)
    BY <1>4, QueuedWaits
  <2>2. w \in Requests /\ Sent(w)
    BY <2>1 DEF WaitsForId
  <2>3. /\ Only(w)
        /\ waiter'[w] = [waiter[w] EXCEPT !.responded = TRUE,
                                          !.armed = FALSE, !.msg = m]
    BY <1>2, <1>4, <2>2 DEF Only
  <2>4. CASE UNCHANGED <<stack, reg>>
    BY <2>1, <2>2, <2>3, <2>4
  <2>5. CASE waiter[w].canRespond /\ SendMessage(w, reader, stack, incoming)
    <3>1. Pushed("reply", w, req[w].from) /\ reg' \subseteq reg /\ ClosedFor(w, "relayed")
      BY <2>2, <2>5, SendMessageEffect, EnterPushes
    <3>2. QED
      BY <2>1, <2>2, <2>3, <2>5, <3>1
  <2>6. QED
    BY <1>4, <2>4, <2>5
<1>5. QED
  BY <1>1, <1>3, <1>4

LEMMA TimeoutEffect ==
    ASSUME RelayInv, NEW r \in Requests, Timeout(r)
    PROVE  /\ EventLoopRuns /\ waiter[r].state = "live" /\ Sent(r)
           /\ UNCHANGED <<req, inbox, open, answers>>
           /\ reg' \subseteq reg /\ ClosedFor(r, "relayed")
           /\ Only(r) /\ waiter'[r] = [waiter[r] EXCEPT !.armed = FALSE]
           /\ Pushed("timeout", r, req[r].from)
<1>1. /\ EventLoopRuns /\ waiter[r].state = "live"
      /\ waiter' = [waiter EXCEPT ![r].armed = FALSE]
      /\ FilterResponse(r, replies)
      /\ Enter("timeout", r, req[r].from, None, stack)
      /\ UNCHANGED <<req, inbox, open, answers>>
  BY DEF Timeout
<1>2. Sent(r) /\ req[r].from \in Sockets \cup {None}
  BY <1>1, MessageFacts DEF RelayInv, SentInv
<1>3. Pushed("timeout", r, req[r].from)
  BY <1>1, <1>2, EnterPushes
<1>4. Only(r) /\ waiter'[r] = [waiter[r] EXCEPT !.armed = FALSE]
  BY <1>1 DEF Only, RelayInv, TypeOK
<1>5. QED
  BY <1>1, <1>2, <1>3, <1>4, FilterCloses

(* What the requester of r is sent at the end of a write.                  *)
Told(r, what) ==
    [what |-> what,
     of |-> IF what = "reply" THEN waiter[r].msg ELSE None,
     platform |-> IF what = "reply" THEN waiter[r].platform ELSE "empty"]

Answered(r, what) ==
    /\ \A q \in Requests : q # r => answers'[q] = answers[q]
    /\ \/ answers'[r] = answers[r]
       \/ /\ req[r].from \in open
          /\ answers'[r] = Append(answers[r], Told(r, what))

LEMMA DeliverEffect ==
    ASSUME RelayInv, NEW r \in Requests, NEW what, Deliver(r, what)
    PROVE  Answered(r, what)
<1>1. answers \in [Requests -> Seq(Answer)]
  BY DEF RelayInv, TypeOK
<1>2. \/ answers' = answers
      \/ /\ req[r].from \in open
         /\ answers' = [answers EXCEPT ![r] = Append(@, Told(r, what))]
  BY DEF Deliver, Told
<1>3. QED
  BY <1>1, <1>2 DEF Answered

LEMMA FinishAnswerEffect ==
    ASSUME RelayInv, FinishAnswer
    PROVE  /\ stack # <<>> /\ stack[1].kind \in {"reply", "timeout"}
           /\ UNCHANGED <<req, inbox, open, reg>>
           /\ Removed
           /\ Only(stack[1].r)
           /\ waiter'[stack[1].r] = [waiter[stack[1].r] EXCEPT !.state = "done",
                                                               !.armed = FALSE]
           /\ Answered(stack[1].r, stack[1].kind)
<1>1. stack # <<>> /\ Head(stack) = stack[1] /\ stack[1].r \in Requests
  BY Innermost DEF FinishAnswer
<1>2. /\ stack[1].kind \in {"reply", "timeout"}
      /\ UNCHANGED <<req, inbox, open, reg>>
      /\ stack' = Tail(stack)
      /\ Deliver(stack[1].r, stack[1].kind)
      /\ waiter' = [waiter EXCEPT ![stack[1].r].state = "done",
                                  ![stack[1].r].armed = FALSE]
  BY <1>1 DEF FinishAnswer, Responded
<1>3. waiter \in [Requests -> Waiter]
  BY DEF RelayInv, TypeOK
<1>4. /\ Only(stack[1].r)
      /\ waiter'[stack[1].r] = [waiter[stack[1].r] EXCEPT !.state = "done",
                                                          !.armed = FALSE]
  BY <1>1, <1>2, <1>3 DEF Only
<1>5. Removed
  BY <1>1, <1>2, Popped DEF Removed
<1>6. QED
  BY <1>1, <1>2, <1>4, <1>5, DeliverEffect

LEMMA FinishDirectEffect ==
    ASSUME RelayInv, FinishDirect
    PROVE  /\ stack # <<>> /\ stack[1].kind = "direct"
           /\ UNCHANGED <<req, inbox, open, reg, waiter>>
           /\ Removed
           /\ Answered(stack[1].r, "direct")
<1>1. stack # <<>> /\ Head(stack) = stack[1] /\ stack[1].r \in Requests
  BY Innermost DEF FinishDirect
<1>2. /\ stack[1].kind = "direct"
      /\ UNCHANGED <<req, inbox, open, reg, waiter>>
      /\ stack' = Tail(stack)
      /\ Deliver(stack[1].r, "direct")
  BY <1>1 DEF FinishDirect
<1>3. Removed
  BY <1>1, <1>2, Popped DEF Removed
<1>4. QED
  BY <1>1, <1>2, <1>3, DeliverEffect

LEMMA LoseRequesterEffect ==
    ASSUME RelayInv, NEW s \in Requesters, LoseRequester(s)
    PROVE  /\ UNCHANGED <<req, answers, reg, stack>>
           /\ open' = open \ {s} /\ s \in open
           /\ inbox' = [inbox EXCEPT ![s] = <<>>]
           /\ \A q \in Requests :
                 \/ waiter'[q] = waiter[q]
                 \/ /\ waiter[q].state = "live"
                    /\ waiter'[q] = [waiter[q] EXCEPT !.state = "done", !.armed = FALSE]
<1>1. /\ UNCHANGED <<req, answers, reg, stack>>
      /\ open' = open \ {s} /\ s \in open
      /\ inbox' = [inbox EXCEPT ![s] = <<>>]
      /\ \/ waiter' = [r \in Requests |->
                          IF r \in LiveWaitersOf(s)
                          THEN [waiter[r] EXCEPT !.state = "done", !.armed = FALSE]
                          ELSE waiter[r]]
         \/ waiter' = waiter
  BY DEF LoseRequester
<1>2. QED
  BY <1>1 DEF LiveWaitersOf

-----------------------------------------------------------------------------
(* FreshInv.                                                               *)

LEMMA FreshStep ==
    ASSUME RelayInv, FreshInv, req' = req,
           \A s \in Requesters :
              \/ inbox'[s] = inbox[s] \/ inbox'[s] = <<>>
              \/ inbox[s] # <<>> /\ inbox'[s] = Tail(inbox[s]),
           \A r \in Requests :
              /\ Fresh(r)
              /\ \/ ~Sent(r)
                 \/ \E s \in Requesters : \E i \in 1..Len(inbox'[s]) : inbox'[s][i] = r
              => Fresh(r)'
    PROVE  FreshInv'
<1>1. ASSUME NEW r \in Requests, ~Sent(r) PROVE Fresh(r)'
  BY <1>1 DEF FreshInv
<1>2. ASSUME NEW s \in Requesters, NEW i \in 1..Len(inbox'[s]),
             NEW r, r = inbox'[s][i]
      PROVE  /\ Fresh(r)'
             /\ \A j \in 1..Len(inbox'[s]) : r = inbox'[s][j] => i = j
  <2>1. inbox[s] \in Seq(Requests)
    BY DEF RelayInv, TypeOK
  <2>2. CASE inbox'[s] = inbox[s]
    <3>1. r \in Requests /\ Fresh(r)
      BY <1>2, <2>1, <2>2 DEF FreshInv
    <3>2. QED
      BY <1>2, <2>2, <3>1 DEF FreshInv
  <2>3. CASE inbox'[s] = <<>>
    BY <2>3
  <2>4. CASE inbox[s] # <<>> /\ inbox'[s] = Tail(inbox[s])
    <3>1. \A j \in 1..Len(inbox'[s]) :
             j + 1 \in 1..Len(inbox[s]) /\ inbox'[s][j] = inbox[s][j + 1]
      BY <2>1, <2>4, PopLemma
    <3>2. r \in Requests /\ Fresh(r)
      BY <1>2, <2>1, <3>1 DEF FreshInv
    <3>3. Fresh(r)'
      BY <1>2, <3>2
    <3>4. ASSUME NEW j \in 1..Len(inbox'[s]), r = inbox'[s][j]
          PROVE  i = j
      <4>1. /\ i + 1 \in 1..Len(inbox[s]) /\ j + 1 \in 1..Len(inbox[s])
            /\ inbox[s][i + 1] = inbox[s][j + 1]
        BY <1>2, <3>1, <3>4
      <4>2. i + 1 = j + 1
        BY <4>1 DEF FreshInv
      <4>3. QED
        BY <4>2
    <3>5. QED
      BY <3>3, <3>4
  <2>5. QED
    BY <2>2, <2>3, <2>4
<1>3. QED
  BY <1>1, <1>2 DEF FreshInv, Sent, Fresh

(* Handlers other than handleServiceRequest only touch waiters that live   *)
(* and requests of the frames.                                             *)
FramesKept ==
    \A i \in 1..Len(stack') :
        \/ \E j \in 1..Len(stack) : stack'[i].r = stack[j].r
        \/ waiter[stack'[i].r].state = "live"

StatesKept ==
    \A q \in Requests :
        \/ (waiter[q].state = "none") => (waiter'[q].state = "none")
        \/ stack # <<>> /\ q = stack[1].r

AnswersKept ==
    \A q \in Requests :
        \/ answers'[q] = answers[q]
        \/ stack # <<>> /\ q = stack[1].r

LEMMA RemovedKeeps == ASSUME Removed PROVE FramesKept
  BY DEF Removed, FramesKept

LEMMA UnchangedKeeps == ASSUME stack' = stack PROVE FramesKept
  BY DEF FramesKept

LEMMA ReplacedKeeps ==
    ASSUME RelayInv, stack # <<>>, NEW kind, NEW r, NEW peer, Replaced(kind, r, peer),
           r = stack[1].r \/ waiter[r].state = "live"
    PROVE  FramesKept
<1>1. 1 \in 1..Len(stack)
  BY Innermost
<1>2. QED
  BY <1>1 DEF Replaced, FramesKept

LEMMA PushedKeeps ==
    ASSUME NEW kind, NEW r, NEW peer, Pushed(kind, r, peer), waiter[r].state = "live"
    PROVE  FramesKept
  BY DEF Pushed, FramesKept

(* A waiter that lives, and whatever happens to it.                        *)
LEMMA OnlyKeeps ==
    ASSUME NEW w \in Requests, Only(w), waiter[w].state = "live"
    PROVE  StatesKept
  BY DEF Only, StatesKept

LEMMA FreshKept ==
    ASSUME RelayInv, FreshInv, req' = req,
           \A s \in Requesters : inbox'[s] = inbox[s] \/ inbox'[s] = <<>>,
           StatesKept, AnswersKept, FramesKept
    PROVE  FreshInv'
<1>1. stack # <<>> => 1 \in 1..Len(stack)
  BY Innermost
<1>2. ASSUME NEW r \in Requests, Fresh(r)
      PROVE  /\ waiter'[r].state = "none" /\ answers'[r] = <<>>
             /\ \A i \in 1..Len(stack') : stack'[i].r # r
  <2>1. waiter[r].state = "none" /\ answers[r] = <<>>
        /\ \A i \in 1..Len(stack) : stack[i].r # r
    BY <1>2 DEF Fresh
  <2>2. answers'[r] = answers[r] /\ waiter'[r].state = "none"
    BY <1>1, <2>1 DEF StatesKept, AnswersKept
  <2>3. QED
    BY <2>1, <2>2 DEF FramesKept
<1>3. \A r \in Requests : Fresh(r) => Fresh(r)'
  BY <1>2 DEF Fresh
<1>4. QED
  BY <1>3, FreshStep

LEMMA FreshInitially == Init => FreshInv
  BY DEF Init, FreshInv, Fresh, Sent, NoWaiter

LEMMA SendFresh ==
    ASSUME RelayInv, FreshInv, NEW r \in Requests, NEW s \in Requesters, Send(r, s)
    PROVE  FreshInv'
<1>1. /\ ~Sent(r)
      /\ \A q \in Requests : q # r => req'[q] = req[q]
      /\ inbox' = [inbox EXCEPT ![s] = Append(@, r)]
      /\ UNCHANGED <<answers, waiter, stack>>
  BY DEF Send, Sent, RelayInv, TypeOK
<1>2. \A q : Fresh(q)' <=> Fresh(q)
  BY <1>1 DEF Fresh
<1>3. \A q \in Requests : ~Sent(q)' => Fresh(q)'
  <2>1. ASSUME NEW q \in Requests, req'[q] = None PROVE Fresh(q)
    <3>1. ~Sent(q)
      BY <1>1, <2>1 DEF Sent
    <3>2. QED
      BY <3>1 DEF FreshInv
  <2>2. QED
    BY <1>2, <2>1 DEF Sent
<1>4. ASSUME NEW t \in Requesters, NEW i \in 1..Len(inbox'[t]),
             NEW q, q = inbox'[t][i]
      PROVE  Fresh(q) /\ \A j \in 1..Len(inbox'[t]) : q = inbox'[t][j] => i = j
  <2>1. inbox[t] \in Seq(Requests) /\ r \in Requests
    BY DEF RelayInv, TypeOK
  <2>2. CASE t # s
    <3>1. inbox'[t] = inbox[t]
      BY <1>1, <2>2 DEF RelayInv, TypeOK
    <3>2. QED
      BY <1>4, <3>1 DEF FreshInv
  <2>3. CASE t = s
    <3>1. inbox'[t] = Append(inbox[t], r)
      BY <1>1, <2>3 DEF RelayInv, TypeOK
    <3>2. /\ Len(inbox'[t]) = Len(inbox[t]) + 1
          /\ inbox'[t][Len(inbox[t]) + 1] = r
          /\ \A j \in 1..Len(inbox[t]) : inbox'[t][j] = inbox[t][j]
      BY <2>1, <3>1
    <3>3. \A j \in 1..Len(inbox[t]) : inbox[t][j] # r
      BY <1>1 DEF RelayInv, SentInv
    <3>4. Fresh(r)
      BY <1>1 DEF FreshInv
    <3>5. \A j \in 1..Len(inbox'[t]) :
             j = Len(inbox[t]) + 1 \/ j \in 1..Len(inbox[t])
      BY <2>1, <3>2
    <3>6. Fresh(q)
      BY <1>4, <3>2, <3>4, <3>5 DEF FreshInv
    <3>7. ASSUME NEW j \in 1..Len(inbox'[t]), q = inbox'[t][j]
          PROVE  i = j
      <4>1. CASE i \in 1..Len(inbox[t]) /\ j \in 1..Len(inbox[t])
        BY <1>4, <3>2, <3>7, <4>1 DEF FreshInv
      <4>2. CASE i = Len(inbox[t]) + 1 \/ j = Len(inbox[t]) + 1
        BY <1>4, <3>2, <3>3, <3>5, <3>7, <4>2
      <4>3. QED
        BY <3>5, <4>1, <4>2
    <3>8. QED
      BY <3>6, <3>7
  <2>4. QED
    BY <2>2, <2>3
<1>5. QED
  BY <1>2, <1>3, <1>4 DEF FreshInv

LEMMA HandleFresh ==
    ASSUME RelayInv, FreshInv, NEW s \in Requesters, HandleServiceRequest(s)
    PROVE  FreshInv'
<1> DEFINE r == Head(inbox[s])
<1>1. /\ inbox[s] # <<>> /\ r \in Requests /\ Sent(r) /\ req[r].from = s
      /\ UNCHANGED <<req, answers>>
      /\ inbox' = [inbox EXCEPT ![s] = Tail(@)]
      /\ waiter' = waiter \/ Only(r)
      /\ \/ \E c \in Clients : Pushed("request", r, c)
         \/ Pushed("direct", r, s)
         \/ stack' = stack
  BY HandleEffect
<1>2. inbox \in [Requesters -> Seq(Requests)]
  BY DEF RelayInv, TypeOK
<1>3. /\ r = inbox[s][1] /\ 1 \in 1..Len(inbox[s])
      /\ \A i \in 1..Len(Tail(inbox[s])) :
            i + 1 \in 1..Len(inbox[s]) /\ Tail(inbox[s])[i] = inbox[s][i + 1]
  BY <1>1, <1>2, PopLemma
<1> HIDE DEF r
<1>4. \A t \in Requesters : \A i \in 1..Len(inbox'[t]) : inbox'[t][i] # r
  <2>1. ASSUME NEW t \in Requesters, NEW i \in 1..Len(inbox'[t]), inbox'[t][i] = r
        PROVE  FALSE
    <3>1. CASE t # s
      <4>1. inbox'[t] = inbox[t]
        BY <1>1, <1>2, <3>1
      <4>2. QED
        BY <1>1, <2>1, <3>1, <4>1 DEF RelayInv, SentInv
    <3>2. CASE t = s
      <4>1. inbox'[t] = Tail(inbox[s])
        BY <1>1, <1>2, <3>2
      <4>2. i + 1 \in 1..Len(inbox[s]) /\ inbox[s][i + 1] = inbox[s][1]
        BY <1>3, <2>1, <3>2, <4>1
      <4>3. i + 1 = 1
        BY <1>3, <4>2 DEF FreshInv
      <4>4. QED
        BY <4>3
    <3>3. QED
      BY <3>1, <3>2
  <2>2. QED
    BY <2>1
<1>5. ASSUME NEW q \in Requests, Fresh(q), q # r PROVE Fresh(q)'
  <2>1. waiter'[q].state = "none" /\ answers'[q] = <<>>
    BY <1>1, <1>5 DEF Fresh, Only
  <2>2. \A i \in 1..Len(stack') : stack'[i].r # q
    BY <1>1, <1>5 DEF Fresh, Pushed
  <2>3. QED
    BY <2>1, <2>2 DEF Fresh
<1>6. \A t \in Requesters :
         \/ inbox'[t] = inbox[t]
         \/ inbox[t] # <<>> /\ inbox'[t] = Tail(inbox[t])
  <2>1. \A t \in Requesters : inbox'[t] = IF t = s THEN Tail(inbox[s]) ELSE inbox[t]
    BY <1>1, <1>2
  <2>2. QED
    BY <1>1, <2>1
<1>7. QED
  BY <1>1, <1>4, <1>5, <1>6, FreshStep

LEMMA ResponseKeeps ==
    ASSUME RelayInv, NEW m \in Requests, Sent(m),
           NEW reader \in Sockets \cup {None}, NEW incoming,
           ServiceResponse(m, reader, incoming)
    PROVE  StatesKept /\ FramesKept
<1>1. CASE UNCHANGED <<waiter, stack>>
  BY <1>1, UnchangedKeeps DEF StatesKept
<1>2. ASSUME NEW w \in Requests, WaitsForId(w, m), Only(w),
             stack' = stack \/ Pushed("reply", w, req[w].from)
      PROVE  StatesKept /\ FramesKept
  BY <1>2, OnlyKeeps, UnchangedKeeps, PushedKeeps DEF WaitsForId
<1>3. QED
  BY <1>1, <1>2, ServiceResponseEffect

LEMMA FreshNext == RelayInv /\ FreshInv /\ [Next]_vars => FreshInv'
<1> SUFFICES ASSUME RelayInv, FreshInv, [Next]_vars PROVE FreshInv'
  OBVIOUS
<1>1. ASSUME NEW r \in Requests, NEW s \in Requesters, Send(r, s) PROVE FreshInv'
  BY <1>1, SendFresh
<1>2. ASSUME NEW s \in Requesters, HandleServiceRequest(s) PROVE FreshInv'
  BY <1>2, HandleFresh
<1>3. ASSUME NEW s \in Requesters, LoseRequester(s) PROVE FreshInv'
  <2>1. UNCHANGED <<req, answers, stack>>
    BY <1>3, LoseRequesterEffect
  <2>2. \A t \in Requesters : inbox'[t] = inbox[t] \/ inbox'[t] = <<>>
    BY <1>3, LoseRequesterEffect DEF RelayInv, TypeOK
  <2>3. StatesKept
    BY <1>3, LoseRequesterEffect DEF StatesKept
  <2>4. AnswersKept
    BY <2>1 DEF AnswersKept
  <2>5. QED
    BY <2>1, <2>2, <2>3, <2>4, FreshKept, UnchangedKeeps
<1>4. CASE FinishRequest
  <2>1. UNCHANGED <<req, inbox, answers>> /\ stack # <<>>
    BY <1>4, FinishRequestEffect
  <2>2. StatesKept /\ FramesKept
    <3>1. CASE Removed /\ waiter' = waiter
      BY <3>1, RemovedKeeps DEF StatesKept
    <3>2. ASSUME NEW w \in Requests, WaitsForId(w, stack[1].r), Only(w),
                 Replaced("native", stack[1].r, None)
          PROVE  StatesKept /\ FramesKept
      BY <2>1, <3>2, OnlyKeeps, ReplacedKeeps DEF WaitsForId
    <3>3. QED
      BY <1>4, <3>1, <3>2, FinishRequestEffect
  <2>3. QED
    BY <2>1, <2>2, FreshKept DEF AnswersKept
<1>5. CASE FinishNative
  <2>1. UNCHANGED <<req, inbox, answers>> /\ stack # <<>>
    BY <1>5, FinishNativeEffect
  <2>2. StatesKept /\ FramesKept
    <3>1. CASE Removed /\ waiter' = waiter
      BY <3>1, RemovedKeeps DEF StatesKept
    <3>2. ASSUME NEW w \in Requests, WaitsForId(w, stack[1].r), Only(w),
                 Removed \/ Replaced("reply", w, req[w].from)
          PROVE  StatesKept /\ FramesKept
      BY <2>1, <3>2, OnlyKeeps, RemovedKeeps, ReplacedKeeps DEF WaitsForId
    <3>3. QED
      BY <1>5, <3>1, <3>2, FinishNativeEffect
  <2>3. QED
    BY <2>1, <2>2, FreshKept DEF AnswersKept
<1>6. CASE FinishAnswer
  <2>1. UNCHANGED <<req, inbox>> /\ FramesKept
    BY <1>6, FinishAnswerEffect, RemovedKeeps
  <2>2. StatesKept
    BY <1>6, FinishAnswerEffect DEF Only, StatesKept
  <2>3. AnswersKept
    BY <1>6, FinishAnswerEffect DEF Answered, AnswersKept
  <2>4. QED
    BY <2>1, <2>2, <2>3, FreshKept
<1>7. CASE FinishDirect
  <2>1. UNCHANGED <<req, inbox, waiter>> /\ FramesKept
    BY <1>7, FinishDirectEffect, RemovedKeeps
  <2>2. AnswersKept
    BY <1>7, FinishDirectEffect DEF Answered, AnswersKept
  <2>3. QED
    BY <2>1, <2>2, FreshKept DEF StatesKept
<1>8. ASSUME NEW c \in Clients, ReadReply(c) PROVE FreshInv'
  <2>1. UNCHANGED <<req, inbox, answers>>
    BY <1>8 DEF ReadReply
  <2>2. StatesKept /\ FramesKept
    BY <1>8, ReplyFacts, ResponseKeeps DEF ReadReply, Sockets
  <2>3. QED
    BY <2>1, <2>2, FreshKept DEF AnswersKept
<1>9. ASSUME NEW c \in Clients, LoseClient(c) PROVE FreshInv'
  <2>1. UNCHANGED <<req, inbox, answers, waiter, stack>>
    BY <1>9 DEF LoseClient
  <2>2. QED
    BY <2>1, UnchangedKeeps, FreshKept DEF StatesKept, AnswersKept
<1>10. ASSUME NEW r \in Requests, Timeout(r) PROVE FreshInv'
  <2>1. UNCHANGED <<req, inbox, answers>> /\ waiter[r].state = "live"
        /\ Only(r) /\ Pushed("timeout", r, req[r].from)
    BY <1>10, TimeoutEffect
  <2>2. StatesKept /\ FramesKept
    BY <2>1, OnlyKeeps, PushedKeeps
  <2>3. QED
    BY <2>1, <2>2, FreshKept DEF AnswersKept
<1>11. ASSUME NEW r \in Requests, UtilAppAnswers(r) PROVE FreshInv'
  <2>1. UNCHANGED <<req, inbox, answers>> /\ Sent(r)
    BY <1>11 DEF UtilAppAnswers, RelayInv, SentInv
  <2>2. StatesKept /\ FramesKept
    BY <1>11, <2>1, ResponseKeeps DEF UtilAppAnswers
  <2>3. QED
    BY <2>1, <2>2, FreshKept DEF AnswersKept
<1>12. ASSUME NEW c \in Clients, NEW r \in Requests, ClientAnswers(c, r)
       PROVE  FreshInv'
  <2>1. UNCHANGED <<req, inbox, answers, waiter, stack>>
    BY <1>12 DEF ClientAnswers
  <2>2. QED
    BY <2>1, UnchangedKeeps, FreshKept DEF StatesKept, AnswersKept
<1>13. CASE UNCHANGED vars
  <2>1. UNCHANGED <<req, inbox, answers, waiter, stack>>
    BY <1>13 DEF vars
  <2>2. QED
    BY <2>1, UnchangedKeeps, FreshKept DEF StatesKept, AnswersKept
<1>14. QED
  BY <1>1, <1>2, <1>3, <1>4, <1>5, <1>6, <1>7, <1>8, <1>9, <1>10, <1>11,
     <1>12, <1>13 DEF Next

-----------------------------------------------------------------------------
(* CloseAnsweredClientGone.                                                *)

(* The requester of r has an answer of that way, or it is being written.   *)
Answering(r, way) ==
    \/ \E i \in 1..Len(answers[r]) : Way(answers[r][i].what) = way
    \/ \E i \in 1..Len(stack) :
          /\ stack[i].r = r /\ stack[i].kind \in AnswerKinds
          /\ Way(stack[i].kind) = way

(* The client is gone when the answer is begun, and the registry of the    *)
(* relay never takes it in again.                                          *)
CloseInv ==
    \A r \in Requests, way \in Ways :
        Sent(r) /\ req[r].kind = "close" /\ Answering(r, way)
            => Named(r, way) \notin reg

LEMMA CloseKept ==
    ASSUME CloseInv, req' = req, reg' \subseteq reg,
           \A r \in Requests, way \in Ways :
              Answering(r, way)' => Answering(r, way) \/ ClosedFor(r, way)
    PROVE  CloseInv'
<1> SUFFICES ASSUME NEW r \in Requests, NEW way \in Ways,
                    Sent(r), req[r].kind = "close", Answering(r, way)'
             PROVE  Named(r, way) \notin reg'
  BY DEF CloseInv, Sent, Named
<1>1. Answering(r, way) \/ ClosedFor(r, way)
  OBVIOUS
<1>2. QED
  BY <1>1 DEF CloseInv, ClosedFor

LEMMA RemovedAnswers ==
    ASSUME Removed, answers' = answers, NEW r, NEW way, Answering(r, way)'
    PROVE  Answering(r, way)
  BY DEF Removed, Answering

LEMMA ReplacedAnswers ==
    ASSUME NEW kind, NEW w, NEW peer, Replaced(kind, w, peer), answers' = answers,
           NEW r, NEW way, Answering(r, way)'
    PROVE  Answering(r, way) \/ (kind \in AnswerKinds /\ r = w /\ way = Way(kind))
  BY DEF Replaced, Answering

LEMMA PushedAnswers ==
    ASSUME NEW kind, NEW w, NEW peer, Pushed(kind, w, peer), answers' = answers,
           NEW r, NEW way, Answering(r, way)'
    PROVE  Answering(r, way) \/ (kind \in AnswerKinds /\ r = w /\ way = Way(kind))
  BY DEF Pushed, Answering

LEMMA UnchangedAnswers ==
    ASSUME UNCHANGED <<answers, stack>>, NEW r, NEW way, Answering(r, way)'
    PROVE  Answering(r, way)
  BY DEF Answering

LEMMA WrittenAnswers ==
    ASSUME RelayInv, stack # <<>>, stack[1].kind \in AnswerKinds,
           Removed, Answered(stack[1].r, stack[1].kind),
           NEW r \in Requests, NEW way, Answering(r, way)'
    PROVE  Answering(r, way)
<1>1. 1 \in 1..Len(stack)
  BY Innermost
<1>2. CASE \E i \in 1..Len(stack') :
              /\ stack'[i].r = r /\ stack'[i].kind \in AnswerKinds
              /\ Way(stack'[i].kind) = way
  BY <1>2 DEF Removed, Answering
<1>3. CASE answers'[r] = answers[r]
           /\ \E i \in 1..Len(answers'[r]) : Way(answers'[r][i].what) = way
  BY <1>3 DEF Answering
<1>4. CASE r = stack[1].r /\ answers'[r] = Append(answers[r], Told(r, stack[1].kind))
           /\ \E i \in 1..Len(answers'[r]) : Way(answers'[r][i].what) = way
  <2>1. PICK i \in 1..Len(answers'[r]) : Way(answers'[r][i].what) = way
    BY <1>4
  <2>2. answers[r] \in Seq(Answer)
    BY DEF RelayInv, TypeOK
  <2>3. CASE i \in 1..Len(answers[r])
    BY <1>4, <2>1, <2>2, <2>3 DEF Answering
  <2>4. CASE i \notin 1..Len(answers[r])
    <3>1. answers'[r][i] = Told(r, stack[1].kind)
      BY <1>4, <2>2, <2>4
    <3>2. Told(r, stack[1].kind).what = stack[1].kind
      BY DEF Told
    <3>3. QED
      BY <1>1, <1>4, <2>1, <3>1, <3>2 DEF Answering
  <2>5. QED
    BY <2>3, <2>4
<1>5. QED
  BY <1>2, <1>3, <1>4 DEF Answered, Answering

LEMMA ResponseCloses ==
    ASSUME RelayInv, CloseInv, NEW m \in Requests, Sent(m),
           NEW reader \in Sockets \cup {None}, NEW incoming,
           ServiceResponse(m, reader, incoming), UNCHANGED <<req, answers>>
    PROVE  CloseInv'
<1>1. reg' \subseteq reg
  BY ServiceResponseEffect
<1>2. ASSUME NEW r \in Requests, NEW way \in Ways, Answering(r, way)'
      PROVE  Answering(r, way) \/ ClosedFor(r, way)
  <2>1. CASE UNCHANGED stack
    BY <1>2, <2>1, UnchangedAnswers
  <2>2. ASSUME NEW w \in Requests, Pushed("reply", w, req[w].from),
               ClosedFor(w, "relayed")
        PROVE  Answering(r, way) \/ ClosedFor(r, way)
    <3>1. Answering(r, way) \/ (r = w /\ way = "relayed")
      BY <1>2, <2>2, PushedAnswers DEF Way
    <3>2. QED
      BY <2>2, <3>1
  <2>3. QED
    BY <2>1, <2>2, ServiceResponseEffect
<1>3. QED
  BY <1>1, <1>2, CloseKept

LEMMA CloseNext == RelayInv /\ FreshInv /\ CloseInv /\ [Next]_vars => CloseInv'
<1> SUFFICES ASSUME RelayInv, FreshInv, CloseInv, [Next]_vars PROVE CloseInv'
  OBVIOUS
<1> USE DEF AnswerKinds, Way
<1>1. ASSUME NEW q \in Requests, NEW s \in Requesters, Send(q, s) PROVE CloseInv'
  <2>1. /\ ~Sent(q) /\ UNCHANGED <<answers, stack, reg>>
        /\ \A r \in Requests : r # q => req'[r] = req[r]
    BY <1>1 DEF Send, Sent, RelayInv, TypeOK
  <2>2. \A way \in Ways : ~Answering(q, way)
    BY <2>1 DEF FreshInv, Fresh, Answering
  <2>3. QED
    BY <2>1, <2>2, UnchangedAnswers DEF CloseInv, Sent, Named
<1>2. ASSUME NEW s \in Requesters, HandleServiceRequest(s) PROVE CloseInv'
  <2>1. UNCHANGED <<req, answers>> /\ reg' \subseteq reg
    BY <1>2, HandleEffect
  <2>2. ASSUME NEW r \in Requests, NEW way \in Ways, Answering(r, way)'
        PROVE  Answering(r, way) \/ ClosedFor(r, way)
    <3>1. CASE stack' = stack
      BY <2>1, <2>2, <3>1, UnchangedAnswers
    <3>2. ASSUME NEW q, NEW c, Pushed("request", q, c)
          PROVE  Answering(r, way)
      BY <2>1, <2>2, <3>2, PushedAnswers
    <3>3. ASSUME NEW q, Pushed("direct", q, s), ClosedFor(q, "direct")
          PROVE  Answering(r, way) \/ ClosedFor(r, way)
      <4>1. Answering(r, way) \/ (r = q /\ way = "direct")
        BY <2>1, <2>2, <3>3, PushedAnswers
      <4>2. QED
        BY <3>3, <4>1
    <3>4. QED
      BY <1>2, <3>1, <3>2, <3>3, HandleEffect
  <2>3. QED
    BY <2>1, <2>2, CloseKept
<1>3. ASSUME NEW s \in Requesters, LoseRequester(s) PROVE CloseInv'
  BY <1>3, LoseRequesterEffect, UnchangedAnswers, CloseKept
<1>4. CASE FinishRequest
  <2>1. UNCHANGED <<req, answers, reg>>
    BY <1>4, FinishRequestEffect
  <2>2. ASSUME NEW r \in Requests, NEW way \in Ways, Answering(r, way)' PROVE Answering(r, way)
    BY <1>4, <2>1, <2>2, FinishRequestEffect, RemovedAnswers, ReplacedAnswers
  <2>3. QED
    BY <2>1, <2>2, CloseKept
<1>5. CASE FinishNative
  <2>1. UNCHANGED <<req, answers>> /\ reg' \subseteq reg
    BY <1>5, FinishNativeEffect
  <2>2. ASSUME NEW r \in Requests, NEW way \in Ways, Answering(r, way)'
        PROVE  Answering(r, way) \/ ClosedFor(r, way)
    <3>1. CASE Removed
      BY <2>1, <2>2, <3>1, RemovedAnswers
    <3>2. ASSUME NEW w \in Requests, Replaced("reply", w, req[w].from), ClosedFor(w, "relayed")
          PROVE  Answering(r, way) \/ ClosedFor(r, way)
      <4>1. Answering(r, way) \/ (r = w /\ way = "relayed")
        BY <2>1, <2>2, <3>2, ReplacedAnswers
      <4>2. QED
        BY <3>2, <4>1
    <3>3. QED
      BY <1>5, <3>1, <3>2, FinishNativeEffect
  <2>3. QED
    BY <2>1, <2>2, CloseKept
<1>6. CASE FinishAnswer
  BY <1>6, FinishAnswerEffect, WrittenAnswers, CloseKept
<1>7. CASE FinishDirect
  BY <1>7, FinishDirectEffect, WrittenAnswers, CloseKept
<1>8. ASSUME NEW c \in Clients, ReadReply(c) PROVE CloseInv'
  BY <1>8, ReplyFacts, ResponseCloses DEF ReadReply, Sockets
<1>9. ASSUME NEW c \in Clients, LoseClient(c) PROVE CloseInv'
  BY <1>9, UnchangedAnswers, CloseKept DEF LoseClient
<1>10. ASSUME NEW q \in Requests, Timeout(q) PROVE CloseInv'
  <2>1. /\ UNCHANGED <<req, answers>> /\ reg' \subseteq reg /\ ClosedFor(q, "relayed")
        /\ Pushed("timeout", q, req[q].from)
    BY <1>10, TimeoutEffect
  <2>2. ASSUME NEW r \in Requests, NEW way \in Ways, Answering(r, way)'
        PROVE  Answering(r, way) \/ ClosedFor(r, way)
    <3>1. Answering(r, way) \/ (r = q /\ way = "relayed")
      BY <2>1, <2>2, PushedAnswers
    <3>2. QED
      BY <2>1, <3>1
  <2>3. QED
    BY <2>1, <2>2, CloseKept
<1>11. ASSUME NEW q \in Requests, UtilAppAnswers(q) PROVE CloseInv'
  BY <1>11, ResponseCloses DEF UtilAppAnswers, RelayInv, SentInv
<1>12. ASSUME NEW c \in Clients, NEW q \in Requests, ClientAnswers(c, q)
       PROVE  CloseInv'
  BY <1>12, UnchangedAnswers, CloseKept DEF ClientAnswers
<1>13. CASE UNCHANGED vars
  BY <1>13, UnchangedAnswers, CloseKept DEF vars
<1>14. QED
  BY <1>1, <1>2, <1>3, <1>4, <1>5, <1>6, <1>7, <1>8, <1>9, <1>10, <1>11,
     <1>12, <1>13 DEF Next

LEMMA FreshAlways == Spec => []FreshInv
<1>1. QED
  BY RelayInvariant, FreshInitially, FreshNext, PTL DEF Spec

(* Whoever has been told how closing an application went finds its client  *)
(* out of the registry, in whatever order the response, the timer and the  *)
(* end of the connection came, for any number of requests under way.       *)
THEOREM ClosedIsGone == Spec => []CloseAnsweredClientGone
<1>1. Init => CloseInv
  BY DEF Init, CloseInv, Answering
<1>2. CloseInv => CloseAnsweredClientGone
  <2> SUFFICES ASSUME CloseInv, NEW r \in Requests, Sent(r), req[r].kind = "close",
                      NEW i \in 1..Len(answers[r])
               PROVE  IF answers[r][i].what = "direct" THEN req[r].target \notin reg
                                                       ELSE req[r].uid \notin reg
    BY DEF CloseAnsweredClientGone
  <2>1. Answering(r, Way(answers[r][i].what)) /\ Way(answers[r][i].what) \in Ways
    BY DEF Answering, Way, Ways
  <2>2. Named(r, Way(answers[r][i].what)) \notin reg
    BY <2>1 DEF CloseInv
  <2>3. QED
    BY <2>2 DEF Named, Way
<1>3. QED
  BY RelayInvariant, FreshAlways, <1>1, CloseNext, <1>2, PTL DEF Spec

-----------------------------------------------------------------------------
(* AtMostOneAnswer, for requesters that wait for each answer.  With two    *)
(* requests under way it does not hold: while the error of a timeout is    *)
(* being written, the requester's next request may be read, and the        *)
(* plugin's late response inside that one's handler.                       *)

(* A requester has one request under way.  An answer is written by the     *)
(* innermost handler only, to a request that has none, and what has been   *)
(* answered waits for nothing.                                             *)
OneUnderWay ==
    \A r1, r2 \in Requests :
        /\ Sent(r1) /\ Sent(r2) /\ req[r1].from = req[r2].from
        /\ answers[r1] = <<>> /\ answers[r2] = <<>>
        => r1 = r2

AnswerOnTop ==
    \A i \in 1..Len(stack) : stack[i].kind \in AnswerKinds =>
        /\ i = 1
        /\ stack[i].peer = req[stack[i].r].from
        /\ answers[stack[i].r] = <<>>
        /\ stack[i].kind = "direct" => waiter[stack[i].r].state = "none"

AnsweredOnce ==
    \A r \in Requests : answers[r] # <<>> =>
        waiter[r].state # "live" /\ Len(answers[r]) = 1

OneInv == OneUnderWay /\ AnswerOnTop /\ AnsweredOnce

(* Handlers that answer nothing.                                           *)
LEMMA OneKept ==
    ASSUME OneInv, UNCHANGED <<req, answers>>,
           \A q \in Requests : waiter'[q].state = "live" =>
                waiter[q].state = "live" \/ answers[q] = <<>>,
           AnswerOnTop'
    PROVE  OneInv'
  BY DEF OneInv, OneUnderWay, AnsweredOnce, Sent

(* No frame is writing an answer.                                          *)
NoneWritten == \A i \in 1..Len(stack) : stack[i].kind \notin AnswerKinds

LEMMA NoneWrittenIf ==
    ASSUME RelayInv, OneInv, stack # <<>> => stack[1].kind \notin AnswerKinds
    PROVE  NoneWritten
<1>1. stack \in Seq(Frame)
  BY DEF RelayInv, TypeOK
<1>2. ASSUME NEW i \in 1..Len(stack), stack[i].kind \in AnswerKinds PROVE FALSE
  <2>1. i = 1
    BY <1>2 DEF OneInv, AnswerOnTop
  <2>2. stack # <<>>
    BY <1>1
  <2>3. QED
    BY <1>2, <2>1, <2>2
<1>3. QED
  BY <1>2 DEF NoneWritten

LEMMA RemovedOnTop ==
    ASSUME RelayInv, OneInv, Removed
    PROVE  NoneWritten'
<1>1. ASSUME NEW i \in 1..Len(stack'), stack'[i].kind \in AnswerKinds PROVE FALSE
  <2>1. i + 1 \in 1..Len(stack) /\ stack[i + 1].kind \in AnswerKinds
    BY <1>1 DEF Removed
  <2>2. i + 1 = 1
    BY <2>1 DEF OneInv, AnswerOnTop
  <2>3. QED
    BY <2>2
<1>2. QED
  BY <1>1 DEF NoneWritten

LEMMA PushedOnTop ==
    ASSUME NoneWritten, NEW kind, NEW r \in Requests, NEW peer, Pushed(kind, r, peer),
           UNCHANGED <<req, answers>>,
           kind \in AnswerKinds =>
              /\ peer = req[r].from /\ answers[r] = <<>>
              /\ kind = "direct" => waiter'[r].state = "none"
    PROVE  AnswerOnTop'
<1>1. ASSUME NEW i \in 1..Len(stack'), stack'[i].kind \in AnswerKinds
      PROVE  /\ i = 1
             /\ stack'[i].peer = req'[stack'[i].r].from
             /\ answers'[stack'[i].r] = <<>>
             /\ stack'[i].kind = "direct" => waiter'[stack'[i].r].state = "none"
  <2>1. i = 1
    BY <1>1 DEF Pushed, NoneWritten
  <2>2. QED
    BY <1>1, <2>1 DEF Pushed
<1>2. QED
  BY <1>1 DEF AnswerOnTop

LEMMA ReplacedOnTop ==
    ASSUME NoneWritten, NEW kind, NEW r \in Requests, NEW peer, Replaced(kind, r, peer),
           UNCHANGED <<req, answers>>,
           kind \in AnswerKinds =>
              kind # "direct" /\ peer = req[r].from /\ answers[r] = <<>>
    PROVE  AnswerOnTop'
<1>1. ASSUME NEW i \in 1..Len(stack'), stack'[i].kind \in AnswerKinds
      PROVE  /\ i = 1
             /\ stack'[i].peer = req'[stack'[i].r].from
             /\ answers'[stack'[i].r] = <<>>
             /\ stack'[i].kind # "direct"
  <2>1. i = 1
    BY <1>1 DEF Replaced, NoneWritten
  <2>2. QED
    BY <1>1, <2>1 DEF Replaced
<1>2. QED
  BY <1>1 DEF AnswerOnTop

LEMMA QuietOnTop ==
    ASSUME NoneWritten' PROVE AnswerOnTop'
  BY DEF NoneWritten, AnswerOnTop

LEMMA SameOnTop ==
    ASSUME OneInv, UNCHANGED <<req, answers, stack>>,
           \A q \in Requests : waiter[q].state = "none" => waiter'[q].state = "none",
           \A i \in 1..Len(stack) : stack[i].r \in Requests
    PROVE  AnswerOnTop'
  BY DEF OneInv, AnswerOnTop

(* Sending when nothing is outstanding.                                    *)
LEMMA NothingOutstanding ==
    ASSUME MaxOutstanding = 1, NEW s, Cardinality(Outstanding(s)) < MaxOutstanding
    PROVE  Outstanding(s) = {}
<1>1. IsFiniteSet(Outstanding(s))
  BY RelayAssumption, FS_Subset DEF Outstanding
<1>2. Cardinality(Outstanding(s)) \in Nat
  BY <1>1, FS_CardinalityType
<1>3. Cardinality(Outstanding(s)) = 0
  BY <1>2
<1>4. QED
  BY <1>1, <1>3, FS_EmptySet

LEMMA SendOne ==
    ASSUME MaxOutstanding = 1, RelayInv, FreshInv, OneInv,
           NEW r \in Requests, NEW s \in Requesters, Send(r, s)
    PROVE  OneInv'
<1>1. /\ ~Sent(r) /\ UNCHANGED <<answers, waiter, stack>>
      /\ \A q \in Requests : q # r => req'[q] = req[q]
      /\ Outstanding(s) = {}
  BY NothingOutstanding DEF Send, Sent, RelayInv, TypeOK
<1>2. req'[r].from = s
  BY DEF Send, RelayInv, TypeOK
<1>3. OneUnderWay'
  <2>1. ASSUME NEW q \in Requests, q # r, req'[q] # None, req'[q].from = s,
               answers'[q] = <<>>
        PROVE  FALSE
    BY <1>1, <2>1 DEF Outstanding
  <2>2. ASSUME NEW r1 \in Requests, NEW r2 \in Requests,
               req'[r1] # None, req'[r2] # None, req'[r1].from = req'[r2].from,
               answers'[r1] = <<>>, answers'[r2] = <<>>
        PROVE  r1 = r2
    BY <1>1, <1>2, <2>1, <2>2 DEF OneInv, OneUnderWay, Sent
  <2>3. QED
    BY <2>2 DEF OneUnderWay, Sent
<1>4. \A i \in 1..Len(stack) : stack[i].r \in Requests /\ stack[i].r # r
  BY <1>1, FramesAreFrames
<1>5. AnswerOnTop'
  BY <1>1, <1>4 DEF OneInv, AnswerOnTop
<1>6. AnsweredOnce'
  BY <1>1 DEF OneInv, AnsweredOnce
<1>7. QED
  BY <1>3, <1>5, <1>6 DEF OneInv

LEMMA HandleOne ==
    ASSUME RelayInv, FreshInv, OneInv, NEW s \in Requesters, HandleServiceRequest(s)
    PROVE  OneInv'
<1>1. PICK r : r = Head(inbox[s])
  OBVIOUS
<1>2. /\ inbox[s] # <<>> /\ CanRead(s)
      /\ r \in Requests /\ Sent(r) /\ req[r].from = s
      /\ UNCHANGED <<req, answers>>
      /\ \/ /\ \E c \in Clients : Pushed("request", r, c)
            /\ Only(r)
         \/ /\ Pushed("direct", r, s) /\ waiter' = waiter
         \/ /\ stack' = stack /\ Only(r)
  BY <1>1, HandleEffect
<1>3. Fresh(r)
  <2>1. inbox[s] \in Seq(Requests)
    BY DEF RelayInv, TypeOK
  <2>2. r = inbox[s][1] /\ 1 \in 1..Len(inbox[s])
    BY <1>1, <1>2, <2>1, PopLemma
  <2>3. QED
    BY <2>2 DEF FreshInv
<1>4. waiter[r].state = "none" /\ answers[r] = <<>>
      /\ \A i \in 1..Len(stack) : stack[i].r # r
  BY <1>3 DEF Fresh
<1>5. NoneWritten
  <2>1. ASSUME stack # <<>>, stack[1].kind \in AnswerKinds PROVE FALSE
    <3>1. 1 \in 1..Len(stack) /\ Head(stack) = stack[1]
          /\ stack[1].r \in Requests /\ Sent(stack[1].r)
      BY <2>1, Innermost
    <3>2. stack[1].peer = s
      BY <1>2, <2>1, <3>1 DEF CanRead, Polled, AnswerKinds
    <3>3. req[stack[1].r].from = s /\ answers[stack[1].r] = <<>>
      BY <2>1, <3>1, <3>2 DEF OneInv, AnswerOnTop
    <3>4. stack[1].r = r
      BY <1>2, <1>4, <3>1, <3>3 DEF OneInv, OneUnderWay
    <3>5. QED
      BY <1>4, <3>1, <3>4
  <2>2. QED
    BY <2>1, NoneWrittenIf
<1>6. AnswerOnTop'
  <2>1. ASSUME NEW c \in Clients, Pushed("request", r, c) PROVE AnswerOnTop'
    BY <1>2, <1>5, <2>1, PushedOnTop DEF AnswerKinds
  <2>2. CASE Pushed("direct", r, s) /\ waiter' = waiter
    BY <1>2, <1>4, <1>5, <2>2, PushedOnTop
  <2>3. CASE stack' = stack
    BY <1>5, <2>3, QuietOnTop DEF NoneWritten
  <2>4. QED
    BY <1>2, <2>1, <2>2, <2>3
<1>7. \A q \in Requests : waiter'[q].state = "live" =>
          waiter[q].state = "live" \/ answers[q] = <<>>
  BY <1>2, <1>4 DEF Only
<1>8. QED
  BY <1>2, <1>6, <1>7, OneKept

(* While the event loop runs, or a client is read, nothing is written to a *)
(* requester.                                                              *)
LEMMA QuietWhenRead ==
    ASSUME RelayInv, OneInv, EventLoopRuns \/ \E c \in Clients : Polled(c)
    PROVE  NoneWritten
<1>1. ASSUME stack # <<>>, stack[1].kind \in AnswerKinds PROVE FALSE
  <2>1. 1 \in 1..Len(stack) /\ Head(stack) = stack[1]
        /\ stack[1].r \in Requests /\ Sent(stack[1].r)
    BY <1>1, Innermost
  <2>2. stack[1].peer \in Requesters
    BY <1>1, <2>1, MessageFacts DEF OneInv, AnswerOnTop, RelayInv
  <2>3. stack[1].kind # "native"
    BY <1>1 DEF AnswerKinds
  <2>4. QED
    BY <1>1, <2>1, <2>2, <2>3, RelayAssumption DEF EventLoopRuns, Polled
<1>2. QED
  BY <1>1, NoneWrittenIf

LEMMA ResponseOne ==
    ASSUME RelayInv, OneInv, NoneWritten, NEW m \in Requests, Sent(m),
           NEW reader \in Sockets \cup {None}, NEW incoming,
           ServiceResponse(m, reader, incoming), UNCHANGED <<req, answers>>
    PROVE  OneInv'
<1>1. CASE UNCHANGED <<waiter, stack>>
  <2>1. AnswerOnTop'
    BY <1>1, QuietOnTop DEF NoneWritten
  <2>2. QED
    BY <1>1, <2>1, OneKept
<1>2. ASSUME NEW w \in Requests, WaitsForId(w, m), Only(w),
             stack' = stack \/ Pushed("reply", w, req[w].from)
      PROVE  OneInv'
  <2>1. waiter[w].state = "live" /\ answers[w] = <<>>
    BY <1>2 DEF WaitsForId, OneInv, AnsweredOnce
  <2>2. AnswerOnTop'
    <3>1. CASE stack' = stack
      BY <3>1, QuietOnTop DEF NoneWritten
    <3>2. CASE Pushed("reply", w, req[w].from)
      BY <2>1, <3>2, PushedOnTop
    <3>3. QED
      BY <1>2, <3>1, <3>2
  <2>3. \A q \in Requests : waiter'[q].state = "live" =>
            waiter[q].state = "live" \/ answers[q] = <<>>
    BY <1>2, <2>1 DEF Only
  <2>4. QED
    BY <2>2, <2>3, OneKept
<1>3. QED
  BY <1>1, <1>2, ServiceResponseEffect

LEMMA FirstAnswer == ASSUME NEW a PROVE Len(Append(<<>>, a)) = 1
<1>1. <<>> \in Seq({a}) /\ a \in {a}
  OBVIOUS
<1>2. QED
  BY <1>1

(* The end of a write: nobody else was answering the same request.         *)
LEMMA WrittenOne ==
    ASSUME RelayInv, OneInv, stack # <<>>, stack[1].kind \in AnswerKinds,
           NEW what, Removed, req' = req, Answered(stack[1].r, what),
           \A q \in Requests : q # stack[1].r => waiter'[q] = waiter[q],
           waiter'[stack[1].r].state # "live"
    PROVE  OneInv'
<1> DEFINE r == stack[1].r
<1>1. 1 \in 1..Len(stack) /\ r \in Requests
  BY Innermost
<1>2. answers[r] = <<>>
  BY <1>1 DEF OneInv, AnswerOnTop
<1>3. answers'[r] = <<>> \/ Len(answers'[r]) = 1
  <2>1. answers'[r] = answers[r] \/ \E a : answers'[r] = Append(answers[r], a)
    BY DEF Answered
  <2>2. QED
    BY <1>2, <2>1, FirstAnswer
<1>4. \A q \in Requests : q # r => answers'[q] = answers[q]
  BY DEF Answered
<1> HIDE DEF r
<1>5. OneUnderWay'
  BY <1>2, <1>4 DEF OneInv, OneUnderWay, Sent
<1>6. AnsweredOnce'
  BY <1>3, <1>4 DEF OneInv, AnsweredOnce, r
<1>7. AnswerOnTop'
  BY RemovedOnTop, QuietOnTop
<1>8. QED
  BY <1>5, <1>6, <1>7 DEF OneInv

LEMMA DoneWaiter ==
    ASSUME NEW x \in Waiter
    PROVE  [x EXCEPT !.state = "done", !.armed = FALSE].state = "done"
  BY DEF Waiter

LEMMA OneNext ==
    ASSUME MaxOutstanding = 1, RelayInv, FreshInv, OneInv, [Next]_vars
    PROVE  OneInv'
<1>1. ASSUME NEW q \in Requests, NEW s \in Requesters, Send(q, s) PROVE OneInv'
  BY <1>1, SendOne
<1>2. ASSUME NEW s \in Requesters, HandleServiceRequest(s) PROVE OneInv'
  BY <1>2, HandleOne
<1>3. \A w \in Requests : waiter[w] \in Waiter
  BY DEF RelayInv, TypeOK
<1>4. \A i \in 1..Len(stack) : stack[i].r \in Requests
  BY FramesAreFrames
<1>5. ASSUME NEW s \in Requesters, LoseRequester(s) PROVE OneInv'
  <2>1. UNCHANGED <<req, answers, stack>>
    BY <1>5, LoseRequesterEffect
  <2>2. \A q \in Requests :
           \/ waiter'[q] = waiter[q]
           \/ waiter[q].state = "live" /\ waiter'[q].state = "done"
    <3>1. \A q \in Requests :
             \/ waiter'[q] = waiter[q]
             \/ /\ waiter[q].state = "live"
                /\ waiter'[q] = [waiter[q] EXCEPT !.state = "done", !.armed = FALSE]
      BY <1>5, LoseRequesterEffect
    <3>2. \A q \in Requests :
             [waiter[q] EXCEPT !.state = "done", !.armed = FALSE].state = "done"
      BY <1>3, DoneWaiter
    <3>3. QED
      BY <3>1, <3>2
  <2>3. AnswerOnTop'
    BY <1>4, <2>1, <2>2, SameOnTop
  <2>4. QED
    BY <2>1, <2>2, <2>3, OneKept
<1>6. CASE FinishRequest
  <2>1. UNCHANGED <<req, answers>> /\ stack # <<>> /\ stack[1].kind = "request"
    BY <1>6, FinishRequestEffect
  <2>2. NoneWritten /\ stack[1].r \in Requests
    BY <2>1, NoneWrittenIf, Innermost DEF AnswerKinds
  <2>3. CASE Removed /\ waiter' = waiter
    BY <2>1, <2>3, RemovedOnTop, QuietOnTop, OneKept
  <2>4. ASSUME Replaced("native", stack[1].r, None),
               NEW w \in Requests, WaitsForId(w, stack[1].r), Only(w)
        PROVE  OneInv'
    <3>1. AnswerOnTop'
      BY <2>1, <2>2, <2>4, ReplacedOnTop DEF AnswerKinds
    <3>2. \A q \in Requests : waiter'[q].state = "live" =>
              waiter[q].state = "live" \/ answers[q] = <<>>
      BY <2>4 DEF Only, WaitsForId
    <3>3. QED
      BY <2>1, <3>1, <3>2, OneKept
  <2>5. QED
    BY <1>6, <2>3, <2>4, FinishRequestEffect
<1>7. CASE FinishNative
  <2>1. UNCHANGED <<req, answers>> /\ stack # <<>> /\ stack[1].kind = "native"
    BY <1>7, FinishNativeEffect
  <2>2. NoneWritten
    BY <2>1, NoneWrittenIf DEF AnswerKinds
  <2>3. CASE Removed /\ waiter' = waiter
    BY <2>1, <2>3, RemovedOnTop, QuietOnTop, OneKept
  <2>4. ASSUME NEW w \in Requests, WaitsForId(w, stack[1].r), Only(w),
               Removed \/ Replaced("reply", w, req[w].from)
        PROVE  OneInv'
    <3>1. waiter[w].state = "live" /\ answers[w] = <<>>
      BY <2>4 DEF WaitsForId, OneInv, AnsweredOnce
    <3>2. CASE Removed
      BY <2>1, <2>4, <3>1, <3>2, RemovedOnTop, QuietOnTop, OneKept DEF Only
    <3>3. CASE Replaced("reply", w, req[w].from)
      <4>1. AnswerOnTop'
        BY <2>1, <2>2, <3>1, <3>3, ReplacedOnTop
      <4>2. QED
        BY <2>1, <2>4, <3>1, <4>1, OneKept DEF Only
    <3>4. QED
      BY <2>4, <3>2, <3>3
  <2>5. QED
    BY <1>7, <2>3, <2>4, FinishNativeEffect
<1>8. CASE FinishAnswer
  <2>1. /\ stack # <<>> /\ stack[1].kind \in {"reply", "timeout"} /\ req' = req
        /\ Removed /\ Only(stack[1].r)
        /\ waiter'[stack[1].r] = [waiter[stack[1].r] EXCEPT !.state = "done",
                                                            !.armed = FALSE]
        /\ Answered(stack[1].r, stack[1].kind)
    BY <1>8, FinishAnswerEffect
  <2>2. stack[1].r \in Requests /\ waiter'[stack[1].r].state = "done"
    BY <1>3, <2>1, Innermost, DoneWaiter
  <2>3. QED
    BY <2>1, <2>2, WrittenOne DEF Only, AnswerKinds
<1>9. CASE FinishDirect
  <2>1. /\ stack # <<>> /\ stack[1].kind = "direct" /\ UNCHANGED <<req, waiter>>
        /\ Removed /\ Answered(stack[1].r, "direct")
    BY <1>9, FinishDirectEffect
  <2>2. waiter[stack[1].r].state = "none"
    BY <2>1, Innermost DEF OneInv, AnswerOnTop, AnswerKinds
  <2>3. QED
    BY <2>1, <2>2, WrittenOne DEF AnswerKinds
<1>10. ASSUME NEW c \in Clients, ReadReply(c) PROVE OneInv'
  <2>1. /\ replies[c] # <<>> /\ Polled(c) /\ UNCHANGED <<req, answers>>
        /\ ServiceResponse(Head(replies[c]), c, [replies EXCEPT ![c] = Tail(@)])
    BY <1>10 DEF ReadReply, CanRead
  <2>2. NoneWritten
    BY <2>1, QuietWhenRead
  <2>3. QED
    BY <2>1, <2>2, ReplyFacts, ResponseOne DEF Sockets
<1>11. ASSUME NEW c \in Clients, LoseClient(c) PROVE OneInv'
  BY <1>4, <1>11, SameOnTop, OneKept DEF LoseClient
<1>12. ASSUME NEW q \in Requests, Timeout(q) PROVE OneInv'
  <2>1. /\ EventLoopRuns /\ waiter[q].state = "live" /\ UNCHANGED <<req, answers>>
        /\ Only(q) /\ Pushed("timeout", q, req[q].from)
    BY <1>12, TimeoutEffect
  <2>2. NoneWritten
    BY <2>1, QuietWhenRead
  <2>3. answers[q] = <<>>
    BY <2>1 DEF OneInv, AnsweredOnce
  <2>4. AnswerOnTop'
    BY <2>1, <2>2, <2>3, PushedOnTop
  <2>5. QED
    BY <2>1, <2>4, OneKept DEF Only
<1>13. ASSUME NEW q \in Requests, UtilAppAnswers(q) PROVE OneInv'
  <2>1. EventLoopRuns /\ Sent(q) /\ ServiceResponse(q, None, replies)
        /\ UNCHANGED <<req, answers>>
    BY <1>13 DEF UtilAppAnswers, RelayInv, SentInv
  <2>2. QED
    BY <2>1, QuietWhenRead, ResponseOne
<1>14. ASSUME NEW c \in Clients, NEW q \in Requests, ClientAnswers(c, q)
       PROVE  OneInv'
  BY <1>4, <1>14, SameOnTop, OneKept DEF ClientAnswers
<1>15. CASE UNCHANGED vars
  BY <1>4, <1>15, SameOnTop, OneKept DEF vars
<1>16. QED
  BY <1>1, <1>2, <1>5, <1>6, <1>7, <1>8, <1>9, <1>10, <1>11, <1>12, <1>13,
     <1>14, <1>15 DEF Next

LEMMA OneAlways == ASSUME MaxOutstanding = 1 PROVE Spec => []OneInv
<1>1. Init => OneInv
  BY DEF Init, OneInv, OneUnderWay, AnswerOnTop, AnsweredOnce, Sent
<1>2. RelayInv /\ FreshInv /\ OneInv /\ [Next]_vars => OneInv'
  BY OneNext
<1>3. QED
  BY RelayInvariant, FreshAlways, <1>1, <1>2, PTL DEF Spec

(* If the requesters wait for each answer, none is answered twice, however *)
(* responses, timers, lost connections and the handlers nested in a write  *)
(* fall together.                                                          *)
THEOREM NoSecondAnswer ==
    ASSUME MaxOutstanding = 1 PROVE Spec => []AtMostOneAnswer
<1>1. RelayInv /\ OneInv => AtMostOneAnswer
  <2> SUFFICES ASSUME RelayInv, OneInv, NEW r \in Requests
               PROVE  Len(answers[r]) =< 1
    BY DEF AtMostOneAnswer
  <2>1. answers[r] \in Seq(Answer)
    BY DEF RelayInv, TypeOK
  <2>2. CASE answers[r] = <<>>
    BY <2>2
  <2>3. CASE answers[r] # <<>>
    <3>1. Len(answers[r]) = 1
      BY <2>3 DEF OneInv, AnsweredOnce
    <3>2. QED
      BY <3>1
  <2>4. QED
    BY <2>2, <2>3
<1>2. QED
  BY RelayInvariant, OneAlways, <1>1, PTL

-----------------------------------------------------------------------------
(* The relay implements RequestReply.                                      *)

Phases == [r \in Requests |-> Phase(r)]

LEMMA PhaseKept ==
    ASSUME UNCHANGED <<req, answers, open>>
    PROVE  Phases' = Phases
  BY DEF Phases, Phase

LEMMA ReplyPhase ==
    ASSUME RelayInv, OneInv, stack # <<>>, stack[1].kind \in AnswerKinds, NEW what,
           UNCHANGED <<req, open>>, Answered(stack[1].r, what)
    PROVE  (\E r \in Requests : Promise!Reply(r)) \/ Phases' = Phases
<1>0. PICK r : r = stack[1].r
  OBVIOUS
<1>1. 1 \in 1..Len(stack) /\ r \in Requests /\ Sent(r)
  BY <1>0, Innermost
<1>2. answers[r] = <<>>
  BY <1>0, <1>1 DEF OneInv, AnswerOnTop
<1>3. \A q \in Requests : q # r => answers'[q] = answers[q]
  BY <1>0 DEF Answered
<1>4. CASE answers'[r] = answers[r]
  <2>1. \A q \in Requests : Phase(q)' = Phase(q)
    BY <1>3, <1>4 DEF Phase
  <2>2. QED
    BY <2>1 DEF Phases
<1>5. CASE req[r].from \in open /\ answers'[r] = Append(answers[r], Told(r, what))
  <2>1. Len(answers'[r]) = 1
    BY <1>2, <1>5
  <2>2. Phase(r) = "pending"
    <3>1. Len(answers[r]) = 0
      BY <1>2
    <3>2. QED
      BY <1>1, <1>2, <1>5, <3>1 DEF Phase, Sent
  <2>3. Phase(r)' = "answered"
    BY <1>1, <2>1 DEF Phase, Sent
  <2>4. \A q \in Requests : q # r => Phase(q)' = Phase(q)
    BY <1>3 DEF Phase
  <2>5. Phases[r] = "pending" /\ Phases' = [Phases EXCEPT ![r] = "answered"]
    BY <1>1, <2>2, <2>3, <2>4 DEF Phases
  <2>6. Promise!Reply(r)
    BY <2>5 DEF Promise!Reply, Phases
  <2>7. QED
    BY <1>1, <2>6
<1>6. QED
  BY <1>0, <1>4, <1>5 DEF Answered

LEMMA AskPhase ==
    ASSUME RelayInv, FreshInv, NEW r \in Requests, NEW s \in Requesters, Send(r, s)
    PROVE  Promise!Ask(r)
<1>1. /\ req[r] = None /\ s \in open /\ UNCHANGED <<answers, open>>
      /\ \A q \in Requests : q # r => req'[q] = req[q]
  BY DEF Send, RelayInv, TypeOK
<1>2. req'[r] # None /\ req'[r].from = s
  <2>1. PICK m \in Message : req' = [req EXCEPT ![r] = m] /\ m.from = s
    <3>1. PICK i \in Ids, k \in Services, t, u \in Clients \cup {None} :
             /\ k = "close" \/ u = None
             /\ req' = [req EXCEPT ![r] = [from |-> s, id |-> i, kind |-> k,
                                           target |-> t, uid |-> u]]
      BY DEF Send
    <3>2. [from |-> s, id |-> i, kind |-> k, target |-> t, uid |-> u] \in Message
      BY RelayAssumption DEF Message
    <3>3. QED
      BY <3>1, <3>2
  <2>2. QED
    BY <2>1, RelayAssumption DEF RelayInv, TypeOK
<1>3. answers[r] = <<>>
  BY <1>1 DEF FreshInv, Fresh, Sent
<1>4. Phase(r) = "idle"
  BY <1>1 DEF Phase
<1>5. Phase(r)' = "pending"
  <2>1. Len(answers'[r]) = 0 /\ answers'[r] = <<>>
    BY <1>1, <1>3
  <2>2. QED
    BY <1>1, <1>2, <2>1 DEF Phase
<1>6. \A q \in Requests : q # r => Phase(q)' = Phase(q)
  BY <1>1 DEF Phase
<1>7. Phases[r] = "idle" /\ Phases' = [Phases EXCEPT ![r] = "pending"]
  BY <1>4, <1>5, <1>6 DEF Phases
<1>8. QED
  BY <1>7 DEF Promise!Ask, Phases

LEMMA LeavePhase ==
    ASSUME RelayInv, FreshInv, NEW s \in Requesters, LoseRequester(s)
    PROVE  \E R \in SUBSET Requests : Promise!Leave(R)
<1>1. UNCHANGED <<req, answers>> /\ open' = open \ {s}
  BY LoseRequesterEffect
<1> DEFINE R == {r \in Requests : Phase(r) = "pending" /\ req[r].from = s}
<1>2. \A r \in R : Phase(r)' = "abandoned"
  BY <1>1 DEF Phase
<1>3. \A r \in Requests : r \notin R => Phase(r)' = Phase(r)
  BY <1>1 DEF Phase
<1>4. \A r \in R : Phases[r] = "pending"
  BY DEF Phases
<1>5. Phases' = [r \in Requests |-> IF r \in R THEN "abandoned" ELSE Phases[r]]
  BY <1>2, <1>3 DEF Phases
<1>6. Promise!Leave(R)
  BY <1>4, <1>5 DEF Promise!Leave, Phases
<1>7. R \in SUBSET Requests
  OBVIOUS
<1>8. QED
  BY <1>6, <1>7

LEMMA StepIsPromised ==
    ASSUME MaxOutstanding = 1, RelayInv, FreshInv, OneInv, [Next]_vars
    PROVE  Promise!Next \/ Phases' = Phases
<1>1. ASSUME NEW q \in Requests, NEW s \in Requesters, Send(q, s)
      PROVE  Promise!Next
  BY <1>1, AskPhase DEF Promise!Next
<1>2. ASSUME NEW s \in Requesters, LoseRequester(s) PROVE Promise!Next
  BY <1>2, LeavePhase DEF Promise!Next
<1>3. CASE FinishAnswer
  <2>1. (\E r \in Requests : Promise!Reply(r)) \/ Phases' = Phases
    BY <1>3, FinishAnswerEffect, ReplyPhase DEF AnswerKinds
  <2>2. QED
    BY <2>1 DEF Promise!Next
<1>4. CASE FinishDirect
  <2>1. (\E r \in Requests : Promise!Reply(r)) \/ Phases' = Phases
    BY <1>4, FinishDirectEffect, ReplyPhase DEF AnswerKinds
  <2>2. QED
    BY <2>1 DEF Promise!Next
<1>5. ASSUME NEW s \in Requesters, HandleServiceRequest(s)
      PROVE  UNCHANGED <<req, answers, open>>
  BY <1>5 DEF HandleServiceRequest
<1>6. CASE FinishRequest \/ FinishNative
  BY <1>6, PhaseKept DEF FinishRequest, FinishNative
<1>7. ASSUME NEW c \in Clients, ReadReply(c) \/ LoseClient(c)
      PROVE  UNCHANGED <<req, answers, open>>
  BY <1>7 DEF ReadReply, LoseClient
<1>8. ASSUME NEW q \in Requests, Timeout(q) \/ UtilAppAnswers(q)
      PROVE  UNCHANGED <<req, answers, open>>
  BY <1>8 DEF Timeout, UtilAppAnswers
<1>9. ASSUME NEW c \in Clients, NEW q \in Requests, ClientAnswers(c, q)
      PROVE  UNCHANGED <<req, answers, open>>
  BY <1>9 DEF ClientAnswers
<1>10. CASE UNCHANGED vars
  BY <1>10, PhaseKept DEF vars
<1>11. QED
  BY <1>1, <1>2, <1>3, <1>4, <1>5, <1>6, <1>7, <1>8, <1>9, <1>10, PhaseKept
  DEF Next

(* The relay implements what the server promises, if its requesters wait   *)
(* for each answer: every handler's step asks, answers or abandons         *)
(* requests as RequestReply does, or changes nothing that a requester sees.*)
THEOREM RelayKeepsPromise ==
    ASSUME MaxOutstanding = 1 PROVE Spec => ImplementsRequestReply
<1>1. Init => Promise!Init
  BY DEF Init, Promise!Init, Phase
<1>2. RelayInv /\ FreshInv /\ OneInv /\ [Next]_vars
        => [Promise!Next]_([r \in Requests |-> Phase(r)])
  BY StepIsPromised DEF Phases
<1>3. QED
  BY RelayInvariant, FreshAlways, OneAlways, <1>1, <1>2, PTL
  DEF Spec, ImplementsRequestReply, Promise!Spec

-----------------------------------------------------------------------------
(* AnswerIsForTheRequest and NativeStateComplete.                          *)

(* While ids are unique: a waiter has the response to its own request, a   *)
(* native part only for a user interface state, and is free to respond to  *)
(* that only with all of it.                                               *)
WaiterOwn(r) ==
    /\ waiter[r].responded => waiter[r].msg = r
    /\ waiter[r].state # "none" =>
          /\ waiter[r].platform # "empty" => req[r].kind = "ui_state"
          /\ req[r].kind = "ui_state" /\ waiter[r].canRespond
                => waiter[r].platform = "full"

(* What is being written has been responded to and may be written; until   *)
(* the native part is done the waiter of its request is held back.         *)
FrameOwn(f) ==
    /\ f.kind \in {"reply", "timeout"} => waiter[f.r].state # "none"
    /\ f.kind = "reply" => waiter[f.r].responded /\ waiter[f.r].canRespond
    /\ f.kind = "native" => req[f.r].kind = "ui_state"
    /\ f.kind \in {"request", "native"} /\ req[f.r].kind = "ui_state"
          => ~waiter[f.r].canRespond

FramesOwn == \A i \in 1..Len(stack) : FrameOwn(stack[i])

(* A request has one handler that relays it and adds the native part.      *)
HandledOnce ==
    \A i, j \in 1..Len(stack) :
        /\ stack[i].kind \in {"request", "native"}
        /\ stack[j].kind \in {"request", "native"}
        /\ stack[i].r = stack[j].r
        => i = j

AnswerOwn(r, a) ==
    a.what = "reply" => /\ a.of = r
                        /\ a.platform = "full" <=> req[r].kind = "ui_state"

AnswersOwn ==
    \A r \in Requests : \A i \in 1..Len(answers[r]) : AnswerOwn(r, answers[r][i])

Own == (\A r \in Requests : WaiterOwn(r)) /\ FramesOwn /\ AnswersOwn

OwnInv == HandledOnce /\ (UniqueIds => Own)

LEMMA UniqueBefore ==
    ASSUME \A q \in Requests : Sent(q) => req'[q] = req[q], UniqueIds'
    PROVE  UniqueIds
  BY DEF UniqueIds, Sent

LEMMA UniqueWaits ==
    ASSUME UniqueIds, NEW w, NEW m \in Requests, Sent(m), WaitsForId(w, m)
    PROVE  w = m
  BY DEF UniqueIds, WaitsForId

(* HandledOnce.                                                            *)
LEMMA HandledOnceNext ==
    ASSUME RelayInv, FreshInv, HandledOnce, [Next]_vars
    PROVE  HandledOnce'
<1>1. CASE stack' = stack
  BY <1>1 DEF HandledOnce
<1>2. CASE Removed
  <2>1. ASSUME NEW i \in 1..Len(stack'), NEW j \in 1..Len(stack'),
               stack'[i].kind \in {"request", "native"},
               stack'[j].kind \in {"request", "native"},
               stack'[i].r = stack'[j].r
        PROVE  i = j
    <3>1. i + 1 = j + 1
      BY <1>2, <2>1 DEF Removed, HandledOnce
    <3>2. QED
      BY <3>1
  <2>2. QED
    BY <2>1 DEF HandledOnce
<1>3. ASSUME NEW kind, NEW r, NEW peer, Pushed(kind, r, peer),
             \/ kind \in AnswerKinds
             \/ \A i \in 1..Len(stack) : stack[i].r # r
      PROVE  HandledOnce'
  <2>1. ASSUME NEW i \in 1..Len(stack'), NEW j \in 1..Len(stack'),
               stack'[i].kind \in {"request", "native"},
               stack'[j].kind \in {"request", "native"},
               stack'[i].r = stack'[j].r
        PROVE  i = j
    <3>1. CASE i # 1 /\ j # 1
      <4>1. i - 1 = j - 1
        BY <1>3, <2>1, <3>1 DEF Pushed, HandledOnce
      <4>2. QED
        BY <4>1
    <3>2. CASE i = 1 \/ j = 1
      BY <1>3, <2>1, <3>2 DEF Pushed, AnswerKinds
    <3>3. QED
      BY <3>1, <3>2
  <2>2. QED
    BY <2>1 DEF HandledOnce
<1>4. ASSUME NEW kind, NEW r, NEW peer, Replaced(kind, r, peer),
             1 \in 1..Len(stack),
             \/ kind \in AnswerKinds
             \/ r = stack[1].r /\ stack[1].kind \in {"request", "native"}
      PROVE  HandledOnce'
  <2>1. ASSUME NEW i \in 1..Len(stack'), NEW j \in 1..Len(stack'),
               stack'[i].kind \in {"request", "native"},
               stack'[j].kind \in {"request", "native"},
               stack'[i].r = stack'[j].r
        PROVE  i = j
    <3>1. CASE i # 1 /\ j # 1
      BY <1>4, <2>1, <3>1 DEF Replaced, HandledOnce
    <3>2. CASE i = 1 \/ j = 1
      BY <1>4, <2>1, <3>2 DEF Replaced, HandledOnce, AnswerKinds
    <3>3. QED
      BY <3>1, <3>2
  <2>2. QED
    BY <2>1 DEF HandledOnce
<1>5. ASSUME NEW m \in Requests, Sent(m), NEW reader \in Sockets \cup {None},
             NEW incoming, ServiceResponse(m, reader, incoming)
      PROVE  HandledOnce'
  BY <1>1, <1>3, <1>5, ServiceResponseEffect DEF AnswerKinds
<1>6. ASSUME NEW s \in Requesters, HandleServiceRequest(s) PROVE HandledOnce'
  <2>1. PICK r : r = Head(inbox[s])
    OBVIOUS
  <2>2. /\ inbox[s] # <<>>
        /\ \/ \E c \in Clients : Pushed("request", r, c)
           \/ Pushed("direct", r, s)
           \/ stack' = stack
    BY <1>6, <2>1, HandleEffect
  <2>3. r = inbox[s][1] /\ 1 \in 1..Len(inbox[s])
    <3>1. inbox[s] \in Seq(Requests)
      BY DEF RelayInv, TypeOK
    <3>2. QED
      BY <2>1, <2>2, <3>1, PopLemma
  <2>4. \A i \in 1..Len(stack) : stack[i].r # r
    BY <2>3 DEF FreshInv, Fresh
  <2>5. QED
    BY <1>1, <1>3, <2>2, <2>4
<1>7. CASE FinishRequest
  <2>1. stack # <<>> /\ stack[1].kind = "request"
        /\ (Removed \/ Replaced("native", stack[1].r, None))
    BY <1>7, FinishRequestEffect
  <2>2. QED
    BY <1>2, <1>4, <2>1, Innermost
<1>8. CASE FinishNative
  <2>1. /\ stack # <<>>
        /\ Removed \/ \E w \in Requests : Replaced("reply", w, req[w].from)
    BY <1>8, FinishNativeEffect
  <2>2. QED
    BY <1>2, <1>4, <2>1, Innermost DEF AnswerKinds
<1>9. CASE FinishAnswer \/ FinishDirect
  BY <1>2, <1>9, FinishAnswerEffect, FinishDirectEffect
<1>10. ASSUME NEW c \in Clients, ReadReply(c) PROVE HandledOnce'
  BY <1>5, <1>10, ReplyFacts DEF ReadReply, Sockets
<1>11. ASSUME NEW q \in Requests, UtilAppAnswers(q) PROVE HandledOnce'
  BY <1>5, <1>11 DEF UtilAppAnswers, RelayInv, SentInv
<1>12. ASSUME NEW q \in Requests, Timeout(q) PROVE HandledOnce'
  BY <1>3, <1>12, TimeoutEffect DEF AnswerKinds
<1>13. ASSUME NEW q \in Requests, NEW s \in Requesters, Send(q, s)
       PROVE  HandledOnce'
  BY <1>1, <1>13 DEF Send
<1>14. ASSUME NEW s \in Requesters, LoseRequester(s) PROVE HandledOnce'
  BY <1>1, <1>14 DEF LoseRequester
<1>15. ASSUME NEW c \in Clients, LoseClient(c) PROVE HandledOnce'
  BY <1>1, <1>15 DEF LoseClient
<1>16. ASSUME NEW c \in Clients, NEW q \in Requests, ClientAnswers(c, q)
       PROVE  HandledOnce'
  BY <1>1, <1>16 DEF ClientAnswers
<1>17. CASE UNCHANGED vars
  BY <1>1, <1>17 DEF vars
<1>18. QED
  BY <1>6, <1>7, <1>8, <1>9, <1>10, <1>11, <1>12, <1>13, <1>14, <1>15, <1>16,
     <1>17 DEF Next

(* What most handlers leave of a waiter.                                   *)
Lenient(q) ==
    /\ waiter'[q].canRespond = waiter[q].canRespond
    /\ waiter[q].responded => waiter'[q].responded
    /\ waiter[q].state # "none" => waiter'[q].state # "none"

LEMMA FrameStill ==
    ASSUME NEW f, FrameOwn(f), req'[f.r] = req[f.r], Lenient(f.r)
    PROVE  FrameOwn(f)'
  BY DEF FrameOwn, Lenient

LEMMA FramesStill ==
    ASSUME RelayInv, FramesOwn, req' = req,
           \A q \in Requests : Lenient(q),
           \A i \in 1..Len(stack') : \E j \in 1..Len(stack) : stack'[i] = stack[j]
    PROVE  FramesOwn'
<1>1. ASSUME NEW f, NEW j \in 1..Len(stack), f = stack[j] PROVE FrameOwn(f)'
  BY <1>1, FramesAreFrames, FrameStill DEF FramesOwn
<1>2. QED
  BY <1>1 DEF FramesOwn

(* Another frame on top, or instead of the innermost.                      *)
LEMMA FramesAndOne ==
    ASSUME RelayInv, FramesOwn, req' = req,
           \A q \in Requests : Lenient(q),
           NEW kind, NEW r, NEW peer,
           \/ Pushed(kind, r, peer)
           \/ Replaced(kind, r, peer),
           \A f : f.kind = kind /\ f.r = r => FrameOwn(f)'
    PROVE  FramesOwn'
<1>1. ASSUME NEW f, NEW j \in 1..Len(stack), f = stack[j] PROVE FrameOwn(f)'
  BY <1>1, FramesAreFrames, FrameStill DEF FramesOwn
<1>2. ASSUME NEW f, NEW i \in 1..Len(stack'), f = stack'[i]
      PROVE  FrameOwn(f)'
  <2>1. CASE i = 1
    BY <1>2, <2>1 DEF Pushed, Replaced
  <2>2. CASE i # 1
    BY <1>1, <1>2, <2>2 DEF Pushed, Replaced
  <2>3. QED
    BY <2>1, <2>2
<1>3. QED
  BY <1>2 DEF FramesOwn

LEMMA AnswersStill ==
    ASSUME AnswersOwn, answers' = answers, req' = req
    PROVE  AnswersOwn'
  BY DEF AnswersOwn, AnswerOwn

LEMMA WaiterStill ==
    ASSUME NEW q, WaiterOwn(q), waiter'[q] = waiter[q], req'[q] = req[q]
    PROVE  WaiterOwn(q)'
  BY DEF WaiterOwn

LEMMA SameIsLenient == ASSUME NEW q, waiter'[q] = waiter[q] PROVE Lenient(q)
  BY DEF Lenient

(* How a waiter looks after each step.                                     *)
LEMMA HeaderWaiter ==
    ASSUME RelayInv, NEW q \in Requests,
           waiter'[q] = [waiter[q] EXCEPT !.platform = "header"]
    PROVE  /\ waiter'[q].platform = "header"
           /\ waiter'[q].state = waiter[q].state
           /\ waiter'[q].msg = waiter[q].msg
           /\ waiter'[q].canRespond = waiter[q].canRespond
           /\ waiter'[q].responded = waiter[q].responded
<1>1. waiter[q] \in Waiter
  BY DEF RelayInv, TypeOK
<1>2. QED
  BY <1>1 DEF Waiter

LEMMA FullWaiter ==
    ASSUME RelayInv, NEW q \in Requests,
           waiter'[q] = [waiter[q] EXCEPT !.platform = "full", !.canRespond = TRUE]
    PROVE  /\ waiter'[q].platform = "full"
           /\ waiter'[q].state = waiter[q].state
           /\ waiter'[q].msg = waiter[q].msg
           /\ waiter'[q].canRespond = TRUE
           /\ waiter'[q].responded = waiter[q].responded
<1>1. waiter[q] \in Waiter
  BY DEF RelayInv, TypeOK
<1>2. QED
  BY <1>1 DEF Waiter

LEMMA RespondedWaiter ==
    ASSUME RelayInv, NEW q \in Requests, NEW m,
           waiter'[q] = [waiter[q] EXCEPT !.responded = TRUE, !.armed = FALSE, !.msg = m]
    PROVE  /\ waiter'[q].platform = waiter[q].platform
           /\ waiter'[q].state = waiter[q].state
           /\ waiter'[q].msg = m
           /\ waiter'[q].canRespond = waiter[q].canRespond
           /\ waiter'[q].responded = TRUE
<1>1. waiter[q] \in Waiter
  BY DEF RelayInv, TypeOK
<1>2. QED
  BY <1>1 DEF Waiter

LEMMA DisarmedWaiter ==
    ASSUME RelayInv, NEW q \in Requests,
           waiter'[q] = [waiter[q] EXCEPT !.armed = FALSE]
    PROVE  /\ waiter'[q].platform = waiter[q].platform
           /\ waiter'[q].state = waiter[q].state
           /\ waiter'[q].msg = waiter[q].msg
           /\ waiter'[q].canRespond = waiter[q].canRespond
           /\ waiter'[q].responded = waiter[q].responded
<1>1. waiter[q] \in Waiter
  BY DEF RelayInv, TypeOK
<1>2. QED
  BY <1>1 DEF Waiter

LEMMA OverWaiter ==
    ASSUME RelayInv, NEW q \in Requests,
           waiter'[q] = [waiter[q] EXCEPT !.state = "done", !.armed = FALSE]
    PROVE  /\ waiter'[q].platform = waiter[q].platform
           /\ waiter'[q].state = "done"
           /\ waiter'[q].msg = waiter[q].msg
           /\ waiter'[q].canRespond = waiter[q].canRespond
           /\ waiter'[q].responded = waiter[q].responded
<1>1. waiter[q] \in Waiter
  BY DEF RelayInv, TypeOK
<1>2. QED
  BY <1>1 DEF Waiter

LEMMA FirstWaiter ==
    ASSUME NEW b \in BOOLEAN, NEW y, y = NewWaiter(b)
    PROVE  /\ y.platform = "empty" /\ y.state = "live"
           /\ y.canRespond = b /\ y.responded = FALSE
  BY DEF NewWaiter, NoWaiter

(* The response to request m reaches the waiter of m.                      *)
LEMMA ResponseOwn ==
    ASSUME RelayInv, UniqueIds, Own, NEW m \in Requests, Sent(m),
           NEW reader \in Sockets \cup {None}, NEW incoming,
           ServiceResponse(m, reader, incoming), UNCHANGED <<req, answers>>
    PROVE  Own'
<1>1. AnswersOwn'
  BY AnswersStill DEF Own
<1>2. CASE UNCHANGED <<waiter, stack>>
  <2>1. \A q \in Requests : Lenient(q) /\ WaiterOwn(q)'
    BY <1>2, SameIsLenient, WaiterStill DEF Own
  <2>2. FramesOwn'
    BY <1>2, <2>1, FramesStill DEF Own
  <2>3. QED
    BY <1>1, <2>1, <2>2 DEF Own
<1>3. ASSUME NEW w \in Requests, WaitsForId(w, m), Only(w),
             waiter'[w] = [waiter[w] EXCEPT !.responded = TRUE,
                                            !.armed = FALSE, !.msg = m],
             \/ stack' = stack
             \/ waiter[w].canRespond /\ Pushed("reply", w, req[w].from)
      PROVE  Own'
  <2>1. w = m /\ waiter[w].state = "live"
    BY <1>3, UniqueWaits DEF WaitsForId
  <2>2. /\ waiter'[w].platform = waiter[w].platform
        /\ waiter'[w].state = waiter[w].state /\ waiter'[w].msg = m
        /\ waiter'[w].canRespond = waiter[w].canRespond /\ waiter'[w].responded
    BY <1>3, RespondedWaiter
  <2>3. \A q \in Requests : Lenient(q)
    BY <1>3, <2>2, SameIsLenient DEF Only, Lenient
  <2>4. \A q \in Requests : WaiterOwn(q)'
    <3>1. WaiterOwn(m)'
      BY <2>1, <2>2 DEF Own, WaiterOwn
    <3>2. QED
      BY <1>3, <2>1, <3>1, WaiterStill DEF Own, Only
  <2>5. CASE stack' = stack
    <3>1. FramesOwn'
      BY <2>3, <2>5, FramesStill DEF Own
    <3>2. QED
      BY <1>1, <2>4, <3>1 DEF Own
  <2>6. CASE waiter[w].canRespond /\ Pushed("reply", w, req[w].from)
    <3>1. \A f : f.kind = "reply" /\ f.r = w => FrameOwn(f)'
      BY <2>1, <2>2, <2>6 DEF FrameOwn
    <3>2. FramesOwn'
      BY <2>3, <2>6, <3>1, FramesAndOne DEF Own
    <3>3. QED
      BY <1>1, <2>4, <3>2 DEF Own
  <2>7. QED
    BY <1>3, <2>5, <2>6
<1>4. QED
  BY <1>2, <1>3, ServiceResponseEffect

LEMMA SendOwn ==
    ASSUME RelayInv, FreshInv, Own, NEW r \in Requests, NEW s \in Requesters,
           Send(r, s)
    PROVE  Own'
<1>1. /\ ~Sent(r) /\ UNCHANGED <<answers, stack, waiter>>
      /\ \A q \in Requests : q # r => req'[q] = req[q]
  BY DEF Send, Sent, RelayInv, TypeOK
<1>2. /\ waiter[r].state = "none" /\ answers[r] = <<>>
      /\ \A i \in 1..Len(stack) : stack[i].r # r
  BY <1>1 DEF FreshInv, Fresh
<1>3. \A q \in Requests : WaiterOwn(q)'
  BY <1>1, <1>2 DEF Own, WaiterOwn
<1>4. ASSUME NEW i \in 1..Len(stack), NEW f, f = stack[i] PROVE FrameOwn(f)'
  <2>1. f.r \in Requests /\ f.r # r /\ FrameOwn(f)
    BY <1>2, <1>4, FramesAreFrames DEF Own, FramesOwn
  <2>2. QED
    BY <1>1, <2>1, FrameStill, SameIsLenient
<1>5. FramesOwn'
  BY <1>1, <1>4 DEF FramesOwn
<1>6. ASSUME NEW q \in Requests, NEW i \in 1..Len(answers[q]), NEW a,
             a = answers[q][i]
      PROVE  AnswerOwn(q, a)'
  <2>1. q # r
    BY <1>2, <1>6
  <2>2. QED
    BY <1>1, <1>6, <2>1 DEF Own, AnswersOwn, AnswerOwn
<1>7. AnswersOwn'
  BY <1>1, <1>6 DEF AnswersOwn
<1>8. QED
  BY <1>3, <1>5, <1>7 DEF Own

LEMMA HandleOwn ==
    ASSUME RelayInv, FreshInv, Own, NEW s \in Requesters, HandleServiceRequest(s)
    PROVE  Own'
<1>1. PICK r : r = Head(inbox[s])
  OBVIOUS
<1>2. /\ inbox[s] # <<>>
      /\ r \in Requests /\ UNCHANGED <<req, answers>>
      /\ \/ /\ \E c \in Clients : Pushed("request", r, c)
            /\ Only(r)
            /\ waiter'[r] = NewWaiter(req[r].kind # "ui_state")
         \/ Pushed("direct", r, s) /\ waiter' = waiter
         \/ /\ stack' = stack
            /\ Only(r)
            /\ waiter'[r] = NewWaiter(FALSE)
            /\ req[r].kind = "screen_shot"
  <2>1. inbox[s] # <<>> /\ r \in Requests /\ UNCHANGED <<req, answers>>
    BY <1>1, HandleEffect
  <2>2. \/ /\ \E c \in Clients : Pushed("request", r, c)
           /\ Only(r)
           /\ waiter'[r] = NewWaiter(req[r].kind # "ui_state")
        \/ Pushed("direct", r, s) /\ waiter' = waiter
        \/ /\ stack' = stack
           /\ Only(r)
           /\ waiter'[r] = NewWaiter(FALSE)
           /\ req[r].kind = "screen_shot"
    <3>1. \/ /\ \E c \in Clients : Pushed("request", r, c)
             /\ Only(r)
             /\ waiter'[r] = NewWaiter(req[r].kind # "ui_state")
          \/ Pushed("direct", r, s) /\ waiter' = waiter /\ ClosedFor(r, "direct")
          \/ /\ stack' = stack
             /\ Only(r)
             /\ waiter'[r] = NewWaiter(FALSE)
             /\ req[r].kind = "screen_shot"
      BY ONLY <1>1, RelayInv, s \in Requesters, HandleServiceRequest(s),
              HandleEffect, ZenonT(60)
    <3>2. QED  BY ONLY <3>1, ZenonT(60)
  <2>3. QED
    BY <2>1, <2>2, Zenon
<1>3. \A i \in 1..Len(stack) : stack[i].r # r
  <2>1. inbox[s] \in Seq(Requests)
    BY DEF RelayInv, TypeOK
  <2>2. r = inbox[s][1] /\ 1 \in 1..Len(inbox[s])
    BY <1>1, <1>2, <2>1, PopLemma
  <2>3. QED
    BY <2>2 DEF FreshInv, Fresh
<1>4. AnswersOwn'
  BY <1>2, AnswersStill DEF Own
<1>5. ASSUME Only(r), NEW b \in BOOLEAN, waiter'[r] = NewWaiter(b),
             b => req[r].kind # "ui_state"
      PROVE  \A q \in Requests : WaiterOwn(q)'
  <2>1. /\ waiter'[r].platform = "empty" /\ waiter'[r].responded = FALSE
        /\ waiter'[r].canRespond = b
    BY <1>5, FirstWaiter
  <2>2. WaiterOwn(r)'
    BY <1>2, <1>5, <2>1 DEF WaiterOwn
  <2>3. QED
    BY <1>2, <1>5, <2>2, WaiterStill DEF Own, Only
<1>6. ASSUME Only(r) \/ waiter' = waiter, NEW i \in 1..Len(stack), NEW f, f = stack[i]
      PROVE  FrameOwn(f)'
  <2>1. f.r \in Requests /\ f.r # r /\ FrameOwn(f)
    BY <1>3, <1>6, FramesAreFrames DEF Own, FramesOwn
  <2>2. QED
    BY <1>2, <1>6, <2>1, FrameStill, SameIsLenient DEF Only
<1>7. ASSUME NEW kind, NEW peer, Pushed(kind, r, peer), Only(r) \/ waiter' = waiter,
             \A f : f.kind = kind /\ f.r = r => FrameOwn(f)'
      PROVE  FramesOwn'
  <2>1. ASSUME NEW i \in 1..Len(stack'), NEW f, f = stack'[i] PROVE FrameOwn(f)'
    <3>1. CASE i = 1
      BY <1>7, <2>1, <3>1 DEF Pushed
    <3>2. CASE i # 1
      BY <1>6, <1>7, <2>1, <3>2 DEF Pushed
    <3>3. QED
      BY <3>1, <3>2
  <2>2. QED
    BY <2>1 DEF FramesOwn
<1>8. ASSUME NEW c \in Clients, Pushed("request", r, c), Only(r),
             waiter'[r] = NewWaiter(req[r].kind # "ui_state")
      PROVE  Own'
  <2>1. waiter'[r].canRespond = (req[r].kind # "ui_state")
    BY <1>8, FirstWaiter
  <2>2. \A f : f.kind = "request" /\ f.r = r => FrameOwn(f)'
    BY <1>2, <2>1 DEF FrameOwn
  <2>3. FramesOwn'
    BY <1>7, <1>8, <2>2
  <2>4. \A q \in Requests : WaiterOwn(q)'
    BY <1>5, <1>8
  <2>5. QED
    BY <1>4, <2>3, <2>4 DEF Own
<1>9. CASE Pushed("direct", r, s) /\ waiter' = waiter
  <2>1. \A f : f.kind = "direct" /\ f.r = r => FrameOwn(f)'
    BY DEF FrameOwn
  <2>2. FramesOwn'
    BY <1>7, <1>9, <2>1
  <2>3. \A q \in Requests : WaiterOwn(q)'
    BY <1>2, <1>9, WaiterStill DEF Own
  <2>4. QED
    BY <1>4, <2>2, <2>3 DEF Own
<1>10. CASE /\ stack' = stack /\ Only(r) /\ waiter'[r] = NewWaiter(FALSE)
            /\ req[r].kind = "screen_shot"
  <2>1. FramesOwn'
    BY <1>6, <1>10 DEF FramesOwn
  <2>2. QED
    BY <1>4, <1>5, <1>10, <2>1 DEF Own
<1>11. QED
  BY <1>2, <1>8, <1>9, <1>10

LEMMA FinishRequestOwn ==
    ASSUME RelayInv, UniqueIds, Own, FinishRequest
    PROVE  Own'
<1>1. PICK r : r = stack[1].r
  OBVIOUS
<1>2. /\ stack # <<>> /\ stack[1].kind = "request" /\ UNCHANGED <<req, answers>>
      /\ r \in Requests /\ Sent(r) /\ 1 \in 1..Len(stack)
  BY <1>1, FinishRequestEffect, Innermost
<1>3. AnswersOwn'
  BY <1>2, AnswersStill DEF Own
<1>4. CASE Removed /\ waiter' = waiter
  <2>1. \A q \in Requests : Lenient(q) /\ WaiterOwn(q)'
    BY <1>2, <1>4, SameIsLenient, WaiterStill DEF Own
  <2>2. FramesOwn'
    BY <1>2, <1>4, <2>1, FramesStill DEF Own, Removed
  <2>3. QED
    BY <1>3, <2>1, <2>2 DEF Own
<1>5. ASSUME NEW w \in Requests, Replaced("native", r, None),
             req[r].kind = "ui_state", WaitsForId(w, r), Only(w),
             waiter'[w] = [waiter[w] EXCEPT !.platform = "header"]
      PROVE  Own'
  <2>1. w = r
    BY <1>2, <1>5, UniqueWaits
  <2>2. ~waiter[r].canRespond
    BY <1>1, <1>2, <1>5 DEF Own, FramesOwn, FrameOwn
  <2>3. /\ waiter'[r].platform = "header" /\ waiter'[r].state = waiter[r].state
        /\ waiter'[r].msg = waiter[r].msg
        /\ waiter'[r].canRespond = waiter[r].canRespond
        /\ waiter'[r].responded = waiter[r].responded
    BY <1>2, <1>5, <2>1, HeaderWaiter
  <2>4. \A q \in Requests : Lenient(q)
    BY <1>5, <2>1, <2>3, SameIsLenient DEF Only, Lenient
  <2>5. WaiterOwn(r)'
    BY <1>2, <1>5, <2>2, <2>3 DEF Own, WaiterOwn
  <2>6. \A q \in Requests : WaiterOwn(q)'
    BY <1>2, <1>5, <2>1, <2>5, WaiterStill DEF Own, Only
  <2>7. \A f : f.kind = "native" /\ f.r = r => FrameOwn(f)'
    BY <1>2, <1>5, <2>2, <2>3 DEF FrameOwn
  <2>8. FramesOwn'
    BY <1>2, <1>5, <2>4, <2>7, FramesAndOne DEF Own
  <2>9. QED
    BY <1>3, <2>6, <2>8 DEF Own
<1>6. QED
  BY <1>1, <1>4, <1>5, FinishRequestEffect

(* Only its own handler lets the waiter of a user interface state respond, *)
(* and no other frame counts on its being held back.                       *)
LEMMA FinishNativeOwn ==
    ASSUME RelayInv, UniqueIds, HandledOnce, Own, FinishNative
    PROVE  Own'
<1>1. PICK r : r = stack[1].r
  OBVIOUS
<1>2. /\ stack # <<>> /\ stack[1].kind = "native" /\ UNCHANGED <<req, answers>>
      /\ r \in Requests /\ Sent(r) /\ 1 \in 1..Len(stack)
  BY <1>1, FinishNativeEffect, Innermost
<1>3. AnswersOwn'
  BY <1>2, AnswersStill DEF Own
<1>4. CASE Removed /\ waiter' = waiter
  <2>1. \A q \in Requests : Lenient(q) /\ WaiterOwn(q)'
    BY <1>2, <1>4, SameIsLenient, WaiterStill DEF Own
  <2>2. FramesOwn'
    BY <1>2, <1>4, <2>1, FramesStill DEF Own, Removed
  <2>3. QED
    BY <1>3, <2>1, <2>2 DEF Own
<1>5. ASSUME NEW w \in Requests, WaitsForId(w, r), Only(w),
             waiter'[w] = [waiter[w] EXCEPT !.platform = "full", !.canRespond = TRUE],
             \/ Removed
             \/ waiter[w].responded /\ Replaced("reply", w, req[w].from)
      PROVE  Own'
  <2>1. w = r /\ waiter[r].state = "live"
    BY <1>2, <1>5, UniqueWaits DEF WaitsForId
  <2>2. req[r].kind = "ui_state"
    BY <1>1, <1>2 DEF Own, FramesOwn, FrameOwn
  <2>3. /\ waiter'[r].platform = "full" /\ waiter'[r].state = waiter[r].state
        /\ waiter'[r].msg = waiter[r].msg /\ waiter'[r].canRespond = TRUE
        /\ waiter'[r].responded = waiter[r].responded
    BY <1>2, <1>5, <2>1, FullWaiter
  <2>4. WaiterOwn(r)'
    BY <1>2, <2>2, <2>3 DEF Own, WaiterOwn
  <2>5. \A q \in Requests : WaiterOwn(q)'
    BY <1>2, <1>5, <2>1, <2>4, WaiterStill DEF Own, Only
  <2>6. ASSUME NEW i \in 1..Len(stack), i # 1, NEW f, f = stack[i]
        PROVE  FrameOwn(f)'
    <3>1. f.r \in Requests /\ FrameOwn(f)
      BY <2>6, FramesAreFrames DEF Own, FramesOwn
    <3>2. CASE f.r = r
      <4>1. f.kind \notin {"request", "native"}
        BY <1>1, <1>2, <2>6, <3>2 DEF HandledOnce
      <4>2. QED
        BY <2>3, <3>1, <3>2, <4>1 DEF FrameOwn
    <3>3. CASE f.r # r
      BY <1>2, <1>5, <2>1, <3>1, <3>3, FrameStill, SameIsLenient DEF Only
    <3>4. QED
      BY <3>2, <3>3
  <2>7. ASSUME NEW i \in 1..Len(stack'), NEW f, f = stack'[i] PROVE FrameOwn(f)'
    <3>1. CASE Removed
      <4>1. i + 1 \in 1..Len(stack) /\ i + 1 # 1 /\ f = stack[i + 1]
        BY <2>7, <3>1 DEF Removed
      <4>2. QED
        BY <2>6, <4>1
    <3>2. CASE Replaced("reply", w, req[w].from) /\ i # 1
      BY <2>6, <2>7, <3>2 DEF Replaced
    <3>3. CASE waiter[w].responded /\ Replaced("reply", w, req[w].from) /\ i = 1
      <4>1. f.kind = "reply" /\ f.r = r
        BY <2>1, <2>7, <3>3 DEF Replaced
      <4>2. QED
        BY <2>1, <2>3, <3>3, <4>1 DEF FrameOwn
    <3>4. QED
      BY <1>5, <3>1, <3>2, <3>3
  <2>8. FramesOwn'
    BY <2>7 DEF FramesOwn
  <2>9. QED
    BY <1>3, <2>5, <2>8 DEF Own
<1>6. QED
  BY <1>1, <1>4, <1>5, FinishNativeEffect

LEMMA TimeoutOwn ==
    ASSUME RelayInv, Own, NEW r \in Requests, Timeout(r)
    PROVE  Own'
<1>1. /\ waiter[r].state = "live" /\ UNCHANGED <<req, answers>>
      /\ Only(r) /\ waiter'[r] = [waiter[r] EXCEPT !.armed = FALSE]
      /\ Pushed("timeout", r, req[r].from)
  BY TimeoutEffect
<1>2. /\ waiter'[r].platform = waiter[r].platform
      /\ waiter'[r].state = waiter[r].state /\ waiter'[r].msg = waiter[r].msg
      /\ waiter'[r].canRespond = waiter[r].canRespond
      /\ waiter'[r].responded = waiter[r].responded
  BY <1>1, DisarmedWaiter
<1>3. \A q \in Requests : Lenient(q)
  BY <1>1, <1>2, SameIsLenient DEF Only, Lenient
<1>4. \A q \in Requests : WaiterOwn(q)'
  BY <1>1, <1>2, WaiterStill DEF Own, WaiterOwn, Only
<1>5. \A f : f.kind = "timeout" /\ f.r = r => FrameOwn(f)'
  BY <1>1, <1>2 DEF FrameOwn
<1>6. FramesOwn'
  BY <1>1, <1>3, <1>5, FramesAndOne DEF Own
<1>7. AnswersOwn'
  BY <1>1, AnswersStill DEF Own
<1>8. QED
  BY <1>4, <1>6, <1>7 DEF Own

(* What is written is what the waiter holds, and that is its own.          *)
LEMMA WrittenOwn ==
    ASSUME RelayInv, Own, req' = req, NEW r \in Requests, NEW what,
           Answered(r, what), AnswerOwn(r, Told(r, what))
    PROVE  AnswersOwn'
<1>1. ASSUME NEW q \in Requests, answers'[q] = answers[q],
             NEW i \in 1..Len(answers'[q])
      PROVE  AnswerOwn(q, answers[q][i])
  BY <1>1 DEF Own, AnswersOwn
<1>2. ASSUME NEW a, a = Told(r, what), answers'[r] = Append(answers[r], a),
             NEW i \in 1..Len(answers'[r])
      PROVE  \/ answers'[r][i] = a
             \/ i \in 1..Len(answers[r]) /\ answers'[r][i] = answers[r][i]
  <2>1. answers[r] \in Seq(Answer)
    BY DEF RelayInv, TypeOK
  <2>2. \E S : answers[r] \in Seq(S) /\ a \in S
    <3>1. answers[r] \in Seq(Answer \cup {a})
      BY <2>1
    <3>2. QED
      BY <3>1
  <2>3. QED
    BY <1>2, <2>2
<1>3. ASSUME NEW q \in Requests, NEW i \in 1..Len(answers'[q]), NEW a,
             a = answers'[q][i]
      PROVE  AnswerOwn(q, a)
  <2>1. CASE answers'[q] = answers[q]
    BY <1>1, <1>3, <2>1
  <2>2. CASE q = r /\ answers'[r] = Append(answers[r], Told(r, what))
    BY <1>2, <1>3, <2>2 DEF Own, AnswersOwn
  <2>3. QED
    BY <2>1, <2>2 DEF Answered
<1>4. ASSUME NEW q, NEW a, AnswerOwn(q, a) PROVE AnswerOwn(q, a)'
  BY <1>4 DEF AnswerOwn
<1>5. QED
  BY <1>3, <1>4 DEF AnswersOwn

LEMMA FinishAnswerOwn ==
    ASSUME RelayInv, Own, FinishAnswer
    PROVE  Own'
<1>1. PICK r : r = stack[1].r
  OBVIOUS
<1>2. PICK what : what = stack[1].kind
  OBVIOUS
<1>3. /\ stack # <<>> /\ what \in {"reply", "timeout"} /\ req' = req
      /\ Removed /\ Only(r) /\ Answered(r, what)
      /\ waiter'[r] = [waiter[r] EXCEPT !.state = "done", !.armed = FALSE]
      /\ r \in Requests /\ 1 \in 1..Len(stack)
  BY <1>1, <1>2, FinishAnswerEffect, Innermost
<1>4. /\ waiter'[r].platform = waiter[r].platform /\ waiter'[r].state = "done"
      /\ waiter'[r].msg = waiter[r].msg
      /\ waiter'[r].canRespond = waiter[r].canRespond
      /\ waiter'[r].responded = waiter[r].responded
  BY <1>3, OverWaiter
<1>5. \A q \in Requests : Lenient(q)
  BY <1>3, <1>4, SameIsLenient DEF Only, Lenient
<1>6. /\ waiter[r].state # "none"
      /\ what = "reply" => waiter[r].responded /\ waiter[r].canRespond
  BY <1>1, <1>2, <1>3 DEF Own, FramesOwn, FrameOwn
<1>7. AnswerOwn(r, Told(r, what))
  <2>1. Told(r, what).what = what
    BY DEF Told
  <2>2. CASE what = "reply"
    <3>1. /\ Told(r, what).of = waiter[r].msg
          /\ Told(r, what).platform = waiter[r].platform
      BY <2>2 DEF Told
    <3>2. QED
      BY <1>3, <1>6, <2>2, <3>1 DEF Own, WaiterOwn, AnswerOwn
  <2>3. QED
    BY <2>1, <2>2 DEF AnswerOwn
<1>8. AnswersOwn'
  BY <1>3, <1>7, WrittenOwn
<1>9. FramesOwn'
  BY <1>3, <1>5, FramesStill DEF Own, Removed
<1>10. WaiterOwn(r)'
  BY <1>3, <1>4, <1>6 DEF Own, WaiterOwn
<1>11. \A q \in Requests : WaiterOwn(q)'
  BY <1>3, <1>10, WaiterStill DEF Own, Only
<1>12. QED
  BY <1>8, <1>9, <1>11 DEF Own

LEMMA FinishDirectOwn ==
    ASSUME RelayInv, Own, FinishDirect
    PROVE  Own'
<1>1. /\ stack # <<>> /\ UNCHANGED <<req, waiter>> /\ Removed
      /\ Answered(stack[1].r, "direct") /\ stack[1].r \in Requests
  BY FinishDirectEffect, Innermost
<1>2. \A q \in Requests : Lenient(q) /\ WaiterOwn(q)'
  BY <1>1, SameIsLenient, WaiterStill DEF Own
<1>3. FramesOwn'
  BY <1>1, <1>2, FramesStill DEF Own, Removed
<1>4. AnswersOwn'
  BY <1>1, WrittenOwn DEF AnswerOwn, Told
<1>5. QED
  BY <1>2, <1>3, <1>4 DEF Own

LEMMA LoseRequesterOwn ==
    ASSUME RelayInv, Own, NEW s \in Requesters, LoseRequester(s)
    PROVE  Own'
<1>1. UNCHANGED <<req, answers, stack>>
  BY LoseRequesterEffect
<1>2. ASSUME NEW q \in Requests
      PROVE  Lenient(q) /\ WaiterOwn(q)'
  <2>1. CASE waiter'[q] = waiter[q]
    BY <1>1, <2>1, SameIsLenient, WaiterStill DEF Own
  <2>2. CASE /\ waiter[q].state = "live"
             /\ waiter'[q] = [waiter[q] EXCEPT !.state = "done", !.armed = FALSE]
    <3>1. /\ waiter'[q].platform = waiter[q].platform /\ waiter'[q].state = "done"
          /\ waiter'[q].msg = waiter[q].msg
          /\ waiter'[q].canRespond = waiter[q].canRespond
          /\ waiter'[q].responded = waiter[q].responded
      BY <2>2, OverWaiter
    <3>2. QED
      BY <1>1, <2>2, <3>1 DEF Own, WaiterOwn, Lenient
  <2>3. QED
    BY <2>1, <2>2, LoseRequesterEffect
<1>3. FramesOwn'
  BY <1>1, <1>2, FramesStill DEF Own
<1>4. QED
  BY <1>1, <1>2, <1>3, AnswersStill DEF Own

LEMMA OwnNext ==
    ASSUME RelayInv, FreshInv, OwnInv, [Next]_vars
    PROVE  OwnInv'
<1>1. HandledOnce'
  BY HandledOnceNext DEF OwnInv
<1> SUFFICES ASSUME UniqueIds' PROVE Own'
  BY <1>1 DEF OwnInv
<1>2. \/ req' = req
      \/ \E r \in Requests, s \in Requesters : Send(r, s)
  BY DEF Next, vars, HandleServiceRequest, LoseRequester, FinishRequest,
         FinishNative, FinishAnswer, FinishDirect, ReadReply, LoseClient,
         Timeout, UtilAppAnswers, ClientAnswers
<1>3. UniqueIds
  <2>1. \A q \in Requests : Sent(q) => req'[q] = req[q]
    BY <1>2 DEF Send, Sent, RelayInv, TypeOK
  <2>2. QED
    BY <2>1, UniqueBefore
<1>4. Own /\ HandledOnce
  BY <1>3 DEF OwnInv
<1>5. ASSUME NEW r \in Requests, NEW s \in Requesters, Send(r, s) PROVE Own'
  BY <1>4, <1>5, SendOwn
<1>6. ASSUME NEW s \in Requesters, HandleServiceRequest(s) PROVE Own'
  BY <1>4, <1>6, HandleOwn
<1>7. CASE FinishRequest
  BY <1>3, <1>4, <1>7, FinishRequestOwn
<1>8. CASE FinishNative
  BY <1>3, <1>4, <1>8, FinishNativeOwn
<1>9. CASE FinishAnswer \/ FinishDirect
  BY <1>4, <1>9, FinishAnswerOwn, FinishDirectOwn
<1>10. ASSUME NEW c \in Clients, ReadReply(c) PROVE Own'
  BY <1>3, <1>4, <1>10, ReplyFacts, ResponseOwn DEF ReadReply, Sockets
<1>11. ASSUME NEW q \in Requests, UtilAppAnswers(q) PROVE Own'
  BY <1>3, <1>4, <1>11, ResponseOwn DEF UtilAppAnswers, RelayInv, SentInv
<1>12. ASSUME NEW q \in Requests, Timeout(q) PROVE Own'
  BY <1>4, <1>12, TimeoutOwn
<1>13. ASSUME NEW s \in Requesters, LoseRequester(s) PROVE Own'
  BY <1>4, <1>13, LoseRequesterOwn
<1>14. ASSUME UNCHANGED <<req, answers, waiter, stack>> PROVE Own'
  <2>1. \A q \in Requests : Lenient(q) /\ WaiterOwn(q)'
    BY <1>4, <1>14, SameIsLenient, WaiterStill DEF Own
  <2>2. FramesOwn'
    BY <1>4, <1>14, <2>1, FramesStill DEF Own
  <2>3. QED
    BY <1>4, <1>14, <2>1, <2>2, AnswersStill DEF Own
<1>15. ASSUME NEW c \in Clients, LoseClient(c) PROVE Own'
  BY <1>14, <1>15 DEF LoseClient
<1>16. ASSUME NEW c \in Clients, NEW q \in Requests, ClientAnswers(c, q) PROVE Own'
  BY <1>14, <1>16 DEF ClientAnswers
<1>17. CASE UNCHANGED vars
  BY <1>14, <1>17 DEF vars
<1>18. QED
  BY <1>5, <1>6, <1>7, <1>8, <1>9, <1>10, <1>11, <1>12, <1>13, <1>15, <1>16,
     <1>17 DEF Next

LEMMA OwnAlways == Spec => []OwnInv
<1>1. Init => OwnInv
  BY DEF Init, OwnInv, HandledOnce, Own, WaiterOwn, FramesOwn, AnswersOwn, NoWaiter
<1>2. RelayInv /\ FreshInv /\ OwnInv /\ [Next]_vars => OwnInv'
  BY OwnNext
<1>3. QED
  BY RelayInvariant, FreshAlways, <1>1, <1>2, PTL DEF Spec

(* While ids are unique a requester gets the plugin's response to its own  *)
(* request, however many are under way and however their handlers nest.    *)
THEOREM AnswersAreTheirOwn == Spec => []AnswerIsForTheRequest
<1>1. OwnInv => AnswerIsForTheRequest
  BY DEF OwnInv, Own, AnswersOwn, AnswerOwn, AnswerIsForTheRequest
<1>2. QED
  BY OwnAlways, <1>1, PTL

(* While ids are unique a relayed user interface state has all of its      *)
(* native part, and no other response has any.                             *)
THEOREM NativeIsComplete == Spec => []NativeStateComplete
<1>1. OwnInv => NativeStateComplete
  BY DEF OwnInv, Own, AnswersOwn, AnswerOwn, NativeStateComplete
<1>2. QED
  BY OwnAlways, <1>1, PTL
=============================================================================
