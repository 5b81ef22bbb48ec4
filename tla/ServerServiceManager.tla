------------------------ MODULE ServerServiceManager ------------------------
(***************************************************************************)
(* The relay at the heart of qttasserver: TasServerServiceManager, which   *)
(* passes the requests of the test framework (the requesters) to the       *)
(* plugins of the applications under test (the clients), and the           *)
(* ResponseWaiter it creates for every relayed request.                    *)
(*                                                                         *)
(* The server has one thread and one event loop, but its handlers are NOT  *)
(* atomic.  Every write to a socket ends in waitForBytesWritten, which     *)
(* reads what has meanwhile arrived on that same socket and may emit its   *)
(* readyRead: a second handler then runs inside the first.  While an       *)
(* extension of the server traverses the native user interface it may run  *)
(* an event loop of its own, and then any handler may run.  The variable   *)
(* stack holds the handlers in progress, innermost first; only the         *)
(* innermost one can go on.                                                *)
(*                                                                         *)
(* Message bodies, wire encoding and the choice among several candidate    *)
(* clients are abstracted; what each registered client is, is the matter   *)
(* of ClientManager.                                                       *)
(***************************************************************************)
EXTENDS Naturals, Sequences, FiniteSets, TLC

CONSTANTS
    Requesters,      \* sockets of the test framework
    Clients,         \* sockets of the plugins, one per registered application
    Requests,        \* the requests sent in a behaviour (bounds the model)
    Ids,             \* message ids, chosen by the requesters (qint32)
    MaxOutstanding,  \* unanswered requests a requester may have
    Services,        \* the kinds of service the requesters ask for
    None             \* no request, no client, no socket

Kinds == {"ui_state",     \* APPLICATION_STATE and FIND_OBJECT_SERVICE
          "close",        \* CLOSE_APPLICATION
          "screen_shot",  \* SCREEN_SHOT
          "other"}        \* every other service

Sockets == Requesters \cup Clients

VARIABLES
    req,      \* the message of each request once sent, None before
    inbox,    \* requests on their way from each requester, not read yet
    open,     \* requesters whose device is still there
    answers,  \* what each request's requester was sent for it, in order
    reg,      \* clients in mClients with a socket
    up,       \* clients whose device is still there
    work,     \* requests each client's plugin has received, not answered
    replies,  \* responses on their way from each client, not read yet
    util,     \* requests for which qttasutilapp was started
    queue,    \* mResponseQueue: the waiter of each message id
    waiter,   \* the ResponseWaiter of each request
    stack     \* handlers in progress, innermost first

vars == <<req, inbox, open, answers, reg, up, work, replies, util, queue,
          waiter, stack>>

(* target is the application a request is addressed to.  A request to     *)
(* close one names a process again in the uid of its Close command, which  *)
(* need not be the same; None if there is no such command or no number in  *)
(* it, and in every other request.                                         *)
Message == [from : Requesters, id : Ids, kind : Kinds,
            target : Clients \cup {None}, uid : Clients \cup {None}]

ASSUME RelayAssumption ==
    /\ MaxOutstanding \in Nat \ {0}
    /\ Services \subseteq Kinds
    /\ Requesters \cap Clients = {}
    /\ None \notin Sockets \cup Requests \cup Message
    /\ IsFiniteSet(Requests)

(* A frame is a handler that has called into a write, or into an extension.*)
(*   request  handleServiceRequest in sendRequest to a client              *)
(*   native   getNativeUiState in traverseApplication                      *)
(*   direct   an answer the server gives itself, being written             *)
(*   reply    ResponseWaiter::sendMessage, writing to the requester        *)
(*   timeout  ResponseWaiter::timeout, writing to the requester            *)
(* peer is the socket written to, reader the socket whose message the      *)
(* handler was called for: its readyRead is disconnected until it returns. *)
Frame == [kind : {"request", "native", "direct", "reply", "timeout"},
          r : Requests, peer : Sockets \cup {None},
          reader : Sockets \cup {None}]

Waiter == [state : {"none", "live", "done"}, canRespond : BOOLEAN,
           responded : BOOLEAN, armed : BOOLEAN,
           msg : Requests \cup {None}, platform : {"empty", "header", "full"}]

Answer == [what : {"direct", "reply", "timeout"}, of : Requests \cup {None},
           platform : {"empty", "header", "full"}]

NoWaiter == [state |-> "none", canRespond |-> FALSE, responded |-> FALSE,
             armed |-> FALSE, msg |-> None, platform |-> "empty"]

(* Mutant of NewWaiter: the timer is never started.                        *)
NewWaiterNoTimer(canRespond) ==
    [NoWaiter EXCEPT !.state = "live", !.canRespond = canRespond]

(* new ResponseWaiter(responseId, requester, timeout): its timer runs.     *)
NewWaiter(canRespond) == [NoWaiter EXCEPT !.state = "live", !.armed = TRUE,
                                          !.canRespond = canRespond]

TypeOK ==
    /\ req \in [Requests -> Message \cup {None}]
    /\ inbox \in [Requesters -> Seq(Requests)]
    /\ open \subseteq Requesters
    /\ answers \in [Requests -> Seq(Answer)]
    /\ reg \subseteq Clients
    /\ up \subseteq Clients
    /\ work \in [Clients -> SUBSET Requests]
    /\ replies \in [Clients -> Seq(Requests)]
    /\ util \subseteq Requests
    /\ queue \in [Ids -> Requests \cup {None}]
    /\ waiter \in [Requests -> Waiter]
    /\ stack \in Seq(Frame)

Init ==
    /\ req = [r \in Requests |-> None]
    /\ inbox = [s \in Requesters |-> <<>>]
    /\ open = Requesters
    /\ answers = [r \in Requests |-> <<>>]
    /\ reg = Clients
    /\ up = Clients
    /\ work = [c \in Clients |-> {}]
    /\ replies = [c \in Clients |-> <<>>]
    /\ util = {}
    /\ queue = [i \in Ids |-> None]
    /\ waiter = [r \in Requests |-> NoWaiter]
    /\ stack = <<>>

-----------------------------------------------------------------------------
(* Which handlers can run now.                                             *)

EventLoopRuns == stack # <<>> => Head(stack).kind = "native"

Busy(s) == \E i \in 1..Len(stack) : stack[i].reader = s

Polled(s) == stack # <<>> => Head(stack).kind = "native" \/ Head(stack).peer = s

CanRead(s) == Polled(s) /\ ~Busy(s)

Enter(kind, r, peer, reader, frames) ==
    stack' = <<[kind |-> kind, r |-> r, peer |-> peer, reader |-> reader]>>
             \o frames

-----------------------------------------------------------------------------
(* The test framework.                                                     *)

Outstanding(s) ==
    {r \in Requests : req[r] # None /\ req[r].from = s /\ answers[r] = <<>>}

Send(r, s) ==
    /\ req[r] = None
    /\ s \in open
    /\ Cardinality(Outstanding(s)) < MaxOutstanding
    /\ \E i \in Ids, k \in Services, t, u \in Clients \cup {None} :
          /\ k = "close" \/ u = None
          /\ req' = [req EXCEPT ![r] = [from |-> s, id |-> i, kind |-> k,
                                        target |-> t, uid |-> u]]
    /\ inbox' = [inbox EXCEPT ![s] = Append(@, r)]
    /\ UNCHANGED <<open, answers, reg, up, work, replies, util, queue, waiter,
                   stack>>

-----------------------------------------------------------------------------
(* TasServerServiceManager::handleServiceRequest.                          *)

(* The clients findByProcessId and findClient may return.                  *)
Candidates(m) ==
    IF m.target # None THEN reg \cap {m.target}
    ELSE IF m.kind \in {"ui_state", "screen_shot"} THEN reg ELSE {}

(* Mutant of Relay: a user interface state may be answered right away.     *)
RelayOkToRespond(r, c) ==
    /\ waiter' = [waiter EXCEPT ![r] = NewWaiter(TRUE)]
    /\ queue' = [queue EXCEPT ![req[r].id] = r]
    /\ Enter("request", r, c, req[r].from, stack)
    /\ UNCHANGED <<reg, util>>

(* A waiter is created, entered in mResponseQueue, whatever was there, and *)
(* the request is written to the client.                                   *)
Relay(r, c) ==
    /\ waiter' = [waiter EXCEPT ![r] = NewWaiter(req[r].kind # "ui_state")]
    /\ queue' = [queue EXCEPT ![req[r].id] = r]
    /\ Enter("request", r, c, req[r].from, stack)
    /\ UNCHANGED <<reg, util>>

(* verifyClient drops a client whose process has vanished.                 *)
NoTarget(m) ==
    \/ Candidates(m) = {} /\ UNCHANGED reg
    \/ \E c \in Candidates(m) \ up : reg' = reg \ {c}

(* The error for a missing application, the answer of an extension, or of  *)
(* the server's own service chain.                                         *)
AnswerDirectly(r) ==
    /\ NoTarget(req[r])
    /\ Enter("direct", r, req[r].from, req[r].from, stack)
    /\ UNCHANGED <<waiter, queue, util>>

(* A screen shot without any client is asked of the utility application.   *)
StartUtilApp(r) ==
    /\ req[r].kind = "screen_shot" /\ req[r].target = None
    /\ NoTarget(req[r])
    /\ waiter' = [waiter EXCEPT ![r] = NewWaiter(FALSE)]
    /\ queue' = [queue EXCEPT ![req[r].id] = r]
    /\ util' = util \cup {r}
    /\ UNCHANGED stack

HandleServiceRequest(s) ==
    /\ s \in open /\ CanRead(s)
    /\ inbox[s] # <<>>
    /\ inbox' = [inbox EXCEPT ![s] = Tail(@)]
    /\ LET r == Head(inbox[s]) IN
          \/ \E c \in Candidates(req[r]) : Relay(r, c)
          \/ AnswerDirectly(r)
          \/ StartUtilApp(r)
    /\ UNCHANGED <<req, open, answers, up, work, replies>>

(* sendRequest returns.  For a user interface state the native part is     *)
(* then started, on whatever waiter the queue holds for the id by now.     *)
FinishRequest ==
    /\ stack # <<>> /\ Head(stack).kind = "request"
    /\ LET r == Head(stack).r
           c == Head(stack).peer
           w == queue[req[r].id]
       IN  /\ work' = IF c \in up THEN [work EXCEPT ![c] = @ \cup {r}] ELSE work
           /\ IF req[r].kind = "ui_state" /\ w # None
              THEN /\ waiter' = [waiter EXCEPT ![w].platform = "header"]
                   /\ Enter("native", r, None, Head(stack).reader, Tail(stack))
              ELSE /\ stack' = Tail(stack)
                   /\ UNCHANGED waiter
    /\ UNCHANGED <<req, inbox, open, answers, reg, up, replies, util, queue>>

-----------------------------------------------------------------------------
(* ResponseWaiter and CloseFilter.                                         *)

(* The client that the CloseFilter of a request was made for, by the uid   *)
(* of the Close command.  There is none without a uid: mPassThrough.       *)
Closes(r, c) == req[r].kind = "close" /\ req[r].uid = c

(* CloseFilter::filterResponse: by its end that client is removed and its  *)
(* connection closed; with mPassThrough it does nothing.                   *)
FilterResponse(r, incoming) ==
    /\ reg' = {c \in reg : ~Closes(r, c)}
    /\ up' = {c \in up : ~Closes(r, c)}
    /\ work' = [c \in Clients |-> IF Closes(r, c) THEN {} ELSE work[c]]
    /\ replies' = [c \in Clients |-> IF Closes(r, c) THEN <<>> ELSE incoming[c]]

(* The beginning of ResponseWaiter::sendMessage, up to the write.          *)
SendMessage(w, reader, frames, incoming) ==
    /\ FilterResponse(w, incoming)
    /\ Enter("reply", w, req[w].from, reader, frames)

(* The extensions have traversed the native user interface: okToRespond on *)
(* the waiter the queue holds for the id now, if any.                      *)
FinishNative ==
    /\ stack # <<>> /\ Head(stack).kind = "native"
    /\ LET w == queue[req[Head(stack).r].id] IN
          IF w = None
          THEN /\ stack' = Tail(stack)
               /\ UNCHANGED <<waiter, reg, up, work, replies>>
          ELSE /\ waiter' = [waiter EXCEPT ![w].platform = "full",
                                           ![w].canRespond = TRUE]
               /\ IF waiter[w].responded
                  THEN SendMessage(w, Head(stack).reader, Tail(stack), replies)
                  ELSE /\ stack' = Tail(stack)
                       /\ UNCHANGED <<reg, up, work, replies>>
    /\ UNCHANGED <<req, inbox, open, answers, util, queue>>

(* Mutant of ServiceResponse: any waiter in the queue gets the response.   *)
ServiceResponseToAny(m, reader, incoming) ==
    LET w == IF \A i \in Ids : queue[i] = None THEN None
             ELSE CHOOSE r \in Requests : \E i \in Ids : queue[i] = r
    IN  IF w = None
        THEN /\ replies' = incoming
             /\ UNCHANGED <<waiter, stack, reg, up, work>>
        ELSE /\ waiter' = [waiter EXCEPT ![w].responded = TRUE,
                                         ![w].armed = FALSE, ![w].msg = m]
             /\ IF waiter[w].canRespond
                THEN SendMessage(w, reader, stack, incoming)
                ELSE /\ replies' = incoming
                     /\ UNCHANGED <<stack, reg, up, work>>

(* TasServerServiceManager::serviceResponse with the response to request m.*)
(* Only the id counts.                                                     *)
ServiceResponse(m, reader, incoming) ==
    LET w == queue[req[m].id] IN
      IF w = None
      THEN /\ replies' = incoming
           /\ UNCHANGED <<waiter, stack, reg, up, work>>
      ELSE /\ waiter' = [waiter EXCEPT ![w].responded = TRUE,
                                       ![w].armed = FALSE, ![w].msg = m]
           /\ IF waiter[w].canRespond
              THEN SendMessage(w, reader, stack, incoming)
              ELSE /\ replies' = incoming
                   /\ UNCHANGED <<stack, reg, up, work>>

ReadReply(c) ==
    /\ c \in up /\ CanRead(c)
    /\ replies[c] # <<>>
    /\ ServiceResponse(Head(replies[c]), c, [replies EXCEPT ![c] = Tail(@)])
    /\ UNCHANGED <<req, inbox, open, answers, util, queue>>

(* Mutant of Timeout: the close filter is only run on responses.           *)
TimeoutNoFilter(r) ==
    /\ EventLoopRuns
    /\ waiter[r].state = "live" /\ waiter[r].armed
    /\ waiter' = [waiter EXCEPT ![r].armed = FALSE]
    /\ Enter("timeout", r, req[r].from, None, stack)
    /\ UNCHANGED <<req, inbox, open, answers, reg, up, work, replies, util, queue>>

(* The timer of a waiter fires: ResponseWaiter::timeout up to the write.   *)
Timeout(r) ==
    /\ EventLoopRuns
    /\ waiter[r].state = "live" /\ waiter[r].armed
    /\ waiter' = [waiter EXCEPT ![r].armed = FALSE]
    /\ FilterResponse(r, replies)
    /\ Enter("timeout", r, req[r].from, None, stack)
    /\ UNCHANGED <<req, inbox, open, answers, util, queue>>

(* Mutant of Deliver: a closed device is written to.                       *)
DeliverAnyway(r, what) ==
    answers' = [answers EXCEPT ![r] =
                  Append(@, [what |-> what,
                             of |-> IF what = "reply" THEN waiter[r].msg ELSE None,
                             platform |-> IF what = "reply" THEN waiter[r].platform
                                                            ELSE "empty"])]

(* The write of an answer returns; nothing is written to a closed device.  *)
Deliver(r, what) ==
    answers' = IF req[r].from \in open
               THEN [answers EXCEPT ![r] =
                       Append(@, [what |-> what,
                                  of |-> IF what = "reply" THEN waiter[r].msg
                                                           ELSE None,
                                  platform |-> IF what = "reply"
                                               THEN waiter[r].platform
                                               ELSE "empty"])]
               ELSE answers

(* Mutant of Responded: the signal responded is not emitted.               *)
RespondedNoSignal(r) ==
    /\ waiter' = [waiter EXCEPT ![r].state = "done", ![r].armed = FALSE]
    /\ UNCHANGED queue

(* emit responded(mResponseId), cleanup() and deleteLater(): removeWaiter  *)
(* takes out whatever waiter the queue holds for the id.                   *)
Responded(r) ==
    /\ queue' = [queue EXCEPT ![req[r].id] = None]
    /\ waiter' = [waiter EXCEPT ![r].state = "done", ![r].armed = FALSE]

(* Mutant of FinishAnswer: a waiter that timed out goes on waiting.        *)
FinishAnswerKeepWaiting ==
    /\ stack # <<>> /\ Head(stack).kind \in {"reply", "timeout"}
    /\ Deliver(Head(stack).r, Head(stack).kind)
    /\ IF Head(stack).kind = "reply"
       THEN Responded(Head(stack).r)
       ELSE UNCHANGED <<queue, waiter>>
    /\ stack' = Tail(stack)
    /\ UNCHANGED <<req, inbox, open, reg, up, work, replies, util>>

FinishAnswer ==
    /\ stack # <<>> /\ Head(stack).kind \in {"reply", "timeout"}
    /\ Deliver(Head(stack).r, Head(stack).kind)
    /\ Responded(Head(stack).r)
    /\ stack' = Tail(stack)
    /\ UNCHANGED <<req, inbox, open, reg, up, work, replies, util>>

FinishDirect ==
    /\ stack # <<>> /\ Head(stack).kind = "direct"
    /\ Deliver(Head(stack).r, "direct")
    /\ stack' = Tail(stack)
    /\ UNCHANGED <<req, inbox, open, reg, up, work, replies, util, queue, waiter>>

-----------------------------------------------------------------------------
(* Connections go away.  TasServerSocket learns it from the aboutToClose   *)
(* of its device; a device whose peer has closed may also be destroyed     *)
(* without it, and then nobody is told.                                    *)

LiveWaitersOf(s) ==
    {r \in Requests : waiter[r].state = "live" /\ req[r].from = s}

(* ResponseWaiter::socketClosed of every waiter connected to the socket.   *)
LoseRequester(s) ==
    /\ s \in open /\ Polled(s)
    /\ open' = open \ {s}
    /\ inbox' = [inbox EXCEPT ![s] = <<>>]
    /\ \/ /\ waiter' = [r \in Requests |->
                          IF r \in LiveWaitersOf(s)
                          THEN [waiter[r] EXCEPT !.state = "done", !.armed = FALSE]
                          ELSE waiter[r]]
          /\ queue' = [i \in Ids |->
                          IF \E r \in LiveWaitersOf(s) : req[r].id = i
                          THEN None ELSE queue[i]]
       \/ UNCHANGED <<waiter, queue>>
    /\ UNCHANGED <<req, answers, reg, up, work, replies, util, stack>>

(* A waiter is not told that the client it waits for is gone.              *)
LoseClient(c) ==
    /\ c \in up /\ Polled(c)
    /\ up' = up \ {c}
    /\ work' = [work EXCEPT ![c] = {}]
    /\ replies' = [replies EXCEPT ![c] = <<>>]
    /\ \/ reg' = reg \ {c}
       \/ UNCHANGED reg
    /\ UNCHANGED <<req, inbox, open, answers, util, queue, waiter, stack>>

-----------------------------------------------------------------------------
(* The plugins and the utility application.                                *)

ClientAnswers(c, r) ==
    /\ r \in work[c]
    /\ work' = [work EXCEPT ![c] = @ \ {r}]
    /\ replies' = [replies EXCEPT ![c] = Append(@, r)]
    /\ UNCHANGED <<req, inbox, open, answers, reg, up, util, queue, waiter, stack>>

(* TasUtilityApp::sendScreenShot over a connection of its own.             *)
UtilAppAnswers(r) ==
    /\ EventLoopRuns
    /\ r \in util
    /\ util' = util \ {r}
    /\ ServiceResponse(r, None, replies)
    /\ UNCHANGED <<req, inbox, open, answers, queue>>

-----------------------------------------------------------------------------
Next ==
    \/ \E r \in Requests, s \in Requesters : Send(r, s)
    \/ \E s \in Requesters : HandleServiceRequest(s) \/ LoseRequester(s)
    \/ FinishRequest
    \/ FinishNative
    \/ FinishAnswer
    \/ FinishDirect
    \/ \E c \in Clients : ReadReply(c) \/ LoseClient(c)
    \/ \E r \in Requests : Timeout(r) \/ UtilAppAnswers(r)
    \/ \E c \in Clients, r \in Requests : ClientAnswers(c, r)

Spec == Init /\ [][Next]_vars

(* Every action treats requests, requesters, clients and ids alike.        *)
Symmetry == Permutations(Requests) \cup Permutations(Requesters)
            \cup Permutations(Clients) \cup Permutations(Ids)

(* The event loop keeps running: pending sockets are read, writes and      *)
(* extensions return, timers fire.  Nothing is promised of the plugins and *)
(* the requesters; the utility application is expected to answer.          *)
Fairness ==
    /\ \A s \in Requesters : WF_vars(HandleServiceRequest(s))
    /\ \A c \in Clients : WF_vars(ReadReply(c))
    /\ \A r \in Requests : WF_vars(Timeout(r)) /\ WF_vars(UtilAppAnswers(r))
    /\ WF_vars(FinishRequest) /\ WF_vars(FinishNative)
    /\ WF_vars(FinishAnswer) /\ WF_vars(FinishDirect)

FairSpec == Spec /\ Fairness

-----------------------------------------------------------------------------
(* Properties.                                                             *)

Sent(r) == req[r] # None

(* Requesters choose ids that collide with nobody else's.                  *)
UniqueIds ==
    \A r1, r2 \in Requests :
        Sent(r1) /\ Sent(r2) /\ req[r1].id = req[r2].id => r1 = r2

(* mResponseQueue holds plain pointers.  Whatever ids the requesters       *)
(* choose, whichever handlers nest, and even if ids collide, an entry      *)
(* never points to a waiter that has called deleteLater, and it is entered *)
(* under the waiter's own id.                                              *)
QueueHoldsLiveWaiters ==
    \A i \in Ids : queue[i] # None =>
        /\ waiter[queue[i]].state = "live"
        /\ req[queue[i]].id = i

(* With requesters that wait for an answer before they send the next       *)
(* request, a request is answered at most once: a timeout, the plugin's    *)
(* late response and the handlers they nest never both answer it.          *)
AtMostOneAnswer == \A r \in Requests : Len(answers[r]) =< 1

(* While ids are unique, the response relayed to a requester is the one    *)
(* the plugin gave to that very request.                                   *)
AnswerIsForTheRequest ==
    UniqueIds => \A r \in Requests : \A i \in 1..Len(answers[r]) :
        answers[r][i].what = "reply" => answers[r][i].of = r

(* While ids are unique, a relayed user interface state has the complete   *)
(* native part, and no other response has any of it: mCanRespond holds the *)
(* plugin's response back until the extensions are done.                   *)
NativeStateComplete ==
    UniqueIds => \A r \in Requests : \A i \in 1..Len(answers[r]) :
        answers[r][i].what = "reply" =>
            (answers[r][i].platform = "full") <=> (req[r].kind = "ui_state")

(* When a requester has been told how closing an application went, the     *)
(* client that the request to close named is out of the registry: the one  *)
(* of the Close command's uid if the request was relayed, also if the      *)
(* plugin never responded and the waiter timed out, and the one addressed  *)
(* if the server says itself that it is no longer available.  A relayed    *)
(* request without a uid is answered as the plugin likes, and removes      *)
(* nobody.                                                                 *)
CloseAnsweredClientGone ==
    \A r \in Requests : Sent(r) /\ req[r].kind = "close" =>
        \A i \in 1..Len(answers[r]) :
            IF answers[r][i].what = "direct" THEN req[r].target \notin reg
                                             ELSE req[r].uid \notin reg

(* Not for a picture of the screen, which nobody may send.                *)
WaitsForPlugin(r) == waiter[r].canRespond \/ req[r].kind = "ui_state"

(* While ids are unique, every request is answered, with a response or an  *)
(* error, or its requester is gone; the exception is a screen shot that    *)
(* the utility application has taken, see ScreenShotAnswered.              *)
EveryRequestEnds ==
    \A r \in Requests :
        Sent(r) ~> \/ answers[r] # <<>>
                   \/ Sent(r) /\ req[r].from \notin open
                   \/ ~UniqueIds
                   \/ waiter[r].responded /\ ~WaitsForPlugin(r)

(* "The incoming message is passed to the handler and the resulting        *)
(* response is sent back to the socket as the response to the request":    *)
(* for a screen shot taken by the utility application.                     *)
ScreenShotAnswered ==
    \A r \in Requests :
        r \in util ~> \/ answers[r] # <<>>
                      \/ Sent(r) /\ req[r].from \notin open
                      \/ ~UniqueIds

(* Every behaviour of the relay is one of RequestReply.                    *)
Phase(r) ==
    IF req[r] = None THEN "idle"
    ELSE IF Len(answers[r]) = 1 THEN "answered"
    ELSE IF answers[r] # <<>> THEN "answered again"
    ELSE IF req[r].from \in open THEN "pending" ELSE "abandoned"

Promise == INSTANCE RequestReply WITH phase <- [r \in Requests |-> Phase(r)]

ImplementsRequestReply == Promise!Spec
=============================================================================
