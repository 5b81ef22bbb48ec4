------------------------------ MODULE TasSocket ------------------------------
(***************************************************************************)
(* TasSocket, its reader and its writer, at the two ends of the connection *)
(* between qttasserver and the plugin of an application.                   *)
(*                                                                         *)
(* A message is written as a header and a body, and arrives in pieces.     *)
(* Bytes are abstracted to parts: Header of them make a header, Body a     *)
(* body.  stack[e] holds what end e is in the middle of, innermost first.  *)
(* Whatever waits for the device (a write, a read, syncRequest) lets       *)
(* further parts arrive, and unless the reader is disconnected from        *)
(* readyRead, messages are read and handled right there.                   *)
(***************************************************************************)
EXTENDS Integers, Sequences, FiniteSets

CONSTANTS
    Header, Body,     \* parts of a header (HEADER_LENGTH bytes), of a body
    Ids,              \* message ids
    MaxRequests,      \* requests sent by both ends together
    MaxTimeouts       \* messages whose rest did not come in READ_TIME_OUT

Ends == {"server", "plugin"}
Peer(e) == IF e = "server" THEN "plugin" ELSE "server"
Size == Header + Body

ASSUME SocketAssumption ==
    /\ Header \in Nat \ {0} /\ Body \in Nat \ {0}
    /\ MaxRequests \in Nat /\ MaxTimeouts \in Nat

VARIABLES
    sent,        \* messages sent to each end
    stream,      \* their parts, as far as they will arrive
    arrived,     \* how many have arrived in the device
    taken,       \* how many of those have been read
    listening,   \* readyRead is connected to readMessageData
    stack,       \* what each end is in the middle of
    open,        \* the end's process runs and its device is open
    delivered,   \* messages each end has read, in order
    calls,       \* syncRequests of the server that have returned
    timeouts     \* how many messages were torn

vars == <<sent, stream, arrived, taken, listening, stack, open, delivered, calls,
          timeouts>>

Message == [kind : {"request", "response"}, id : Ids, re : Nat]

(*   write     waitForBytesWritten                                         *)
(*   body      readOneMessage: need more parts of n, good so far           *)
(*   handle    messageAvailable, the request n has to be answered          *)
(*   handled   messageAvailable, nothing is left to be sent                *)
(*   sync      syncRequest, waiting for the reply to the message n         *)
Frame == [at : {"write", "body", "handle", "handled", "sync"}, n : Nat,
          need : Nat, good : BOOLEAN]

At(at, n) == [at |-> at, n |-> n, need |-> 0, good |-> TRUE]

TypeOK ==
    /\ sent \in [Ends -> Seq(Message)]
    /\ stream \in [Ends -> Seq(Nat \X (1..Size))]
    /\ arrived \in [Ends -> Nat] /\ taken \in [Ends -> Nat]
    /\ \A e \in Ends : taken[e] <= arrived[e] /\ arrived[e] <= Len(stream[e])
    /\ listening \in [Ends -> BOOLEAN]
    /\ stack \in [Ends -> Seq(Frame)]
    /\ open \in [Ends -> BOOLEAN]
    /\ delivered \in [Ends -> Seq(Nat)]
    /\ calls \in Seq([n : Nat, reply : Nat])
    /\ timeouts \in 0..MaxTimeouts
    /\ \A e \in Ends : listening[e] =>
         open[e] /\ \A k \in DOMAIN stack[e] : stack[e][k].at = "write"

Init ==
    /\ sent = [e \in Ends |-> <<>>]
    /\ stream = [e \in Ends |-> <<>>]
    /\ arrived = [e \in Ends |-> 0]
    /\ taken = [e \in Ends |-> 0]
    /\ listening = [e \in Ends |-> TRUE]
    /\ stack = [e \in Ends |-> <<>>]
    /\ open = [e \in Ends |-> TRUE]
    /\ delivered = [e \in Ends |-> <<>>]
    /\ calls = <<>>
    /\ timeouts = 0

-----------------------------------------------------------------------------
Top(e) == Head(stack[e])
Below(e) == Tail(stack[e])
IsAt(e, places) == stack[e] # <<>> /\ Top(e).at \in places
Syncs(frames) == frames # <<>> /\ Head(frames).at = "sync"

(* writeMessage: the header and the body are written, and waited for.      *)
SendMessage(e, m, frames) ==
    LET p == Peer(e)
        n == Len(sent[p]) + 1
    IN  /\ sent' = [sent EXCEPT ![p] = Append(@, m)]
        /\ stream' = [stream EXCEPT ![p] = IF open[p]
                        THEN @ \o [k \in 1..Size |-> <<n, k>>] ELSE @]
        /\ stack' = [stack EXCEPT ![e] = <<At("write", 0)>> \o frames]

(* The requests of both ends are bounded.                                  *)
RequestsTo(e) == {n \in DOMAIN sent[e] : sent[e][n].kind = "request"}
MaySendRequest ==
    Cardinality(RequestsTo("server")) + Cardinality(RequestsTo("plugin")) < MaxRequests

SendRequest(e, id, frames) ==
    /\ open[e] /\ MaySendRequest
    /\ SendMessage(e, [kind |-> "request", id |-> id, re |-> 0], frames)

(* In the event loop; the server also while it handles a message.          *)
Request(e) ==
    /\ stack[e] = <<>> \/ (e = "server" /\ IsAt(e, {"handle", "handled"}))
    /\ \E id \in Ids : SendRequest(e, id, stack[e])
    /\ UNCHANGED <<arrived, taken, listening, open, delivered, calls, timeouts>>

WriteReturns(e) ==
    /\ IsAt(e, {"write"})
    /\ stack' = [stack EXCEPT ![e] = Below(e)]
    /\ UNCHANGED <<sent, stream, arrived, taken, listening, open, delivered, calls,
                   timeouts>>

-----------------------------------------------------------------------------
(* What is read as a header after t parts.  If it is none, it still tells  *)
(* of a body of some size.                                                 *)
Headers(e, t) ==
    LET n == stream[e][t + 1][1]
    IN  IF \A k \in 1..Header : stream[e][t + k] = <<n, k>>
        THEN {[at |-> "body", n |-> n, need |-> Body, good |-> TRUE]}
        ELSE {[at |-> "body", n |-> 0, need |-> k, good |-> FALSE] : k \in 1..Size}

ReadHeader(e, t, frames) ==
    /\ taken' = [taken EXCEPT ![e] = t + Header]
    /\ \E f \in Headers(e, t) : stack' = [stack EXCEPT ![e] = <<f>> \o frames]

(* Mutant of ReadMessageData: it listens for what is new only.             *)
ReadMessageDataOnce(e, a, t, frames) ==
    /\ taken' = [taken EXCEPT ![e] = t]
    /\ stack' = [stack EXCEPT ![e] = frames]
    /\ listening' = [listening EXCEPT ![e] = TRUE]

(* readMessageData, when a parts have arrived and t been read.             *)
ReadMessageData(e, a, t, frames) ==
    IF a - t < Header
    THEN /\ taken' = [taken EXCEPT ![e] = t]
         /\ stack' = [stack EXCEPT ![e] = frames]
         /\ listening' = [listening EXCEPT ![e] = TRUE]
    ELSE /\ listening' = [listening EXCEPT ![e] = FALSE]
         /\ ReadHeader(e, t, frames)

(* syncRequest returns; reply is 0 if it has failed.                       *)
SyncReturns(e, t, reply, frames) ==
    /\ calls' = Append(calls, [n |-> Head(frames).n, reply |-> reply])
    /\ taken' = [taken EXCEPT ![e] = t]
    /\ listening' = [listening EXCEPT ![e] = TRUE]
    /\ stack' = [stack EXCEPT ![e] = Tail(frames)]

(* readOneMessage or messageAvailable is over, and nothing was returned.   *)
GoOn(e, t, frames) ==
    IF Syncs(frames) THEN SyncReturns(e, t, 0, frames)
    ELSE ReadMessageData(e, arrived[e], t, frames) /\ UNCHANGED calls

(* Mutant of IsReply: the first message is taken for the reply.            *)
IsReplyAny(e, n, frames) == Syncs(frames)

IsReply(e, n, frames) ==
    Syncs(frames) /\ sent[e][n].id = sent[Peer(e)][Head(frames).n].id

(* messageAvailable: a request will be answered, a response will not.      *)
Handling(e, n) == IF n \in RequestsTo(e) THEN "handle" ELSE "handled"

(* Mutant of MessageRead: a message that is not the reply is dropped.      *)
MessageReadDropped(e, n, t, frames) ==
    IF Syncs(frames)
    THEN /\ SyncReturns(e, t, IF IsReply(e, n, frames) THEN n ELSE 0, frames)
         /\ delivered' = IF IsReply(e, n, frames)
                         THEN [delivered EXCEPT ![e] = Append(@, n)] ELSE delivered
    ELSE /\ delivered' = [delivered EXCEPT ![e] = Append(@, n)]
         /\ taken' = [taken EXCEPT ![e] = t]
         /\ stack' = [stack EXCEPT ![e] = <<At(Handling(e, n), n)>> \o frames]
         /\ UNCHANGED <<listening, calls>>

MessageRead(e, n, t, frames) ==
    /\ delivered' = [delivered EXCEPT ![e] = Append(@, n)]
    /\ IF IsReply(e, n, frames) THEN SyncReturns(e, t, n, frames)
       ELSE /\ taken' = [taken EXCEPT ![e] = t]
            /\ stack' = [stack EXCEPT ![e] = <<At(Handling(e, n), n)>> \o frames]
            /\ UNCHANGED <<listening, calls>>

-----------------------------------------------------------------------------
(* Parts arrive wherever the end waits for its device.                     *)
Arrive(e) ==
    /\ open[e]
    /\ \/ stack[e] = <<>>
       \/ IsAt(e, {"write", "sync"})
       \/ IsAt(e, {"body"}) /\ taken[e] = arrived[e]
    /\ \E a \in (arrived[e] + 1)..Len(stream[e]) :
         /\ arrived' = [arrived EXCEPT ![e] = a]
         /\ IF listening[e] THEN ReadMessageData(e, a, taken[e], stack[e])
            ELSE IF IsAt(e, {"sync"}) /\ a - taken[e] >= Header
            THEN ReadHeader(e, taken[e], stack[e]) /\ UNCHANGED listening
            ELSE UNCHANGED <<taken, stack, listening>>
    /\ UNCHANGED <<sent, stream, open, delivered, calls, timeouts>>

(* Mutant of Checked: the sum of the body is not looked at.                *)
CheckedNot(e, f, got) == TRUE

(* The next parts are those of the body that the header tells of: the      *)
(* checksum finds any others.                                              *)
Checked(e, f, got) ==
    f.good /\ \A k \in 1..got : stream[e][taken[e] + k] = <<f.n, Size - f.need + k>>

ReadBody(e) ==
    /\ IsAt(e, {"body"}) /\ taken[e] < arrived[e]
    /\ LET f == Top(e)
           available == arrived[e] - taken[e]
           got == IF available < f.need THEN available ELSE f.need
           good == Checked(e, f, got)
       IN  \/ /\ got < f.need
              /\ taken' = [taken EXCEPT ![e] = @ + got]
              /\ stack' = [stack EXCEPT ![e] =
                             <<[f EXCEPT !.need = @ - got, !.good = good]>> \o Below(e)]
              /\ UNCHANGED <<listening, delivered, calls>>
           \/ got = f.need /\ good /\ MessageRead(e, f.n, taken[e] + got, Below(e))
           \/ got = f.need /\ ~good /\ GoOn(e, taken[e] + got, Below(e))
              /\ UNCHANGED delivered
    /\ UNCHANGED <<sent, stream, arrived, open, timeouts>>

(* The rest of a body does not come in time, or will never come.           *)
BodyTimeout(e) ==
    /\ IsAt(e, {"body"}) /\ taken[e] = arrived[e]
    /\ \/ ~open[Peer(e)] /\ arrived[e] = Len(stream[e]) /\ UNCHANGED timeouts
       \/ timeouts < MaxTimeouts /\ timeouts' = timeouts + 1
    /\ GoOn(e, taken[e], Below(e))
    /\ UNCHANGED <<sent, stream, arrived, open, delivered>>

(* A request is performed, and answered.                                   *)
Answer(e) ==
    /\ IsAt(e, {"handle"})
    /\ SendMessage(e, [kind |-> "response", id |-> sent[e][Top(e).n].id, re |-> Top(e).n],
                   <<At("handled", Top(e).n)>> \o Below(e))
    /\ UNCHANGED <<arrived, taken, listening, open, delivered, calls, timeouts>>

HandlerReturns(e) ==
    /\ IsAt(e, {"handled"})
    /\ GoOn(e, taken[e], Below(e))
    /\ UNCHANGED <<sent, stream, arrived, open, delivered, timeouts>>

(* callFixture: the server wants the reply at once.                        *)
SyncRequest ==
    /\ stack["server"] = <<>>
    /\ \E id \in Ids : SendRequest("server", id, <<At("sync", Len(sent["plugin"]) + 1)>>)
    /\ listening' = [listening EXCEPT !["server"] = FALSE]
    /\ UNCHANGED <<arrived, taken, open, delivered, calls, timeouts>>

(* Nothing new has come for READ_TIME_OUT, whatever had come before.       *)
SyncTimeout ==
    /\ IsAt("server", {"sync"})
    /\ SyncReturns("server", taken["server"], 0, stack["server"])
    /\ UNCHANGED <<sent, stream, arrived, open, delivered, timeouts>>

(* A process ends; some of what it has written still arrives.              *)
Die(e) ==
    /\ open[e]
    /\ open' = [open EXCEPT ![e] = FALSE]
    /\ listening' = [listening EXCEPT ![e] = FALSE]
    /\ stack' = [stack EXCEPT ![e] = <<>>]
    /\ \E k \in arrived[Peer(e)]..Len(stream[Peer(e)]) :
         stream' = [stream EXCEPT ![Peer(e)] = SubSeq(@, 1, k)]
    /\ UNCHANGED <<sent, arrived, taken, delivered, calls, timeouts>>

(* deviceDisconnected and cleanUp, in the event loop.                      *)
DeviceDisconnected(e) ==
    /\ open[e] /\ stack[e] = <<>>
    /\ ~open[Peer(e)] /\ arrived[e] = Len(stream[e])
    /\ open' = [open EXCEPT ![e] = FALSE]
    /\ listening' = [listening EXCEPT ![e] = FALSE]
    /\ UNCHANGED <<sent, stream, arrived, taken, stack, delivered, calls, timeouts>>

Next ==
    \/ \E e \in Ends :
         \/ Request(e) \/ WriteReturns(e) \/ Arrive(e) \/ ReadBody(e) \/ BodyTimeout(e)
         \/ Answer(e) \/ HandlerReturns(e) \/ Die(e) \/ DeviceDisconnected(e)
    \/ SyncRequest
    \/ SyncTimeout

Spec == Init /\ [][Next]_vars

(* What was written arrives, whoever waits goes on, handlers return.       *)
FairSpec ==
    /\ Spec
    /\ WF_vars(SyncTimeout)
    /\ \A e \in Ends :
         /\ WF_vars(Arrive(e)) /\ WF_vars(ReadBody(e)) /\ WF_vars(WriteReturns(e))
         /\ WF_vars(Answer(e)) /\ WF_vars(HandlerReturns(e))
         /\ WF_vars(BodyTimeout(e)) /\ WF_vars(DeviceDisconnected(e))

-----------------------------------------------------------------------------
(* However messages are cut into pieces, and even if the rest of one never *)
(* comes and the reader goes on in the middle of it, what an end reads are *)
(* messages that it was sent, in order and each once.                      *)
NothingGarbled ==
    \A e \in Ends : \A k \in DOMAIN delivered[e] :
        /\ delivered[e][k] \in DOMAIN sent[e]
        /\ \A j \in 1..(k - 1) : delivered[e][j] < delivered[e][k]

(* Unless one was torn, no message is left out: none that syncRequest read *)
(* instead of its reply, and none that came while another was handled.     *)
NothingLost ==
    timeouts = 0 => \A e \in Ends : \A k \in DOMAIN delivered[e] : delivered[e][k] = k

(* When no two requests have the same id, what syncRequest returns is the  *)
(* response to the request that it has sent, not a late one to another.    *)
UniqueIds ==
    \A d, e \in Ends : \A j \in DOMAIN sent[d], k \in DOMAIN sent[e] :
        /\ sent[d][j].kind = "request" /\ sent[e][k].kind = "request"
        /\ sent[d][j].id = sent[e][k].id
        => d = e /\ j = k
ReplyIsOwn ==
    UniqueIds => \A k \in DOMAIN calls :
        calls[k].reply # 0 => sent["server"][calls[k].reply].re = calls[k].n

(* Every message is read in the end, as long as both processes run and     *)
(* none is torn; at the server, as long as it makes no synchronous request *)
(* either, which leaves behind unread what came together with its reply.   *)
EveryMessageIsRead ==
    \A e \in Ends : \A n \in 1..MaxRequests :
        Len(sent[e]) >= n ~> \/ \E k \in DOMAIN delivered[e] : delivered[e][k] = n
                             \/ ~open["server"] \/ ~open["plugin"] \/ timeouts > 0
                             \/ e = "server" /\ calls # <<>>
=============================================================================
