-------------------------- MODULE Registration_proofs --------------------------
(***************************************************************************)
(* What holds of registering for any processes, connections and number of  *)
(* disturbances.  First the registry by itself (ClientManager), then the   *)
(* plugins and the server together.                                        *)
(***************************************************************************)
EXTENDS Registration, TLAPS

-----------------------------------------------------------------------------
(* A client never holds the pointer of a socket that does not exist,       *)
(* whatever operations of the registry follow each other.                  *)

(* NoDanglingSocket is inductive once the types are known: a socket is     *)
(* only ever the one of its owner, so that the end of one client's socket  *)
(* leaves the others' alone.                                               *)
RegistryInv == RegistryTypeOK /\ NoDanglingSocket

(* Forgetting clients keeps the types.                                     *)
LEMMA ForgetTypes ==
    ASSUME RegistryTypeOK, NEW P \in SUBSET Pids, Forget(P)
    PROVE  /\ mClients' \subseteq Pids
           /\ mSocket' \in [Pids -> Sockets \cup {None}]
           /\ listens' \subseteq Sockets
  BY DEF RegistryTypeOK, Forget

(* The clients that are left keep their sockets and go on listening.       *)
LEMMA ForgetKeepsOthers ==
    ASSUME RegistryInv, NEW P \in SUBSET Pids, Forget(P),
           NEW q \in Pids, mSocket'[q] # None
    PROVE  /\ q \notin P
           /\ mSocket'[q] = mSocket[q]
           /\ q \in mClients'
           /\ Owner[mSocket'[q]] = q
           /\ mSocket'[q] \in live \cap listens'
  <1>1. q \notin P /\ mSocket'[q] = mSocket[q]
    BY DEF Forget, RegistryInv, RegistryTypeOK
  <1>2. q \in mClients /\ Owner[mSocket[q]] = q /\ mSocket[q] \in live \cap listens
    BY <1>1 DEF RegistryInv, NoDanglingSocket
  <1>3. mSocket[q] \notin SocketsOf(P)
    BY <1>1, <1>2 DEF SocketsOf
  <1>. QED  BY <1>1, <1>2, <1>3 DEF Forget

LEMMA RegistryInitial == RegistryInit => RegistryInv
  BY ConnectionsAssumption
  DEF RegistryInit, RegistryInv, RegistryTypeOK, NoDanglingSocket

(* Registering changes the socket of one client only.                      *)
LEMMA RegisterKeeps ==
    ASSUME RegistryInv, NEW s \in live, AddRegisteredClient(Owner[s], s)
    PROVE  RegistryInv'
  <1>. DEFINE p == Owner[s]
  <1>1. s \in Sockets /\ p \in Pids
    BY ConnectionsAssumption DEF RegistryInv, RegistryTypeOK
  <1>2. RegistryTypeOK'
    BY <1>1 DEF RegistryInv, RegistryTypeOK, AddRegisteredClient
  <1>3. NoDanglingSocket'
    <2>1. SUFFICES ASSUME NEW q \in Pids, mSocket'[q] # None
                   PROVE  /\ q \in mClients'
                          /\ Owner[mSocket'[q]] = q
                          /\ mSocket'[q] \in live' \cap listens'
      BY DEF NoDanglingSocket
    <2>2. CASE q = p
      BY <1>1, <2>2 DEF AddRegisteredClient, RegistryInv, RegistryTypeOK
    <2>3. CASE q # p
      <3>1. mSocket'[q] = mSocket[q]
        BY <2>3 DEF AddRegisteredClient, RegistryInv, RegistryTypeOK
      <3>. QED  BY <2>1, <3>1 DEF AddRegisteredClient, RegistryInv, NoDanglingSocket
    <2>. QED  BY <2>2, <2>3
  <1>. QED  BY <1>2, <1>3 DEF RegistryInv

(* Every operation of the registry preserves the invariant.                *)
LEMMA RegistryStep == RegistryInv /\ [RegistryNext]_registry => RegistryInv'
  <1>. SUFFICES ASSUME RegistryInv, [RegistryNext]_registry
                PROVE  RegistryInv'
    OBVIOUS
  <1>. USE ConnectionsAssumption
  <1>1. ASSUME NEW s \in Sockets, IncomingConnection(s)
        PROVE  RegistryInv'
    BY <1>1 DEF IncomingConnection, RegistryInv, RegistryTypeOK, NoDanglingSocket
  <1>2. ASSUME NEW s \in Sockets, SocketClosed(s)
        PROVE  RegistryInv'
    <2>1. CASE s \in listens
      <3>1. Forget({Owner[s]}) /\ live' = live \ {s}
            /\ mStartedPids' = mStartedPids \ {Owner[s]}
        BY <1>2, <2>1 DEF SocketClosed
      <3>2. {Owner[s]} \in SUBSET Pids
        OBVIOUS
      <3>3. RegistryTypeOK'
        BY <3>1, <3>2, ForgetTypes DEF RegistryInv, RegistryTypeOK
      <3>4. ASSUME NEW q \in Pids, mSocket'[q] # None
            PROVE  /\ q \in mClients'
                   /\ Owner[mSocket'[q]] = q
                   /\ mSocket'[q] \in live' \cap listens'
        BY <3>1, <3>2, <3>4, ForgetKeepsOthers
      <3>. QED  BY <3>3, <3>4 DEF RegistryInv, NoDanglingSocket
    <2>2. CASE s \notin listens
      BY <1>2, <2>2 DEF SocketClosed, RegistryInv, RegistryTypeOK, NoDanglingSocket
    <2>. QED  BY <2>1, <2>2
  <1>3. ASSUME NEW s \in live, AddRegisteredClient(Owner[s], s)
        PROVE  RegistryInv'
    BY <1>3, RegisterKeeps
  <1>4. ASSUME NEW p \in Pids, AddClient(p) \/ AddStartedPid(p)
        PROVE  RegistryInv'
    BY <1>4 DEF AddClient, AddStartedPid, RegistryInv, RegistryTypeOK, NoDanglingSocket
  <1>5. ASSUME NEW p \in Pids, RemoveClient(p)
        PROVE  RegistryInv'
    <2>1. CASE p \in mClients
      <3>1. Forget({p}) /\ live' = live \ {mSocket[p]} /\ mStartedPids' = mStartedPids \ {p}
        BY <1>5, <2>1 DEF RemoveClient
      <3>2. RegistryTypeOK'
        BY <3>1, ForgetTypes DEF RegistryInv, RegistryTypeOK
      <3>3. ASSUME NEW q \in Pids, mSocket'[q] # None
            PROVE  /\ q \in mClients'
                   /\ Owner[mSocket'[q]] = q
                   /\ mSocket'[q] \in live' \cap listens'
        <4>1. /\ q # p /\ mSocket'[q] = mSocket[q] /\ q \in mClients'
              /\ Owner[mSocket'[q]] = q /\ mSocket'[q] \in live \cap listens'
          BY <3>1, <3>3, ForgetKeepsOthers
        <4>2. mSocket[q] # mSocket[p]
          BY <3>3, <4>1 DEF RegistryInv, NoDanglingSocket
        <4>. QED  BY <3>1, <4>1, <4>2
      <3>. QED  BY <3>2, <3>3 DEF RegistryInv, NoDanglingSocket
    <2>2. CASE p \notin mClients
      BY <1>5, <2>2 DEF RemoveClient, registry, RegistryInv, RegistryTypeOK, NoDanglingSocket
    <2>. QED  BY <2>1, <2>2
  <1>6. ASSUME NEW p \in Pids, VerifyClient(p)
        PROVE  RegistryInv'
    <2>1. Forget({p}) /\ live' = live /\ mStartedPids' = mStartedPids \ {p}
      BY <1>6 DEF VerifyClient
    <2>2. RegistryTypeOK'
      BY <2>1, ForgetTypes DEF RegistryInv, RegistryTypeOK
    <2>3. ASSUME NEW q \in Pids, mSocket'[q] # None
          PROVE  /\ q \in mClients'
                 /\ Owner[mSocket'[q]] = q
                 /\ mSocket'[q] \in live' \cap listens'
      BY <2>1, <2>3, ForgetKeepsOthers
    <2>. QED  BY <2>2, <2>3 DEF RegistryInv, NoDanglingSocket
  <1>7. ASSUME RemoveAllClients
        PROVE  RegistryInv'
    <2>1. /\ Forget(mClients) /\ live' \subseteq live
          /\ mStartedPids' = mStartedPids \ mClients /\ mClients \in SUBSET Pids
      BY <1>7 DEF RemoveAllClients, RegistryInv, RegistryTypeOK
    <2>2. RegistryTypeOK'
      BY <2>1, ForgetTypes DEF RegistryInv, RegistryTypeOK
    <2>3. ASSUME NEW q \in Pids, mSocket'[q] # None
          PROVE  FALSE
      <3>1. q \notin mClients /\ mSocket'[q] = mSocket[q]
        BY <2>1, <2>3, ForgetKeepsOthers
      <3>. QED  BY <2>3, <3>1 DEF RegistryInv, NoDanglingSocket
    <2>. QED  BY <2>2, <2>3 DEF RegistryInv, NoDanglingSocket
  <1>8. ASSUME Shutdown
        PROVE  RegistryInv'
    BY <1>8 DEF Shutdown, RegistryInv, RegistryTypeOK, NoDanglingSocket
  <1>9. ASSUME UNCHANGED registry
        PROVE  RegistryInv'
    BY <1>9 DEF registry, RegistryInv, RegistryTypeOK, NoDanglingSocket
  <1>. QED
    BY <1>1, <1>2, <1>3, <1>4, <1>5, <1>6, <1>7, <1>8, <1>9 DEF RegistryNext

(* The invariant holds in every state the registry can come to.            *)
THEOREM RegistryInvariant == RegistrySpec => []RegistryInv
  <1>. QED  BY RegistryInitial, RegistryStep, PTL DEF RegistrySpec

(* Whatever the order in which clients register, are removed, vanish and   *)
(* lose their connections, a client's socket is a socket that exists.      *)
THEOREM SocketsDoNotDangle == RegistrySpec => []NoDanglingSocket
  <1>1. RegistryInv => NoDanglingSocket
    BY DEF RegistryInv
  <1>. QED  BY RegistryInvariant, <1>1, PTL
-----------------------------------------------------------------------------
(* The composed system.                                                   *)

(* Each step of the system is one operation of the registry, or leaves it  *)
(* alone.                                                                  *)
LEMMA StepIsRegistryStep == [Next]_vars => [RegistryNext]_registry
  <1>. SUFFICES ASSUME Next
                PROVE  RegistryNext \/ UNCHANGED registry
    BY DEF vars, registry
  <1>. USE ConnectionsAssumption DEF RegistryNext
  <1>1. ASSUME NEW p \in Pids,
               StartByUser(p) \/ PluginTimers(p) \/ RegisterTimeout(p) \/ LinkLost(p)
               \/ PluginReads(p) \/ Quits(p) \/ Crash(p) \/ AskToClose(p)
               \/ \E s \in Sockets : Connect(p, s)
        PROVE  UNCHANGED registry
    BY <1>1 DEF StartByUser, PluginTimers, RegisterTimeout, LinkLost, PluginReads,
                Quits, Crash, AskToClose, Connect, PluginOnly
  <1>2. ASSUME NEW p \in Pids,
               StartByServer(p) \/ LookUp(p) \/ CloseFilter(p)
        PROVE  RegistryNext
    BY <1>2 DEF StartByServer, LookUp, CloseFilter
  <1>3. ASSUME NEW s \in Sockets, Accept(s) \/ ReadUnregister(s) \/ Eof(s)
        PROVE  RegistryNext
    BY <1>3 DEF Accept, ReadUnregister, Eof
  <1>4. ASSUME NEW s \in Sockets, ReadRegister(s)
        PROVE  RegistryNext
    <2>1. s \in live /\ AddRegisteredClient(Owner[s], s)
      BY <1>4 DEF ReadRegister, HasRequest
    <2>. QED  BY <2>1
  <1>5. ASSUME KillAll \/ ServerEnds
        PROVE  RegistryNext
    BY <1>5 DEF KillAll, ServerEnds
  <1>6. ASSUME ServerStarts
        PROVE  UNCHANGED registry
    BY <1>6 DEF ServerStarts
  <1>. QED  BY <1>1, <1>2, <1>3, <1>4, <1>5, <1>6 DEF Next

(* The composed system implements the registry.                            *)
THEOREM ImplementsRegistry == Spec => RegistrySpec
  <1>1. Init => RegistryInit
    BY DEF Init
  <1>. QED  BY <1>1, StepIsRegistryStep, PTL DEF Spec, RegistrySpec

(* So whatever plugins, framework and crashes do, the server's clients have *)
(* sockets that exist and belong to them.                                  *)
THEOREM RegisteredSocketsDoNotDangle == Spec => []NoDanglingSocket
  BY ImplementsRegistry, SocketsDoNotDangle, PTL

-----------------------------------------------------------------------------
(* The flags of the plugins that decide about registering again.           *)
FlagsOK ==
    /\ app \in [Pids -> {"off", "running", "closing"}]
    /\ mRegisterWatchDog \in [Pids -> BOOLEAN]
    /\ mRegisterTime \in [Pids -> BOOLEAN]
    /\ mRegistered \in [Pids -> BOOLEAN]

(* Inductive: a timer that stops has started the other one, or the         *)
(* registration has come to its end.                                       *)
TimersInv == FlagsOK /\ NeverForgotten

LEMMA ConnectionClosedArms ==
    ASSUME TimersInv, NEW p \in Pids, ConnectionClosed(p)
    PROVE  TimersInv'
  BY DEF ConnectionClosed, TimersInv, FlagsOK, NeverForgotten

LEMMA RegisterBeginsTimer ==
    ASSUME TimersInv, NEW p \in Pids, RegisterBegins(p),
           UNCHANGED <<app, mRegistered>>
    PROVE  TimersInv'
  <1>1. mRegisterWatchDog' \in [Pids -> BOOLEAN]
        /\ \A q \in Pids \ {p} : mRegisterWatchDog'[q] = mRegisterWatchDog[q]
    BY DEF RegisterBegins, Triggered, TimersInv, FlagsOK
  <1>2. mRegisterTime' \in [Pids -> BOOLEAN] /\ mRegisterTime'[p]
        /\ \A q \in Pids \ {p} : mRegisterTime'[q] = mRegisterTime[q]
    BY DEF RegisterBegins, TimersInv, FlagsOK
  <1>. QED  BY <1>1, <1>2 DEF TimersInv, FlagsOK, NeverForgotten

(* A trigger that comes to nothing is spent only while the other timer     *)
(* runs.                                                                   *)
LEMMA RegisterNotKeeps ==
    ASSUME TimersInv, NEW p \in Pids, RegisterNot(p)
    PROVE  TimersInv'
  <1>1. mRegisterWatchDog' \in [Pids -> BOOLEAN]
        /\ \A q \in Pids \ {p} : mRegisterWatchDog'[q] = mRegisterWatchDog[q]
    BY DEF RegisterNot, Triggered, TimersInv, FlagsOK
  <1>2. UNCHANGED <<app, mRegisterTime, mRegistered>> /\ ~MayRegister(p)
    BY DEF RegisterNot
  <1>3. app[p] = "running" /\ ~mRegistered[p] => mRegisterTime[p]
    BY <1>2 DEF MayRegister
  <1>. QED  BY <1>1, <1>2, <1>3 DEF TimersInv, FlagsOK, NeverForgotten

LEMMA EndKeeps ==
    ASSUME TimersInv, NEW P \in SUBSET Pids, End(P)
    PROVE  TimersInv'
  BY DEF End, TimersInv, FlagsOK, NeverForgotten

LEMMA StartArms ==
    ASSUME TimersInv, NEW p \in Pids, Start(p)
    PROVE  TimersInv'
  BY DEF Start, TimersInv, FlagsOK, NeverForgotten

LEMMA KillKeeps ==
    ASSUME TimersInv, NEW P \in SUBSET Pids, Kill(P)
    PROVE  TimersInv'
  <1>. DEFINE killed == {p \in P : Running(p)}
  <1>1. CASE killed = {}
    BY <1>1 DEF Kill, service, TimersInv, FlagsOK, NeverForgotten
  <1>2. CASE killed # {}
    BY <1>2, EndKeeps DEF Kill, Die
  <1>. QED  BY <1>1, <1>2

LEMMA TimersStep == TimersInv /\ mClients \subseteq Pids /\ [Next]_vars => TimersInv'
  <1>. SUFFICES ASSUME TimersInv, mClients \subseteq Pids, [Next]_vars
                PROVE  TimersInv'
    OBVIOUS
  <1>1. ASSUME NEW p \in Pids, StartByServer(p) \/ StartByUser(p)
        PROVE  TimersInv'
    BY <1>1, StartArms DEF StartByServer, StartByUser
  <1>2. ASSUME NEW p \in Pids, PluginTimers(p)
        PROVE  TimersInv'
    <2>1. CASE Paint(p)
      BY <2>1 DEF Paint, TimersInv, FlagsOK, NeverForgotten
    <2>2. CASE RegisterNot(p)
      BY <2>2, RegisterNotKeeps
    <2>3. CASE RegisterPluginRefused(p)
      BY <2>3, RegisterBeginsTimer DEF RegisterPluginRefused
    <2>. QED  BY <1>2, <2>1, <2>2, <2>3 DEF PluginTimers
  <1>3. ASSUME NEW p \in Pids, NEW s \in Sockets, Connect(p, s)
        PROVE  TimersInv'
    BY <1>3, RegisterBeginsTimer DEF Connect, RegisterPlugin
  <1>4. ASSUME NEW p \in Pids, RegisterTimeout(p) \/ LinkLost(p)
        PROVE  TimersInv'
    BY <1>4, ConnectionClosedArms DEF RegisterTimeout, Timeout, LinkLost
  <1>5. ASSUME NEW p \in Pids, PluginReads(p)
        PROVE  TimersInv'
    <2>1. CASE ServiceResponse(p)
      <3>1. CASE ConnectionClosed(p)
        BY <3>1, ConnectionClosedArms
      <3>2. CASE ~ConnectionClosed(p)
        BY <2>1, <3>2 DEF ServiceResponse, TimersInv, FlagsOK, NeverForgotten
      <3>. QED  BY <3>1, <3>2
    <2>2. CASE RequestQuit(p)
      BY <2>2 DEF RequestQuit, TimersInv, FlagsOK, NeverForgotten
    <2>. QED  BY <1>5, <2>1, <2>2 DEF PluginReads
  <1>6. ASSUME NEW p \in Pids, Quits(p) \/ Crash(p)
        PROVE  TimersInv'
    BY <1>6, EndKeeps DEF Quits, Quit, Crash, Die
  <1>7. ASSUME NEW p \in Pids, CloseFilter(p)
        PROVE  TimersInv'
    BY <1>7, KillKeeps DEF CloseFilter
  <1>8. ASSUME KillAll
        PROVE  TimersInv'
    <2>1. mClients \cap mStartedPids \in SUBSET Pids
      OBVIOUS
    <2>. QED  BY <1>8, <2>1, KillKeeps DEF KillAll
  <1>9. ASSUME UNCHANGED service
        PROVE  TimersInv'
    BY <1>9 DEF service, TimersInv, FlagsOK, NeverForgotten
  <1>10. ASSUME NEW p \in Pids, LookUp(p) \/ AskToClose(p)
         PROVE  UNCHANGED service
    BY <1>10 DEF LookUp, AskToClose
  <1>11. ASSUME NEW s \in Sockets,
                Accept(s) \/ ReadRegister(s) \/ ReadUnregister(s) \/ Eof(s)
         PROVE  UNCHANGED service
    BY <1>11 DEF Accept, ReadRegister, ReadUnregister, Eof
  <1>12. ASSUME ServerEnds \/ ServerStarts \/ UNCHANGED vars
         PROVE  UNCHANGED service
    BY <1>12 DEF ServerEnds, ServerStarts, vars
  <1>. QED
    BY <1>1, <1>2, <1>3, <1>4, <1>5, <1>6, <1>7, <1>8, <1>9, <1>10, <1>11, <1>12
    DEF Next

(* A running application that is not registered is about to try, in every  *)
(* state: no sequence of losses, late answers and server crashes makes it  *)
(* give up.                                                                *)
THEOREM NobodyIsForgotten == Spec => []NeverForgotten
  <1>1. Init => TimersInv
    BY DEF Init, ServiceInit, TimersInv, FlagsOK, NeverForgotten
  <1>2. Spec => []RegistryInv
    BY ImplementsRegistry, RegistryInvariant, PTL
  <1>3. RegistryInv => mClients \subseteq Pids
    BY DEF RegistryInv, RegistryTypeOK
  <1>4. TimersInv => NeverForgotten
    BY DEF TimersInv
  <1>. QED  BY <1>1, <1>2, <1>3, <1>4, TimersStep, PTL DEF Spec

(* A closing application has no way into Connect.                          *)
THEOREM ClosingStaysAway == Spec => ClosingNeverReturns
  <1>. DEFINE Links == link \in [Pids -> Sockets \cup {None}]
  <1>1. Init => Links
    BY DEF Init, ServiceInit
  <1>2. ASSUME Links, mClients \subseteq Pids, [Next]_vars
        PROVE  /\ Links'
               /\ \A p \in Pids : app[p] = "closing" => link'[p] \in {link[p], None}
    <2>. USE <1>2
    <2>1. ASSUME link' = link
          PROVE  /\ Links'
                 /\ \A p \in Pids : app[p] = "closing" => link'[p] \in {link[p], None}
      BY <2>1
    <2>2. ASSUME NEW p \in Pids, ConnectionClosed(p)
          PROVE  /\ Links'
                 /\ \A q \in Pids : app[q] = "closing" => link'[q] \in {link[q], None}
      BY <2>2 DEF ConnectionClosed
    <2>3. ASSUME NEW P, End(P)
          PROVE  /\ Links'
                 /\ \A q \in Pids : app[q] = "closing" => link'[q] \in {link[q], None}
      BY <2>3 DEF End
    <2>4. ASSUME NEW p \in Pids, NEW s \in Sockets, Connect(p, s)
          PROVE  /\ Links'
                 /\ \A q \in Pids : app[q] = "closing" => link'[q] \in {link[q], None}
      BY <2>4 DEF Connect, RegisterPlugin, RegisterBegins, MayRegister
    <2>5. ASSUME NEW P, Kill(P)
          PROVE  /\ Links'
                 /\ \A q \in Pids : app[q] = "closing" => link'[q] \in {link[q], None}
      BY <2>1, <2>3, <2>5 DEF Kill, Die, service
    <2>6. ASSUME NEW p \in Pids,
                 StartByServer(p) \/ StartByUser(p) \/ PluginTimers(p) \/ LookUp(p)
                 \/ AskToClose(p)
          PROVE  link' = link
      BY <2>6 DEF StartByServer, StartByUser, Start, PluginTimers, Paint, RegisterNot,
                  RegisterPluginRefused, LookUp, AskToClose, service
    <2>7. ASSUME NEW p \in Pids, RegisterTimeout(p) \/ LinkLost(p)
          PROVE  ConnectionClosed(p)
      BY <2>7 DEF RegisterTimeout, Timeout, LinkLost
    <2>8. ASSUME NEW p \in Pids, PluginReads(p)
          PROVE  ConnectionClosed(p) \/ link' = link
      BY <2>8 DEF PluginReads, ServiceResponse, RequestQuit
    <2>9. ASSUME NEW p \in Pids, Quits(p) \/ Crash(p)
          PROVE  End({p})
      BY <2>9 DEF Quits, Quit, Crash, Die
    <2>10. ASSUME KillAll \/ \E p \in Pids : CloseFilter(p)
           PROVE  \E P : Kill(P)
      BY <2>10 DEF KillAll, CloseFilter
    <2>11. ASSUME NEW s \in Sockets,
                  Accept(s) \/ ReadRegister(s) \/ ReadUnregister(s) \/ Eof(s)
           PROVE  link' = link
      BY <2>11 DEF Accept, ReadRegister, ReadUnregister, Eof, service
    <2>12. ASSUME ServerEnds \/ ServerStarts \/ UNCHANGED vars
           PROVE  link' = link
      BY <2>12 DEF ServerEnds, ServerStarts, vars, service
    <2>13. CASE UNCHANGED vars
      BY <2>1, <2>12, <2>13
    <2>14. CASE Next
      BY <2>1, <2>2, <2>3, <2>4, <2>5, <2>6, <2>7, <2>8, <2>9, <2>10, <2>11, <2>12,
         <2>14 DEF Next
    <2>. QED  BY <2>13, <2>14
  <1>3. Spec => []RegistryInv
    BY ImplementsRegistry, RegistryInvariant, PTL
  <1>4. RegistryInv => mClients \subseteq Pids
    BY DEF RegistryInv, RegistryTypeOK
  <1>5. Links /\ mClients \subseteq Pids /\ [Next]_vars
        => /\ Links'
           /\ [\A p \in Pids : app[p] = "closing" => link'[p] \in {link[p], None}]_vars
    BY <1>2
  <1>. HIDE DEF Links
  <1>. QED
    BY <1>1, <1>3, <1>4, <1>5, PTL DEF Spec, ClosingNeverReturns

-----------------------------------------------------------------------------
(* Type correctness: message queues included, so that what is read is a    *)
(* message, and nothing waits where there is nobody to read it.            *)

LEMMA HeadTail ==
    ASSUME NEW S, NEW q \in Seq(S), q # <<>>
    PROVE  Head(q) \in S /\ Tail(q) \in Seq(S)
  OBVIOUS

LEMMA NextIdType ==
    ASSUME ServiceTypeOK, NEW p \in Pids
    PROVE  NextId(p) \in 0..MaxId
  BY MaxIdAssumption DEF ServiceTypeOK, NextId

LEMMA UnreadType ==
    ASSUME NEW q \in [Sockets -> Seq(ToServer)]
    PROVE  /\ Unread(q) \in [Sockets -> Seq(ToServer)]
           /\ \A s \in Sockets : s \notin live' \cup backlog' => Unread(q)[s] = <<>>
  BY DEF Unread

(* Nothing is left where nobody reads.                                     *)
Quiet ==
    /\ \A s \in Sockets \ Held : toServer[s] = <<>>
    /\ \A s \in Sockets \ opened : toPlugin[s] = <<>>

LEMMA EndTypes ==
    ASSUME TypeOK, NEW P \in SUBSET Pids, End(P),
           toServer' \in [Sockets -> Seq(ToServer)]
    PROVE  /\ ServiceTypeOK'
           /\ \A s \in Sockets \ opened' : toPlugin'[s] = <<>>
<1>1. /\ opened' \subseteq Sockets
      /\ toPlugin' \in [Sockets -> Seq(ToPlugin)]
      /\ \A s \in Sockets \ opened' : toPlugin'[s] = <<>>
  BY DEF TypeOK, ServiceTypeOK, End
<1>2. /\ app' \in [Pids -> {"off", "running", "closing"}]
      /\ link' \in [Pids -> Sockets \cup {None}]
  BY DEF TypeOK, ServiceTypeOK, End
<1>3. mMessageId' \in [Pids -> 0..MaxId]
  BY MaxIdAssumption DEF TypeOK, ServiceTypeOK, End
<1>4. /\ eventFilter' \in [Pids -> BOOLEAN] /\ mPaintTracker' \in [Pids -> BOOLEAN]
      /\ mRegisterWatchDog' \in [Pids -> BOOLEAN]
      /\ mRegisterTime' \in [Pids -> BOOLEAN]
      /\ mRegistered' \in [Pids -> BOOLEAN] /\ responseHandler' \in [Pids -> BOOLEAN]
  BY DEF TypeOK, ServiceTypeOK, End
<1>5. QED
  BY <1>1, <1>2, <1>3, <1>4 DEF ServiceTypeOK

LEMMA ConnectionClosedTypes ==
    ASSUME TypeOK, NEW p \in Pids, ConnectionClosed(p)
    PROVE  /\ ServiceTypeOK' /\ toServer' = toServer
           /\ \A s \in Sockets \ opened' : toPlugin'[s] = <<>>
  BY DEF TypeOK, ServiceTypeOK, ConnectionClosed

LEMMA StartTypes ==
    ASSUME TypeOK, NEW p \in Pids, Start(p)
    PROVE  ServiceTypeOK' /\ UNCHANGED connections
  BY DEF TypeOK, ServiceTypeOK, Start, connections

LEMMA TimersTypes ==
    ASSUME TypeOK, NEW p \in Pids,
           Paint(p) \/ RegisterNot(p) \/ RegisterPluginRefused(p)
    PROVE  ServiceTypeOK' /\ UNCHANGED connections
<1>1. CASE Paint(p)
  BY <1>1 DEF TypeOK, ServiceTypeOK, Paint, connections
<1>2. CASE RegisterNot(p)
  BY <1>2 DEF TypeOK, ServiceTypeOK, RegisterNot, Triggered, connections
<1>3. CASE RegisterPluginRefused(p)
  BY <1>3 DEF TypeOK, ServiceTypeOK, RegisterPluginRefused, RegisterBegins,
              Triggered, connections
<1>4. QED
  BY <1>1, <1>2, <1>3

LEMMA RegisterPluginTypes ==
    ASSUME TypeOK, NEW p \in Pids, NEW s \in Sockets, RegisterPlugin(p, s)
    PROVE  /\ ServiceTypeOK'
           /\ opened' = opened \cup {s} /\ toPlugin' = toPlugin
           /\ \A t \in Sockets : t # s => toServer'[t] = toServer[t]
<1>1. NextId(p) \in 0..MaxId
  BY NextIdType DEF TypeOK
<1>2. [what |-> "register", id |-> NextId(p)] \in ToServer
  BY <1>1 DEF ToServer
<1> DEFINE m == [what |-> "register", id |-> NextId(p)]
<1>3. toServer' = [toServer EXCEPT ![s] = Append(@, m)]
  BY DEF RegisterPlugin, SendRegisterMessage
<1> HIDE DEF m
<1>4. toServer' \in [Sockets -> Seq(ToServer)]
  BY <1>2, <1>3 DEF TypeOK, ServiceTypeOK, m
<1>5. mMessageId' \in [Pids -> 0..MaxId]
  BY <1>1 DEF TypeOK, ServiceTypeOK, RegisterPlugin, SendRegisterMessage
<1>6. QED
  BY <1>3, <1>4, <1>5 DEF TypeOK, ServiceTypeOK, RegisterPlugin, RegisterBegins,
                          Triggered, SendRegisterMessage

LEMMA PluginReadsTypes ==
    ASSUME TypeOK, NEW p \in Pids, ServiceResponse(p) \/ RequestQuit(p)
    PROVE  /\ ServiceTypeOK' /\ toServer' = toServer
           /\ \A s \in Sockets \ opened' : toPlugin'[s] = <<>>
<1>1. CASE ConnectionClosed(p)
  BY <1>1, ConnectionClosedTypes
<1>2. CASE ~ConnectionClosed(p)
  <2>1. link[p] \in Sockets /\ toPlugin[link[p]] # <<>>
    BY DEF ServiceResponse, RequestQuit, HasMessage, TypeOK, ServiceTypeOK
  <2>2. Tail(toPlugin[link[p]]) \in Seq(ToPlugin)
    BY <2>1, HeadTail DEF TypeOK, ServiceTypeOK
  <2>3. /\ toPlugin' = [toPlugin EXCEPT ![link[p]] = Tail(@)]
        /\ opened' = opened /\ toServer' = toServer
    BY <1>2 DEF ServiceResponse, RequestQuit
  <2>4. toPlugin' \in [Sockets -> Seq(ToPlugin)]
    BY <2>1, <2>2, <2>3 DEF TypeOK, ServiceTypeOK
  <2>5. \A s \in Sockets \ opened' : toPlugin'[s] = <<>>
    BY <2>1, <2>3 DEF TypeOK, ServiceTypeOK
  <2>6. ServiceTypeOK'
    BY <1>2, <2>3, <2>4 DEF ServiceResponse, RequestQuit, TypeOK, ServiceTypeOK
  <2>7. QED
    BY <2>3, <2>5, <2>6
<1>3. QED
  BY <1>1, <1>2

LEMMA KillTypes ==
    ASSUME TypeOK, NEW P \in SUBSET Pids, Kill(P),
           toServer' \in [Sockets -> Seq(ToServer)]
    PROVE  /\ ServiceTypeOK'
           /\ \A s \in Sockets \ opened' : toPlugin'[s] = <<>>
<1> DEFINE killed == {p \in P : Running(p)}
<1>1. CASE killed = {}
  BY <1>1 DEF Kill, service, TypeOK, ServiceTypeOK
<1>2. CASE killed # {}
  BY <1>2, EndTypes DEF Kill, Die
<1>3. QED
  BY <1>1, <1>2

(* A request is read: of the queues only the one of its connection, and    *)
(* the response goes to an open one.                                       *)
LEMMA ReadTypes ==
    ASSUME TypeOK, NEW s \in Sockets, NEW what, HasRequest(s, what)
    PROVE  /\ s \in live /\ toServer[s] # <<>>
           /\ Head(toServer[s]) \in ToServer /\ Head(toServer[s]).id \in 0..MaxId
           /\ [toServer EXCEPT ![s] = Tail(@)] \in [Sockets -> Seq(ToServer)]
<1>1. s \in live /\ toServer[s] \in Seq(ToServer) /\ toServer[s] # <<>>
  BY DEF HasRequest, TypeOK, ServiceTypeOK
<1>2. Head(toServer[s]) \in ToServer /\ Tail(toServer[s]) \in Seq(ToServer)
  BY <1>1, HeadTail
<1>3. Head(toServer[s]).id \in 0..MaxId
  BY <1>2 DEF ToServer
<1>4. QED
  BY <1>1, <1>2, <1>3 DEF TypeOK, ServiceTypeOK

LEMMA AnswerTypes ==
    ASSUME TypeOK, NEW s \in Sockets, s \in opened, NEW m \in ToPlugin,
           toPlugin' = [toPlugin EXCEPT ![s] = Append(@, m)]
    PROVE  /\ toPlugin' \in [Sockets -> Seq(ToPlugin)]
           /\ \A t \in Sockets \ opened : toPlugin'[t] = <<>>
  BY DEF TypeOK, ServiceTypeOK

LEMMA SentTypes ==
    ASSUME TypeOK, NEW s \in Sockets, s \in Held, NEW m \in ToServer,
           toServer' = [toServer EXCEPT ![s] = Append(@, m)]
    PROVE  /\ toServer' \in [Sockets -> Seq(ToServer)]
           /\ \A t \in Sockets \ Held : toServer'[t] = <<>>
  BY DEF TypeOK, ServiceTypeOK

(* What is remembered of connections that have been overtaken.             *)
LEMMA OvertakenTypes == TypeOK /\ [Next]_vars => overtaken' \subseteq Sockets
<1> SUFFICES ASSUME TypeOK, [Next]_vars
             PROVE  overtaken' \subseteq Sockets
  OBVIOUS
<1>1. CASE overtaken' = overtaken
  BY <1>1 DEF TypeOK
<1>2. ASSUME NEW p \in Pids, NEW s \in Sockets, Connect(p, s)
      PROVE  overtaken' \subseteq Sockets
  BY <1>2 DEF Connect, TypeOK
<1>3. ASSUME NEW s \in Sockets, ReadRegister(s)
      PROVE  overtaken' \subseteq Sockets
  BY <1>3 DEF ReadRegister, TypeOK
<1>4. QED
  BY <1>1, <1>2, <1>3
  DEF Next, vars, StartByServer, StartByUser, PluginTimers, RegisterTimeout, LinkLost,
      PluginReads, Quits, Crash, LookUp, AskToClose, CloseFilter, Accept,
      ReadUnregister, Eof, KillAll, ServerEnds, ServerStarts, PluginOnly

LEMMA TypesStep == TypeOK /\ RegistryTypeOK' /\ [Next]_vars => TypeOK'
<1> SUFFICES ASSUME TypeOK, RegistryTypeOK', [Next]_vars
             PROVE  TypeOK'
  OBVIOUS
<1>0. ASSUME ServiceTypeOK', Quiet', serverUp' \in BOOLEAN,
             backlog' \subseteq Sockets \ live',
             Disturb \/ disturbances' = disturbances
      PROVE  TypeOK'
  BY <1>0, OvertakenTypes, RegistrationAssumption DEF TypeOK, Quiet, Disturb
<1>1. ASSUME NEW p \in Pids, StartByServer(p) \/ StartByUser(p)
      PROVE  TypeOK'
  <2>1. ServiceTypeOK' /\ UNCHANGED <<connections, serverUp, backlog, live>> /\ Disturb
    BY <1>1, StartTypes DEF StartByServer, StartByUser, PluginOnly, registry, AddStartedPid
  <2>2. QED
    BY <1>0, <2>1 DEF TypeOK, Quiet, Held, connections
<1>2. ASSUME NEW p \in Pids, PluginTimers(p)
      PROVE  TypeOK'
  <2>1. ServiceTypeOK' /\ UNCHANGED <<connections, serverUp, backlog, live, disturbances>>
    BY <1>2, TimersTypes DEF PluginTimers, PluginOnly, registry
  <2>2. QED
    BY <1>0, <2>1 DEF TypeOK, Quiet, Held, connections
<1>3. ASSUME NEW p \in Pids, NEW s \in Sockets, Connect(p, s)
      PROVE  TypeOK'
  <2>1. /\ s \notin opened \cup Held /\ backlog' = backlog \cup {s}
        /\ UNCHANGED <<serverUp, live, disturbances>>
    BY <1>3 DEF Connect, registry
  <2>2. /\ ServiceTypeOK'
        /\ opened' = opened \cup {s} /\ toPlugin' = toPlugin
        /\ \A t \in Sockets : t # s => toServer'[t] = toServer[t]
    BY <1>3, RegisterPluginTypes DEF Connect
  <2>3. Quiet'
    BY <2>1, <2>2 DEF TypeOK, Quiet, Held
  <2>4. QED
    BY <1>0, <2>1, <2>2, <2>3 DEF TypeOK, Held
<1>4. ASSUME NEW p \in Pids,
             RegisterTimeout(p) \/ LinkLost(p) \/ PluginReads(p)
      PROVE  TypeOK'
  <2>1. /\ UNCHANGED <<serverUp, live, backlog>>
        /\ Disturb \/ disturbances' = disturbances
    BY <1>4 DEF RegisterTimeout, LinkLost, PluginReads, PluginOnly, registry
  <2>2. /\ ServiceTypeOK' /\ toServer' = toServer
        /\ \A t \in Sockets \ opened' : toPlugin'[t] = <<>>
    BY <1>4, ConnectionClosedTypes, PluginReadsTypes
    DEF RegisterTimeout, Timeout, LinkLost, PluginReads
  <2>3. Quiet'
    BY <2>1, <2>2 DEF TypeOK, Quiet, Held
  <2>4. QED
    BY <1>0, <2>1, <2>2, <2>3 DEF TypeOK
<1>5. ASSUME NEW p \in Pids, Quits(p)
      PROVE  TypeOK'
  <2>1. /\ UNCHANGED <<serverUp, live, backlog>> /\ End({p})
        /\ Disturb \/ disturbances' = disturbances
    BY <1>5 DEF Quits, Quit, PluginOnly, registry
  <2>2. /\ toServer' \in [Sockets -> Seq(ToServer)]
        /\ \A t \in Sockets \ Held : toServer'[t] = <<>>
    <3>1. CASE toServer' = toServer
      BY <3>1 DEF TypeOK, ServiceTypeOK
    <3>2. ASSUME NEW m, m = [what |-> "unregister", id |-> NextId(p)], link[p] \in Held,
                 toServer' = [toServer EXCEPT ![link[p]] = Append(@, m)]
          PROVE  /\ toServer' \in [Sockets -> Seq(ToServer)]
                 /\ \A t \in Sockets \ Held : toServer'[t] = <<>>
      <4>1. m \in ToServer
        BY <3>2, NextIdType DEF TypeOK, ToServer
      <4>2. link[p] \in Sockets
        BY <3>2 DEF Held, TypeOK, RegistryTypeOK
      <4>3. QED
        BY <3>2, <4>1, <4>2, SentTypes
    <3>3. QED
      BY <1>5, <3>1, <3>2 DEF Quits, Quit
  <2>3. /\ ServiceTypeOK'
        /\ \A s \in Sockets \ opened' : toPlugin'[s] = <<>>
    BY <2>1, <2>2, EndTypes
  <2>4. Quiet'
    BY <2>1, <2>2, <2>3 DEF Quiet, Held
  <2>5. QED
    BY <1>0, <2>1, <2>3, <2>4 DEF TypeOK
<1>6. ASSUME NEW p \in Pids, Crash(p)
      PROVE  TypeOK'
  <2>1. UNCHANGED <<serverUp, live, backlog, toServer>> /\ End({p}) /\ Disturb
    BY <1>6 DEF Crash, Die, PluginOnly, registry
  <2>2. /\ ServiceTypeOK'
        /\ \A s \in Sockets \ opened' : toPlugin'[s] = <<>>
    BY <2>1, EndTypes DEF TypeOK, ServiceTypeOK
  <2>3. Quiet'
    BY <2>1, <2>2 DEF TypeOK, Quiet, Held
  <2>4. QED
    BY <1>0, <2>1, <2>2, <2>3 DEF TypeOK
<1>7. ASSUME UNCHANGED <<service, connections, serverUp, disturbances>>,
             live' \subseteq Held, backlog' \subseteq backlog \ live',
             \A s \in Held \ (live' \cup backlog') : toServer[s] = <<>>
      PROVE  TypeOK'
  <2>1. ServiceTypeOK' /\ Quiet'
    BY <1>7 DEF TypeOK, ServiceTypeOK, Quiet, Held, service, connections
  <2>2. QED
    BY <1>0, <1>7, <2>1 DEF TypeOK
<1>8. ASSUME NEW p \in Pids, LookUp(p)
      PROVE  TypeOK'
  BY <1>7, <1>8 DEF LookUp, VerifyClient, Held, TypeOK
<1>9. ASSUME NEW p \in Pids, AskToClose(p)
      PROVE  TypeOK'
  <2>1. /\ UNCHANGED <<registry, service, opened, toServer, serverUp, backlog>>
        /\ Disturb /\ mSocket[p] \in opened
        /\ toPlugin' = [toPlugin EXCEPT ![mSocket[p]] =
                          Append(@, [what |-> "close", id |-> 0])]
    BY <1>9 DEF AskToClose
  <2>2. [what |-> "close", id |-> 0] \in ToPlugin /\ mSocket[p] \in Sockets
    BY <2>1, MaxIdAssumption DEF ToPlugin, TypeOK, ServiceTypeOK
  <2>3. /\ toPlugin' \in [Sockets -> Seq(ToPlugin)]
        /\ \A t \in Sockets \ opened : toPlugin'[t] = <<>>
    BY <2>1, <2>2, AnswerTypes
  <2>4. ServiceTypeOK' /\ Quiet'
    BY <2>1, <2>3 DEF TypeOK, ServiceTypeOK, Quiet, Held, registry, service
  <2>5. QED
    BY <1>0, <2>1, <2>4 DEF TypeOK, registry
<1>10. ASSUME NEW s \in Sockets, Accept(s)
       PROVE  TypeOK'
  BY <1>7, <1>10 DEF Accept, IncomingConnection, Held, TypeOK
<1>11. ASSUME NEW s \in Sockets, ReadRegister(s)
       PROVE  TypeOK'
  <2>1. /\ UNCHANGED <<service, opened, serverUp, backlog, disturbances, live>>
        /\ toServer' = [toServer EXCEPT ![s] = Tail(@)] /\ Respond(s)
        /\ HasRequest(s, "register")
    BY <1>11 DEF ReadRegister, AddRegisteredClient
  <2>2. /\ s \in live /\ toServer' \in [Sockets -> Seq(ToServer)]
        /\ [what |-> "response", id |-> Head(toServer[s]).id] \in ToPlugin
    BY <2>1, ReadTypes DEF ToPlugin
  <2>3. /\ toPlugin' \in [Sockets -> Seq(ToPlugin)]
        /\ \A t \in Sockets \ opened : toPlugin'[t] = <<>>
    BY <2>1, <2>2, AnswerTypes DEF Respond, TypeOK, ServiceTypeOK
  <2>4. ServiceTypeOK' /\ Quiet'
    BY <2>1, <2>2, <2>3 DEF TypeOK, ServiceTypeOK, Quiet, Held, service
  <2>5. QED
    BY <1>0, <2>1, <2>4 DEF TypeOK
<1>12. ASSUME NEW q \in [Sockets -> Seq(ToServer)], toServer' = Unread(q),
              live' \subseteq live, backlog' \subseteq backlog, serverUp' \in BOOLEAN,
              ServiceTypeOK' \/ UNCHANGED <<service, opened, toPlugin>>,
              \A s \in Sockets \ opened' : toPlugin'[s] = <<>>,
              Disturb \/ disturbances' = disturbances
       PROVE  TypeOK'
  <2>1. /\ toServer' \in [Sockets -> Seq(ToServer)]
        /\ \A s \in Sockets : s \notin live' \cup backlog' => toServer'[s] = <<>>
    BY <1>12, UnreadType
  <2>2. ServiceTypeOK'
    BY <1>12, <2>1 DEF TypeOK, ServiceTypeOK, service
  <2>3. Quiet'
    BY <1>12, <2>1 DEF Quiet, Held
  <2>4. QED
    BY <1>0, <1>12, <2>2, <2>3 DEF TypeOK
<1>13. ASSUME NEW s \in Sockets, ReadUnregister(s)
       PROVE  TypeOK'
  <2>1. /\ UNCHANGED <<service, opened, toPlugin, serverUp, backlog, disturbances>>
        /\ live' \subseteq live
        /\ toServer' = Unread([toServer EXCEPT ![s] = Tail(@)])
        /\ HasRequest(s, "unregister")
    BY <1>13 DEF ReadUnregister, RemoveClient, registry
  <2>2. [toServer EXCEPT ![s] = Tail(@)] \in [Sockets -> Seq(ToServer)]
    BY <2>1, ReadTypes
  <2>3. QED
    BY <1>12, <2>1, <2>2 DEF TypeOK
<1>14. ASSUME NEW s \in Sockets, Eof(s)
       PROVE  TypeOK'
  BY <1>7, <1>14 DEF Eof, SocketClosed, Held, TypeOK
<1>15. ASSUME NEW P \in SUBSET Pids, Kill(P), toServer' = Unread(toServer),
              live' \subseteq live, UNCHANGED <<serverUp, backlog>>, Disturb
       PROVE  TypeOK'
  <2>1. toServer \in [Sockets -> Seq(ToServer)]
    BY DEF TypeOK, ServiceTypeOK
  <2>2. toServer' \in [Sockets -> Seq(ToServer)]
    BY <1>15, <2>1, UnreadType
  <2>3. /\ ServiceTypeOK'
        /\ \A s \in Sockets \ opened' : toPlugin'[s] = <<>>
    BY <1>15, <2>2, KillTypes
  <2>4. QED
    BY <1>12, <1>15, <2>1, <2>3 DEF TypeOK
<1>16. ASSUME NEW p \in Pids, CloseFilter(p)
       PROVE  TypeOK'
  <2>1. live' \subseteq live
    BY <1>16 DEF CloseFilter, RemoveClient, registry
  <2>2. QED
    BY <1>15, <1>16, <2>1 DEF CloseFilter
<1>17. CASE KillAll
  <2>1. live' \subseteq live /\ mClients \cap mStartedPids \in SUBSET Pids
    BY <1>17 DEF KillAll, RemoveAllClients, TypeOK, RegistryTypeOK
  <2>2. QED
    BY <1>15, <1>17, <2>1 DEF KillAll
<1>18. CASE ServerEnds
  <2>1. toServer \in [Sockets -> Seq(ToServer)]
    BY DEF TypeOK, ServiceTypeOK
  <2>2. QED
    BY <1>12, <1>18, <2>1 DEF ServerEnds, Shutdown, TypeOK
<1>19. CASE ServerStarts \/ UNCHANGED vars
  <2>1. UNCHANGED <<registry, service, connections, backlog, disturbances>>
        /\ serverUp' \in BOOLEAN
    BY <1>19 DEF ServerStarts, vars, TypeOK
  <2>2. ServiceTypeOK' /\ Quiet'
    BY <2>1 DEF TypeOK, ServiceTypeOK, Quiet, Held, service, connections, registry
  <2>3. QED
    BY <1>0, <2>1, <2>2 DEF TypeOK, registry
<1>20. QED
  BY <1>1, <1>2, <1>3, <1>4, <1>5, <1>6, <1>8, <1>9, <1>10, <1>11, <1>13, <1>14,
     <1>16, <1>17, <1>18, <1>19 DEF Next

(* Whatever is lost, late or crashes, the state of plugins, connections    *)
(* and registry is well typed, message ids included, which come round.     *)
THEOREM RegistrationTypes == Spec => []TypeOK
<1>1. Init => TypeOK
  BY ConnectionsAssumption, MaxIdAssumption, RegistrationAssumption
  DEF Init, TypeOK, RegistryInit, RegistryTypeOK, ServiceInit, ServiceTypeOK, Held
<1>2. Spec => []RegistryInv
  BY ImplementsRegistry, RegistryInvariant, PTL
<1>3. RegistryInv => RegistryTypeOK
  BY DEF RegistryInv
<1>4. QED
  BY <1>1, <1>2, <1>3, TypesStep, PTL DEF Spec

-----------------------------------------------------------------------------
(* RegisteredMeansKnown.  A plugin has one open connection, its current    *)
(* one, and none while it is neither registered nor about to be.           *)
LinksInv ==
    /\ \A s \in opened : link[Owner[s]] = s
    /\ \A p \in Pids : link[p] # None =>
          /\ link[p] \in opened /\ Owner[link[p]] = p
          /\ mRegistered[p] \/ mRegisterTime[p]
    /\ \A p \in Pids : mRegistered[p] => link[p] # None
    /\ \A p \in Pids : app[p] = "off" => link[p] = None

LEMMA ConnectionClosedLinks ==
    ASSUME TypeOK, LinksInv, NEW p \in Pids, ConnectionClosed(p)
    PROVE  LinksInv'
<1>1. /\ \A q \in Pids : link'[q] = IF q = p THEN None ELSE link[q]
      /\ \A q \in Pids : q # p => /\ mRegistered'[q] = mRegistered[q]
                                  /\ mRegisterTime'[q] = mRegisterTime[q]
      /\ mRegistered'[p] = FALSE
      /\ opened' = opened \ {link[p]} /\ app' = app /\ opened \subseteq Sockets
  BY DEF ConnectionClosed, TypeOK, ServiceTypeOK
<1>2. QED
  BY <1>1, ConnectionsAssumption DEF LinksInv

LEMMA EndLinks ==
    ASSUME TypeOK, LinksInv, NEW P \in SUBSET Pids, End(P)
    PROVE  LinksInv'
<1>1. /\ \A q \in Pids \ P : /\ link'[q] = link[q] /\ app'[q] = app[q]
                             /\ mRegistered'[q] = mRegistered[q]
                             /\ mRegisterTime'[q] = mRegisterTime[q]
      /\ \A q \in P : link'[q] = None /\ mRegistered'[q] = FALSE
      /\ opened' = {s \in opened : Owner[s] \notin P} /\ opened \subseteq Sockets
  BY DEF End, TypeOK, ServiceTypeOK
<1>2. QED
  BY <1>1, ConnectionsAssumption DEF LinksInv

LEMMA ConnectLinks ==
    ASSUME TypeOK, LinksInv, NEW p \in Pids, NEW s \in Sockets, RegisterPlugin(p, s)
    PROVE  LinksInv' /\ link[p] = None /\ ~mRegistered[p]
<1>1. /\ Owner[s] = p /\ app[p] = "running"
      /\ ~mRegistered[p] /\ ~mRegisterTime[p]
      /\ \A q \in Pids : q # p => /\ link'[q] = link[q]
                                  /\ mRegisterTime'[q] = mRegisterTime[q]
      /\ link'[p] = s /\ mRegisterTime'[p] /\ opened' = opened \cup {s}
      /\ UNCHANGED <<mRegistered, app>> /\ opened \subseteq Sockets
  BY DEF RegisterPlugin, RegisterBegins, MayRegister, TypeOK, ServiceTypeOK
<1>2. link[p] = None
  BY <1>1 DEF LinksInv
<1>3. QED
  BY <1>1, <1>2, ConnectionsAssumption DEF LinksInv

LEMMA PluginReadsLinks ==
    ASSUME TypeOK, LinksInv, NEW p \in Pids, ServiceResponse(p) \/ RequestQuit(p)
    PROVE  LinksInv'
<1>1. CASE ConnectionClosed(p)
  BY <1>1, ConnectionClosedLinks
<1>2. CASE RequestQuit(p)
  BY <1>2 DEF RequestQuit, HasMessage, Running, LinksInv, TypeOK, ServiceTypeOK
<1>3. CASE ServiceResponse(p) /\ ~ConnectionClosed(p)
  <2>1. /\ UNCHANGED <<app, link, opened>> /\ link[p] # None
        /\ \A q \in Pids : q # p => /\ mRegistered'[q] = mRegistered[q]
                                    /\ mRegisterTime'[q] = mRegisterTime[q]
        /\ mRegistered'[p] \/ UNCHANGED <<mRegistered, mRegisterTime>>
    BY <1>3 DEF ServiceResponse, HasMessage, TypeOK, ServiceTypeOK
  <2>2. QED
    BY <2>1 DEF LinksInv
<1>4. QED
  BY <1>1, <1>2, <1>3

LEMMA KillLinks ==
    ASSUME TypeOK, LinksInv, NEW P \in SUBSET Pids, Kill(P)
    PROVE  LinksInv'
<1> DEFINE killed == {p \in P : Running(p)}
<1>1. CASE killed = {}
  BY <1>1 DEF Kill, service, LinksInv
<1>2. CASE killed # {}
  BY <1>2, EndLinks DEF Kill, Die
<1>3. QED
  BY <1>1, <1>2

LEMMA LinksStep == TypeOK /\ LinksInv /\ [Next]_vars => LinksInv'
<1> SUFFICES ASSUME TypeOK, LinksInv, [Next]_vars
             PROVE  LinksInv'
  OBVIOUS
<1>1. ASSUME UNCHANGED <<service, opened>> PROVE LinksInv'
  BY <1>1 DEF LinksInv, service
<1>2. ASSUME NEW p \in Pids, Start(p) PROVE LinksInv'
  BY <1>2 DEF Start, connections, LinksInv, TypeOK, ServiceTypeOK
<1>3. ASSUME NEW p \in Pids, PluginTimers(p) PROVE LinksInv'
  <2>1. /\ UNCHANGED <<app, link, mRegistered, opened>>
        /\ \A q \in Pids : mRegisterTime[q] => mRegisterTime'[q]
    BY <1>3 DEF PluginTimers, Paint, RegisterNot, RegisterPluginRefused,
                RegisterBegins, connections, TypeOK, ServiceTypeOK
  <2>2. QED
    BY <2>1 DEF LinksInv
<1>4. ASSUME NEW p \in Pids, NEW s \in Sockets, Connect(p, s) PROVE LinksInv'
  BY <1>4, ConnectLinks DEF Connect
<1>5. ASSUME NEW p \in Pids, RegisterTimeout(p) \/ LinkLost(p) PROVE LinksInv'
  BY <1>5, ConnectionClosedLinks DEF RegisterTimeout, Timeout, LinkLost
<1>6. ASSUME NEW p \in Pids, PluginReads(p) PROVE LinksInv'
  BY <1>6, PluginReadsLinks DEF PluginReads
<1>7. ASSUME NEW p \in Pids, Quits(p) \/ Crash(p) PROVE LinksInv'
  BY <1>7, EndLinks DEF Quits, Quit, Crash, Die
<1>8. ASSUME NEW P \in SUBSET Pids, Kill(P) PROVE LinksInv'
  BY <1>8, KillLinks
<1>9. ASSUME KillAll \/ \E p \in Pids : CloseFilter(p)
      PROVE  \E P \in SUBSET Pids : Kill(P)
  BY <1>9 DEF KillAll, CloseFilter, TypeOK, RegistryTypeOK
<1>10. ASSUME NEW p \in Pids, StartByServer(p) \/ StartByUser(p) PROVE Start(p)
  BY <1>10 DEF StartByServer, StartByUser
<1>11. ASSUME NEW p \in Pids, LookUp(p) \/ AskToClose(p)
       PROVE  UNCHANGED <<service, opened>>
  BY <1>11 DEF LookUp, AskToClose, connections
<1>12. ASSUME NEW s \in Sockets,
              Accept(s) \/ ReadRegister(s) \/ ReadUnregister(s) \/ Eof(s)
       PROVE  UNCHANGED <<service, opened>>
  BY <1>12 DEF Accept, ReadRegister, ReadUnregister, Eof, connections
<1>13. ASSUME ServerEnds \/ ServerStarts \/ UNCHANGED vars
       PROVE  UNCHANGED <<service, opened>>
  BY <1>13 DEF ServerEnds, ServerStarts, vars, connections
<1>14. CASE UNCHANGED vars
  BY <1>1, <1>13, <1>14
<1>15. CASE Next
  BY <1>1, <1>2, <1>3, <1>4, <1>5, <1>6, <1>7, <1>8, <1>9, <1>10, <1>11, <1>12,
     <1>13, <1>15 DEF Next
<1>16. QED
  BY <1>14, <1>15

LEMMA LinksAlways == Spec => []LinksInv
<1>1. Init => LinksInv
  BY DEF Init, ServiceInit, LinksInv
<1>2. QED
  BY <1>1, RegistrationTypes, LinksStep, PTL DEF Spec

HasResponse(q) == \E i \in 1..Len(q) : q[i].what = "response"

(* The server has read the plugin's registration on this connection.       *)
Confirmed(p) ==
    /\ link[p] # None
    /\ mRegistered[p] \/ HasResponse(toPlugin[link[p]])

(* Inductive, for a connection whose registration did not overtake an older*)
(* one: no other connection of the process is left that could take the     *)
(* place of this one.                                                      *)
KnownFor(p) ==
    /\ link[p] \notin backlog
    /\ link[p] \in live => /\ p \in mClients /\ mSocket[p] = link[p]
                           /\ SocketsOf({p}) \cap Held \subseteq {link[p]}

KnownInv == \A p \in Pids : Confirmed(p) /\ link[p] \notin overtaken => KnownFor(p)

LEMMA TailResponse ==
    ASSUME NEW q \in Seq(ToPlugin), q # <<>>, HasResponse(Tail(q))
    PROVE  HasResponse(q)
<1>1. PICK i \in 1..Len(Tail(q)) : Tail(q)[i].what = "response"
  BY DEF HasResponse
<1>2. i + 1 \in 1..Len(q) /\ q[i + 1] = Tail(q)[i]
  OBVIOUS
<1>3. QED
  BY <1>1, <1>2 DEF HasResponse

LEMMA HeadResponse ==
    ASSUME NEW q \in Seq(ToPlugin), q # <<>>, Head(q).what = "response"
    PROVE  HasResponse(q)
<1>1. 1 \in 1..Len(q) /\ q[1] = Head(q)
  OBVIOUS
<1>2. QED
  BY <1>1 DEF HasResponse

LEMMA OtherAppended ==
    ASSUME NEW q \in Seq(ToPlugin), NEW m \in ToPlugin, m.what # "response",
           HasResponse(Append(q, m))
    PROVE  HasResponse(q)
<1>1. PICK i \in 1..Len(Append(q, m)) : Append(q, m)[i].what = "response"
  BY DEF HasResponse
<1>2. i \in 1..Len(q) /\ Append(q, m)[i] = q[i]
  BY <1>1
<1>3. QED
  BY <1>1, <1>2 DEF HasResponse

LEMMA NoResponse == ~HasResponse(<<>>)
  BY DEF HasResponse

(* The plugins' own steps confirm nothing.                                 *)
LEMMA PluginKnown ==
    ASSUME KnownInv, UNCHANGED <<registry, backlog, overtaken>>,
           \A p \in Pids : Confirmed(p)' => Confirmed(p) /\ link'[p] = link[p]
    PROVE  KnownInv'
  BY DEF KnownInv, KnownFor, Held, registry

LEMMA ConnectionClosedKnown ==
    ASSUME TypeOK, NEW p \in Pids, ConnectionClosed(p), NEW q \in Pids,
           LinksInv, Confirmed(q)'
    PROVE  Confirmed(q) /\ link'[q] = link[q]
<1>1. /\ link'[p] = None /\ link' \in [Pids -> Sockets \cup {None}]
      /\ \A r \in Pids : r # p => /\ link'[r] = link[r]
                                  /\ mRegistered'[r] = mRegistered[r]
      /\ \A s \in Sockets : s # link[p] => toPlugin'[s] = toPlugin[s]
  BY DEF ConnectionClosed, TypeOK, ServiceTypeOK
<1>2. q # p /\ link[q] # None /\ link[q] \in Sockets /\ link'[q] = link[q]
  BY <1>1 DEF Confirmed
<1>3. link[q] # link[p]
  BY <1>2 DEF LinksInv
<1>4. QED
  BY <1>1, <1>2, <1>3 DEF Confirmed

LEMMA EndKnown ==
    ASSUME TypeOK, NEW P \in SUBSET Pids, End(P), NEW q \in Pids,
           LinksInv, Confirmed(q)'
    PROVE  Confirmed(q) /\ link'[q] = link[q] /\ q \notin P
<1>1. /\ \A r \in P : link'[r] = None
      /\ link \in [Pids -> Sockets \cup {None}]
      /\ \A r \in Pids \ P : link'[r] = link[r] /\ mRegistered'[r] = mRegistered[r]
      /\ \A s \in Sockets : Owner[s] \notin P => toPlugin'[s] = toPlugin[s]
  BY DEF End, TypeOK, ServiceTypeOK
<1>2. q \notin P /\ link'[q] = link[q] /\ link[q] \in Sockets
  BY <1>1 DEF Confirmed
<1>3. Owner[link[q]] = q
  BY <1>2, ConnectionsAssumption DEF LinksInv
<1>4. QED
  BY <1>1, <1>2, <1>3 DEF Confirmed

LEMMA KillKnown ==
    ASSUME TypeOK, NEW P \in SUBSET Pids, Kill(P), NEW q \in Pids,
           LinksInv, Confirmed(q)'
    PROVE  Confirmed(q) /\ link'[q] = link[q]
<1> DEFINE killed == {p \in P : Running(p)}
<1>1. CASE killed = {}
  BY <1>1 DEF Kill, service, Confirmed
<1>2. CASE killed # {}
  BY <1>2, EndKnown DEF Kill, Die
<1>3. QED
  BY <1>1, <1>2

LEMMA PluginReadsKnown ==
    ASSUME TypeOK, LinksInv, NEW p \in Pids, ServiceResponse(p) \/ RequestQuit(p),
           NEW q \in Pids, Confirmed(q)'
    PROVE  Confirmed(q) /\ link'[q] = link[q]
<1>1. CASE ConnectionClosed(p)
  BY <1>1, ConnectionClosedKnown
<1>2. CASE ~ConnectionClosed(p)
  <2>1. PICK s : s = link[p]
    OBVIOUS
  <2>2. /\ s \in Sockets /\ toPlugin[s] # <<>> /\ toPlugin[s] \in Seq(ToPlugin)
        /\ toPlugin' = [toPlugin EXCEPT ![s] = Tail(@)] /\ link' = link
        /\ \A r \in Pids : r # p => mRegistered'[r] = mRegistered[r]
        /\ \/ mRegistered' = mRegistered
           \/ Head(toPlugin[s]).what = "response"
    BY <1>2, <2>1 DEF ServiceResponse, RequestQuit, HasMessage, TypeOK, ServiceTypeOK
  <2>3. \A t \in Sockets : HasResponse(toPlugin'[t]) => HasResponse(toPlugin[t])
    <3>1. HasResponse(Tail(toPlugin[s])) => HasResponse(toPlugin[s])
      BY <2>2, TailResponse
    <3>2. /\ toPlugin'[s] = Tail(toPlugin[s])
          /\ \A t \in Sockets : t # s => toPlugin'[t] = toPlugin[t]
      BY <2>2 DEF TypeOK, ServiceTypeOK
    <3>3. QED
      BY <3>1, <3>2
  <2>4. link[q] \in Sockets
    BY <2>2 DEF Confirmed, TypeOK, ServiceTypeOK
  <2>5. CASE mRegistered'[q] = mRegistered[q]
    BY <2>2, <2>3, <2>4, <2>5 DEF Confirmed
  <2>6. CASE q = p /\ Head(toPlugin[s]).what = "response"
    BY <2>1, <2>2, <2>4, <2>6, HeadResponse DEF Confirmed
  <2>7. QED
    BY <2>2, <2>5, <2>6
<1>3. QED
  BY <1>1, <1>2

(* The server's steps that leave the plugins and what they are sent alone. *)
LEMMA ServerKnown ==
    ASSUME KnownInv, UNCHANGED <<service, toPlugin, overtaken>>,
           \A p \in Pids : Confirmed(p) /\ KnownFor(p) => KnownFor(p)'
    PROVE  KnownInv'
  BY DEF KnownInv, Confirmed, service

LEMMA RemovedKnown ==
    ASSUME KnownInv, backlog' \subseteq backlog, overtaken' = overtaken,
           \/ UNCHANGED registry
           \/ \E P \in SUBSET Pids :
                 Forget(P) /\ live' = live \ {mSocket[p] : p \in P},
           \A p \in Pids : Confirmed(p)' => Confirmed(p) /\ link'[p] = link[p]
    PROVE  KnownInv'
<1>1. CASE UNCHANGED registry
  BY <1>1 DEF KnownInv, KnownFor, Held, registry
<1>2. ASSUME NEW P \in SUBSET Pids, Forget(P), live' = live \ {mSocket[p] : p \in P}
      PROVE  KnownInv'
  <2>1. ASSUME NEW p \in Pids, Confirmed(p)', link'[p] \notin overtaken'
        PROVE  KnownFor(p)'
    <3>1. /\ KnownFor(p) /\ link'[p] = link[p]
      BY <2>1 DEF KnownInv
    <3>2. CASE p \in P
      <4>1. link[p] \notin live'
        BY <1>2, <3>1, <3>2 DEF KnownFor
      <4>2. QED
        BY <3>1, <4>1 DEF KnownFor
    <3>3. CASE p \notin P
      BY <1>2, <3>1, <3>3 DEF KnownFor, Forget, Held
    <3>4. QED
      BY <3>2, <3>3
  <2>2. QED
    BY <2>1 DEF KnownInv
<1>3. QED
  BY <1>1, <1>2

LEMMA AcceptKnown ==
    ASSUME TypeOK, KnownInv, NEW s \in Sockets, Accept(s)
    PROVE  KnownInv'
<1>1. /\ s \in backlog /\ backlog' = backlog \ {s} /\ live' = live \cup {s}
      /\ UNCHANGED <<mClients, mSocket, service, toPlugin, overtaken>>
  BY DEF Accept, IncomingConnection, connections
<1>2. Held' = Held
  BY <1>1 DEF Held
<1>3. QED
  BY <1>1, <1>2, ServerKnown DEF KnownFor, service

(* The end of an older connection is not seen after the new one is         *)
(* confirmed: then there is no older one.                                  *)
LEMMA EofKnown ==
    ASSUME TypeOK, LinksInv, KnownInv, NEW s \in Sockets, Eof(s)
    PROVE  KnownInv'
<1>1. /\ s \in live \ opened /\ live' = live \ {s}
      /\ Forget({Owner[s]}) \/ UNCHANGED <<mClients, mSocket>>
      /\ UNCHANGED <<service, toPlugin, backlog, overtaken>>
  BY DEF Eof, SocketClosed, connections
<1>2. ASSUME NEW p \in Pids, Confirmed(p), KnownFor(p), link[p] \in live
      PROVE  p # Owner[s] /\ link[p] # s
  <2>1. link[p] # None /\ link[p] \in opened
    BY <1>2 DEF Confirmed, LinksInv
  <2>2. SocketsOf({p}) \cap Held \subseteq {link[p]}
    BY <1>2 DEF KnownFor
  <2>3. s \notin SocketsOf({p})
    BY <1>1, <2>1, <2>2 DEF Held
  <2>4. QED
    BY <1>1, <2>1, <2>3 DEF SocketsOf
<1>3. ASSUME NEW p \in Pids, Confirmed(p), KnownFor(p)
      PROVE  KnownFor(p)'
  BY <1>1, <1>2, <1>3 DEF KnownFor, Forget, Held, service
<1>4. QED
  BY <1>1, <1>3, ServerKnown

LEMMA ReadRegisterKnown ==
    ASSUME TypeOK, LinksInv, KnownInv, NEW s \in Sockets, ReadRegister(s)
    PROVE  KnownInv'
<1> DEFINE o == Owner[s]
<1>1. /\ s \in live /\ o \in Pids /\ UNCHANGED <<service, opened, live, backlog>>
      /\ mClients' = mClients \cup {o}
      /\ mSocket'[o] = s /\ \A p \in Pids : p # o => mSocket'[p] = mSocket[p]
      /\ s \notin overtaken' => SocketsOf({o}) \cap Held \subseteq opened
      /\ overtaken \subseteq overtaken'
      /\ \A t \in Sockets : t # s \/ s \notin opened => toPlugin'[t] = toPlugin[t]
  BY ConnectionsAssumption
  DEF ReadRegister, Overtakes, HasRequest, AddRegisteredClient, Respond, TypeOK,
      RegistryTypeOK, ServiceTypeOK
<1> HIDE DEF o
<1>2. ASSUME NEW p \in Pids, Confirmed(p)', link'[p] \notin overtaken'
      PROVE  KnownFor(p)'
  <2>1. link' = link /\ mRegistered' = mRegistered /\ link[p] # None
        /\ link[p] \in Sockets /\ link[p] \in opened /\ Owner[link[p]] = p
    BY <1>1, <1>2 DEF service, Confirmed, LinksInv, TypeOK, ServiceTypeOK
  <2>2. CASE link[p] = s
    <3>1. p = o /\ s \in opened
      BY <2>1, <2>2 DEF o
    <3>2. ASSUME NEW t \in SocketsOf({p}) \cap Held
          PROVE  t = s
      <4>1. t \in opened /\ Owner[t] = p
        BY <1>1, <1>2, <2>1, <2>2, <3>1, <3>2 DEF SocketsOf
      <4>2. QED
        BY <2>2, <4>1 DEF LinksInv
    <3>3. s \notin backlog
      BY <1>1 DEF TypeOK
    <3>4. QED
      BY <1>1, <2>1, <2>2, <3>1, <3>2, <3>3 DEF KnownFor, Held
  <2>3. CASE link[p] # s
    <3>1. Confirmed(p)
      BY <1>1, <1>2, <2>1, <2>3 DEF Confirmed
    <3>2. KnownFor(p)
      BY <1>1, <1>2, <2>1, <3>1 DEF KnownInv
    <3>3. link[p] \in live => p # o
      BY <1>1, <2>3, <3>2 DEF KnownFor, SocketsOf, Held, o
    <3>4. QED
      BY <1>1, <2>1, <3>2, <3>3 DEF KnownFor, Held
  <2>4. QED
    BY <2>2, <2>3
<1>3. QED
  BY <1>2 DEF KnownInv

LEMMA ConnectKnown ==
    ASSUME TypeOK, LinksInv, KnownInv, NEW p \in Pids, NEW s \in Sockets, Connect(p, s)
    PROVE  KnownInv'
<1>1. /\ s \notin opened \cup Held /\ backlog' = backlog \cup {s} /\ Owner[s] = p
      /\ UNCHANGED <<registry, mRegistered, toPlugin>>
      /\ overtaken' = overtaken \ {s}
      /\ link'[p] = s /\ \A q \in Pids : q # p => link'[q] = link[q]
      /\ ~mRegistered[p]
  BY ConnectLinks
  DEF Connect, RegisterPlugin, TypeOK, ServiceTypeOK
<1>2. ~HasResponse(toPlugin[s])
  BY <1>1, NoResponse DEF TypeOK
<1>3. ASSUME NEW q \in Pids, Confirmed(q)', link'[q] \notin overtaken'
      PROVE  KnownFor(q)'
  <2>1. q # p /\ Confirmed(q) /\ link'[q] = link[q]
    BY <1>1, <1>2, <1>3 DEF Confirmed
  <2>2. KnownFor(q) /\ link[q] # s /\ s \notin SocketsOf({q})
    BY <1>1, <1>3, <2>1 DEF KnownInv, SocketsOf, LinksInv, Confirmed
  <2>3. QED
    BY <1>1, <2>1, <2>2 DEF KnownFor, Held, registry
<1>4. QED
  BY <1>3 DEF KnownInv

LEMMA KnownStep == TypeOK /\ LinksInv /\ KnownInv /\ [Next]_vars => KnownInv'
<1> SUFFICES ASSUME TypeOK, LinksInv, KnownInv, [Next]_vars
             PROVE  KnownInv'
  OBVIOUS
<1>1. ASSUME UNCHANGED <<registry, backlog, overtaken, link, mRegistered, toPlugin>>
      PROVE  KnownInv'
  BY <1>1 DEF KnownInv, KnownFor, Confirmed, Held, registry
<1>2. ASSUME NEW p \in Pids, StartByServer(p) \/ StartByUser(p) \/ PluginTimers(p)
      PROVE  KnownInv'
  <2>1. /\ UNCHANGED <<mClients, mSocket, live, backlog, overtaken, link, mRegistered, toPlugin>>
    BY <1>2 DEF StartByServer, StartByUser, Start, AddStartedPid, PluginTimers, Paint,
                RegisterNot, RegisterPluginRefused, RegisterBegins, PluginOnly,
                registry, connections
  <2>2. QED
    BY <2>1 DEF KnownInv, KnownFor, Confirmed, Held
<1>3. ASSUME NEW p \in Pids, NEW s \in Sockets, Connect(p, s) PROVE KnownInv'
  BY <1>3, ConnectKnown
<1>4. ASSUME NEW p \in Pids, RegisterTimeout(p) \/ LinkLost(p) PROVE KnownInv'
  BY <1>4, ConnectionClosedKnown, PluginKnown
  DEF RegisterTimeout, Timeout, LinkLost, PluginOnly
<1>5. ASSUME NEW p \in Pids, PluginReads(p) PROVE KnownInv'
  BY <1>5, PluginReadsKnown, PluginKnown DEF PluginReads, PluginOnly
<1>6. ASSUME NEW p \in Pids, Quits(p) \/ Crash(p) PROVE KnownInv'
  <2>1. End({p}) /\ UNCHANGED <<registry, backlog, overtaken>>
    BY <1>6 DEF Quits, Quit, Crash, Die, PluginOnly
  <2>2. QED
    BY <2>1, EndKnown, PluginKnown
<1>7. ASSUME NEW p \in Pids, LookUp(p) PROVE KnownInv'
  <2>1. /\ UNCHANGED <<service, toPlugin, live, backlog, overtaken>> /\ Forget({p})
        /\ app[p] = "off"
    BY <1>7 DEF LookUp, VerifyClient, connections, Running
  <2>2. ~Confirmed(p)
    BY <2>1 DEF Confirmed, LinksInv
  <2>3. QED
    BY <2>1, <2>2, ServerKnown DEF KnownFor, Forget, Held, service
<1>8. ASSUME NEW p \in Pids, AskToClose(p) PROVE KnownInv'
  <2>1. PICK s : s = mSocket[p]
    OBVIOUS
  <2>2. PICK m : m = [what |-> "close", id |-> 0]
    OBVIOUS
  <2>3. /\ UNCHANGED <<registry, service, backlog, overtaken>>
        /\ s \in Sockets /\ toPlugin[s] \in Seq(ToPlugin)
        /\ toPlugin' = [toPlugin EXCEPT ![s] = Append(@, m)]
        /\ m \in ToPlugin /\ m.what # "response"
    <3>1. m \in ToPlugin /\ m.what = "close"
      BY <2>2, MaxIdAssumption DEF ToPlugin
    <3>2. /\ UNCHANGED <<registry, service, backlog, overtaken>> /\ s \in opened
          /\ toPlugin' = [toPlugin EXCEPT ![s] = Append(@, m)]
      BY <1>8, <2>1, <2>2 DEF AskToClose
    <3>3. s \in Sockets /\ toPlugin[s] \in Seq(ToPlugin)
      BY <3>2 DEF TypeOK, ServiceTypeOK
    <3>4. QED
      BY <3>1, <3>2, <3>3
  <2>4. HasResponse(toPlugin'[s]) => HasResponse(toPlugin[s])
    BY <2>3, OtherAppended DEF TypeOK, ServiceTypeOK
  <2>5. \A t \in Sockets : HasResponse(toPlugin'[t]) => HasResponse(toPlugin[t])
    BY <2>3, <2>4 DEF TypeOK, ServiceTypeOK
  <2>6. \A q \in Pids : Confirmed(q)' => Confirmed(q) /\ link'[q] = link[q]
    BY <2>3, <2>5 DEF Confirmed, service, TypeOK, ServiceTypeOK
  <2>7. QED
    BY <2>3, <2>6, PluginKnown
<1>9. ASSUME NEW s \in Sockets, Accept(s) PROVE KnownInv'
  BY <1>9, AcceptKnown
<1>10. ASSUME NEW s \in Sockets, ReadRegister(s) PROVE KnownInv'
  BY <1>10, ReadRegisterKnown
<1>11. ASSUME NEW p \in Pids, RemoveClient(p)
       PROVE  \/ UNCHANGED registry
              \/ \E P \in SUBSET Pids :
                    Forget(P) /\ live' = live \ {mSocket[q] : q \in P}
  BY <1>11 DEF RemoveClient
<1>12. ASSUME NEW s \in Sockets, ReadUnregister(s) PROVE KnownInv'
  <2>1. RemoveClient(Owner[s]) /\ UNCHANGED <<service, toPlugin, backlog, overtaken>>
        /\ Owner[s] \in Pids
    BY <1>12, ConnectionsAssumption DEF ReadUnregister
  <2>2. \A q \in Pids : Confirmed(q)' => Confirmed(q) /\ link'[q] = link[q]
    BY <2>1 DEF Confirmed, service
  <2>3. QED
    BY <1>11, <2>1, <2>2, RemovedKnown
<1>13. ASSUME NEW s \in Sockets, Eof(s) PROVE KnownInv'
  BY <1>13, EofKnown
<1>14. ASSUME NEW p \in Pids, CloseFilter(p) PROVE KnownInv'
  <2>1. /\ RemoveClient(p) /\ UNCHANGED <<backlog, overtaken>>
        /\ \E P \in SUBSET Pids : Kill(P)
    BY <1>14 DEF CloseFilter
  <2>2. \A q \in Pids : Confirmed(q)' => Confirmed(q) /\ link'[q] = link[q]
    BY <2>1, KillKnown
  <2>3. QED
    BY <1>11, <2>1, <2>2, RemovedKnown
<1>15. CASE KillAll
  <2>1. /\ Forget(mClients) /\ live' = live \ {mSocket[q] : q \in mClients}
        /\ mClients \in SUBSET Pids /\ UNCHANGED <<backlog, overtaken>>
        /\ \E P \in SUBSET Pids : Kill(P)
    BY <1>15 DEF KillAll, RemoveAllClients, TypeOK, RegistryTypeOK
  <2>2. \A q \in Pids : Confirmed(q)' => Confirmed(q) /\ link'[q] = link[q]
    BY <2>1, KillKnown
  <2>3. QED
    BY <2>1, <2>2, RemovedKnown
<1>16. CASE ServerEnds
  BY <1>16, ServerKnown DEF ServerEnds, Shutdown, KnownFor
<1>17. CASE ServerStarts \/ UNCHANGED vars
  BY <1>1, <1>17 DEF ServerStarts, vars, service, connections
<1>18. QED
  BY <1>2, <1>3, <1>4, <1>5, <1>6, <1>7, <1>8, <1>9, <1>10, <1>12, <1>13, <1>14,
     <1>15, <1>16, <1>17 DEF Next

(* A plugin that takes itself for registered is what the server has for    *)
(* its process, however often it lost its connection and registered again, *)
(* whether or not it heard of the loss, and whoever was killed or started  *)
(* meanwhile, unless its registration overtook an older connection's end.  *)
THEOREM RegisteredIsKnown == Spec => []RegisteredMeansKnown
<1>1. Init => KnownInv
  BY DEF Init, ServiceInit, KnownInv, Confirmed
<1>2. TypeOK /\ LinksInv /\ KnownInv => RegisteredMeansKnown
  BY DEF LinksInv, KnownInv, Confirmed, KnownFor, RegisteredMeansKnown
<1>3. QED
  BY RegistrationTypes, LinksAlways, <1>1, KnownStep, <1>2, PTL DEF Spec
=============================================================================
