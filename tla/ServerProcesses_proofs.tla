----------------------- MODULE ServerProcesses_proofs -----------------------
(***************************************************************************)
(* Proofs about the services of qttasserver that start processes, for any  *)
(* number of launches, tasks, process ids, output, requests and loggers.   *)
(*                                                                         *)
(* Each service has variables of its own, so that an invariant of one      *)
(* holds of the composition when every step of that service keeps it       *)
(* (StartSteps, ShellSteps, LoggingSteps).                                 *)
(*                                                                         *)
(* At the end, proofs about the window by which the server itself is       *)
(* started and stopped (ServerMonitor), which has nothing in common with   *)
(* them.                                                                   *)
(***************************************************************************)
EXTENDS ServerProcesses, ServerMonitor, SequenceTheorems, TLAPS

(* Every step is one of a service, or leaves its variables alone.          *)
LEMMA StartSteps ==
    ASSUME [Next]_vars
    PROVE  StartServerNext \/ StartOtherNext \/ UNCHANGED starting
BY DEF Next, ServerNext, OthersNext, vars

LEMMA ShellSteps ==
    ASSUME [Next]_vars
    PROVE  ShellServerNext \/ ShellOtherNext \/ UNCHANGED shell
BY DEF Next, ServerNext, OthersNext, vars

LEMMA LoggingSteps ==
    ASSUME [Next]_vars
    PROVE  LoggingServerNext \/ LoggerNext \/ UNCHANGED logging
BY DEF Next, ServerNext, OthersNext, vars

-----------------------------------------------------------------------------
(* Starting applications.                                                  *)

Places == {"idle", "storing", "launching", "polling", "waiting"}
ChildStates == {"none", "forked", "writing", "detaching", "done", "failed"}
AppStates == {"none", "forked", "running", "dead", "loading", "loaded",
              "registered"}

Segments == [users : SUBSET (0..(2 * MaxLaunches)), exists : BOOLEAN,
             value : 0..MaxLaunches]

StartTypes ==
    /\ at \in Places
    /\ launch \in 0..MaxLaunches
    /\ at # "idle" => launch # 0
    /\ appOf \in Seq(Apps) /\ Len(appOf) = launch
    /\ polls \in 0..MaxPolls
    /\ actualpid \in 0..MaxLaunches
    /\ child \in [Launches -> ChildStates]
    /\ grandchild \in [Launches -> AppStates]
    /\ pidMem \in Segments
    /\ block \in [Apps -> Segments]
    /\ mStoredDataBlocks \subseteq Apps
    /\ inherited \in [Apps -> SUBSET (0..(2 * MaxLaunches))]
    /\ abandoned \subseteq Apps
    /\ loaded \in [Launches -> 0..MaxLaunches]
    /\ answer \in [Launches -> {"none", "set", "error", "started"}]

(* The child in between holds pid_mem.                                     *)
Holding == {"forked", "writing", "detaching"}

(* pid_mem is attached to by exactly those that are going to detach, and   *)
(* goes with the last of them.                                             *)
PidMemInv ==
    /\ pidMem.exists <=> pidMem.users # {}
    /\ Server \in pidMem.users <=> at = "polling"
    /\ \A n \in Launches :
        /\ App(n) \in pidMem.users <=> grandchild[n] = "forked"
        /\ Child(n) \in pidMem.users <=> child[n] \in Holding

(* A launch that comes to pid_mem has it for itself: those before it have  *)
(* all left, or the segment would still exist.                             *)
LaunchInv ==
    /\ \A n \in Launches :
        /\ n > launch => child[n] = "none" /\ grandchild[n] = "none"
        /\ child[n] \in {"writing", "detaching", "done"} <=> grandchild[n] # "none"
    /\ at \in {"storing", "launching"} => child[launch] = "none"
    /\ at \in {"polling", "waiting"} =>
        /\ \A n \in Launches \ {launch} :
            child[n] \notin Holding /\ grandchild[n] # "forked"
        /\ pidMem.value \in {0, launch} /\ actualpid \in {0, launch}
        /\ pidMem.value = launch \/ actualpid = launch => grandchild[launch] # "none"

(* The startup data of an application are attached to by the server, just  *)
(* while it knows of them, and by those that are loading them, or have been*)
(* abandoned.  They have no contents only until the server has stored them.*)
BlockInv(a) ==
    /\ block[a].users # {} => block[a].exists
    /\ block[a].exists /\ a \notin abandoned => block[a].users # {}
    /\ a \in mStoredDataBlocks => Server \in block[a].users
    /\ Server \in block[a].users =>
        a \in mStoredDataBlocks \/ (at = "storing" /\ appOf[launch] = a)
    /\ \A n \in Launches :
        /\ App(n) \in block[a].users
                <=> grandchild[n] = "loading" /\ n <= launch /\ appOf[n] = a
        /\ Child(n) \notin block[a].users
    /\ at = "storing" /\ appOf[launch] = a => Server \in block[a].users
    /\ block[a].exists /\ block[a].value = 0 => at = "storing" /\ appOf[launch] = a

BlocksInv == \A a \in Apps : BlockInv(a)

(* The server holds what it has stored only until the first of those       *)
(* started since has registered.                                           *)
FreshInv == \A a \in Apps : a \in mStoredDataBlocks => ~RegisteredSinceStored(a)

StartInv == StartTypes /\ PidMemInv /\ LaunchInv /\ BlocksInv /\ FreshInv


(* What a segment is after a process has attached to it or left it.        *)
LEMMA Attached ==
    ASSUME NEW mem \in Segments, NEW p \in 0..(2 * MaxLaunches), mem.exists
    PROVE  /\ Attach(mem, p) \in Segments
           /\ Attach(mem, p).exists
           /\ Attach(mem, p).value = mem.value
           /\ \A q : q \in Attach(mem, p).users <=> q \in mem.users \/ q = p
BY DEF Segments, Attach

LEMMA Detached ==
    ASSUME LaunchAssumption, NEW mem \in Segments, NEW p,
           mem.exists <=> mem.users # {}
    PROVE  /\ Detach(mem, p) \in Segments
           /\ Detach(mem, p).exists <=> Detach(mem, p).users # {}
           /\ Detach(mem, p).exists => Detach(mem, p).value = mem.value
           /\ Detach(mem, p).value \in {0, mem.value}
           /\ \A q : q \in Detach(mem, p).users <=> q \in mem.users /\ q # p
<1>1. CASE mem.users = {p}
  BY <1>1 DEF Segments, Detach, NoSegment, LaunchAssumption
<1>2. CASE mem.users # {p}
  BY <1>2 DEF Segments, Detach
<1>3. QED  BY <1>1, <1>2

LEMMA FirstSegment ==
    ASSUME LaunchAssumption
    PROVE  /\ Created \in Segments /\ Created.exists /\ Created.users = {Server}
           /\ Created.value = 0
           /\ NoSegment \in Segments /\ ~NoSegment.exists /\ NoSegment.users = {}
           /\ NoSegment.value = 0
BY DEF Created, NoSegment, Segments, LaunchAssumption, Server

(* What a block is after a process has detached from it.                   *)
LEMMA BlockDetached ==
    ASSUME LaunchAssumption, NEW a \in Apps, NEW p, block \in [Apps -> Segments],
           abandoned \subseteq Apps, DetachBlock(a, p),
           block[a].users # {} => block[a].exists,
           block[a].exists /\ a \notin abandoned => block[a].users # {}
    PROVE  /\ block' \in [Apps -> Segments] /\ abandoned' \subseteq Apps
           /\ \A b \in Apps : b # a => /\ block'[b] = block[b]
                                       /\ b \in abandoned' <=> b \in abandoned
           /\ block'[a].users # {} => block'[a].exists
           /\ block'[a].exists /\ a \notin abandoned' => block'[a].users # {}
           /\ block'[a].exists => block[a].exists /\ block'[a].value = block[a].value
           /\ block[a].users # {p} => block'[a].value = block[a].value
           /\ \A q : q \in block'[a].users <=> q \in block[a].users /\ q # p
<1>1. /\ block[a] \in Segments
      /\ \A b \in Apps : b # a => /\ block'[b] = block[b]
                                  /\ b \in abandoned' <=> b \in abandoned
  BY DEF DetachBlock
<1>2. CASE block[a].users = {p} /\ inherited[a] = {}
  <2>1. block' = [block EXCEPT ![a] = NoSegment] /\ abandoned' = abandoned \ {a}
    BY <1>2 DEF DetachBlock, Detach
  <2>2. QED
    BY <1>1, <1>2, <2>1, FirstSegment
<1>3. CASE ~(block[a].users = {p} /\ inherited[a] = {})
  <2>1. block' = [block EXCEPT ![a] = [block[a] EXCEPT !.users = @ \ {p}]]
    BY <1>3 DEF DetachBlock, Detach, EndAttached
  <2>2. /\ abandoned' \subseteq Apps
        /\ a \notin abandoned' => a \notin abandoned /\ block[a].users # {p}
    BY <1>3 DEF DetachBlock
  <2>3. /\ block'[a] = [block[a] EXCEPT !.users = @ \ {p}]
        /\ block'[a] \in Segments /\ block' \in [Apps -> Segments]
    BY <1>1, <2>1 DEF Segments
  <2>4. /\ block'[a].users = block[a].users \ {p} /\ block'[a].exists = block[a].exists
        /\ block'[a].value = block[a].value
    BY <1>1, <2>3 DEF Segments
  <2>5. ASSUME block'[a].exists, a \notin abandoned'
        PROVE  block'[a].users # {}
    <3>1. block[a].users # {} /\ block[a].users # {p}
      BY <2>2, <2>4, <2>5
    <3>2. QED  BY ONLY <2>4, <3>1
  <2>6. block'[a].users # {} => block'[a].exists
    BY <2>4
  <2>7. \A q : q \in block'[a].users <=> q \in block[a].users /\ q # p
    BY ONLY <2>4
  <2>8. QED
    BY ONLY <1>1, <2>2, <2>3, <2>4, <2>5, <2>6, <2>7
<1>4. QED  BY <1>2, <1>3

(* The names of processes are different.                                   *)
LEMMA Names ==
    ASSUME LaunchAssumption
    PROVE  /\ Server \in 0..(2 * MaxLaunches)
           /\ \A n \in Launches :
                /\ App(n) \in 0..(2 * MaxLaunches) /\ Child(n) \in 0..(2 * MaxLaunches)
                /\ App(n) # Server /\ Child(n) # Server
                /\ App(n) \in 0..MaxLaunches /\ App(n) = n
                /\ \A m \in Launches :
                    /\ App(n) # Child(m)
                    /\ App(n) = App(m) => n = m
                    /\ Child(n) = Child(m) => n = m
BY DEF Server, App, Child, Launches, LaunchAssumption

LEMMA HeirTypes ==
    ASSUME LaunchAssumption, StartInv, StartServerNext \/ StartOtherNext
    PROVE  /\ inherited' \in [Apps -> SUBSET (0..(2 * MaxLaunches))]
           /\ abandoned' \subseteq Apps
<1>. USE LaunchAssumption DEF StartInv, StartTypes
<1>1. CASE UNCHANGED <<inherited, abandoned>>
  BY <1>1
<1>2. CASE Launch
  <2>1. launch \in Launches
    BY <1>2 DEF Launch, Launches
  <2>2. QED
    BY <1>2, <2>1, Names DEF Launch
<1>3. ASSUME NEW n \in Launches, Fork(n)
      PROVE  /\ inherited' \in [Apps -> SUBSET (0..(2 * MaxLaunches))]
             /\ abandoned' \subseteq Apps
  BY <1>3, Names DEF Fork
<1>4. ASSUME NEW n \in Launches, ForkFails(n) \/ ChildExits(n) \/ Exec(n)
      PROVE  /\ inherited' \in [Apps -> SUBSET (0..(2 * MaxLaunches))]
             /\ abandoned' \subseteq Apps
  BY <1>4 DEF ForkFails, ChildExits, Exec, Disinherit
<1>5. ASSUME NEW n \in Launches, Register(n) \/ Loaded(n)
      PROVE  /\ inherited' \in [Apps -> SUBSET (0..(2 * MaxLaunches))]
             /\ abandoned' \subseteq Apps
  <2>1. grandchild[n] # "none"
    BY <1>5 DEF Register, Loaded
  <2>2. n \in 1..Len(appOf) /\ appOf[n] \in Apps
    BY <2>1 DEF LaunchInv, Launches
  <2>3. QED
    BY <1>5, <2>2 DEF Register, Loaded, DetachBlock
<1>6. QED
  BY <1>1, <1>2, <1>3, <1>4, <1>5
  DEF StartServerNext, StartOtherNext, Run, StoreSharedData, ParamsOnly, NotLaunched,
      Ends, Poll, StopPolling, Reap, WritePid, LoadSharedData, Startup

(* One action at a time.                                                   *)
LEMMA StartTypesStep ==
    ASSUME LaunchAssumption, StartInv, StartServerNext \/ StartOtherNext
    PROVE  StartTypes'
<1>. USE LaunchAssumption DEF StartInv, StartTypes
<1>. inherited' \in [Apps -> SUBSET (0..(2 * MaxLaunches))] /\ abandoned' \subseteq Apps
  BY HeirTypes
<1>1. ASSUME NEW a \in Apps, NEW params \in BOOLEAN, Run(a, params)
      PROVE  StartTypes'
  <2>1. launch' \in 0..MaxLaunches /\ launch' # 0
    BY <1>1 DEF Run, LaunchAssumption
  <2>2. appOf' \in Seq(Apps) /\ Len(appOf') = launch'
    BY <1>1 DEF Run
  <2>3. block' \in [Apps -> Segments]
    BY <1>1, FirstSegment DEF Run
  <2>4. at' \in Places
    BY <1>1 DEF Run, Places
  <2>5. QED
    BY <1>1, <2>1, <2>2, <2>3, <2>4 DEF Run, Processes
<1>2. ASSUME StoreSharedData
      PROVE  StartTypes'
  <2>1. launch \in 1..Len(appOf) /\ launch \in 0..MaxLaunches
    BY <1>2 DEF StoreSharedData, LaunchAssumption
  <2>2. appOf[launch] \in Apps
    BY <2>1
  <2>3. [block[appOf[launch]] EXCEPT !.value = launch] \in Segments
    BY <2>1, <2>2 DEF Segments
  <2>4. block' \in [Apps -> Segments]
    BY <1>2, <2>2, <2>3 DEF StoreSharedData
  <2>5. QED
    BY <1>2, <2>2, <2>4 DEF StoreSharedData, Places, Processes
<1>3. ASSUME ParamsOnly \/ NotLaunched
      PROVE  StartTypes'
  BY <1>3 DEF ParamsOnly, NotLaunched, Ends, Places, Processes, Startup
<1>4. ASSUME Launch
      PROVE  StartTypes'
  <2>1. launch \in Launches
    BY <1>4 DEF Launch, Launches, LaunchAssumption
  <2>2. pidMem' \in Segments
    BY <1>4, <2>1, Attached, FirstSegment, Names DEF Launch, Create
  <2>3. QED
    BY <1>4, <2>1, <2>2 DEF Launch, Places, ChildStates, LaunchAssumption
<1>5. ASSUME Poll
      PROVE  StartTypes'
  <2>1. pidMem.value \in 0..MaxLaunches
    BY DEF Segments
  <2>2. polls' \in 0..MaxPolls
    BY <1>5 DEF Poll, LaunchAssumption
  <2>3. QED
    BY <1>5, <2>1, <2>2 DEF Poll, Processes, Startup
<1>6. ASSUME StopPolling
      PROVE  StartTypes'
  <2>1. pidMem' \in Segments
    BY <1>6, Detached DEF StopPolling, PidMemInv
  <2>2. QED
    BY <1>6, <2>1 DEF StopPolling, Startup, Places
<1>7. ASSUME Reap
      PROVE  StartTypes'
  BY <1>7 DEF Reap, Places, Processes, Startup
<1>8. ASSUME NEW n \in Launches, Register(n)
      PROVE  StartTypes'
  <2>1. block' \in [Apps -> Segments]
    <3>1. CASE appOf[n] \in mStoredDataBlocks
      <4>1. DetachBlock(appOf[n], Server) /\ appOf[n] \in Apps
        BY <1>8, <3>1 DEF Register
      <4>2. BlockInv(appOf[n])
        BY <4>1 DEF BlocksInv
      <4>3. QED  BY <4>1, <4>2, BlockDetached DEF BlockInv
    <3>2. CASE appOf[n] \notin mStoredDataBlocks
      BY <1>8, <3>2 DEF Register
    <3>3. QED  BY <3>1, <3>2
  <2>2. QED
    BY <1>8, <2>1 DEF Register, AppStates
<1>9. ASSUME NEW n \in Launches, ForkFails(n) \/ ChildExits(n)
      PROVE  StartTypes'
  <2>1. pidMem' \in Segments
    BY <1>9, Detached DEF ForkFails, ChildExits, PidMemInv
  <2>2. QED
    BY <1>9, <2>1 DEF ForkFails, ChildExits, Disinherit, ServerUnchanged, ChildStates
<1>10. ASSUME NEW n \in Launches, Fork(n)
       PROVE  StartTypes'
  <2>1. pidMem.exists
    BY <1>10 DEF Fork, PidMemInv, Holding
  <2>2. pidMem' \in Segments
    BY <1>10, <2>1, Attached, Names DEF Fork
  <2>3. QED
    BY <1>10, <2>2 DEF Fork, ServerUnchanged, ChildStates, AppStates
<1>11. ASSUME NEW n \in Launches, WritePid(n)
       PROVE  StartTypes'
  <2>1. pidMem' \in Segments
    BY <1>11, Names DEF WritePid, Segments
  <2>2. QED
    BY <1>11, <2>1 DEF WritePid, ServerUnchanged, Startup, ChildStates
<1>12. ASSUME NEW n \in Launches, Exec(n)
       PROVE  StartTypes'
  <2>1. pidMem' \in Segments
    BY <1>12, Detached DEF Exec, PidMemInv
  <2>2. QED
    BY <1>12, <2>1 DEF Exec, Disinherit, ServerUnchanged, AppStates
<1>13. ASSUME NEW n \in Launches, LoadSharedData(n)
       PROVE  StartTypes'
  <2>1. n \in 1..Len(appOf) /\ appOf[n] \in Apps
    BY <1>13 DEF LoadSharedData, LaunchInv, Launches, LaunchAssumption
  <2>2. block' \in [Apps -> Segments]
    <3>1. CASE block[appOf[n]].exists
      <4>1. Attach(block[appOf[n]], App(n)) \in Segments
        BY <2>1, <3>1, Attached, Names
      <4>2. QED
        BY <1>13, <2>1, <3>1, <4>1 DEF LoadSharedData
    <3>2. CASE ~block[appOf[n]].exists
      BY <1>13, <3>2 DEF LoadSharedData
    <3>3. QED  BY <3>1, <3>2
  <2>3. QED
    BY <1>13, <2>2 DEF LoadSharedData, ServerUnchanged, AppStates
<1>14. ASSUME NEW n \in Launches, Loaded(n)
       PROVE  StartTypes'
  <2>. DEFINE a == appOf[n]
  <2>1. n \in 1..Len(appOf) /\ a \in Apps
    BY <1>14 DEF Loaded, LaunchInv, Launches, LaunchAssumption
  <2>2. BlockInv(a) /\ block[a] \in Segments
    BY <2>1 DEF BlocksInv
  <2>3. block' \in [Apps -> Segments] /\ loaded' \in [Launches -> 0..MaxLaunches]
    <3>1. CASE DetachBlock(a, App(n)) /\ loaded' = [loaded EXCEPT ![n] = block[a].value]
      <4>1. block' \in [Apps -> Segments]
        BY <2>1, <2>2, <3>1, BlockDetached DEF BlockInv
      <4>2. block[a].value \in 0..MaxLaunches
        BY <2>2 DEF Segments
      <4>3. QED  BY <3>1, <4>1, <4>2
    <3>2. CASE block' = [block EXCEPT ![a] = EndAttached(@, App(n))] /\ loaded' = loaded
      <4>1. EndAttached(block[a], App(n)) \in Segments
        BY <2>2 DEF EndAttached, Segments
      <4>2. QED  BY <3>2, <4>1
    <3>3. QED  BY <1>14, <3>1, <3>2 DEF Loaded
  <2>4. QED
    BY <1>14, <2>3 DEF Loaded, ServerUnchanged, AppStates
<1>15. QED
  BY <1>1, <1>2, <1>3, <1>4, <1>5, <1>6, <1>7, <1>8, <1>9, <1>10, <1>11, <1>12,
     <1>13, <1>14 DEF StartServerNext, StartOtherNext


(* pid_mem.                                                                *)
LEMMA PidMemStep ==
    ASSUME LaunchAssumption, StartInv, StartServerNext \/ StartOtherNext
    PROVE  PidMemInv'
<1>. USE LaunchAssumption DEF StartInv
<1>. launch \in 0..MaxLaunches /\ (at # "idle" => launch \in Launches)
  BY DEF StartTypes, Launches, LaunchAssumption
<1>1. CASE UNCHANGED <<child, grandchild, pidMem>> /\ (at' = "polling" <=> at = "polling")
  BY <1>1 DEF PidMemInv
<1>2. CASE Launch
  <2>1. Create = Created /\ ~pidMem.exists
    BY <1>2, FirstSegment DEF Launch, Create
  <2>6. pidMem' = Attach(Created, Child(launch)) /\ launch \in Launches
    BY <1>2, <2>1 DEF Launch
  <2>7. /\ pidMem'.exists
        /\ \A q : q \in pidMem'.users <=> q \in Created.users \/ q = Child(launch)
    BY <2>6, Attached, FirstSegment, Names
  <2>2. /\ pidMem'.exists /\ pidMem'.users # {}
        /\ \A q : q \in pidMem'.users <=> q = Server \/ q = Child(launch)
    BY <2>7, FirstSegment
  <2>3. \A n \in Launches : grandchild[n] # "forked" /\ child[n] \notin Holding
    BY <2>1 DEF PidMemInv
  <2>4. child' = [child EXCEPT ![launch] = "forked"] /\ grandchild' = grandchild
        /\ at' = "polling" /\ launch \in Launches
    BY <1>2 DEF Launch
  <2>5. QED
    BY <2>2, <2>3, <2>4, Names DEF PidMemInv, Holding, StartTypes
<1>3. CASE StopPolling
  <2>1. /\ pidMem'.exists <=> pidMem'.users # {}
        /\ \A q : q \in pidMem'.users <=> q \in pidMem.users /\ q # Server
    BY <1>3, Detached DEF StopPolling, PidMemInv, StartTypes
  <2>2. at' = "waiting" /\ UNCHANGED <<child, grandchild>>
    BY <1>3 DEF StopPolling
  <2>3. QED
    BY <2>1, <2>2, Names DEF PidMemInv
<1>4. ASSUME NEW n \in Launches, ForkFails(n) \/ ChildExits(n)
      PROVE  PidMemInv'
  <2>1. /\ pidMem'.exists <=> pidMem'.users # {}
        /\ \A q : q \in pidMem'.users <=> q \in pidMem.users /\ q # Child(n)
    BY <1>4, Detached DEF ForkFails, ChildExits, PidMemInv, StartTypes
  <2>2. /\ UNCHANGED <<at, grandchild>>
        /\ \A m \in Launches : m # n => child'[m] = child[m]
        /\ child'[n] \notin Holding
    BY <1>4 DEF ForkFails, ChildExits, ServerUnchanged, StartTypes, Holding
  <2>3. QED
    BY <2>1, <2>2, Names DEF PidMemInv
<1>5. ASSUME NEW n \in Launches, Fork(n)
      PROVE  PidMemInv'
  <2>1. child[n] \in Holding /\ pidMem.exists
    BY <1>5 DEF Fork, PidMemInv, Holding
  <2>2. /\ pidMem'.exists /\ pidMem'.users # {}
        /\ \A q : q \in pidMem'.users <=> q \in pidMem.users \/ q = App(n)
    BY <1>5, <2>1, Attached, Names DEF Fork, StartTypes
  <2>3. /\ at' = at
        /\ \A m \in Launches : m # n => child'[m] = child[m] /\ grandchild'[m] = grandchild[m]
        /\ child'[n] \in Holding /\ grandchild'[n] = "forked"
    BY <1>5 DEF Fork, ServerUnchanged, StartTypes, Holding
  <2>4. QED
    BY <2>1, <2>2, <2>3, Names DEF PidMemInv
<1>6. ASSUME NEW n \in Launches, WritePid(n)
      PROVE  PidMemInv'
  <2>1. pidMem'.exists = pidMem.exists /\ pidMem'.users = pidMem.users
    BY <1>6 DEF WritePid, StartTypes, Segments
  <2>2. /\ UNCHANGED <<at, grandchild>>
        /\ \A m \in Launches : child'[m] \in Holding <=> child[m] \in Holding
    BY <1>6 DEF WritePid, ServerUnchanged, StartTypes, Holding
  <2>3. QED
    BY <2>1, <2>2 DEF PidMemInv
<1>7. ASSUME NEW n \in Launches, Exec(n)
      PROVE  PidMemInv'
  <2>1. /\ pidMem'.exists <=> pidMem'.users # {}
        /\ \A q : q \in pidMem'.users <=> q \in pidMem.users /\ q # App(n)
    BY <1>7, Detached DEF Exec, PidMemInv, StartTypes
  <2>2. /\ UNCHANGED <<at, child>>
        /\ \A m \in Launches : m # n => grandchild'[m] = grandchild[m]
        /\ grandchild'[n] # "forked"
    BY <1>7 DEF Exec, ServerUnchanged, StartTypes
  <2>3. QED
    BY <2>1, <2>2, Names DEF PidMemInv
<1>8. ASSUME NEW n \in Launches, Register(n) \/ LoadSharedData(n) \/ Loaded(n)
      PROVE  PidMemInv'
  <2>1. /\ UNCHANGED <<at, child, pidMem>>
        /\ \A m \in Launches : grandchild'[m] = "forked" <=> grandchild[m] = "forked"
    BY <1>8 DEF Register, LoadSharedData, Loaded, ServerUnchanged, StartTypes
  <2>2. QED
    BY <2>1 DEF PidMemInv
<1>9. ASSUME \/ \E a \in Apps, params \in BOOLEAN : Run(a, params)
             \/ StoreSharedData \/ ParamsOnly \/ NotLaunched \/ Poll \/ Reap
      PROVE  PidMemInv'
  <2>1. UNCHANGED <<child, grandchild, pidMem>> /\ (at' = "polling" <=> at = "polling")
    BY <1>9 DEF Run, StoreSharedData, ParamsOnly, NotLaunched, Ends, Poll, Reap, Processes
  <2>2. QED
    BY <1>1, <2>1
<1>10. QED
  BY <1>2, <1>3, <1>4, <1>5, <1>6, <1>7, <1>8, <1>9 DEF StartServerNext, StartOtherNext

(* A launch has pid_mem for itself.                                        *)
LEMMA LaunchStep ==
    ASSUME LaunchAssumption, StartInv, StartServerNext \/ StartOtherNext
    PROVE  LaunchInv'
<1>. USE LaunchAssumption DEF StartInv
<1>. launch \in 0..MaxLaunches /\ (at # "idle" => launch \in Launches) /\ MaxLaunches \in Nat
  BY DEF StartTypes, Launches, LaunchAssumption
<1>1. ASSUME NEW a \in Apps, NEW params \in BOOLEAN, Run(a, params)
      PROVE  LaunchInv'
  <2>1. launch' = launch + 1 /\ at' \in {"storing", "launching"}
        /\ UNCHANGED <<child, grandchild>> /\ launch < MaxLaunches
    BY <1>1 DEF Run, Processes
  <2>2. QED
    BY <2>1 DEF LaunchInv, Launches
<1>2. ASSUME StoreSharedData \/ ParamsOnly \/ NotLaunched \/ Reap
      PROVE  LaunchInv'
  <2>1. /\ at' = "idle" \/ (at' = "launching" /\ at = "storing")
        /\ UNCHANGED <<launch, child, grandchild>>
    BY <1>2 DEF StoreSharedData, ParamsOnly, NotLaunched, Ends, Reap, Processes
  <2>2. QED
    BY <2>1 DEF LaunchInv
<1>3. CASE Launch
  <2>1. Create = Created /\ ~pidMem.exists
    BY <1>3, FirstSegment DEF Launch, Create
  <2>2. pidMem'.value = 0
    BY <1>3, <2>1, Attached, FirstSegment, Names DEF Launch
  <2>3. \A n \in Launches : grandchild[n] # "forked" /\ child[n] \notin Holding
    BY <2>1 DEF PidMemInv
  <2>4. /\ \A n \in Launches : n # launch => child'[n] = child[n]
        /\ child'[launch] = "forked" /\ UNCHANGED <<launch, grandchild>>
        /\ launch \in Launches /\ actualpid' = 0 /\ at = "launching" /\ at' = "polling"
    BY <1>3 DEF Launch, StartTypes, Startup
  <2>5. QED
    BY <2>2, <2>3, <2>4 DEF LaunchInv, Launches
<1>4. CASE Poll
  BY <1>4 DEF Poll, LaunchInv, Processes
<1>5. CASE StopPolling
  <2>1. pidMem'.value \in {0, pidMem.value}
    BY <1>5, Detached DEF StopPolling, PidMemInv, StartTypes
  <2>2. QED
    BY <1>5, <2>1 DEF StopPolling, LaunchInv, Launches
<1>6. ASSUME NEW n \in Launches, Register(n) \/ LoadSharedData(n) \/ Loaded(n)
      PROVE  LaunchInv'
  <2>1. /\ UNCHANGED <<at, launch, child, pidMem, actualpid>>
        /\ grandchild[n] \notin {"none", "forked"} /\ grandchild'[n] \notin {"none", "forked"}
        /\ \A m \in Launches : m # n => grandchild'[m] = grandchild[m]
    BY <1>6 DEF Register, LoadSharedData, Loaded, ServerUnchanged, StartTypes
  <2>2. QED
    BY <2>1 DEF LaunchInv
<1>7. ASSUME NEW n \in Launches, ForkFails(n) \/ ChildExits(n)
      PROVE  LaunchInv'
  <2>1. pidMem'.value \in {0, pidMem.value}
    BY <1>7, Detached DEF ForkFails, ChildExits, PidMemInv, StartTypes
  <2>2. /\ UNCHANGED <<at, launch, actualpid, grandchild>>
        /\ child[n] \in Holding /\ child'[n] \in {"failed", "done"}
        /\ child'[n] = "done" <=> child[n] = "detaching"
        /\ child[n] # "writing"
        /\ \A m \in Launches : m # n => child'[m] = child[m]
    BY <1>7 DEF ForkFails, ChildExits, ServerUnchanged, StartTypes, Holding
  <2>3. QED
    BY <2>1, <2>2 DEF LaunchInv, Launches, Holding
<1>8. ASSUME NEW n \in Launches, Fork(n)
      PROVE  LaunchInv'
  <2>1. pidMem.exists
    BY <1>8 DEF Fork, PidMemInv, Holding
  <2>2. pidMem'.value = pidMem.value
    BY <1>8, <2>1, Attached, Names DEF Fork, StartTypes
  <2>3. /\ UNCHANGED <<at, launch, actualpid>>
        /\ child[n] = "forked" /\ child'[n] = "writing" /\ grandchild'[n] = "forked"
        /\ \A m \in Launches : m # n => child'[m] = child[m] /\ grandchild'[m] = grandchild[m]
    BY <1>8 DEF Fork, ServerUnchanged, StartTypes
  <2>4. QED
    BY <2>2, <2>3 DEF LaunchInv, Launches, Holding
<1>9. ASSUME NEW n \in Launches, WritePid(n)
      PROVE  LaunchInv'
  <2>1. pidMem'.value = n
    BY <1>9, Names DEF WritePid, StartTypes, Segments
  <2>2. /\ UNCHANGED <<at, launch, actualpid, grandchild>>
        /\ child[n] = "writing" /\ child'[n] = "detaching"
        /\ \A m \in Launches : m # n => child'[m] = child[m]
    BY <1>9 DEF WritePid, ServerUnchanged, StartTypes
  <2>3. QED
    BY <2>1, <2>2 DEF LaunchInv, Launches, Holding
<1>10. ASSUME NEW n \in Launches, Exec(n)
       PROVE  LaunchInv'
  <2>1. pidMem'.value \in {0, pidMem.value}
    BY <1>10, Detached DEF Exec, PidMemInv, StartTypes
  <2>2. /\ UNCHANGED <<at, launch, actualpid, child>>
        /\ grandchild[n] = "forked" /\ grandchild'[n] \in {"running", "dead"}
        /\ \A m \in Launches : m # n => grandchild'[m] = grandchild[m]
    BY <1>10 DEF Exec, ServerUnchanged, StartTypes
  <2>3. QED
    BY <2>1, <2>2 DEF LaunchInv, Launches
<1>11. QED
  BY <1>1, <1>2, <1>3, <1>4, <1>5, <1>6, <1>7, <1>8, <1>9, <1>10
     DEF StartServerNext, StartOtherNext


(* Startup data.  What BlockInv says of one application depends on its     *)
(* block, on whether the server stores it, and on who is loading it.       *)
LEMMA BlockUnchanged ==
    ASSUME StartInv, NEW a \in Apps, BlockInv(a),
           block'[a] = block[a],
           a \in mStoredDataBlocks' <=> a \in mStoredDataBlocks,
           a \in abandoned' <=> a \in abandoned,
           at' = "storing" /\ appOf'[launch'] = a <=> at = "storing" /\ appOf[launch] = a,
           \A n \in Launches :
              grandchild'[n] = "loading" /\ n <= launch' /\ appOf'[n] = a
                 <=> grandchild[n] = "loading" /\ n <= launch /\ appOf[n] = a
    PROVE  BlockInv(a)'
BY DEF BlockInv

LEMMA BlocksStep ==
    ASSUME LaunchAssumption, StartInv, StartServerNext \/ StartOtherNext
    PROVE  BlocksInv'
<1>. USE LaunchAssumption DEF StartInv
<1>. /\ launch \in 0..MaxLaunches /\ (at # "idle" => launch \in Launches)
     /\ MaxLaunches \in Nat /\ Len(appOf) = launch /\ appOf \in Seq(Apps)
  BY DEF StartTypes, Launches, LaunchAssumption
<1>a. \A n \in Launches : grandchild[n] # "none" => n \in 1..launch /\ appOf[n] \in Apps
  BY DEF LaunchInv, Launches
<1>1. ASSUME NEW b \in Apps, NEW params \in BOOLEAN, Run(b, params), NEW a \in Apps
      PROVE  BlockInv(a)'
  <2>1. /\ at = "idle" /\ launch' = launch + 1 /\ at' \in {"storing", "launching"}
        /\ appOf' = Append(appOf, b)
        /\ UNCHANGED <<grandchild, mStoredDataBlocks, abandoned>>
    BY <1>1 DEF Run, Processes
  <2>2. appOf'[launch'] = b /\ \A n \in 1..launch : appOf'[n] = appOf[n]
    BY <2>1
  <2>3. \A n \in Launches :
           grandchild'[n] = "loading" /\ n <= launch' /\ appOf'[n] = a
              <=> grandchild[n] = "loading" /\ n <= launch /\ appOf[n] = a
    BY <2>1, <2>2, <1>a DEF Launches
  <2>4. BlockInv(a)
    BY DEF BlocksInv
  <2>5. CASE a = b /\ at' = "storing"
    <3>1. ~block[a].exists /\ block'[a] = Created
      BY <1>1, <2>5 DEF Run, StartTypes
    <3>2. \A n \in Launches : ~(grandchild[n] = "loading" /\ n <= launch /\ appOf[n] = a)
      BY <3>1, <2>4 DEF BlockInv
    <3>3. a \notin mStoredDataBlocks
      BY <3>1, <2>4 DEF BlockInv
    <3>4. QED
      BY <3>1, <3>2, <3>3, <2>1, <2>2, <2>3, <2>5, FirstSegment, Names DEF BlockInv
  <2>6. CASE ~(a = b /\ at' = "storing")
    <3>1. block'[a] = block[a]
      BY <1>1, <2>6 DEF Run, StartTypes
    <3>2. QED
      BY <3>1, <2>1, <2>2, <2>3, <2>4, <2>6, BlockUnchanged
  <2>7. QED  BY <2>5, <2>6
<1>2. ASSUME StoreSharedData, NEW a \in Apps
      PROVE  BlockInv(a)'
  <2>1. /\ at = "storing" /\ at' = "launching"
        /\ UNCHANGED <<launch, appOf, grandchild, abandoned>>
        /\ mStoredDataBlocks' = mStoredDataBlocks \cup {appOf[launch]}
        /\ block' = [block EXCEPT ![appOf[launch]].value = launch]
    BY <1>2 DEF StoreSharedData, Processes
  <2>2. BlockInv(a) /\ block[a] \in Segments /\ launch # 0
    BY <2>1 DEF BlocksInv, StartTypes, Launches
  <2>3. CASE a = appOf[launch]
    <3>1. block'[a].exists = block[a].exists /\ block'[a].users = block[a].users
          /\ block'[a].value = launch
      BY <2>1, <2>2, <2>3 DEF StartTypes, Segments
    <3>2. QED
      BY <3>1, <2>1, <2>2, <2>3 DEF BlockInv
  <2>4. CASE a # appOf[launch]
    <3>1. block'[a] = block[a]
      BY <2>1, <2>4 DEF StartTypes
    <3>2. QED
      BY <3>1, <2>1, <2>2, <2>4, BlockUnchanged
  <2>5. QED  BY <2>3, <2>4
<1>3. ASSUME ParamsOnly \/ NotLaunched \/ Launch \/ Poll \/ StopPolling \/ Reap,
             NEW a \in Apps
      PROVE  BlockInv(a)'
  <2>1. /\ at # "storing" /\ at' # "storing"
        /\ UNCHANGED <<launch, appOf, grandchild, block, mStoredDataBlocks, abandoned>>
    BY <1>3 DEF ParamsOnly, NotLaunched, Ends, Launch, Poll, StopPolling, Reap,
                Processes, Startup
  <2>2. BlockInv(a)
    BY DEF BlocksInv
  <2>3. QED
    BY <2>1, <2>2, BlockUnchanged
<1>4. ASSUME NEW n \in Launches, Register(n), NEW a \in Apps
      PROVE  BlockInv(a)'
  <2>1. /\ at = "idle" /\ UNCHANGED <<at, launch, appOf>>
        /\ mStoredDataBlocks' = mStoredDataBlocks \ {appOf[n]}
        /\ \A m \in Launches : grandchild'[m] = "loading" <=> grandchild[m] = "loading"
    BY <1>4 DEF Register, StartTypes
  <2>2. BlockInv(a)
    BY DEF BlocksInv
  <2>3. CASE a = appOf[n] /\ a \in mStoredDataBlocks
    <3>1. DetachBlock(a, Server)
      BY <1>4, <2>3 DEF Register
    <3>2. /\ block'[a].users # {} => block'[a].exists
          /\ block'[a].exists /\ a \notin abandoned' => block'[a].users # {}
          /\ block'[a].exists => block[a].exists /\ block'[a].value = block[a].value
          /\ \A q : q \in block'[a].users <=> q \in block[a].users /\ q # Server
      <4>1. /\ block \in [Apps -> Segments] /\ abandoned \subseteq Apps
            /\ block[a].users # {} => block[a].exists
            /\ block[a].exists /\ a \notin abandoned => block[a].users # {}
        BY <2>2 DEF BlockInv, StartTypes
      <4>2. QED  BY ONLY LaunchAssumption, a \in Apps, <3>1, <4>1, BlockDetached
    <3>3. QED
      BY <3>2, <2>1, <2>2, <2>3, Names DEF BlockInv
  <2>4. CASE a # appOf[n] /\ appOf[n] \in mStoredDataBlocks
    <3>1. DetachBlock(appOf[n], Server) /\ appOf[n] \in Apps
      BY <1>4, <2>4 DEF Register, StartTypes
    <3>2. block'[a] = block[a] /\ (a \in abandoned' <=> a \in abandoned)
      BY <3>1, <2>4 DEF DetachBlock, StartTypes
    <3>3. QED
      BY <3>2, <2>1, <2>2, <2>4, BlockUnchanged
  <2>5. CASE appOf[n] \notin mStoredDataBlocks
    <3>1. block' = block /\ abandoned' = abandoned
      BY <1>4, <2>5 DEF Register
    <3>2. QED
      BY <3>1, <2>1, <2>2, <2>5, BlockUnchanged
  <2>6. QED  BY <2>3, <2>4, <2>5
<1>5. ASSUME NEW n \in Launches,
             ForkFails(n) \/ Fork(n) \/ WritePid(n) \/ ChildExits(n) \/ Exec(n),
             NEW a \in Apps
      PROVE  BlockInv(a)'
  <2>1. /\ UNCHANGED <<at, launch, appOf, block, mStoredDataBlocks, abandoned>>
        /\ \A m \in Launches : m # n => grandchild'[m] = grandchild[m]
    BY <1>5 DEF ForkFails, Fork, WritePid, ChildExits, Exec, Disinherit,
                ServerUnchanged, Startup, StartTypes
  <2>2. grandchild'[n] = "loading" <=> grandchild[n] = "loading"
    <3>1. CASE Fork(n)
      <4>1. child[n] = "forked" /\ grandchild' = [grandchild EXCEPT ![n] = "forked"]
        BY <3>1 DEF Fork
      <4>2. QED
        BY <4>1 DEF LaunchInv, StartTypes
    <3>2. CASE Exec(n)
      BY <3>2 DEF Exec, StartTypes
    <3>3. QED
      BY <1>5, <3>1, <3>2 DEF ForkFails, WritePid, ChildExits
  <2>3. BlockInv(a)
    BY DEF BlocksInv
  <2>4. QED
    BY <2>1, <2>2, <2>3, BlockUnchanged
<1>6. ASSUME NEW n \in Launches, LoadSharedData(n), NEW a \in Apps
      PROVE  BlockInv(a)'
  <2>1. /\ grandchild[n] = "running" /\ appOf[n] \in Apps /\ n \in 1..launch
        /\ UNCHANGED <<at, launch, appOf, mStoredDataBlocks, abandoned>>
        /\ \A m \in Launches : m # n => grandchild'[m] = grandchild[m]
    BY <1>6, <1>a DEF LoadSharedData, ServerUnchanged, StartTypes
  <2>2. BlockInv(a) /\ block[a] \in Segments
    BY DEF BlocksInv, StartTypes
  <2>3. CASE a = appOf[n] /\ block[a].exists
    <3>1. block'[a] = Attach(block[a], App(n)) /\ grandchild'[n] = "loading"
      BY <1>6, <2>1, <2>3 DEF LoadSharedData, StartTypes
    <3>2. /\ block'[a].exists /\ block'[a].value = block[a].value
          /\ \A q : q \in block'[a].users <=> q \in block[a].users \/ q = App(n)
      <4>1. block[a] \in Segments /\ block[a].exists /\ App(n) \in 0..(2 * MaxLaunches)
        BY <2>2, <2>3, Names
      <4>2. /\ Attach(block[a], App(n)).exists
            /\ Attach(block[a], App(n)).value = block[a].value
            /\ \A q : q \in Attach(block[a], App(n)).users
                        <=> q \in block[a].users \/ q = App(n)
        BY ONLY <4>1, Attached
      <4>3. QED  BY <3>1, <4>2
    <3>3. block'[a].users # {}
      BY <3>2
    <3>4. QED
      BY <3>1, <3>2, <3>3, <2>1, <2>2, <2>3, Names DEF BlockInv
  <2>4. CASE ~(a = appOf[n] /\ block[a].exists)
    <3>1. block'[a] = block[a]
      BY <1>6, <2>1, <2>4 DEF LoadSharedData, StartTypes
    <3>2. ~(grandchild'[n] = "loading" /\ appOf[n] = a)
      BY <1>6, <2>1, <2>4 DEF LoadSharedData, StartTypes
    <3>3. QED
      BY <3>1, <3>2, <2>1, <2>2, BlockUnchanged
  <2>5. QED  BY <2>3, <2>4
<1>7. ASSUME NEW n \in Launches, Loaded(n), NEW a \in Apps
      PROVE  BlockInv(a)'
  <2>1. /\ grandchild[n] = "loading" /\ appOf[n] \in Apps /\ n \in 1..launch
        /\ UNCHANGED <<at, launch, appOf, mStoredDataBlocks>>
        /\ grandchild'[n] \in {"loaded", "dead"}
        /\ \A m \in Launches : m # n => grandchild'[m] = grandchild[m]
    BY <1>7, <1>a DEF Loaded, ServerUnchanged, StartTypes
  <2>2. BlockInv(a) /\ block[a] \in Segments
    BY DEF BlocksInv, StartTypes
  <2>3. CASE a # appOf[n]
    <3>1. block'[a] = block[a] /\ (a \in abandoned' <=> a \in abandoned)
      BY <1>7, <2>1, <2>3 DEF Loaded, DetachBlock, StartTypes
    <3>2. QED
      BY <3>1, <2>1, <2>2, <2>3, BlockUnchanged
  <2>4. ASSUME a = appOf[n],
               /\ block'[a].users # {} => block'[a].exists
               /\ block'[a].exists /\ a \notin abandoned' => block'[a].users # {}
               /\ block'[a].exists => block[a].exists /\ block'[a].value = block[a].value
               /\ \A q : q \in block'[a].users <=> q \in block[a].users /\ q # App(n)
        PROVE  BlockInv(a)'
    <3>1. /\ App(n) # Server
          /\ \A m \in Launches : App(n) # Child(m) /\ (App(m) = App(n) => m = n)
      BY Names
    <3>2. \A m \in Launches :
              /\ App(m) \in block[a].users
                    <=> grandchild[m] = "loading" /\ m <= launch /\ appOf[m] = a
              /\ Child(m) \notin block[a].users
      BY ONLY <2>2 DEF BlockInv
    <3>3. ASSUME NEW m \in Launches
          PROVE  /\ App(m) \in block'[a].users
                    <=> grandchild'[m] = "loading" /\ m <= launch /\ appOf[m] = a
                 /\ Child(m) \notin block'[a].users
      <4>1. CASE m = n
        BY ONLY <4>1, <2>1, <2>4, <3>2, m \in Launches
      <4>2. CASE m # n
        BY ONLY <4>2, <2>1, <2>4, <3>1, <3>2, n \in Launches, m \in Launches
      <4>3. QED  BY ONLY <4>1, <4>2
    <3>4. Server \in block'[a].users <=> Server \in block[a].users
      BY ONLY <2>4, <3>1
    <3>5. /\ at' = at /\ launch' = launch /\ appOf' = appOf
          /\ mStoredDataBlocks' = mStoredDataBlocks
      BY ONLY <2>1
    <3>6. QED
      BY ONLY <2>2, <2>4, <3>3, <3>4, <3>5 DEF BlockInv
  <2>5. CASE a = appOf[n] /\ DetachBlock(a, App(n))
    <3>1. DetachBlock(a, App(n))
      BY <2>5
    <3>2. /\ block'[a].users # {} => block'[a].exists
          /\ block'[a].exists /\ a \notin abandoned' => block'[a].users # {}
          /\ block'[a].exists => block[a].exists /\ block'[a].value = block[a].value
          /\ \A q : q \in block'[a].users <=> q \in block[a].users /\ q # App(n)
      <4>1. /\ block \in [Apps -> Segments] /\ abandoned \subseteq Apps
            /\ block[a].users # {} => block[a].exists
            /\ block[a].exists /\ a \notin abandoned => block[a].users # {}
        BY <2>2 DEF BlockInv, StartTypes
      <4>2. QED  BY ONLY LaunchAssumption, a \in Apps, <3>1, <4>1, BlockDetached
    <3>3. QED
      BY <3>2, <2>4, <2>5
  <2>6. CASE /\ a = appOf[n] /\ block[a].value = 0
             /\ block' = [block EXCEPT ![a] = EndAttached(@, App(n))]
    <3>1. /\ block'[a].exists = block[a].exists /\ block'[a].value = block[a].value
          /\ \A q : q \in block'[a].users <=> q \in block[a].users /\ q # App(n)
      BY <2>2, <2>6 DEF StartTypes, EndAttached, Segments
    <3>2. App(n) \in block[a].users
      BY <2>1, <2>2, <2>6 DEF BlockInv
    <3>3. Server \in block[a].users /\ block[a].exists
      BY <3>2, <2>2, <2>6 DEF BlockInv
    <3>4. Server \in block'[a].users /\ block'[a].exists
      BY <3>1, <3>3, <2>2, Names
    <3>5. QED
      BY <3>1, <3>3, <3>4, <2>2, <2>4, <2>6
  <2>7. QED
    BY <1>7, <2>3, <2>5, <2>6 DEF Loaded
<1>8. QED
  BY <1>1, <1>2, <1>3, <1>4, <1>5, <1>6, <1>7
     DEF StartServerNext, StartOtherNext, BlocksInv

(* The server's hold on what it has stored.                                *)
LEMMA FreshKept ==
    ASSUME StartInv, NEW a \in Apps, a \in mStoredDataBlocks,
           block'[a].value = block[a].value, UNCHANGED <<launch, appOf>>,
           \A n \in Launches : grandchild'[n] = "registered" /\ appOf[n] = a
                                => grandchild[n] = "registered"
    PROVE  ~RegisteredSinceStored(a)'
BY DEF StartInv, FreshInv, RegisteredSinceStored

LEMMA FreshStep ==
    ASSUME LaunchAssumption, StartInv, StartServerNext \/ StartOtherNext
    PROVE  FreshInv'
<1>. USE LaunchAssumption DEF StartInv
<1>. /\ launch \in 0..MaxLaunches /\ (at # "idle" => launch \in Launches)
     /\ MaxLaunches \in Nat /\ Len(appOf) = launch /\ appOf \in Seq(Apps)
  BY DEF StartTypes, Launches, LaunchAssumption
<1>. SUFFICES ASSUME NEW a \in Apps, a \in mStoredDataBlocks'
              PROVE  ~RegisteredSinceStored(a)'
  BY DEF FreshInv
<1>a. /\ BlockInv(a)
      /\ a \in mStoredDataBlocks => /\ Server \in block[a].users /\ block[a].exists
                                   /\ ~RegisteredSinceStored(a)
  BY DEF BlocksInv, BlockInv, FreshInv
<1>1. ASSUME NEW b \in Apps, NEW params \in BOOLEAN, Run(b, params)
      PROVE  ~RegisteredSinceStored(a)'
  <2>1. /\ launch' = launch + 1 /\ appOf' = Append(appOf, b)
        /\ UNCHANGED <<grandchild, mStoredDataBlocks>>
    BY <1>1 DEF Run, Processes
  <2>2. block'[a] = block[a]
    BY <1>1, <1>a, <2>1 DEF Run, StartTypes
  <2>3. \A n \in Launches : grandchild[n] = "registered" => n \in 1..launch
    BY DEF LaunchInv, Launches
  <2>4. \A n \in 1..launch : appOf'[n] = appOf[n]
    BY <2>1
  <2>5. QED
    BY <1>a, <2>1, <2>2, <2>3, <2>4 DEF RegisteredSinceStored
<1>2. CASE StoreSharedData
  <2>1. /\ at = "storing" /\ UNCHANGED <<launch, appOf, grandchild>>
        /\ mStoredDataBlocks' = mStoredDataBlocks \cup {appOf[launch]}
        /\ block' = [block EXCEPT ![appOf[launch]].value = launch]
    BY <1>2 DEF StoreSharedData, Processes
  <2>2. CASE a = appOf[launch]
    <3>1. block'[a].value = launch
      BY <2>1, <2>2 DEF StartTypes, Segments
    <3>2. grandchild[launch] = "none"
      BY <2>1 DEF LaunchInv
    <3>3. \A n \in Launches : launch <= n /\ n <= launch => n = launch
      BY DEF Launches
    <3>4. QED
      BY <2>1, <3>1, <3>2, <3>3 DEF RegisteredSinceStored
  <2>3. CASE a # appOf[launch]
    <3>1. block'[a] = block[a] /\ a \in mStoredDataBlocks
      BY <2>1, <2>3 DEF StartTypes
    <3>2. QED
      BY <2>1, <3>1, FreshKept
  <2>4. QED  BY <2>2, <2>3
<1>3. CASE ParamsOnly \/ NotLaunched \/ Launch \/ Poll \/ StopPolling \/ Reap
  <2>1. UNCHANGED <<launch, appOf, grandchild, block, mStoredDataBlocks>>
    BY <1>3 DEF ParamsOnly, NotLaunched, Ends, Launch, Poll, StopPolling, Reap,
                Processes, Startup
  <2>2. QED
    BY <2>1, FreshKept
<1>4. ASSUME NEW n \in Launches, Register(n)
      PROVE  ~RegisteredSinceStored(a)'
  <2>1. /\ UNCHANGED <<launch, appOf>> /\ a # appOf[n] /\ a \in mStoredDataBlocks
        /\ \A m \in Launches : m # n => grandchild'[m] = grandchild[m]
    BY <1>4 DEF Register, StartTypes
  <2>2. block'[a] = block[a]
    BY <1>4, <2>1 DEF Register, DetachBlock, StartTypes
  <2>3. QED
    BY <2>1, <2>2, FreshKept
<1>5. ASSUME NEW n \in Launches,
             ForkFails(n) \/ Fork(n) \/ WritePid(n) \/ ChildExits(n) \/ Exec(n)
      PROVE  ~RegisteredSinceStored(a)'
  <2>1. /\ UNCHANGED <<launch, appOf, block, mStoredDataBlocks>>
        /\ \A m \in Launches : grandchild'[m] = "registered" => grandchild[m] = "registered"
    BY <1>5 DEF ForkFails, Fork, WritePid, ChildExits, Exec, Disinherit,
                ServerUnchanged, Startup, StartTypes
  <2>2. QED
    BY <2>1, FreshKept
<1>6. ASSUME NEW n \in Launches, LoadSharedData(n)
      PROVE  ~RegisteredSinceStored(a)'
  <2>1. /\ UNCHANGED <<launch, appOf, mStoredDataBlocks>>
        /\ \A m \in Launches : grandchild'[m] = "registered" => grandchild[m] = "registered"
    BY <1>6 DEF LoadSharedData, ServerUnchanged, StartTypes
  <2>2. block'[a].value = block[a].value
    <3>1. \/ block' = block
          \/ block' = [block EXCEPT ![appOf[n]] = [block[appOf[n]] EXCEPT
                                        !.users = @ \cup {App(n)}]]
      BY <1>6 DEF LoadSharedData, Attach
    <3>2. block \in [Apps -> Segments]
      BY DEF StartTypes
    <3>3. QED
      BY ONLY a \in Apps, <3>1, <3>2 DEF Segments
  <2>3. QED
    BY <2>1, <2>2, FreshKept
<1>7. ASSUME NEW n \in Launches, Loaded(n)
      PROVE  ~RegisteredSinceStored(a)'
  <2>1. /\ UNCHANGED <<launch, appOf, mStoredDataBlocks>> /\ grandchild[n] # "none"
        /\ \A m \in Launches : grandchild'[m] = "registered" => grandchild[m] = "registered"
    BY <1>7 DEF Loaded, ServerUnchanged, StartTypes
  <2>2. appOf[n] \in Apps
    BY <2>1 DEF LaunchInv, Launches
  <2>3. block'[a].value = block[a].value
    <3>1. CASE a # appOf[n]
      BY <1>7, <2>2, <3>1 DEF Loaded, DetachBlock, StartTypes
    <3>2. CASE a = appOf[n] /\ DetachBlock(a, App(n))
      <4>1. block[a].users # {App(n)}
        BY <1>a, <2>1, Names
      <4>2. QED
        BY <1>a, <3>2, <4>1, BlockDetached DEF BlockInv, StartTypes
    <3>3. CASE a = appOf[n] /\ block' = [block EXCEPT ![a] = EndAttached(@, App(n))]
      BY <3>3 DEF EndAttached, StartTypes, Segments
    <3>4. QED
      BY <1>7, <3>1, <3>2, <3>3 DEF Loaded
  <2>4. QED
    BY <2>1, <2>3, FreshKept
<1>8. QED
  BY <1>1, <1>2, <1>3, <1>4, <1>5, <1>6, <1>7
     DEF StartServerNext, StartOtherNext

LEMMA StartAlways == Spec => []StartInv
<1>1. Init => StartInv
  <2>1. ASSUME Init PROVE StartTypes
    BY <2>1, LaunchAssumption, FirstSegment
       DEF Init, StartInit, StartTypes, Places, ChildStates, AppStates
  <2>2. ASSUME Init PROVE PidMemInv /\ LaunchInv
    BY <2>2, LaunchAssumption, FirstSegment
       DEF Init, StartInit, PidMemInv, LaunchInv, Holding
  <2>3. ASSUME Init, NEW a \in Apps PROVE BlockInv(a)
    BY <2>3, LaunchAssumption, FirstSegment DEF Init, StartInit, BlockInv
  <2>4. ASSUME Init PROVE FreshInv
    BY <2>4 DEF Init, StartInit, FreshInv
  <2>5. QED  BY <2>1, <2>2, <2>3, <2>4 DEF StartInv, BlocksInv
<1>2. StartInv /\ [Next]_vars => StartInv'
  <2>1. ASSUME StartInv, UNCHANGED starting PROVE StartInv'
    BY <2>1 DEF StartInv, starting, StartTypes, PidMemInv, LaunchInv, BlocksInv, BlockInv,
                FreshInv, RegisteredSinceStored
  <2>2. ASSUME StartInv, StartServerNext \/ StartOtherNext PROVE StartInv'
    BY <2>2, LaunchAssumption, StartTypesStep, PidMemStep, LaunchStep, BlocksStep,
            FreshStep
       DEF StartInv
  <2>3. QED  BY <2>1, <2>2, StartSteps
<1>3. QED  BY <1>1, <1>2, PTL DEF Spec

(* However long a launch takes to report, what the server reads in pid_mem *)
(* was written by the application it is starting.                          *)
THEOREM PidsAreOfTheirLaunch == Spec => []PidIsOfItsLaunch
<1>1. StartInv => PidIsOfItsLaunch
  BY LaunchAssumption
     DEF StartInv, StartTypes, LaunchInv, PidIsOfItsLaunch, Launches, App
<1>2. QED  BY StartAlways, <1>1, PTL

(* However launches fail and applications die, pid_mem does not outlive    *)
(* those that are going to detach from it, and startup data outlive neither*)
(* the server's hold on them nor their readers, unless a process forked for*)
(* another launch was attached when they were given up; and the server     *)
(* holds them only until one application started since has registered.     *)
THEOREM NoSegmentStays == Spec => []NoSegmentLeft
<1>1. ASSUME StartInv PROVE NoSegmentLeft
  <2>. USE <1>1, LaunchAssumption DEF StartInv
  <2>1. pidMem.exists => pidMem.users # {}
    BY DEF PidMemInv
  <2>2. ASSUME at = "idle", NEW q \in pidMem.users
        PROVE  q \in {App(n) : n \in {m \in Launches : grandchild[m] = "forked"}}
                 \cup {Child(n) : n \in {m \in Launches : child[m] # "done"}}
    <3>1. q \in 0..(2 * MaxLaunches) /\ q # Server
      BY <2>2 DEF StartTypes, Segments, PidMemInv
    <3>2. CASE q \in Launches
      BY <3>2, <2>2 DEF PidMemInv, App
    <3>3. CASE q \notin Launches
      <4>1. PICK n \in Launches : q = Child(n)
        <5>1. q - MaxLaunches \in Launches /\ q = Child(q - MaxLaunches)
          BY <3>1, <3>3 DEF Launches, Child, Server, LaunchAssumption
        <5>2. QED  BY <5>1
      <4>2. child[n] # "done"
        BY <4>1, <2>2 DEF PidMemInv, Holding
      <4>3. QED  BY <4>1, <4>2
    <3>4. QED  BY <3>2, <3>3
  <2>3. ASSUME NEW a \in Apps, block[a].exists, a \notin abandoned
        PROVE  \/ Server \in block[a].users /\ (a \in mStoredDataBlocks \/ at = "storing")
               \/ \E n \in Launches : grandchild[n] = "loading" /\ appOf[n] = a
                                      /\ App(n) \in block[a].users
    <3>1. BlockInv(a) /\ block[a] \in Segments
      BY DEF BlocksInv, StartTypes
    <3>2. PICK q \in block[a].users : TRUE
      BY <2>3, <3>1 DEF BlockInv
    <3>3. q \in 0..(2 * MaxLaunches)
      BY <3>1, <3>2 DEF Segments
    <3>4. CASE q = Server
      BY <3>1, <3>2, <3>4 DEF BlockInv
    <3>5. CASE q \in Launches
      BY <3>1, <3>2, <3>5 DEF BlockInv, App
    <3>6. CASE q # Server /\ q \notin Launches
      <4>1. q - MaxLaunches \in Launches /\ q = Child(q - MaxLaunches)
        BY <3>3, <3>6 DEF Launches, Child, Server, LaunchAssumption
      <4>2. QED  BY <4>1, <3>1, <3>2 DEF BlockInv
    <3>7. QED  BY <3>4, <3>5, <3>6
  <2>4. QED  BY <2>1, <2>2, <2>3 DEF NoSegmentLeft, FreshInv
<1>2. QED  BY StartAlways, <1>1, PTL

-----------------------------------------------------------------------------
(* Shell tasks.                                                            *)

Signals == {"started", "readyRead", "finished", "error", "threadFinished"}
QueuedSignals == Tasks \X Signals

ThreadStates == {"none", "starting", "exec", "quitting", "ended", "deleted"}
ProcessStates == {"none", "running", "failed", "exited", "crashed", "killed"}
Statuses == {"NOT_STARTED", "RUNNING", "FINISHED", "ERR"}

(* What the thread of a task and its process change, and what the server   *)
(* does.                                                                   *)
ThreadTypes ==
    /\ thread \in [Tasks -> ThreadStates]
    /\ process \in [Tasks -> ProcessStates]
    /\ mPid \in [Tasks -> ShellPids \cup {0}]
    /\ written \in [Tasks -> Nat]
    /\ queued \in Seq(QueuedSignals)

TaskTypes ==
    /\ mStatus \in [Tasks -> Statuses]
    /\ taken \in [Tasks -> Nat]
    /\ mResponse \in [Tasks -> Seq(Nat)]
    /\ mTasks \in [ShellPids -> Tasks \cup {NoTask}]
    /\ sleepingFor \in Tasks \cup {NoTask}
    /\ reported \in [Tasks -> Seq(Nat)]
    /\ ended \in [Tasks -> Statuses \cup {""}]
    /\ aborted \in BOOLEAN

ShellTypes == ThreadTypes /\ TaskTypes

(* What is queued of a task has happened.                                  *)
QueueInv == \A i \in 1..Len(queued) :
    /\ queued[i][2] = "threadFinished" => thread[queued[i][1]] \in {"ended", "deleted"}
    /\ queued[i][2] = "finished" => process[queued[i][1]] \notin {"none", "running"}

(* A task has a process id when its thread has run, is put into the table  *)
(* while the thread is running, and out of it before the thread is told to *)
(* quit.                                                                   *)
TableInv ==
    /\ \A t \in Tasks : thread[t] \in {"none", "starting"} =>
            mPid[t] = 0 /\ process[t] = "none"
    /\ sleepingFor # NoTask => thread[sleepingFor] \in {"starting", "exec"}
    /\ TasksAreAlive

(* What has been reported and what is kept for the next report are the     *)
(* pieces that were read, unless an error has taken the place of some.     *)
OutputInv(t) ==
    /\ taken[t] <= written[t]
    /\ mStatus[t] = "FINISHED" =>
            process[t] \notin {"none", "running"} /\ taken[t] = written[t]
    /\ ended[t] # "" => thread[t] \notin {"none", "starting", "exec"}
    /\ \/ \E i \in 1..Len(reported[t]) : reported[t][i] = Error
       \/ /\ \A i \in 1..Len(reported[t]) : reported[t][i] = i
          /\ \/ \E i \in 1..Len(mResponse[t]) : mResponse[t][i] = Error
             \/ /\ Len(reported[t]) + Len(mResponse[t]) = taken[t]
                /\ \A i \in 1..Len(mResponse[t]) :
                        mResponse[t][i] = Len(reported[t]) + i
          /\ ended[t] = "FINISHED" /\ process[t] = "exited"
                => Len(reported[t]) = written[t]

ReportsInv == \A t \in Tasks : OutputInv(t)

ShellInv == ShellTypes /\ QueueInv /\ TableInv /\ ReportsInv

LEMMA SignalIs ==
    /\ \A t \in Tasks, s \in Signals : <<t, s>> \in QueuedSignals
    /\ \A e \in QueuedSignals : e[1] \in Tasks /\ e[2] \in Signals
BY DEF QueuedSignals

LEMMA SignalNames ==
    /\ "started" \in Signals /\ "readyRead" \in Signals /\ "finished" \in Signals
    /\ "error" \in Signals /\ "threadFinished" \in Signals
BY DEF Signals

(* What is in the queue, and what it is when something is appended.        *)
LEMMA QueueHolds ==
    ASSUME queued \in Seq(QueuedSignals)
    PROVE  \A i \in 1..Len(queued) : queued[i][1] \in Tasks /\ queued[i][2] \in Signals
<1>1. \A i \in 1..Len(queued) : queued[i] \in QueuedSignals
  OBVIOUS
<1>2. QED  BY <1>1, SignalIs

LEMMA QueueGrows ==
    ASSUME NEW e \in QueuedSignals, queued \in Seq(QueuedSignals)
    PROVE  /\ Len(queued) \in Nat
           /\ Append(queued, e) \in Seq(QueuedSignals)
           /\ Len(Append(queued, e)) = Len(queued) + 1
           /\ \A i \in 1..Len(queued) : Append(queued, e)[i] = queued[i]
           /\ Append(queued, e)[Len(queued) + 1] = e
OBVIOUS

(* What a read appends is a sequence of pieces.                            *)
LEMMA UnreadIs ==
    ASSUME ShellInv, NEW t \in Tasks
    PROVE  /\ Unread(t) \in Seq(Nat) /\ Len(Unread(t)) = written[t] - taken[t]
           /\ \A i \in 1..Len(Unread(t)) : Unread(t)[i] = taken[t] + i
           /\ written[t] - taken[t] \in Nat
<1>1. written[t] \in Nat /\ taken[t] \in Nat /\ taken[t] <= written[t]
  BY DEF ShellInv, ShellTypes, ThreadTypes, TaskTypes, ReportsInv, OutputInv
<1>2. PICK k \in Nat : k = written[t] - taken[t]
  BY <1>1
<1>3. Unread(t) = [i \in 1..k |-> taken[t] + i]
  BY <1>2 DEF Unread
<1>4. \A i \in 1..k : taken[t] + i \in Nat
  BY <1>1, <1>2
<1>5. Unread(t) \in Seq(Nat) /\ Len(Unread(t)) = k
  BY <1>2, <1>3, <1>4
<1>6. QED  BY <1>2, <1>3, <1>5

(* The queue when something is delivered.                                  *)
LEMMA QueueTail ==
    ASSUME queued \in Seq(QueuedSignals), queued # <<>>
    PROVE  /\ Head(queued)[1] \in Tasks /\ Head(queued)[2] \in Signals
           /\ Head(queued) = queued[1]
           /\ Tail(queued) \in Seq(QueuedSignals) /\ Len(queued) \in Nat \ {0}
           /\ Len(Tail(queued)) = Len(queued) - 1
           /\ \A i \in 1..Len(Tail(queued)) : Tail(queued)[i] = queued[i + 1]
<1>1. Head(queued) \in QueuedSignals
  OBVIOUS
<1>2. Head(queued)[1] \in Tasks /\ Head(queued)[2] \in Signals
  BY <1>1, SignalIs
<1>3. QED  BY <1>2

LEMMA ShellTypesStep ==
    ASSUME ShellAssumption, ShellInv, ShellServerNext \/ ShellOtherNext
    PROVE  ShellTypes'
<1>. USE ShellAssumption DEF ShellInv, ShellTypes
<1>1. ASSUME NEW t \in Tasks, RunTask(t)
      PROVE  ShellTypes'
  <2>1. PICK s \in Signals : queued' = Append(queued, <<t, s>>)
    BY <1>1, SignalNames DEF RunTask, Signal
  <2>2. queued' \in Seq(QueuedSignals)
    <3>1. <<t, s>> \in QueuedSignals /\ queued \in Seq(QueuedSignals)
      BY SignalIs DEF ThreadTypes
    <3>2. QED  BY <2>1, <3>1, QueueGrows
  <2>3. ThreadTypes'
    BY <1>1, <2>2 DEF RunTask, ThreadTypes, ThreadStates, ProcessStates
  <2>4. QED
    BY <1>1, <2>3 DEF RunTask, NotServer, TaskTypes
<1>2. ASSUME NEW t \in Tasks, Write(t) \/ Exit(t) \/ EndThread(t)
      PROVE  ShellTypes'
  <2>1. PICK s \in Signals : queued' = Append(queued, <<t, s>>)
    BY <1>2, SignalNames DEF Write, Exit, EndThread, Signal
  <2>2. queued' \in Seq(QueuedSignals)
    <3>1. <<t, s>> \in QueuedSignals /\ queued \in Seq(QueuedSignals)
      BY SignalIs DEF ThreadTypes
    <3>2. QED  BY <2>1, <3>1, QueueGrows
  <2>3. mPid' = mPid /\ thread' \in [Tasks -> ThreadStates]
    BY <1>2 DEF Write, Exit, EndThread, ThreadTypes, ThreadStates
  <2>5. process' \in [Tasks -> ProcessStates]
    BY <1>2 DEF Write, Exit, EndThread, ThreadTypes, ProcessStates
  <2>6. written' \in [Tasks -> Nat]
    BY <1>2 DEF Write, Exit, EndThread, ThreadTypes
  <2>4. QED
    BY <1>2, <2>2, <2>3, <2>5, <2>6
       DEF Write, Exit, EndThread, NotServer, ThreadTypes, TaskTypes
<1>3. ASSUME NEW t \in Tasks, Crash(t)
      PROVE  ShellTypes'
  <2>1. PICK r : r = << <<t, "error">>, <<t, "finished">> >>
    OBVIOUS
  <2>2. r \in Seq(QueuedSignals)
    BY <2>1, SignalIs, SignalNames
  <2>3. queued' \in Seq(QueuedSignals)
    BY <1>3, <2>1, <2>2, ConcatProperties DEF Crash, ThreadTypes
  <2>4. QED
    BY <1>3, <2>3 DEF Crash, NotServer, ThreadTypes, TaskTypes, ProcessStates
<1>4. ASSUME Deliver
      PROVE  ShellTypes'
  <2>1. PICK t \in Tasks : t = Head(queued)[1]
    BY <1>4, QueueTail DEF Deliver, ThreadTypes
  <2>2. queued' \in Seq(QueuedSignals)
    BY <1>4, QueueTail DEF Deliver, ThreadTypes
  <2>3. mResponse[t] \o Unread(t) \in Seq(Nat)
    BY UnreadIs, ConcatProperties DEF TaskTypes
  <2>4. /\ thread' \in [Tasks -> ThreadStates]
        /\ UNCHANGED <<process, mPid, written>>
    BY <1>4 DEF Deliver, ThreadTypes, ThreadStates
  <2>5. /\ UNCHANGED <<mTasks, sleepingFor, reported, ended, aborted>>
        /\ mStatus' \in [Tasks -> Statuses]
    BY <1>4 DEF Deliver, TaskTypes, Statuses, Status
  <2>6. mResponse' \in [Tasks -> Seq(Nat)] /\ taken' \in [Tasks -> Nat]
    <3>1. <<Error>> \in Seq(Nat)
      BY DEF Error
    <3>2. CASE Read(t)
      BY <2>3, <3>2 DEF Read, TaskTypes, ThreadTypes
    <3>3. CASE mResponse' = [mResponse EXCEPT ![t] = <<Error>>] /\ UNCHANGED taken
      BY <3>1, <3>3 DEF TaskTypes
    <3>4. CASE UNCHANGED <<mResponse, taken>>
      BY <3>4 DEF TaskTypes
    <3>5. QED
      BY <1>4, <2>1, <3>2, <3>3, <3>4 DEF Deliver
  <2>7. QED
    BY <2>2, <2>4, <2>5, <2>6 DEF ThreadTypes, TaskTypes
<1>5. ASSUME NEW t \in Tasks, ShellTask(t)
      PROVE  ShellTypes'
  BY <1>5 DEF ShellTask, ThreadTypes, TaskTypes, ThreadStates
<1>6. ASSUME Started
      PROVE  ShellTypes'
  BY <1>6 DEF Started, ThreadTypes, TaskTypes
<1>7. ASSUME NEW p \in ShellPids, KillTask(p)
      PROVE  ShellTypes'
  <2>1. mTasks[p] \in Tasks
    BY <1>7 DEF KillTask, TaskTypes
  <2>2. ThreadTypes'
    BY <1>7, <2>1 DEF KillTask, EndTask, ThreadTypes, ThreadStates, ProcessStates
  <2>3. TaskTypes'
    BY <1>7, <2>1 DEF KillTask, TaskTypes
  <2>4. QED  BY <2>2, <2>3
<1>8. ASSUME NEW p \in ShellPids, ShellStatus(p)
      PROVE  ShellTypes'
  <2>1. PICK t \in Tasks : t = mTasks[p]
    BY <1>8 DEF ShellStatus, TaskTypes
  <2>2. UNCHANGED <<mPid, mStatus, written, taken, queued, sleepingFor, aborted>>
    BY <1>8 DEF ShellStatus
  <2>3. reported' \in [Tasks -> Seq(Nat)] /\ mResponse' \in [Tasks -> Seq(Nat)]
    <3>1. reported[t] \o mResponse[t] \in Seq(Nat) /\ <<>> \in Seq(Nat)
      <4>1. reported[t] \in Seq(Nat) /\ mResponse[t] \in Seq(Nat)
        BY DEF TaskTypes
      <4>2. QED  BY <4>1, ConcatProperties
    <3>2. QED  BY <1>8, <2>1, <3>1 DEF ShellStatus, ResponseData, TaskTypes
  <2>4. ended' \in [Tasks -> Statuses \cup {""}]
    BY <1>8, <2>1 DEF ShellStatus, TaskTypes
  <2>5. mTasks' \in [ShellPids -> Tasks \cup {NoTask}]
    BY <1>8, <2>1 DEF ShellStatus, Forgotten, TaskTypes
  <2>6. process' \in [Tasks -> ProcessStates] /\ thread' \in [Tasks -> ThreadStates]
    <3>1. UNCHANGED <<process, thread>> \/ EndTask(t)
      BY <1>8, <2>1 DEF ShellStatus
    <3>2. QED
      BY <3>1 DEF EndTask, ThreadTypes, ThreadStates, ProcessStates
  <2>7. QED
    BY <2>2, <2>3, <2>4, <2>5, <2>6 DEF ThreadTypes, TaskTypes
<1>9. QED
  BY <1>1, <1>2, <1>3, <1>4, <1>5, <1>6, <1>7, <1>8 DEF ShellServerNext, ShellOtherNext

(* QueueInv is kept when threads end and processes do not start again.     *)
LEMMA QueueKept ==
    ASSUME ShellInv, queued' = queued,
           \A t \in Tasks :
              /\ thread[t] \in {"ended", "deleted"} => thread'[t] \in {"ended", "deleted"}
              /\ process[t] \notin {"none", "running"} => process'[t] \notin {"none", "running"}
    PROVE  QueueInv'
<1>1. \A i \in 1..Len(queued) : queued[i][1] \in Tasks
  BY QueueHolds DEF ShellInv, ShellTypes, ThreadTypes, TaskTypes
<1>2. QED  BY <1>1 DEF ShellInv, QueueInv

LEMMA QueueGrew ==
    ASSUME ShellInv, NEW t \in Tasks, NEW s \in Signals,
           queued' = Append(queued, <<t, s>>),
           \A u \in Tasks :
              /\ thread[u] \in {"ended", "deleted"} => thread'[u] \in {"ended", "deleted"}
              /\ process[u] \notin {"none", "running"} => process'[u] \notin {"none", "running"},
           s = "threadFinished" => thread'[t] \in {"ended", "deleted"},
           s = "finished" => process'[t] \notin {"none", "running"}
    PROVE  QueueInv'
<1>2. \A i \in 1..Len(queued) : queued[i][1] \in Tasks
  BY QueueHolds DEF ShellInv, ShellTypes, ThreadTypes, TaskTypes
<1>3. /\ Len(queued') = Len(queued) + 1
      /\ \A i \in 1..Len(queued) : queued'[i] = queued[i]
      /\ queued'[Len(queued) + 1] = <<t, s>>
      /\ Len(queued) \in Nat
  <2>1. <<t, s>> \in QueuedSignals /\ queued \in Seq(QueuedSignals)
    BY SignalIs DEF ShellInv, ShellTypes, ThreadTypes, TaskTypes
  <2>2. QED  BY <2>1, QueueGrows
<1>4. ASSUME NEW i \in 1..Len(queued')
      PROVE  /\ queued'[i][2] = "threadFinished" => thread'[queued'[i][1]] \in {"ended", "deleted"}
             /\ queued'[i][2] = "finished" => process'[queued'[i][1]] \notin {"none", "running"}
  <2>1. CASE i \in 1..Len(queued)
    BY <2>1, <1>2, <1>3 DEF ShellInv, QueueInv
  <2>2. CASE i = Len(queued) + 1
    <3>1. queued'[i][1] = t /\ queued'[i][2] = s
      BY <2>2, <1>3
    <3>2. QED  BY <3>1
  <2>3. QED  BY <2>1, <2>2, <1>3
<1>5. QED  BY <1>4 DEF QueueInv

LEMMA QueueStep ==
    ASSUME ShellAssumption, ShellInv, ShellServerNext \/ ShellOtherNext
    PROVE  QueueInv'
<1>. USE ShellAssumption DEF ShellInv
<1>1. ASSUME NEW t \in Tasks, RunTask(t)
      PROVE  QueueInv'
  <2>1. PICK s \in {"started", "error"} : queued' = Append(queued, <<t, s>>)
    BY <1>1 DEF RunTask, Signal
  <2>2. thread[t] = "starting" /\ process[t] = "none"
    BY <1>1 DEF RunTask, TableInv
  <2>3. \A u \in Tasks : u # t => thread'[u] = thread[u] /\ process'[u] = process[u]
    BY <1>1 DEF RunTask, ShellTypes, ThreadTypes, TaskTypes
  <2>4. s \in Signals
    BY DEF Signals
  <2>5. QED  BY <2>1, <2>2, <2>3, <2>4, QueueGrew
<1>2. ASSUME NEW t \in Tasks, Write(t)
      PROVE  QueueInv'
  <2>1. "readyRead" \in Signals
    BY DEF Signals
  <2>2. QED  BY <1>2, <2>1, QueueGrew DEF Write, Signal
<1>3. ASSUME NEW t \in Tasks, Exit(t)
      PROVE  QueueInv'
  <2>1. "finished" \in Signals
    BY DEF Signals
  <2>2. process'[t] = "exited" /\ \A u \in Tasks : u # t => process'[u] = process[u]
    BY <1>3 DEF Exit, ShellTypes, ThreadTypes, TaskTypes
  <2>3. QED  BY <1>3, <2>1, <2>2, QueueGrew DEF Exit, Signal
<1>4. ASSUME NEW t \in Tasks, Crash(t)
      PROVE  QueueInv'
  <2>2. \A i \in 1..Len(queued) : queued[i][1] \in Tasks
    BY QueueHolds DEF ShellTypes, ThreadTypes, TaskTypes
  <2>3. process'[t] = "crashed" /\ \A u \in Tasks : u # t => process'[u] = process[u]
    BY <1>4 DEF Crash, ShellTypes, ThreadTypes, TaskTypes
  <2>4. thread' = thread /\ process[t] = "running"
    BY <1>4 DEF Crash, Listening
  <2>5. PICK r : r = << <<t, "error">>, <<t, "finished">> >>
    OBVIOUS
  <2>6. /\ r \in Seq(QueuedSignals) /\ Len(r) = 2
        /\ \A i \in 1..2 : r[i][1] = t /\ r[i][2] # "threadFinished"
    BY <2>5, SignalIs, SignalNames
  <2>7. /\ Len(queued') = Len(queued) + 2 /\ Len(queued) \in Nat
        /\ \A i \in 1..Len(queued) : queued'[i] = queued[i]
        /\ \A i \in 1..2 : queued'[Len(queued) + i] = r[i]
    <3>1. queued' = queued \o r /\ queued \in Seq(QueuedSignals)
      BY <1>4, <2>5 DEF Crash, ShellTypes, ThreadTypes, TaskTypes
    <3>2. QED  BY <3>1, <2>6, ConcatProperties
  <2>8. ASSUME NEW i \in 1..Len(queued')
        PROVE  /\ queued'[i][2] = "threadFinished" => thread'[queued'[i][1]] \in {"ended", "deleted"}
               /\ queued'[i][2] = "finished" => process'[queued'[i][1]] \notin {"none", "running"}
    <3>1. CASE i \in 1..Len(queued)
      BY <3>1, <2>2, <2>3, <2>4, <2>7 DEF QueueInv
    <3>2. CASE i \notin 1..Len(queued)
      <4>1. i - Len(queued) \in 1..2 /\ i = Len(queued) + (i - Len(queued))
        BY <3>2, <2>7
      <4>2. queued'[i][1] = t /\ queued'[i][2] # "threadFinished"
        BY <4>1, <2>6, <2>7
      <4>3. QED  BY <4>2, <2>3
    <3>3. QED  BY <3>1, <3>2
  <2>9. QED  BY <2>8 DEF QueueInv
<1>5. ASSUME NEW t \in Tasks, EndThread(t)
      PROVE  QueueInv'
  <2>1. "threadFinished" \in Signals
    BY DEF Signals
  <2>2. thread'[t] = "ended" /\ \A u \in Tasks : u # t => thread'[u] = thread[u]
    BY <1>5 DEF EndThread, ShellTypes, ThreadTypes, TaskTypes
  <2>3. QED  BY <1>5, <2>1, <2>2, QueueGrew DEF EndThread, Signal
<1>6. ASSUME Deliver
      PROVE  QueueInv'
  <2>2. \A i \in 1..Len(queued) : queued[i][1] \in Tasks
    BY QueueHolds DEF ShellTypes, ThreadTypes, TaskTypes
  <2>3. /\ Len(queued') = Len(queued) - 1 /\ Len(queued) \in Nat
        /\ \A i \in 1..Len(queued') : queued'[i] = queued[i + 1]
    BY <1>6, QueueTail DEF Deliver, ShellTypes, ThreadTypes, TaskTypes
  <2>4. process' = process
    BY <1>6 DEF Deliver
  <2>5. \A u \in Tasks : thread'[u] = thread[u] \/ thread'[u] = "deleted"
    BY <1>6 DEF Deliver, ShellTypes, ThreadTypes, TaskTypes
  <2>6. QED
    BY <2>2, <2>3, <2>4, <2>5 DEF QueueInv
<1>7. ASSUME NEW t \in Tasks, ShellTask(t)
      PROVE  QueueInv'
  BY <1>7, QueueKept DEF ShellTask, ShellTypes, ThreadTypes, TaskTypes
<1>8. ASSUME Started
      PROVE  QueueInv'
  BY <1>8, QueueKept DEF Started
<1>9. ASSUME NEW p \in ShellPids, KillTask(p) \/ ShellStatus(p)
      PROVE  QueueInv'
  <2>1. PICK t \in Tasks : t = mTasks[p]
    BY <1>9 DEF KillTask, ShellStatus, ShellTypes, TaskTypes
  <2>2. thread[t] = "exec"
    BY <2>1 DEF TableInv, TasksAreAlive
  <2>3. queued' = queued /\ (UNCHANGED <<process, thread>> \/ EndTask(t))
    BY <1>9, <2>1 DEF KillTask, ShellStatus
  <2>4. \A u \in Tasks : u # t => thread'[u] = thread[u] /\ process'[u] = process[u]
    BY <2>3 DEF EndTask, ShellTypes, ThreadTypes
  <2>5. process'[t] \in {process[t], "killed"}
    BY <2>3 DEF EndTask, ShellTypes, ThreadTypes
  <2>6. QED
    BY <2>2, <2>3, <2>4, <2>5, QueueKept
<1>10. QED
  BY <1>1, <1>2, <1>3, <1>4, <1>5, <1>6, <1>7, <1>8, <1>9
     DEF ShellServerNext, ShellOtherNext


LEMMA TableStep ==
    ASSUME ShellAssumption, ShellInv, ShellServerNext \/ ShellOtherNext
    PROVE  TableInv'
<1>. USE ShellAssumption DEF ShellInv
<1>0. /\ thread \in [Tasks -> ThreadStates] /\ process \in [Tasks -> ProcessStates]
      /\ mPid \in [Tasks -> ShellPids \cup {0}]
      /\ mTasks \in [ShellPids -> Tasks \cup {NoTask}] /\ sleepingFor \in Tasks \cup {NoTask}
      /\ NoTask \notin Tasks /\ ShellPids \subseteq Nat \ {0} /\ ~aborted
  BY DEF ShellTypes, ThreadTypes, TaskTypes, ShellAssumption, ShellServerNext, ShellOtherNext
<1>. USE <1>0
<1>1. ASSUME NEW t \in Tasks, RunTask(t)
      PROVE  TableInv'
  <2>1. /\ thread[t] = "starting" /\ thread'[t] = "exec"
        /\ \A u \in Tasks : u # t => /\ thread'[u] = thread[u] /\ mPid'[u] = mPid[u]
                                     /\ process'[u] = process[u]
        /\ UNCHANGED <<mTasks, sleepingFor>>
    BY <1>1 DEF RunTask, NotServer
  <2>2. \A p \in ShellPids : mTasks[p] # t
    BY <2>1 DEF TableInv, TasksAreAlive
  <2>3. QED
    BY <2>1, <2>2 DEF TableInv, TasksAreAlive
<1>2. ASSUME NEW t \in Tasks, Write(t) \/ Exit(t) \/ Crash(t)
      PROVE  TableInv'
  <2>1. /\ thread[t] = "exec" /\ UNCHANGED <<thread, mPid, mTasks, sleepingFor>>
        /\ \A u \in Tasks : u # t => process'[u] = process[u]
    BY <1>2 DEF Write, Exit, Crash, Listening, NotServer
  <2>2. QED
    BY <2>1 DEF TableInv, TasksAreAlive
<1>3. ASSUME NEW t \in Tasks, EndThread(t)
      PROVE  TableInv'
  <2>1. /\ thread[t] = "quitting" /\ thread'[t] = "ended"
        /\ \A u \in Tasks : u # t => thread'[u] = thread[u]
        /\ UNCHANGED <<process, mPid, mTasks, sleepingFor>>
    BY <1>3 DEF EndThread, NotServer
  <2>2. QED
    BY <2>1 DEF TableInv, TasksAreAlive
<1>4. ASSUME Deliver
      PROVE  TableInv'
  <2>1. queued \in Seq(QueuedSignals) /\ queued # <<>>
    BY <1>4 DEF Deliver, ShellTypes, ThreadTypes
  <2>2. PICK t \in Tasks : t = Head(queued)[1]
    BY <2>1, QueueTail
  <2>3. Head(queued)[2] = "threadFinished" => thread[t] \in {"ended", "deleted"}
    <3>1. Head(queued) = queued[1] /\ 1 \in 1..Len(queued)
      BY <2>1, QueueTail
    <3>2. QED  BY <2>2, <3>1 DEF QueueInv
  <2>4. /\ UNCHANGED <<process, mPid, mTasks, sleepingFor>>
        /\ \/ thread' = thread
           \/ /\ Head(queued)[2] = "threadFinished"
              /\ thread' = [thread EXCEPT ![t] = "deleted"]
    BY <1>4, <2>2 DEF Deliver
  <2>5. CASE thread' = thread
    BY <2>4, <2>5 DEF TableInv, TasksAreAlive
  <2>6. CASE thread[t] \in {"ended", "deleted"} /\ thread' = [thread EXCEPT ![t] = "deleted"]
    <3>1. thread'[t] = "deleted" /\ \A u \in Tasks : u # t => thread'[u] = thread[u]
      BY <2>6
    <3>2. QED  BY <3>1, <2>4, <2>6 DEF TableInv, TasksAreAlive
  <2>7. QED  BY <2>3, <2>4, <2>5, <2>6
<1>5. ASSUME NEW t \in Tasks, ShellTask(t)
      PROVE  TableInv'
  <2>1. /\ thread[t] = "none" /\ thread'[t] = "starting"
        /\ \A u \in Tasks : u # t => thread'[u] = thread[u]
        /\ UNCHANGED <<process, mPid, mTasks>> /\ sleepingFor' = t
    BY <1>5 DEF ShellTask
  <2>2. /\ \A u \in Tasks : thread[u] \in {"none", "starting"} =>
                mPid[u] = 0 /\ process[u] = "none"
        /\ \A p \in ShellPids : mTasks[p] # NoTask =>
                thread[mTasks[p]] = "exec" /\ mPid[mTasks[p]] = p
    BY DEF TableInv, TasksAreAlive
  <2>3. \A u \in Tasks : thread'[u] \in {"none", "starting"} =>
            mPid'[u] = 0 /\ process'[u] = "none"
    BY ONLY <1>5, <2>1, <2>2
  <2>4. ASSUME NEW p \in ShellPids, mTasks[p] # NoTask
        PROVE  thread'[mTasks[p]] = "exec" /\ mPid[mTasks[p]] = p
    <3>1. mTasks[p] \in Tasks /\ mTasks[p] # t
      BY ONLY <1>0, <2>1, <2>2, <2>4
    <3>2. QED  BY ONLY <2>1, <2>2, <2>4, <3>1
  <2>5. thread'[sleepingFor'] \in {"starting", "exec"}
    BY ONLY <2>1
  <2>6. mTasks' = mTasks /\ mPid' = mPid
    BY ONLY <2>1
  <2>7. TasksAreAlive'
    BY ONLY <2>4, <2>6 DEF TasksAreAlive
  <2>8. QED
    BY ONLY <2>3, <2>5, <2>7 DEF TableInv
<1>6. ASSUME Started
      PROVE  TableInv'
  <2>1. PICK t \in Tasks : t = sleepingFor
    BY <1>6 DEF Started
  <2>2. /\ UNCHANGED <<thread, process, mPid>> /\ sleepingFor' = NoTask
        /\ \/ mPid[t] # 0 /\ mTasks' = [mTasks EXCEPT ![mPid[t]] = t]
           \/ mTasks' = mTasks
    BY <1>6, <2>1 DEF Started
  <2>3. mPid[t] # 0 => thread[t] = "exec" /\ mPid[t] \in ShellPids
    BY <2>1 DEF TableInv
  <2>4. QED
    BY <2>2, <2>3 DEF TableInv, TasksAreAlive
<1>7. ASSUME NEW p \in ShellPids, KillTask(p) \/ ShellStatus(p)
      PROVE  TableInv'
  <2>1. PICK t \in Tasks : t = mTasks[p]
    BY <1>7 DEF KillTask, ShellStatus
  <2>2. /\ sleepingFor = NoTask /\ UNCHANGED <<mPid, sleepingFor>>
        /\ thread[t] = "exec" /\ mPid[t] = p
    BY <1>7, <2>1 DEF KillTask, ShellStatus, TableInv, TasksAreAlive
  <2>3. \/ UNCHANGED <<process, thread>> /\ mTasks' = mTasks
        \/ EndTask(t) /\ mTasks' = [mTasks EXCEPT ![p] = NoTask]
    <3>1. CASE KillTask(p)
      BY <2>1, <3>1 DEF KillTask
    <3>2. CASE ShellStatus(p) /\ mStatus[t] = "RUNNING"
      <4>1. UNCHANGED <<process, thread>> /\ mTasks' = [mTasks EXCEPT ![p] = mTasks[p]]
        BY <2>1, <3>2 DEF ShellStatus, Forgotten
      <4>2. QED  BY <4>1
    <3>3. CASE ShellStatus(p) /\ mStatus[t] # "RUNNING"
      BY <2>1, <3>3 DEF ShellStatus, Forgotten
    <3>4. QED  BY <1>7, <3>1, <3>2, <3>3
  <2>4. CASE UNCHANGED <<process, thread>> /\ mTasks' = mTasks
    BY <2>2, <2>4 DEF TableInv, TasksAreAlive
  <2>5. CASE EndTask(t) /\ mTasks' = [mTasks EXCEPT ![p] = NoTask]
    <3>1. /\ thread'[t] = "quitting"
          /\ \A u \in Tasks : u # t => thread'[u] = thread[u] /\ process'[u] = process[u]
      BY <2>5 DEF EndTask
    <3>2. \A q \in ShellPids : mTasks'[q] = (IF q = p THEN NoTask ELSE mTasks[q])
      BY <2>5
    <3>3. \A q \in ShellPids : q # p => mTasks[q] # t
      BY <2>2 DEF TableInv, TasksAreAlive
    <3>4. QED  BY <3>1, <3>2, <3>3, <2>2 DEF TableInv, TasksAreAlive
  <2>6. QED  BY <2>3, <2>4, <2>5
<1>8. QED
  BY <1>1, <1>2, <1>3, <1>4, <1>5, <1>6, <1>7 DEF ShellServerNext, ShellOtherNext

(* Two sequences put together.                                             *)
LEMMA ConcatIs ==
    ASSUME NEW x \in Seq(Nat), NEW y \in Seq(Nat), NEW z, z = x \o y
    PROVE  /\ z \in Seq(Nat) /\ Len(x) \in Nat /\ Len(y) \in Nat
           /\ Len(z) = Len(x) + Len(y)
           /\ \A i \in 1..Len(x) : i \in 1..Len(z) /\ z[i] = x[i]
           /\ \A i \in 1..Len(y) : Len(x) + i \in 1..Len(z) /\ z[Len(x) + i] = y[i]
           /\ \A i \in 1..Len(z) : i \notin 1..Len(x) =>
                    /\ i - Len(x) \in 1..Len(y)
                    /\ z[i] = y[i - Len(x)]
<1>1. /\ z \in Seq(Nat) /\ Len(x) \in Nat /\ Len(y) \in Nat
      /\ Len(z) = Len(x) + Len(y)
      /\ \A i \in 1..(Len(x) + Len(y)) :
            z[i] = IF i <= Len(x) THEN x[i] ELSE y[i - Len(x)]
  BY ConcatProperties
<1>2. \A i \in 1..Len(x) : i \in 1..Len(z) /\ z[i] = x[i]
  BY <1>1
<1>3. ASSUME NEW i \in 1..Len(y)
      PROVE  Len(x) + i \in 1..Len(z) /\ z[Len(x) + i] = y[i]
  <2>1. Len(x) + i \in 1..(Len(x) + Len(y)) /\ ~(Len(x) + i <= Len(x))
    BY <1>1
  <2>2. z[Len(x) + i] = y[(Len(x) + i) - Len(x)]
    BY <1>1, <2>1
  <2>3. (Len(x) + i) - Len(x) = i
    BY <1>1
  <2>4. QED  BY <1>1, <2>1, <2>2, <2>3
<1>4. ASSUME NEW i \in 1..Len(z), i \notin 1..Len(x)
      PROVE  i - Len(x) \in 1..Len(y) /\ z[i] = y[i - Len(x)]
  <2>1. i \in 1..(Len(x) + Len(y)) /\ ~(i <= Len(x))
    BY <1>1, <1>4
  <2>2. QED  BY <1>1, <2>1
<1>5. QED  BY <1>1, <1>2, <1>3, <1>4

(* kept is what there is to report after n pieces, when m have been read.  *)
Rest(kept, n, m) ==
    \/ \E i \in 1..Len(kept) : kept[i] = Error
    \/ /\ n + Len(kept) = m
       /\ \A i \in 1..Len(kept) : kept[i] = n + i

(* told is what has been reported.                                         *)
Told(told) == \A i \in 1..Len(told) : told[i] = i

LEMMA RestRead ==
    ASSUME NEW x \in Seq(Nat), NEW y \in Seq(Nat), NEW z, z = x \o y,
           NEW n \in Nat, NEW m \in Nat, NEW w \in Nat,
           Rest(x, n, m), Len(y) = w - m, \A i \in 1..Len(y) : y[i] = m + i
    PROVE  Rest(z, n, w)
<1>0. /\ z \in Seq(Nat) /\ Len(x) \in Nat /\ Len(y) \in Nat
      /\ Len(z) = Len(x) + Len(y)
      /\ \A i \in 1..Len(x) : i \in 1..Len(z) /\ z[i] = x[i]
      /\ \A i \in 1..Len(y) : Len(x) + i \in 1..Len(z) /\ z[Len(x) + i] = y[i]
      /\ \A i \in 1..Len(z) : i \notin 1..Len(x) =>
                /\ i - Len(x) \in 1..Len(y)
                /\ z[i] = y[i - Len(x)]
  BY ONLY ConcatIs, z = x \o y
<1>1. CASE \E i \in 1..Len(x) : x[i] = Error
  BY <1>1, <1>0 DEF Rest
<1>2. CASE n + Len(x) = m /\ \A i \in 1..Len(x) : x[i] = n + i
  <2>1. n + Len(z) = w
    <3>1. n + Len(x) = m /\ Len(z) = Len(x) + Len(y)
      BY <1>2, <1>0
    <3>2. Len(x) \in Nat /\ Len(y) \in Nat
      BY <1>0
    <3>3. QED  BY ONLY <3>1, <3>2, Len(y) = w - m
  <2>2. ASSUME NEW i \in 1..Len(z), i \notin 1..Len(x)
        PROVE  z[i] = n + i
    <3>1. z[i] = m + (i - Len(x))
      BY <2>2, <1>0
    <3>2. i \in Int /\ Len(x) \in Int
      BY <1>0
    <3>3. m = n + Len(x) /\ i \in Int /\ Len(x) \in Nat
      BY <1>0, <1>2
    <3>4. QED  BY <3>1, <3>3
  <2>3. \A i \in 1..Len(z) : z[i] = n + i
    BY <2>2, <1>2, <1>0
  <2>4. QED  BY <2>1, <2>3 DEF Rest
<1>3. QED  BY <1>1, <1>2 DEF Rest

LEMMA RestTold ==
    ASSUME NEW x \in Seq(Nat), NEW y \in Seq(Nat), NEW z, z = x \o y,
           NEW m \in Nat, Told(x), Rest(y, Len(x), m)
    PROVE  \/ \E i \in 1..Len(z) : z[i] = Error
           \/ Told(z) /\ Len(z) = m /\ Rest(<<>>, Len(z), m)
<1>0. /\ z \in Seq(Nat) /\ Len(x) \in Nat /\ Len(y) \in Nat
      /\ Len(z) = Len(x) + Len(y)
      /\ \A i \in 1..Len(x) : i \in 1..Len(z) /\ z[i] = x[i]
      /\ \A i \in 1..Len(y) : Len(x) + i \in 1..Len(z) /\ z[Len(x) + i] = y[i]
      /\ \A i \in 1..Len(z) : i \notin 1..Len(x) =>
                /\ i - Len(x) \in 1..Len(y)
                /\ z[i] = y[i - Len(x)]
  BY ONLY ConcatIs, z = x \o y
<1>1. CASE \E i \in 1..Len(y) : y[i] = Error
  <2>1. PICK i \in 1..Len(y) : y[i] = Error
    BY <1>1
  <2>2. Len(x) + i \in 1..Len(z) /\ z[Len(x) + i] = Error
    BY <2>1, <1>0
  <2>3. QED  BY <2>2
<1>2. CASE Len(x) + Len(y) = m /\ \A i \in 1..Len(y) : y[i] = Len(x) + i
  <2>1. Len(z) = m
    BY <1>2, <1>0
  <2>2. ASSUME NEW i \in 1..Len(z), i \notin 1..Len(x)
        PROVE  z[i] = i
    <3>1. z[i] = Len(x) + (i - Len(x))
      BY <2>2, <1>2, <1>0
    <3>2. i \in Int /\ Len(x) \in Int
      BY <1>0
    <3>3. QED  BY <3>1, <3>2
  <2>3. Told(z)
    BY <2>2, <1>0 DEF Told
  <2>4. Rest(<<>>, Len(z), m)
    BY <2>1 DEF Rest
  <2>5. QED  BY <2>1, <2>3, <2>4
<1>3. QED  BY <1>1, <1>2 DEF Rest

(* The parts of OutputInv.                                                 *)
LEMMA OutputParts ==
    ASSUME ShellInv, NEW t \in Tasks
    PROVE  /\ taken[t] \in Nat /\ written[t] \in Nat /\ taken[t] <= written[t]
           /\ mResponse[t] \in Seq(Nat) /\ reported[t] \in Seq(Nat)
           /\ Len(reported[t]) \in Nat
           /\ mStatus[t] = "FINISHED" =>
                    process[t] \notin {"none", "running"} /\ taken[t] = written[t]
           /\ ended[t] # "" => thread[t] \notin {"none", "starting", "exec"}
           /\ \/ \E i \in 1..Len(reported[t]) : reported[t][i] = Error
              \/ /\ Told(reported[t]) /\ Rest(mResponse[t], Len(reported[t]), taken[t])
                 /\ ended[t] = "FINISHED" /\ process[t] = "exited"
                        => Len(reported[t]) = written[t]
<1>1. /\ taken[t] \in Nat /\ written[t] \in Nat
      /\ mResponse[t] \in Seq(Nat) /\ reported[t] \in Seq(Nat)
  BY DEF ShellInv, ShellTypes, ThreadTypes, TaskTypes
<1>2. OutputInv(t) /\ Len(reported[t]) \in Nat
  BY <1>1 DEF ShellInv, ReportsInv
<1>3. QED  BY <1>1, <1>2 DEF OutputInv, Told, Rest

(* Nothing is read or reported of a task, and its process writes only      *)
(* while it runs.                                                          *)
LEMMA OutputKept ==
    ASSUME ShellInv, NEW t \in Tasks,
           reported'[t] = reported[t], mResponse'[t] = mResponse[t],
           taken'[t] = taken[t], mStatus'[t] = mStatus[t], ended'[t] = ended[t],
           written'[t] \in Nat,
           \/ written'[t] = written[t]
           \/ process[t] = "running" /\ written'[t] >= written[t] /\ process'[t] = "running",
           process[t] \notin {"none", "running"} => process'[t] \notin {"none", "running"},
           process'[t] = "exited" => process[t] = "exited" \/ ended[t] = "",
           ended[t] # "" => thread'[t] \notin {"none", "starting", "exec"}
    PROVE  OutputInv(t)'
<1>1. taken[t] \in Nat /\ written[t] \in Nat /\ taken[t] <= written[t]
  BY OutputParts
<1>2. taken'[t] <= written'[t]
  <2>1. PICK k \in Nat : k = taken[t]
    BY <1>1
  <2>2. PICK n \in Nat : n = written[t] /\ k <= n
    BY <1>1, <2>1
  <2>3. PICK w \in Nat : w = written'[t]
    OBVIOUS
  <2>4. w = n \/ w >= n
    BY <2>2, <2>3
  <2>5. k <= w
    BY ONLY <2>2, <2>4
  <2>6. QED  BY <2>1, <2>3, <2>5
<1>3. mStatus[t] = "FINISHED" =>
            process[t] \notin {"none", "running"} /\ taken[t] = written[t]
  BY OutputParts
<1>4. mStatus'[t] = "FINISHED" =>
        process'[t] \notin {"none", "running"} /\ taken'[t] = written'[t]
  BY <1>3
<1>5. /\ ended'[t] # "" => thread'[t] \notin {"none", "starting", "exec"}
      /\ ended'[t] = "FINISHED" /\ process'[t] = "exited"
            => ended[t] = "FINISHED" /\ process[t] = "exited" /\ written'[t] = written[t]
  OBVIOUS
<1>6. QED  BY OutputParts, <1>2, <1>4, <1>5 DEF OutputInv, Told, Rest

(* What has been read is appended to what is kept.                         *)
LEMMA OutputRead ==
    ASSUME ShellInv, NEW t \in Tasks, Read(t),
           UNCHANGED <<thread, process, written, reported, ended>>,
           \/ mStatus'[t] = mStatus[t]
           \/ process[t] \notin {"none", "running"}
    PROVE  OutputInv(t)'
<1>1. mResponse'[t] = mResponse[t] \o Unread(t) /\ taken'[t] = written[t]
  BY DEF Read, ShellInv, ShellTypes, TaskTypes
<1>2. /\ taken[t] \in Nat /\ written[t] \in Nat /\ Len(reported[t]) \in Nat
      /\ mResponse[t] \in Seq(Nat)
  BY OutputParts
<1>3. Rest(mResponse[t], Len(reported[t]), taken[t])
        => Rest(mResponse'[t], Len(reported[t]), written[t])
  <2>1. PICK z : z = mResponse'[t]
    OBVIOUS
  <2>2. Rest(mResponse[t], Len(reported[t]), taken[t]) => Rest(z, Len(reported[t]), written[t])
    <3>1. PICK y \in Seq(Nat) : y = Unread(t)
      BY UnreadIs
    <3>2. /\ Len(y) = written[t] - taken[t]
          /\ \A i \in 1..Len(y) : y[i] = taken[t] + i
      BY <3>1, UnreadIs
    <3>3. z = mResponse[t] \o y
      BY <1>1, <2>1, <3>1
    <3>4. PICK x \in Seq(Nat) : x = mResponse[t]
      BY <1>2
    <3>5. PICK n \in Nat : n = Len(reported[t])
      BY <1>2
    <3>6. Rest(x, n, taken[t]) => Rest(z, n, written[t])
      BY <1>2, <3>2, <3>3, <3>4, RestRead
    <3>7. QED  BY <3>4, <3>5, <3>6
  <2>3. QED  BY <2>1, <2>2
<1>4. /\ taken'[t] <= written'[t]
      /\ mStatus'[t] = "FINISHED" =>
            process'[t] \notin {"none", "running"} /\ taken'[t] = written'[t]
      /\ ended'[t] # "" => thread'[t] \notin {"none", "starting", "exec"}
  <2>1. taken'[t] = written'[t]
    BY <1>1
  <2>2. written'[t] \in Nat
    BY <1>2
  <2>3. mStatus[t] = "FINISHED" => process[t] \notin {"none", "running"}
    BY OutputParts
  <2>4. ended[t] # "" => thread[t] \notin {"none", "starting", "exec"}
    BY OutputParts
  <2>5. taken'[t] <= written'[t]
    BY <2>1, <2>2
  <2>6. process'[t] = process[t] /\ ended'[t] = ended[t] /\ thread'[t] = thread[t]
    OBVIOUS
  <2>7. mStatus'[t] = "FINISHED" => process[t] \notin {"none", "running"}
    BY <2>3
  <2>8. QED  BY <2>1, <2>4, <2>5, <2>6, <2>7
<1>5. \/ \E i \in 1..Len(reported'[t]) : reported'[t][i] = Error
      \/ /\ Told(reported'[t]) /\ Rest(mResponse'[t], Len(reported'[t]), taken'[t])
         /\ ended'[t] = "FINISHED" /\ process'[t] = "exited"
                => Len(reported'[t]) = written'[t]
  BY <1>1, <1>3, OutputParts
<1>6. QED  BY <1>4, <1>5 DEF OutputInv, Told, Rest

(* What was kept is appended to what has been reported.                    *)
LEMMA OutputReported ==
    ASSUME ShellAssumption, ShellInv, NEW p \in ShellPids, ShellStatus(p),
           NEW t \in Tasks, t = mTasks[p]
    PROVE  OutputInv(t)'
<1>1. thread[t] = "exec"
  BY DEF ShellInv, TableInv, TasksAreAlive, ShellAssumption
<1>2. /\ UNCHANGED <<mStatus, written, taken>>
      /\ reported'[t] = reported[t] \o mResponse[t] /\ mResponse'[t] = <<>>
      /\ ended'[t] = IF mStatus[t] = "RUNNING" THEN "" ELSE mStatus[t]
  BY DEF ShellStatus, ResponseData, ShellInv, ShellTypes, TaskTypes
<1>3. /\ process'[t] \in {process[t], "killed"}
      /\ ended'[t] # "" => thread'[t] = "quitting"
  <2>1. IF mStatus[t] = "RUNNING" THEN UNCHANGED <<process, thread>> ELSE EndTask(t)
    BY DEF ShellStatus
  <2>2. QED  BY <2>1, <1>2 DEF EndTask, ShellInv, ShellTypes, ThreadTypes
<1>4. /\ taken'[t] <= written'[t]
      /\ mStatus'[t] = "FINISHED" =>
            process'[t] \notin {"none", "running"} /\ taken'[t] = written'[t]
      /\ ended'[t] # "" => thread'[t] \notin {"none", "starting", "exec"}
  BY <1>2, <1>3, OutputParts
<1>5. \/ \E i \in 1..Len(reported'[t]) : reported'[t][i] = Error
      \/ /\ Told(reported'[t]) /\ Len(reported'[t]) = taken[t]
         /\ Rest(<<>>, Len(reported'[t]), taken[t])
  <2>1. PICK z : z = reported[t] \o mResponse[t]
    OBVIOUS
  <2>2. /\ reported[t] \in Seq(Nat) /\ mResponse[t] \in Seq(Nat) /\ taken[t] \in Nat
        /\ \/ \E i \in 1..Len(reported[t]) : reported[t][i] = Error
           \/ Told(reported[t]) /\ Rest(mResponse[t], Len(reported[t]), taken[t])
    BY OutputParts
  <2>3. \/ \E i \in 1..Len(z) : z[i] = Error
        \/ Told(z) /\ Len(z) = taken[t] /\ Rest(<<>>, Len(z), taken[t])
    <3>1. PICK x \in Seq(Nat) : x = reported[t]
      BY <2>2
    <3>2. PICK y \in Seq(Nat) : y = mResponse[t]
      BY <2>2
    <3>3. z = x \o y
      BY <2>1, <3>1, <3>2
    <3>4. CASE \E i \in 1..Len(x) : x[i] = Error
      BY <3>3, <3>4, ConcatIs
    <3>5. CASE Told(x) /\ Rest(y, Len(x), taken[t])
      <4>1. PICK m \in Nat : m = taken[t]
        BY <2>2
      <4>2. Rest(y, Len(x), m)
        BY <3>5, <4>1
      <4>3. \/ \E i \in 1..Len(z) : z[i] = Error
            \/ Told(z) /\ Len(z) = m /\ Rest(<<>>, Len(z), m)
        BY <3>3, <3>5, <4>2, RestTold
      <4>4. QED  BY <4>1, <4>3
    <3>6. QED  BY <2>2, <3>1, <3>2, <3>4, <3>5
  <2>4. QED  BY <1>2, <2>1, <2>3
<1>6. ended'[t] = "FINISHED" => taken[t] = written'[t]
  BY <1>2, OutputParts
<1>7. QED  BY <1>2, <1>4, <1>5, <1>6 DEF OutputInv, Told, Rest

LEMMA ReportsStep ==
    ASSUME ShellAssumption, ShellInv, ShellServerNext \/ ShellOtherNext
    PROVE  ReportsInv'
<1>. USE ShellAssumption DEF ShellInv
<1>0. /\ thread \in [Tasks -> ThreadStates] /\ process \in [Tasks -> ProcessStates]
      /\ written \in [Tasks -> Nat] /\ taken \in [Tasks -> Nat]
      /\ mStatus \in [Tasks -> Statuses] /\ mResponse \in [Tasks -> Seq(Nat)]
      /\ reported \in [Tasks -> Seq(Nat)] /\ ended \in [Tasks -> Statuses \cup {""}]
      /\ queued \in Seq(QueuedSignals)
  BY DEF ShellTypes, ThreadTypes, TaskTypes
<1>a. \A t \in Tasks : OutputInv(t)
  BY DEF ReportsInv
<1>b. \A t \in Tasks : thread[t] \in {"none", "starting", "exec"} => ended[t] = ""
  BY <1>a DEF OutputInv
<1>. USE <1>0
<1>1. ASSUME NEW t \in Tasks, RunTask(t), NEW u \in Tasks
      PROVE  OutputInv(u)'
  <2>1. /\ UNCHANGED <<written, mStatus, taken, mResponse, reported, ended>>
        /\ u # t => thread'[u] = thread[u] /\ process'[u] = process[u]
        /\ thread[t] = "starting" /\ process'[t] \in {"running", "failed"}
    BY <1>1 DEF RunTask, NotServer
  <2>2. process[t] = "none" /\ ended[t] = ""
    BY <2>1, <1>b DEF TableInv
  <2>3. ended[u] # "" => thread[u] \notin {"none", "starting", "exec"}
    BY <1>b
  <2>4. QED  BY <2>1, <2>2, <2>3, OutputKept
<1>2. ASSUME NEW t \in Tasks, Write(t), NEW u \in Tasks
      PROVE  OutputInv(u)'
  <2>1. /\ UNCHANGED <<thread, process, mStatus, taken, mResponse, reported, ended>>
        /\ process[t] = "running"
        /\ written' = [written EXCEPT ![t] = @ + 1]
    BY <1>2 DEF Write, Listening, NotServer
  <2>2. written'[u] \in Nat /\ (written'[u] = written[u] \/ (u = t /\ written'[u] >= written[u]))
    <3>1. written[t] \in Nat /\ written[u] \in Nat
      OBVIOUS
    <3>2. written'[u] = IF u = t THEN written[t] + 1 ELSE written[u]
      BY <2>1
    <3>3. QED  BY ONLY <3>1, <3>2
  <2>3. ended[u] # "" => thread[u] \notin {"none", "starting", "exec"}
    BY <1>b
  <2>4. QED  BY <2>1, <2>2, <2>3, OutputKept
<1>3. ASSUME NEW t \in Tasks, Exit(t) \/ Crash(t), NEW u \in Tasks
      PROVE  OutputInv(u)'
  <2>1. /\ UNCHANGED <<thread, written, mStatus, taken, mResponse, reported, ended>>
        /\ thread[t] = "exec" /\ process'[t] \in {"exited", "crashed"}
        /\ u # t => process'[u] = process[u]
    BY <1>3 DEF Exit, Crash, Listening, NotServer
  <2>2. ended[t] = "" /\ (ended[u] # "" => thread[u] \notin {"none", "starting", "exec"})
    BY <2>1, <1>b
  <2>3. QED  BY <2>1, <2>2, OutputKept
<1>4. ASSUME NEW t \in Tasks, EndThread(t), NEW u \in Tasks
      PROVE  OutputInv(u)'
  <2>1. /\ UNCHANGED <<process, written, mStatus, taken, mResponse, reported, ended>>
        /\ thread'[u] = IF u = t THEN "ended" ELSE thread[u]
    BY <1>4 DEF EndThread, NotServer
  <2>2. ended[u] # "" => thread[u] \notin {"none", "starting", "exec"}
    BY <1>b
  <2>3. QED  BY <2>1, <2>2, OutputKept
<1>5. ASSUME Deliver, NEW u \in Tasks
      PROVE  OutputInv(u)'
  <2>1. PICK t \in Tasks : t = Head(queued)[1]
    <3>1. queued # <<>>
      BY <1>5 DEF Deliver
    <3>2. QED  BY <3>1, QueueTail
  <2>2. Head(queued)[2] = "finished" => process[t] \notin {"none", "running"}
    <3>1. Head(queued) = queued[1] /\ 1 \in 1..Len(queued)
      <4>1. queued # <<>>
        BY <1>5 DEF Deliver
      <4>2. Head(queued) = queued[1] /\ Len(queued) \in Nat \ {0}
        BY <4>1, QueueTail
      <4>3. QED  BY ONLY <4>2
    <3>2. QED  BY <2>1, <3>1 DEF QueueInv
  <2>3. UNCHANGED <<process, written, reported, ended>>
    BY <1>5 DEF Deliver
  <2>4. ended[u] # "" => thread[u] \notin {"none", "starting", "exec"}
    BY <1>b
  <2>5. CASE u # t
    <3>1. /\ thread'[u] = thread[u] /\ mStatus'[u] = mStatus[u]
          /\ taken'[u] = taken[u] /\ mResponse'[u] = mResponse[u]
      BY <1>5, <2>1, <2>5 DEF Deliver, Status, Read
    <3>2. QED  BY <2>3, <2>4, <3>1, OutputKept
  <2>6. CASE u = t /\ Status(t, "RUNNING") /\ UNCHANGED <<taken, mResponse, thread>>
    <3>1. mStatus'[t] = "RUNNING"
      BY <2>6 DEF Status
    <3>2. QED  BY <2>3, <2>6, <3>1, <1>a DEF OutputInv
  <2>7. CASE u = t /\ Read(t) /\ UNCHANGED <<mStatus, thread>>
    BY <2>3, <2>7, OutputRead
  <2>8. CASE u = t /\ Head(queued)[2] = "finished" /\ Read(t) /\ UNCHANGED thread
    BY <2>2, <2>3, <2>8, OutputRead
  <2>9. CASE /\ u = t /\ Status(t, "ERR") /\ UNCHANGED <<taken, thread>>
             /\ mResponse' = [mResponse EXCEPT ![t] = <<Error>>]
    <3>1. mStatus'[t] = "ERR" /\ mResponse'[t] = <<Error>>
      BY <2>9 DEF Status
    <3>2. \E i \in 1..Len(mResponse'[t]) : mResponse'[t][i] = Error
      <4>1. Len(<<Error>>) = 1 /\ <<Error>>[1] = Error /\ 1 \in 1..1
        BY ONLY TRUE
      <4>2. QED  BY <3>1, <4>1
    <3>3. QED  BY <2>3, <2>9, <3>1, <3>2, <1>a DEF OutputInv
  <2>10. CASE /\ u = t /\ thread' = [thread EXCEPT ![t] = "deleted"]
              /\ UNCHANGED <<mStatus, taken, mResponse>>
    <3>1. thread'[t] = "deleted"
      BY <2>10
    <3>2. QED  BY <2>3, <2>10, <3>1, OutputKept
  <2>11. QED
    BY <1>5, <2>1, <2>5, <2>6, <2>7, <2>8, <2>9, <2>10 DEF Deliver
<1>6. ASSUME NEW t \in Tasks, ShellTask(t), NEW u \in Tasks
      PROVE  OutputInv(u)'
  <2>1. /\ UNCHANGED <<process, written, mStatus, taken, mResponse, reported, ended>>
        /\ thread[t] = "none" /\ (u # t => thread'[u] = thread[u])
    BY <1>6 DEF ShellTask
  <2>2. ended[t] = "" /\ (ended[u] # "" => thread[u] \notin {"none", "starting", "exec"})
    BY <2>1, <1>b
  <2>3. QED  BY <2>1, <2>2, OutputKept
<1>7. ASSUME Started, NEW u \in Tasks
      PROVE  OutputInv(u)'
  BY <1>7, <1>b, OutputKept DEF Started
<1>8. ASSUME NEW p \in ShellPids, KillTask(p), NEW u \in Tasks
      PROVE  OutputInv(u)'
  <2>1. PICK t \in Tasks : t = mTasks[p]
    BY <1>8 DEF KillTask, ShellTypes, TaskTypes
  <2>2. /\ UNCHANGED <<written, mStatus, taken, mResponse, reported, ended>>
        /\ thread'[u] = IF u = t THEN "quitting" ELSE thread[u]
        /\ process'[u] \in {process[u], "killed"}
    BY <1>8, <2>1 DEF KillTask, EndTask
  <2>3. ended[u] # "" => thread[u] \notin {"none", "starting", "exec"}
    BY <1>b
  <2>4. QED  BY <2>2, <2>3, OutputKept
<1>9. ASSUME NEW p \in ShellPids, ShellStatus(p), NEW u \in Tasks
      PROVE  OutputInv(u)'
  <2>1. PICK t \in Tasks : t = mTasks[p]
    BY <1>9 DEF ShellStatus, ShellTypes, TaskTypes
  <2>2. CASE u = t
    BY <1>9, <2>1, <2>2, OutputReported
  <2>3. CASE u # t
    <3>1. UNCHANGED <<process, thread>> \/ EndTask(t)
      BY <1>9, <2>1 DEF ShellStatus
    <3>2. process'[u] = process[u] /\ thread'[u] = thread[u]
      BY <3>1, <2>3 DEF EndTask
    <3>3. /\ UNCHANGED <<written, mStatus, taken>>
          /\ reported'[u] = reported[u] /\ mResponse'[u] = mResponse[u] /\ ended'[u] = ended[u]
      BY <1>9, <2>1, <2>3 DEF ShellStatus, ResponseData
    <3>4. ended[u] # "" => thread[u] \notin {"none", "starting", "exec"}
      BY <1>b
    <3>5. QED  BY <3>2, <3>3, <3>4, OutputKept
  <2>4. QED  BY <2>2, <2>3
<1>10. QED
  BY <1>1, <1>2, <1>3, <1>4, <1>5, <1>6, <1>7, <1>8, <1>9
     DEF ShellServerNext, ShellOtherNext, ReportsInv

LEMMA ShellAlways == Spec => []ShellInv
<1>1. Init => ShellInv
  <2>1. ASSUME ShellInit PROVE ThreadTypes /\ TaskTypes
    <3>1. ThreadTypes
      <4>1. thread \in [Tasks -> ThreadStates] /\ process \in [Tasks -> ProcessStates]
        BY <2>1 DEF ShellInit, ThreadStates, ProcessStates
      <4>2. mPid \in [Tasks -> ShellPids \cup {0}] /\ written \in [Tasks -> Nat]
        <5>1. mPid = [t \in Tasks |-> 0] /\ written = [t \in Tasks |-> 0]
          BY <2>1, Zenon DEF ShellInit
        <5>2. QED  BY ONLY <5>1
      <4>3. queued \in Seq(QueuedSignals)
        <5>1. queued = <<>>
          BY <2>1 DEF ShellInit
        <5>2. QED  BY ONLY <5>1
      <4>4. QED  BY <4>1, <4>2, <4>3 DEF ThreadTypes
    <3>2. <<>> \in Seq(Nat)
      OBVIOUS
    <3>3. TaskTypes
      BY <2>1, <3>2 DEF ShellInit, TaskTypes, Statuses
    <3>4. QED  BY <3>1, <3>3
  <2>2. ASSUME ShellInit PROVE QueueInv /\ TableInv
    <3>1. queued = <<>> /\ Len(<<>>) = 0
      BY <2>2 DEF ShellInit
    <3>2. QueueInv
      BY <3>1 DEF QueueInv
    <3>3. TableInv
      BY <2>2 DEF ShellInit, TableInv, TasksAreAlive
    <3>4. QED  BY <3>2, <3>3
  <2>3. ASSUME ShellInit, NEW t \in Tasks PROVE OutputInv(t)
    <3>1. /\ taken[t] = 0 /\ written[t] = 0 /\ mStatus[t] = "NOT_STARTED"
          /\ ended[t] = "" /\ reported[t] = <<>> /\ mResponse[t] = <<>>
      BY <2>3 DEF ShellInit
    <3>2. Len(reported[t]) = 0 /\ Len(mResponse[t]) = 0
      BY <3>1
    <3>3. Told(reported[t]) /\ Rest(mResponse[t], 0, 0)
      BY <3>2 DEF Told, Rest
    <3>4. taken[t] <= written[t] /\ Len(reported[t]) = written[t]
      <4>1. 0 <= 0
        BY ONLY TRUE
      <4>2. QED  BY <3>1, <3>2, <4>1, Zenon
    <3>5. QED  BY <3>1, <3>2, <3>3, <3>4 DEF OutputInv, Told, Rest
  <2>4. QED  BY <2>1, <2>2, <2>3 DEF Init, ShellInv, ShellTypes, ReportsInv
<1>2. ShellInv /\ [Next]_vars => ShellInv'
  <2>1. ASSUME ShellInv, UNCHANGED shell PROVE ShellInv'
    <3>1. ShellTypes'
      BY <2>1 DEF ShellInv, shell, ShellTypes, ThreadTypes, TaskTypes
    <3>2. QueueInv' /\ TableInv'
      BY <2>1 DEF ShellInv, shell, QueueInv, TableInv, TasksAreAlive
    <3>3. ASSUME NEW t \in Tasks PROVE OutputInv(t)'
      BY <2>1, OutputParts, OutputKept DEF shell
    <3>4. QED  BY <3>1, <3>2, <3>3 DEF ShellInv, ReportsInv
  <2>2. ASSUME ShellInv, ShellServerNext \/ ShellOtherNext PROVE ShellInv'
    BY <2>2, ShellAssumption, ShellTypesStep, QueueStep, TableStep, ReportsStep
       DEF ShellInv
  <2>3. QED  BY <2>1, <2>2, ShellSteps
<1>3. QED  BY <1>1, <1>2, PTL DEF Spec

(* Kill and status requests find only tasks whose thread runs, however     *)
(* process ids are given again and ends of threads are late.               *)
THEOREM TasksStayAlive == Spec => []TasksAreAlive
<1>1. ShellInv => TasksAreAlive
  BY DEF ShellInv, TableInv
<1>2. QED  BY ShellAlways, <1>1, PTL

(* Output is told once, in order and completely, in however many pieces    *)
(* and requests, for any number of tasks.                                  *)
THEOREM OutputIsReportedOnce == Spec => []ReportedOnce
<1>1. ASSUME ShellInv, NEW t \in Tasks, Error \notin Range(reported[t])
      PROVE  /\ reported[t] = [i \in 1..Len(reported[t]) |-> i]
             /\ ended[t] = "FINISHED" /\ process[t] = "exited"
                    => Len(reported[t]) = written[t]
  <2>1. OutputInv(t) /\ reported[t] \in Seq(Nat)
    BY <1>1 DEF ShellInv, ReportsInv, ShellTypes, TaskTypes
  <2>2. DOMAIN reported[t] = 1..Len(reported[t])
    BY <2>1
  <2>3. ~ \E i \in 1..Len(reported[t]) : reported[t][i] = Error
    BY <1>1, <2>2 DEF Range
  <2>4. \A i \in 1..Len(reported[t]) : reported[t][i] = i
    BY <2>1, <2>3 DEF OutputInv
  <2>5. reported[t] = [i \in 1..Len(reported[t]) |-> i]
    <3>1. PICK f : f = [i \in 1..Len(reported[t]) |-> i]
      OBVIOUS
    <3>2. f \in Seq(Nat) /\ Len(f) = Len(reported[t])
      BY <2>1, <3>1
    <3>3. \A i \in 1..Len(f) : f[i] = reported[t][i]
      BY <2>4, <3>1, <3>2
    <3>4. QED  BY <2>1, <3>1, <3>2, <3>3, SeqEqual
  <2>6. QED  BY <2>1, <2>3, <2>5 DEF OutputInv
<1>2. ShellInv => ReportedOnce
  BY <1>1 DEF ReportedOnce
<1>3. QED  BY ShellAlways, <1>2, PTL

(* The types of everything that launches and tasks keep.                   *)
THEOREM ProcessTypes == Spec => [](StartTypes /\ ShellTypes)
<1>1. StartInv /\ ShellInv => StartTypes /\ ShellTypes
  BY DEF StartInv, ShellInv
<1>2. QED  BY StartAlways, ShellAlways, <1>1, PTL

-----------------------------------------------------------------------------
(* Requests to log.                                                        *)

(* A request is passed to a logger as it is asked or when the one process  *)
(* it waits for has registered, never when it has been refused, answered   *)
(* or closed meanwhile.                                                    *)
THEOREM RequestsArePassedOnce == Spec => PassedOnce
<1>. DEFINE Inboxes == inbox \in [Loggers -> Seq(LogRequests)]
<1>1. Init => Inboxes
  BY DEF Init, LoggingInit
<1>2. ASSUME NEW r \in LogRequests, NEW l \in Loggers, Inboxes, PassOn(r, l)
      PROVE  /\ Inboxes'
             /\ \A m \in Loggers : Len(inbox'[m]) > Len(inbox[m]) => Last(inbox'[m]) = r
  <2>1. inbox[l] \in Seq(LogRequests) /\ inbox' = [inbox EXCEPT ![l] = Append(inbox[l], r)]
    BY <1>2 DEF PassOn
  <2>2. /\ Append(inbox[l], r) \in Seq(LogRequests)
        /\ Len(Append(inbox[l], r)) = Len(inbox[l]) + 1
        /\ Append(inbox[l], r)[Len(inbox[l]) + 1] = r
    BY <2>1
  <2>3. \A m \in Loggers : m # l => inbox'[m] = inbox[m] /\ Len(inbox[m]) \in Nat
    BY <1>2, <2>1
  <2>4. inbox'[l] = Append(inbox[l], r)
    BY <1>2, <2>1
  <2>5. QED
    BY <1>2, <2>1, <2>2, <2>3, <2>4 DEF Last
<1>3. ASSUME Inboxes, [Next]_vars
      PROVE  /\ Inboxes'
             /\ \A l \in Loggers : Len(inbox'[l]) > Len(inbox[l]) =>
                    request[Last(inbox'[l])] \in {"none", "waiting"}
  <2>. DEFINE Goal == /\ Inboxes'
                      /\ \A l \in Loggers : Len(inbox'[l]) > Len(inbox[l]) =>
                            request[Last(inbox'[l])] \in {"none", "waiting"}
  <2>0. \A l \in Loggers : Len(inbox[l]) \in Nat
    BY <1>3
  <2>1. ASSUME UNCHANGED inbox PROVE Goal
    BY <1>3, <2>0, <2>1
  <2>2. ASSUME NEW r \in LogRequests, AskLogging(r) PROVE Goal
    <3>1. request[r] = "none" /\ (UNCHANGED inbox \/ \E l \in Registered : PassOn(r, l))
      BY <2>2 DEF AskLogging
    <3>2. Registered \subseteq Loggers
      BY DEF Registered
    <3>3. QED  BY <1>2, <1>3, <2>1, <3>1, <3>2
  <2>3. ASSUME NEW l \in Loggers, RegisterLogger(l) PROVE Goal
    <3>1. UNCHANGED inbox \/ \E r \in Waiting(l), m \in Registered \cup {l} : PassOn(r, m)
      BY <2>3 DEF RegisterLogger
    <3>2. /\ Registered \subseteq Loggers
          /\ \A r \in Waiting(l) : r \in LogRequests /\ request[r] = "waiting"
      BY DEF Registered, Waiting
    <3>3. QED  BY <1>2, <1>3, <2>1, <3>1, <3>2
  <2>4. ASSUME NEW l \in Loggers, Execute(l) PROVE Goal
    <3>1. inbox[l] \in Seq(LogRequests) /\ inbox[l] # <<>>
          /\ inbox' = [inbox EXCEPT ![l] = Tail(inbox[l])]
      BY <1>3, <2>4 DEF Execute
    <3>2. Tail(inbox[l]) \in Seq(LogRequests) /\ Len(Tail(inbox[l])) = Len(inbox[l]) - 1
      BY <3>1
    <3>3. QED  BY <1>3, <2>0, <3>1, <3>2
  <2>5. ASSUME \/ \E r \in LogRequests : WaiterTimeout(r) \/ ResponseTimeout(r)
                                         \/ RequesterCloses(r)
               \/ \E l \in Loggers : ForgetLogger(l) \/ LogFileFails(l) \/ Quit(l)
               \/ UNCHANGED logging
        PROVE  Goal
    <3>1. UNCHANGED inbox
      BY <2>5 DEF WaiterTimeout, ResponseTimeout, RequesterCloses, ForgetLogger,
                  LogFileFails, Quit, logging
    <3>2. QED  BY <2>1, <3>1
  <2>6. QED
    BY <1>3, LoggingSteps, <2>2, <2>3, <2>4, <2>5 DEF LoggingServerNext, LoggerNext
<1>4. QED
  <2>1. Inboxes /\ [Next]_vars => Inboxes'
    BY <1>3
  <2>2. Inboxes /\ [Next]_vars =>
          [\A l \in Loggers : Len(inbox'[l]) > Len(inbox[l]) =>
                request[Last(inbox'[l])] \in {"none", "waiting"}]_logging
    BY <1>3
  <2>3. QED  BY <1>1, <2>1, <2>2, PTL DEF Spec, PassedOnce

-----------------------------------------------------------------------------
(* The window by which the server is started and stopped, for any number   *)
(* of status timers and servers.                                           *)

UiStates == [buttons : BOOLEAN, radios : BOOLEAN,
             shown : {"Unknown", "Down", "Running"},
             state : {"none", "status", "start", "stop", "restart"},
             due : Nat, bound : BOOLEAN, connected : BOOLEAN, waiting : BOOLEAN,
             started : Nat]

Messages == {"nothing", "ping", "close", "answer"}

MonitorTypes ==
    /\ ui \in UiStates
    /\ wire \in Messages
    /\ left \in BOOLEAN
    /\ server \in {"down", "up", "hanging", "quitting"}
    /\ asked \in BOOLEAN /\ besides \in BOOLEAN

(* A server that was reached by a restart is at the other end: the monitor *)
(* hears of no end of the connection until that one has gone.              *)
AskedInv == MonitorTypes /\ NoneBesides /\ (asked => ~left)

-----------------------------------------------------------------------------
LEMMA StartServerIs ==
    ASSUME NEW u \in UiStates
    PROVE  StartServer(u) \in UiStates /\ StartServer(u).connected = u.connected
<1>1. PICK b : b = Begin(u, "start")
  OBVIOUS
<1>2. b \in UiStates /\ b.connected = u.connected
  BY <1>1 DEF Begin, UiStates
<1>3. b.due + 1 \in Nat /\ b.started + 1 \in Nat
  BY <1>2 DEF UiStates
<1>4. PICK due, started \in Nat : due = b.due + 1 /\ started = b.started + 1
  BY <1>3
<1>5. StartServer(u) = [b EXCEPT !.due = due, !.started = started]
  BY <1>1, <1>4 DEF StartServer
<1>6. QED  BY ONLY <1>2, <1>4, <1>5 DEF UiStates

(* The operations of the monitor.  Only an error that comes in the state   *)
(* for a restart starts a server, and it gives the connection up first.    *)
LEMMA MonitorErrorIs ==
    ASSUME NEW u \in UiStates
    PROVE  /\ MonitorError(u) \in UiStates
           /\ u.state # "restart" => MonitorError(u).started = u.started
           /\ u.state = "restart" => ~MonitorError(u).connected
<1>1. PICK v : v = [u EXCEPT !.shown = "Down", !.buttons = Unlocked(u)]
  OBVIOUS
<1>2. /\ v \in UiStates /\ v.state = u.state /\ v.started = u.started
  BY <1>1 DEF UiStates, Unlocked
<1>3. KillServer(v) \in UiStates /\ KillServer(v).started = u.started
      /\ ~KillServer(v).connected
  BY <1>2 DEF UiStates, KillServer
<1>4. \A w \in UiStates : /\ StartServer(w) \in UiStates
                          /\ StartServer(w).connected = w.connected
  BY StartServerIs
<1>5. CASE u.state = "stop"
  <2>1. MonitorError(u) = KillServer(v)
    BY <1>1, <1>5 DEF MonitorError
  <2>2. QED  BY <1>3, <1>5, <2>1
<1>6. CASE u.state = "restart"
  <2>1. MonitorError(u) = StartServer(KillServer(v))
    BY <1>1, <1>6 DEF MonitorError
  <2>2. QED  BY <1>3, <1>4, <1>6, <2>1
<1>7. CASE u.state \notin {"stop", "restart"}
  <2>1. MonitorError(u) = v
    BY <1>1, <1>7 DEF MonitorError
  <2>2. QED  BY <1>2, <1>7, <2>1
<1>8. QED  BY <1>5, <1>6, <1>7

(* What is sent reaches the other end, unless that is gone or there is an  *)
(* error, which starts a server only in the state for a restart.           *)
LEMMA SendMessageIs ==
    ASSUME MonitorTypes, NEW u \in UiStates, NEW m \in {"ping", "close"},
           SendMessage(u, m)
    PROVE  /\ ui' \in UiStates /\ wire' \in Messages /\ left' \in BOOLEAN
           /\ left' => left
           /\ u.state # "restart" => ui'.started = u.started
           /\ wire' = "close" /\ ~left' => ui'.started = u.started
<1>1. PICK sent : sent = [u EXCEPT !.connected = TRUE, !.waiting = TRUE]
  OBVIOUS
<1>2. PICK lost : lost = [u EXCEPT !.connected = FALSE]
  OBVIOUS
<1>3. /\ sent \in UiStates /\ sent.started = u.started
      /\ lost \in UiStates /\ lost.started = u.started /\ lost.state = u.state
  BY <1>1, <1>2 DEF UiStates
<1>4. /\ left \in BOOLEAN /\ wire \in Messages /\ m \in Messages /\ "nothing" \in Messages
  BY DEF MonitorTypes, Messages
<1>5. ASSUME NEW v \in UiStates, NEW w \in Messages, NEW l \in BOOLEAN, Becomes(v, w, l)
      PROVE  /\ ui' = v /\ wire' \in Messages /\ left' \in BOOLEAN
             /\ left' => l
             /\ wire' = "close" => v.connected
  BY <1>4, <1>5 DEF Becomes, UiStates
<1>6. \/ \E w \in Messages, l \in BOOLEAN : Becomes(MonitorError(u), w, l) /\ (l => left)
      \/ \E w \in Messages, l \in BOOLEAN : Becomes(sent, w, l) /\ (l => left)
      \/ \E w \in Messages, l \in BOOLEAN : Becomes(MonitorError(lost), w, l) /\ (l => left)
  BY <1>1, <1>2, <1>4 DEF SendMessage
<1>7. ASSUME NEW v \in {u, lost}, NEW w \in Messages, NEW l \in BOOLEAN,
             Becomes(MonitorError(v), w, l), l => left
      PROVE  /\ ui' \in UiStates /\ wire' \in Messages /\ left' \in BOOLEAN
             /\ left' => left
             /\ u.state # "restart" => ui'.started = u.started
             /\ wire' = "close" /\ ~left' => ui'.started = u.started
  <2>1. v \in UiStates /\ v.state = u.state /\ v.started = u.started
    BY <1>3
  <2>2. /\ MonitorError(v) \in UiStates
        /\ u.state # "restart" => MonitorError(v).started = u.started
        /\ u.state = "restart" => ~MonitorError(v).connected
    BY <2>1, MonitorErrorIs
  <2>3. /\ ui' = MonitorError(v) /\ wire' \in Messages /\ left' \in BOOLEAN
        /\ left' => l
        /\ wire' = "close" => MonitorError(v).connected
    BY <1>5, <1>7, <2>2
  <2>4. QED  BY <1>7, <2>2, <2>3
<1>8. ASSUME NEW w \in Messages, NEW l \in BOOLEAN, Becomes(sent, w, l), l => left
      PROVE  /\ ui' \in UiStates /\ wire' \in Messages /\ left' \in BOOLEAN
             /\ left' => left
             /\ ui'.started = u.started
  BY <1>3, <1>5, <1>8
<1>9. QED  BY <1>6, <1>7, <1>8

LEMMA ClosedIs ==
    ASSUME NEW u \in UiStates
    PROVE  /\ Closed(u) \in UiStates /\ TimedOut(u) \in UiStates
<1>1. \A v \in UiStates : /\ [v EXCEPT !.connected = FALSE] \in UiStates
                          /\ [v EXCEPT !.waiting = FALSE] \in UiStates
  BY DEF UiStates
<1>2. \A v \in UiStates : Closed(v) \in UiStates
  BY <1>1, MonitorErrorIs DEF Closed
<1>3. QED  BY <1>1, <1>2, MonitorErrorIs DEF TimedOut

LEMMA ServerResponseIs ==
    ASSUME NEW u \in UiStates, NEW addressed \in BOOLEAN
    PROVE  /\ ServerResponse(u, addressed) \in UiStates
           /\ ServerResponse(u, addressed).started = u.started
BY DEF ServerResponse, UiStates

-----------------------------------------------------------------------------
LEMMA AskedStep == AskedInv /\ [MonitorNext]_monitor => AskedInv'
<1>. SUFFICES ASSUME AskedInv, [MonitorNext]_monitor PROVE AskedInv'
  OBVIOUS
<1>. USE DEF AskedInv, NoneBesides
<1>0. /\ ui \in UiStates /\ wire \in Messages /\ left \in BOOLEAN /\ asked \in BOOLEAN
      /\ ui.started \in Nat
  BY DEF MonitorTypes, UiStates
<1>a. \A state \in {"status", "start", "stop", "restart"} :
        /\ [ui EXCEPT !.state = state] \in UiStates
        /\ [ui EXCEPT !.state = state].started = ui.started
        /\ [ui EXCEPT !.state = state].state = state
        /\ Begin(ui, state) \in UiStates
        /\ Begin(ui, state).started = ui.started
        /\ Begin(ui, state).state = state
  BY <1>0 DEF UiStates, Begin
<1>b. \A n : n = ui.started => ~(n > ui.started)
  BY <1>0
<1>1. ASSUME NEW u \in UiStates, NEW m \in {"ping", "close"}, SendMessage(u, m),
             u.started = ui.started, u.state # "restart", Asks(asked), UNCHANGED server
      PROVE  AskedInv'
  <2>1. /\ ui' \in UiStates /\ wire' \in Messages /\ left' \in BOOLEAN
        /\ ui'.started = ui.started
        /\ left' => left
    BY <1>1, SendMessageIs
  <2>2. asked' = asked /\ besides' = besides /\ server' = server
    <3>1. ~(ui'.started > ui.started)
      BY <1>0, <2>1
    <3>2. besides \in BOOLEAN
      BY DEF MonitorTypes
    <3>3. /\ asked' = asked /\ server' = server
          /\ besides' = (besides \/ (asked /\ ui'.started > ui.started))
      BY <1>1 DEF Asks
    <3>4. QED  BY ONLY <3>1, <3>2, <3>3
  <2>3. QED  BY <1>0, <2>1, <2>2 DEF MonitorTypes
<1>2. ASSUME NEW u \in UiStates, SendMessage(u, "close"), u.started = ui.started,
             Asks(wire' = "close" /\ ~left'), UNCHANGED server
      PROVE  AskedInv'
  <2>1. /\ ui' \in UiStates /\ wire' \in Messages /\ left' \in BOOLEAN
        /\ wire' = "close" /\ ~left' => ui'.started = ui.started
    BY <1>2, SendMessageIs
  <2>2. /\ asked' \in BOOLEAN /\ (asked' => ~left') /\ server' = server
        /\ besides' = (besides \/ (asked' /\ ui'.started > ui.started))
    BY <1>2 DEF Asks
  <2>3. besides' = FALSE
    BY <1>0, <1>2, <2>1, <2>2, <1>b DEF Asks, MonitorTypes
  <2>4. QED  BY <2>1, <2>2, <2>3 DEF MonitorTypes
<1>3. CASE ServerState
  BY <1>3, <1>1, <1>a DEF ServerState, Click
<1>4. CASE ClickStart
  <2>1. StartServer(ui) \in UiStates
    BY <1>0, StartServerIs
  <2>2. QED
    BY <1>0, <1>4, <2>1 DEF ClickStart, Click, Becomes, Asks, MonitorTypes, Messages
<1>5. CASE StopServer
  BY <1>5, <1>1, <1>a DEF StopServer, Click
<1>6. CASE RestartServer
  BY <1>6, <1>2, <1>a DEF RestartServer, Click
<1>7. CASE SetBinding
  <2>1. PICK u : u = [Begin(ui, "restart") EXCEPT !.bound = TRUE]
    OBVIOUS
  <2>2. u \in UiStates /\ u.started = ui.started
    BY <2>1, <1>a DEF UiStates
  <2>3. QED  BY <1>7, <1>2, <2>1, <2>2 DEF SetBinding
<1>8. CASE StatusTimer
  <2>1. PICK u : u = [ui EXCEPT !.due = @ - 1, !.state = "status"]
    OBVIOUS
  <2>2. u \in UiStates /\ u.started = ui.started /\ u.state = "status"
    <3>1. ui.due \in Nat /\ ui.due > 0
      BY <1>0, <1>8 DEF StatusTimer, UiStates
    <3>2. PICK due \in Nat : due = ui.due - 1
      BY ONLY <3>1
    <3>3. u = [ui EXCEPT !.due = due, !.state = "status"]
      BY <2>1, <3>2
    <3>4. QED  BY ONLY <1>0, <3>2, <3>3 DEF UiStates
  <2>3. QED  BY <1>8, <1>1, <2>1, <2>2 DEF StatusTimer
<1>9. CASE ServiceResponse
  <2>1. PICK u : u = [ui EXCEPT !.waiting = FALSE]
    OBVIOUS
  <2>2. u \in UiStates /\ u.started = ui.started
    BY <1>0, <2>1 DEF UiStates
  <2>3. PICK addressed \in BOOLEAN : Becomes(ServerResponse(u, addressed), "nothing", left)
    BY <1>9, <2>1 DEF ServiceResponse
  <2>4. /\ ui' \in UiStates /\ ui'.started = ui.started /\ wire' \in Messages
        /\ left' \in BOOLEAN /\ (left' => left)
    BY <1>0, <2>2, <2>3, ServerResponseIs DEF Becomes, Messages, UiStates
  <2>5. QED  BY <1>0, <1>9, <2>4 DEF ServiceResponse, Asks, MonitorTypes
<1>10. CASE ConnectionClosed
  <2>1. ~asked
    BY <1>10 DEF ConnectionClosed
  <2>2. ui' \in UiStates /\ wire' \in Messages /\ left' \in BOOLEAN
    BY <1>0, <1>10, ClosedIs DEF ConnectionClosed, Becomes, Messages, UiStates
  <2>3. QED  BY <1>0, <1>10, <2>1, <2>2 DEF ConnectionClosed, Asks, MonitorTypes
<1>11. CASE ConnectionTimeout
  <2>1. ui' \in UiStates /\ wire' \in Messages /\ left' \in BOOLEAN
    BY <1>0, <1>11, ClosedIs DEF ConnectionTimeout, Becomes, Messages, UiStates
  <2>2. QED  BY <1>0, <1>11, <2>1 DEF ConnectionTimeout, Asks, MonitorTypes
<1>12. CASE Answer \/ Hangs \/ ServerStarts
  BY <1>12 DEF Answer, Hangs, ServerStarts, MonitorTypes, Messages
<1>13. CASE ServerQuits \/ ServerCrashes
  <2>1. Gone
    BY <1>13 DEF ServerQuits, ServerCrashes
  <2>2. ui.connected \in BOOLEAN
    BY <1>0 DEF UiStates
  <2>3. /\ server' = "down" /\ left' \in BOOLEAN /\ wire' \in Messages
        /\ asked' = FALSE /\ ui' = ui /\ besides' = besides
    BY <1>0, <2>1, <2>2 DEF Gone, Messages
  <2>4. QED  BY <1>0, <2>3 DEF MonitorTypes
<1>14. CASE UNCHANGED monitor
  BY <1>14 DEF monitor, MonitorTypes
<1>15. QED
  BY <1>3, <1>4, <1>5, <1>6, <1>7, <1>8, <1>9, <1>10, <1>11, <1>12, <1>13, <1>14 DEF MonitorNext

LEMMA AskedAlways == MonitorSpec => []AskedInv
<1>1. MonitorInit => AskedInv
  <2>1. SUFFICES ASSUME MonitorInit PROVE AskedInv
    OBVIOUS
  <2>2. ui \in UiStates
    BY <2>1 DEF MonitorInit, UiStates
  <2>3. QED  BY <2>1, <2>2 DEF MonitorInit, AskedInv, MonitorTypes, NoneBesides, Messages
<1>2. QED  BY <1>1, AskedStep, PTL DEF MonitorSpec

(* Type correctness of the window, its monitor and the connection.         *)
THEOREM WindowTypes == MonitorSpec => []MonitorTypes
<1>1. AskedInv => MonitorTypes
  BY DEF AskedInv
<1>2. QED  BY AskedAlways, <1>1, PTL

(* However clicks, timers, answers and ends of the server come between, a  *)
(* restart that has reached a server starts no other beside it.            *)
THEOREM NoServerBesides == MonitorSpec => []NoneBesides
<1>1. AskedInv => NoneBesides
  BY DEF AskedInv
<1>2. QED  BY AskedAlways, <1>1, PTL
=============================================================================
