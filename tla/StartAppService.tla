--------------------------- MODULE StartAppService ---------------------------
(***************************************************************************)
(* StartAppService and TasDataShare: how qttasserver starts an application *)
(* and what it leaves for it in shared memory.                             *)
(*                                                                         *)
(* An application is started by a double fork.  The server polls a shared  *)
(* memory segment, pid_mem, for the process id that the child in between   *)
(* writes there; the child and the application inherit the server's        *)
(* attachment and give it up in their own time.  The server's one thread   *)
(* blocks for as long as this takes.                                       *)
(*                                                                         *)
(* The events and signals an application is to record from its start are   *)
(* stored in a segment named after the application, which its plugin reads *)
(* when it is loaded and the server gives up when the plugin registers.    *)
(*                                                                         *)
(* A segment goes away when the last process detaches from it; a process   *)
(* that dies or calls exec attached takes no segment with it.  The child   *)
(* and the application inherit the server's attachments to stored startup  *)
(* data as well, of which they know nothing, and never detach from them:   *)
(* who detaches meanwhile is not the last, and the segment stays.          *)
(***************************************************************************)
EXTENDS Naturals, Sequences

CONSTANTS
    Apps,         \* names of applications
    MaxLaunches,  \* Run commands in a behaviour
    MaxPolls      \* times the server looks for the process id (10 in the code)

ASSUME LaunchAssumption ==
    MaxLaunches \in Nat \ {0} /\ MaxPolls \in Nat \ {0}

VARIABLES
    at,            \* what the thread of the server is at
    launch,        \* the Run command it is at, or was at last
    appOf,         \* the application each Run command names
    polls,         \* count of launchDetached
    actualpid,     \* the process it has read in pid_mem, 0 for none
    child,         \* the process in between of each launch
    grandchild,    \* the process of the application
    pidMem,        \* the segment pid_mem
    block,         \* the segment of startup data of each application
    mStoredDataBlocks,  \* the applications whose data the server has stored
    inherited,     \* the forked processes that are attached to each block
    abandoned,     \* the blocks that were given up while there were some,
                   \* and are there since (history)
    loaded,        \* whose startup data each process has read, 0 for none
    answer         \* what each Run command was answered

starting == <<at, launch, appOf, polls, actualpid, child, grandchild, pidMem,
              block, mStoredDataBlocks, inherited, abandoned, loaded, answer>>

Launches == 1..MaxLaunches
Server == 0      \* the processes attached to a segment: the server,
App(n) == n      \* the application of launch n and the process in between
Child(n) == MaxLaunches + n

NoSegment == [users |-> {}, exists |-> FALSE, value |-> 0]
Created == [users |-> {Server}, exists |-> TRUE, value |-> 0]

(* QSharedMemory::detach and attach, and the end of an attached process.   *)
Detach(mem, p) ==
    IF mem.users = {p} THEN NoSegment ELSE [mem EXCEPT !.users = @ \ {p}]
Attach(mem, p) == [mem EXCEPT !.users = @ \cup {p}]
EndAttached(mem, p) == [mem EXCEPT !.users = @ \ {p}]

(* A process detaches from the startup data of a.                          *)
DetachBlock(a, p) ==
    /\ block' = [block EXCEPT ![a] =
                    IF inherited[a] = {} THEN Detach(@, p) ELSE EndAttached(@, p)]
    /\ abandoned' = IF block[a].users # {p} THEN abandoned
                    ELSE IF inherited[a] = {} THEN abandoned \ {a}
                    ELSE abandoned \cup {a}

StartInit ==
    /\ at = "idle" /\ launch = 0 /\ polls = 0 /\ actualpid = 0
    /\ appOf = <<>>
    /\ child = [n \in Launches |-> "none"]
    /\ grandchild = [n \in Launches |-> "none"]
    /\ pidMem = NoSegment
    /\ block = [a \in Apps |-> NoSegment]
    /\ mStoredDataBlocks = {}
    /\ inherited = [a \in Apps |-> {}]
    /\ abandoned = {}
    /\ loaded = [n \in Launches |-> 0]
    /\ answer = [n \in Launches |-> "none"]

-----------------------------------------------------------------------------
(* The thread of the server.                                               *)

Processes == <<child, grandchild, pidMem>>
Startup == <<block, mStoredDataBlocks, inherited, abandoned, loaded>>

(* setRuntimeParams: a block that is still there is left as it is, and the *)
(* application is started all the same.                                    *)
Run(a, params) ==
    /\ at = "idle" /\ launch < MaxLaunches
    /\ launch' = launch + 1
    /\ appOf' = Append(appOf, a)
    /\ IF params /\ ~block[a].exists
       THEN at' = "storing" /\ block' = [block EXCEPT ![a] = Created]
       ELSE at' = "launching" /\ UNCHANGED block
    /\ UNCHANGED <<polls, actualpid, Processes, mStoredDataBlocks, inherited,
                   abandoned, loaded, answer>>

StoreSharedData ==
    /\ at = "storing"
    /\ at' = "launching"
    /\ block' = [block EXCEPT ![appOf[launch]].value = launch]
    /\ mStoredDataBlocks' = mStoredDataBlocks \cup {appOf[launch]}
    /\ UNCHANGED <<launch, appOf, polls, actualpid, Processes, inherited,
                   abandoned, loaded, answer>>

(* The command ends: the parameters were all it was about, the binary is   *)
(* not found, pid_mem is there from an earlier launch, or fork fails (the  *)
(* segment is created and given up again).                                 *)
Ends(how) ==
    /\ at = "launching"
    /\ at' = "idle"
    /\ answer' = [answer EXCEPT ![launch] = how]
    /\ UNCHANGED <<launch, appOf, polls, actualpid, Processes, Startup>>

ParamsOnly == Ends("set")
NotLaunched == Ends("error")

(* Mutant of Create: a segment that exists is attached to as it is.        *)
CreateOrAttach ==
    IF pidMem.exists THEN Attach(pidMem, Server) ELSE Created

(* A new segment holds zeroes.                                             *)
Create == IF pidMem.exists THEN NoSegment ELSE Created

Launch ==
    /\ at = "launching"
    /\ Create.exists
    /\ pidMem' = Attach(Create, Child(launch))
    /\ child' = [child EXCEPT ![launch] = "forked"]
    /\ inherited' = [a \in Apps |-> IF Server \in block[a].users
                                    THEN inherited[a] \cup {Child(launch)}
                                    ELSE inherited[a]]
    /\ at' = "polling" /\ polls' = 0 /\ actualpid' = 0
    /\ UNCHANGED <<launch, appOf, grandchild, block, mStoredDataBlocks, abandoned,
                   loaded, answer>>

Poll ==
    /\ at = "polling"
    /\ actualpid = 0 /\ polls < MaxPolls
    /\ actualpid' = pidMem.value
    /\ polls' = IF actualpid' = 0 THEN polls + 1 ELSE polls
    /\ UNCHANGED <<at, launch, appOf, Processes, Startup, answer>>

StopPolling ==
    /\ at = "polling"
    /\ actualpid # 0 \/ polls = MaxPolls
    /\ at' = "waiting"
    /\ pidMem' = Detach(pidMem, Server)
    /\ UNCHANGED <<launch, appOf, polls, actualpid, child, grandchild, Startup,
                   answer>>

(* waitpid has returned.  The process id that is answered goes to the      *)
(* started ones of TasClientManager.                                       *)
Reap ==
    /\ at = "waiting"
    /\ child[launch] \in {"done", "failed"}
    /\ at' = "idle"
    /\ answer' = [answer EXCEPT ![launch] =
                    IF actualpid # 0 /\ child[launch] = "done"
                    THEN "started" ELSE "error"]
    /\ UNCHANGED <<launch, appOf, polls, actualpid, Processes, Startup>>

(* Mutant of Register: the server goes on holding what it has stored.      *)
RegisterKeeps(n) ==
    /\ at = "idle"
    /\ grandchild[n] = "loaded"
    /\ grandchild' = [grandchild EXCEPT ![n] = "registered"]
    /\ UNCHANGED <<at, launch, appOf, polls, actualpid, child, pidMem, Startup,
                   answer>>

(* RegisterService of a plugin of launch n: detachSharedData.              *)
Register(n) ==
    /\ at = "idle"
    /\ grandchild[n] = "loaded"
    /\ grandchild' = [grandchild EXCEPT ![n] = "registered"]
    /\ IF appOf[n] \in mStoredDataBlocks
       THEN DetachBlock(appOf[n], Server)
       ELSE UNCHANGED <<block, abandoned>>
    /\ mStoredDataBlocks' = mStoredDataBlocks \ {appOf[n]}
    /\ UNCHANGED <<at, launch, appOf, polls, actualpid, child, pidMem, inherited,
                   loaded, answer>>

StartServerNext ==
    \/ \E a \in Apps, params \in BOOLEAN : Run(a, params)
    \/ StoreSharedData \/ ParamsOnly \/ NotLaunched
    \/ Launch \/ Poll \/ StopPolling \/ Reap
    \/ \E n \in Launches : Register(n)

-----------------------------------------------------------------------------
(* The processes it forks.                                                 *)

ServerUnchanged == <<at, launch, appOf, polls, actualpid, answer>>

(* A process that was forked ends, or becomes another program.             *)
Disinherit(p) ==
    /\ inherited' = [a \in Apps |-> inherited[a] \ {p}]
    /\ UNCHANGED <<block, mStoredDataBlocks, abandoned, loaded>>

(* setsid cannot fail in a process that fork has just made; if it did, the *)
(* child would end attached.                                               *)
ForkFails(n) ==
    /\ child[n] = "forked"
    /\ child' = [child EXCEPT ![n] = "failed"]
    /\ pidMem' = Detach(pidMem, Child(n))
    /\ Disinherit(Child(n))
    /\ UNCHANGED <<ServerUnchanged, grandchild>>

Fork(n) ==
    /\ child[n] = "forked"
    /\ child' = [child EXCEPT ![n] = "writing"]
    /\ grandchild' = [grandchild EXCEPT ![n] = "forked"]
    /\ pidMem' = Attach(pidMem, App(n))
    /\ inherited' = [a \in Apps |-> IF Child(n) \in inherited[a]
                                    THEN inherited[a] \cup {App(n)}
                                    ELSE inherited[a]]
    /\ UNCHANGED <<ServerUnchanged, block, mStoredDataBlocks, abandoned, loaded>>

WritePid(n) ==
    /\ child[n] = "writing"
    /\ child' = [child EXCEPT ![n] = "detaching"]
    /\ pidMem' = [pidMem EXCEPT !.value = App(n)]
    /\ UNCHANGED <<ServerUnchanged, grandchild, Startup>>

(* Mutant of ChildExits: the child leaves the detaching to its exit.       *)
ChildExitsAttached(n) ==
    /\ child[n] = "detaching"
    /\ child' = [child EXCEPT ![n] = "done"]
    /\ pidMem' = EndAttached(pidMem, Child(n))
    /\ Disinherit(Child(n))
    /\ UNCHANGED <<ServerUnchanged, grandchild>>

ChildExits(n) ==
    /\ child[n] = "detaching"
    /\ child' = [child EXCEPT ![n] = "done"]
    /\ pidMem' = Detach(pidMem, Child(n))
    /\ Disinherit(Child(n))
    /\ UNCHANGED <<ServerUnchanged, grandchild>>

(* The application detaches from pid_mem, then runs or fails to.           *)
Exec(n) ==
    /\ grandchild[n] = "forked"
    /\ pidMem' = Detach(pidMem, App(n))
    /\ \E r \in {"running", "dead"} : grandchild' = [grandchild EXCEPT ![n] = r]
    /\ Disinherit(App(n))
    /\ UNCHANGED <<ServerUnchanged, child>>

(* loadStartUpParams of its plugin.  Whoever attaches between create and   *)
(* the copy finds zeroes, and looks for what is not there: the process     *)
(* dies if the build checks, holding the segment.                          *)
LoadSharedData(n) ==
    /\ grandchild[n] = "running"
    /\ LET a == appOf[n] IN
       IF block[a].exists
       THEN /\ grandchild' = [grandchild EXCEPT ![n] = "loading"]
            /\ block' = [block EXCEPT ![a] = Attach(@, App(n))]
       ELSE /\ grandchild' = [grandchild EXCEPT ![n] = "loaded"]
            /\ UNCHANGED block
    /\ UNCHANGED <<ServerUnchanged, child, pidMem, mStoredDataBlocks, inherited,
                   abandoned, loaded>>

Loaded(n) ==
    /\ grandchild[n] = "loading"
    /\ LET a == appOf[n] IN
       \/ /\ loaded' = [loaded EXCEPT ![n] = block[a].value]
          /\ grandchild' = [grandchild EXCEPT ![n] = "loaded"]
          /\ DetachBlock(a, App(n))
       \/ /\ block[a].value = 0
          /\ grandchild' = [grandchild EXCEPT ![n] = "dead"]
          /\ block' = [block EXCEPT ![a] = EndAttached(@, App(n))]
          /\ UNCHANGED <<abandoned, loaded>>
    /\ UNCHANGED <<ServerUnchanged, child, pidMem, mStoredDataBlocks, inherited>>

StartOtherNext == \E n \in Launches :
    \/ ForkFails(n) \/ Fork(n) \/ WritePid(n) \/ ChildExits(n)
    \/ Exec(n) \/ LoadSharedData(n) \/ Loaded(n)

-----------------------------------------------------------------------------
(* A Run command is answered with the process of its own launch, never     *)
(* with one that an earlier launch, still on its way, has written.         *)
PidIsOfItsLaunch ==
    at \in {"polling", "waiting"} /\ actualpid # 0 =>
        /\ actualpid = App(launch)
        /\ grandchild[launch] # "none"

(* A launch of the application a since its data were stored has registered.*)
RegisteredSinceStored(a) ==
    \E n \in Launches :
        /\ block[a].value <= n /\ n <= launch /\ appOf[n] = a
        /\ grandchild[n] = "registered"

(* Shared memory that is left behind makes every later launch, or every    *)
(* later store for the same application, fail.  pid_mem is only ever there *)
(* while somebody is attached who is going to detach.  Startup data are    *)
(* there while the server knows that it has stored them, which it does     *)
(* only until one application started since has registered, or while       *)
(* somebody is reading them; the one exception is data that were given up  *)
(* while a process forked for another launch was attached without knowing: *)
(* these stay until an application of that name reads them.                *)
NoSegmentLeft ==
    /\ pidMem.exists => pidMem.users # {}
    /\ at = "idle" => pidMem.users \subseteq
            {App(n) : n \in {m \in Launches : grandchild[m] = "forked"}}
            \cup {Child(n) : n \in {m \in Launches : child[m] # "done"}}
    /\ \A a \in Apps :
        /\ block[a].exists /\ a \notin abandoned =>
            \/ Server \in block[a].users /\ (a \in mStoredDataBlocks \/ at = "storing")
            \/ \E n \in Launches : grandchild[n] = "loading" /\ appOf[n] = a
                                   /\ App(n) \in block[a].users
        /\ a \in mStoredDataBlocks => ~RegisteredSinceStored(a)
=============================================================================
