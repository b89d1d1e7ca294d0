---------------------------- MODULE NodeRegister ----------------------------
(***************************************************************************)
(* The workers of a cluster and ZooKeeper (zookeeper_handler/              *)
(* node_register.py, zk_thread.py): every worker keeps an ephemeral znode, *)
(* one of them is elected master, and the master has the jobs of a worker  *)
(* whose znode vanishes recovered, by itself or by a POST to another       *)
(* worker (common/base_http_handler.py).                                   *)
(*                                                                         *)
(* ZooKeeper and kazoo are external: a session is a worker and a number;   *)
(* what a session created vanishes when it expires; a watch is called once *)
(* for any number of changes, with the children of that moment.            *)
(* All workers share one database: recovery_exec takes a host and a port   *)
(* and does not use them.                                                  *)
(***************************************************************************)
EXTENDS Integers

LOCAL INSTANCE Functions

CONSTANTS
  Workers,
  MaxSessions   \* bound: how many sessions are opened

ASSUME ClusterAssumption == MaxSessions \in Nat \ {0}

VARIABLES
  python2,     \* the HTTP client can be imported: urlparse is a module of Python 2
  proc,        \* the process of a worker: down, starting (in __init__) or up
  session,     \* the number of a worker's last session
  sessions,    \* the sessions alive at ZooKeeper
  znode,       \* the session that holds a worker's znode, 0 when there is none
  lock,        \* the session that holds the election's lock
  zk_node,     \* self.zk_node is set
  is_master, workers,
  event,       \* a call of the watch is due
  keeper,      \* a ZkThread is due
  watch,       \* the call of the watch that is running: its children, the workers still to look at
  gone,        \* history: the workers a master has seen and not had recovered since they vanished
  recovered,   \* history: the workers a master has had recovered since they vanished
  again,       \* history: the masters that had a worker recovered for the second time
  raised,      \* history: the masters of which a call of the watch ended with an exception
  elected      \* history: the session a master was elected in

server == <<session, sessions, znode, lock>>
history == <<gone, recovered, again, raised, elected>>
vars == <<python2, proc, server, zk_node, is_master, workers, event, keeper, watch, history>>

NoLock == <<"nobody", 0>>
Idle == [on |-> FALSE, children |-> {}, todo |-> {}]

Mine(w) == <<w, session[w]>>
Connected(w) == proc[w] # "down" /\ Mine(w) \in sessions
Children == {w \in Workers : znode[w] # 0}

Init ==
  /\ python2 \in BOOLEAN
  /\ proc = [w \in Workers |-> "down"]
  /\ session = [w \in Workers |-> 0]
  /\ sessions = {}
  /\ znode = [w \in Workers |-> 0]
  /\ lock = NoLock
  /\ zk_node = [w \in Workers |-> FALSE]
  /\ is_master = [w \in Workers |-> FALSE]
  /\ workers = [w \in Workers |-> {}]
  /\ event = [w \in Workers |-> FALSE]
  /\ keeper = [w \in Workers |-> FALSE]
  /\ watch = [w \in Workers |-> Idle]
  /\ raised = {} /\ again = {}
  /\ gone = [w \in Workers |-> {}] /\ recovered = [w \in Workers |-> {}]
  /\ elected = [w \in Workers |-> 0]

----------------------------------------------------------------------------
(* External: sessions, ephemeral znodes, watches. *)

(* The watch of every process that runs is due when the children change. *)
Notify == event' = [w \in Workers |-> proc'[w] # "down"]

(* Worker w is in the last list of children that master m was given. *)
Knows(m, w) == is_master[m] /\ w \in IF watch[m].on THEN watch[m].children ELSE workers[m]

(* History: a znode vanishes, or is created. *)
Vanished(w) ==
  /\ gone' = [m \in Workers |-> IF Knows(m, w) THEN gone[m] \cup {w} ELSE gone[m]]
  /\ recovered' = [m \in Workers |-> recovered[m] \ {w}]

Created(w) ==
  /\ gone' = [m \in Workers |-> gone[m] \ {w}]
  /\ UNCHANGED recovered

Release(s) == lock' = IF lock = s THEN NoLock ELSE lock

(* A session of worker w ends: its znode vanishes and its lock is free. *)
EndSession(s) ==
  LET w == s[1] IN
  /\ sessions' = sessions \ {s}
  /\ Release(s)
  /\ IF znode[w] = s[2]
     THEN znode' = [znode EXCEPT ![w] = 0] /\ Vanished(w) /\ Notify
     ELSE UNCHANGED <<znode, gone, recovered>> /\ event' = [v \in Workers |-> event[v] /\ proc'[v] # "down"]

(* A process is gone, or was not heard of for too long. *)
Expire(s) ==
  /\ s \in sessions
  /\ UNCHANGED proc
  /\ EndSession(s)
  /\ UNCHANGED <<python2, session, zk_node, is_master, workers, keeper, watch, again, raised, elected>>

OpenMore == FoldFunction(+, 0, session) < MaxSessions

(* kazoo opens a new session: the watch is set again, and conn_state_watcher *)
(* starts a ZkThread if this worker ever created its znode.                   *)
Reconnect(w) ==
  /\ proc[w] = "up" /\ Mine(w) \notin sessions
  /\ OpenMore
  /\ session' = [session EXCEPT ![w] = @ + 1]
  /\ sessions' = sessions \cup {<<w, session[w] + 1>>}
  /\ event' = [event EXCEPT ![w] = TRUE]
  /\ keeper' = [keeper EXCEPT ![w] = zk_node[w]]
  /\ UNCHANGED <<python2, proc, znode, lock, zk_node, is_master, workers, watch, history>>

----------------------------------------------------------------------------
(* register(): create the znode, unless it exists. *)
Register(w) ==
  IF znode[w] = 0
  THEN /\ znode' = [znode EXCEPT ![w] = session[w]]
       /\ zk_node' = [zk_node EXCEPT ![w] = TRUE]
       /\ Created(w)
       /\ Notify
  ELSE UNCHANGED <<znode, zk_node, gone, recovered, event>>

(* __init__ up to zk.start(): connected, the watch is called already. *)
Start(w) ==
  /\ proc[w] = "down" /\ OpenMore
  /\ proc' = [proc EXCEPT ![w] = "starting"]
  /\ session' = [session EXCEPT ![w] = @ + 1]
  /\ sessions' = sessions \cup {<<w, session[w] + 1>>}
  /\ event' = [event EXCEPT ![w] = TRUE]
  /\ UNCHANGED <<python2, znode, lock, zk_node, is_master, workers, keeper, watch, history>>

(* The rest of __init__: self.workers = [], is_master = False, register(); *)
(* service() registers once more and comes to election.run.                *)
Initialize(w) ==
  /\ proc[w] = "starting" /\ Connected(w)
  /\ proc' = [proc EXCEPT ![w] = "up"]
  /\ workers' = [workers EXCEPT ![w] = {}]
  /\ is_master' = [is_master EXCEPT ![w] = FALSE]
  /\ Register(w)
  /\ UNCHANGED <<python2, session, sessions, lock, keeper, watch, again, raised, elected>>

(* Mutant: the poller is run without the lock. *)
ElectUnlocked(w) ==
  /\ proc[w] = "up" /\ Connected(w) /\ ~is_master[w]
  /\ lock' = Mine(w)
  /\ is_master' = [is_master EXCEPT ![w] = TRUE]
  /\ elected' = [elected EXCEPT ![w] = session[w]]
  /\ gone' = [gone EXCEPT ![w] = {}] /\ recovered' = [recovered EXCEPT ![w] = {}]
  /\ UNCHANGED <<python2, proc, session, sessions, znode, zk_node, workers, event, keeper, watch, again, raised>>

(* election.run(self.poller): poller never returns, so is_master stays. *)
Elect(w) ==
  /\ proc[w] = "up" /\ Connected(w) /\ ~is_master[w]
  /\ lock = NoLock
  /\ lock' = Mine(w)
  /\ is_master' = [is_master EXCEPT ![w] = TRUE]
  /\ elected' = [elected EXCEPT ![w] = session[w]]
  /\ gone' = [gone EXCEPT ![w] = {}] /\ recovered' = [recovered EXCEPT ![w] = {}]
  /\ UNCHANGED <<python2, proc, session, sessions, znode, zk_node, workers, event, keeper, watch, again, raised>>

(* ZkThread.run: redo the register when the znode does not exist. *)
KeepInfo(w) ==
  /\ proc[w] = "up" /\ Connected(w) /\ keeper[w]
  /\ keeper' = [keeper EXCEPT ![w] = FALSE]
  /\ UNCHANGED proc
  /\ Register(w)
  /\ UNCHANGED <<python2, session, sessions, lock, is_master, workers, watch, again, raised, elected>>

Down(w) ==
  /\ proc' = [proc EXCEPT ![w] = "down"]
  /\ zk_node' = [zk_node EXCEPT ![w] = FALSE]
  /\ is_master' = [is_master EXCEPT ![w] = FALSE]
  /\ workers' = [workers EXCEPT ![w] = {}]
  /\ keeper' = [keeper EXCEPT ![w] = FALSE]
  /\ watch' = [watch EXCEPT ![w] = Idle]
  /\ raised' = raised \ {w} /\ again' = again \ {w}

(* The process dies.  close() ends its session too: a Crash and an Expire. *)
Crash(w) ==
  /\ proc[w] # "down"
  /\ Down(w)
  /\ event' = [event EXCEPT ![w] = FALSE]
  /\ UNCHANGED <<python2, server, gone, recovered, elected>>

----------------------------------------------------------------------------
(* watcher(children), one call at a time. *)

(* Mutant: the worker relies on its ZkThread. *)
WatchIgnored(w) ==
  /\ event[w] /\ ~watch[w].on /\ Connected(w) /\ w \notin Children
  /\ event' = [event EXCEPT ![w] = FALSE]
  /\ UNCHANGED <<python2, proc, server, zk_node, is_master, workers, keeper, watch, history>>

(* A worker that is not among the children registers, and that is all. *)
WatchMissing(w) ==
  /\ event[w] /\ ~watch[w].on /\ Connected(w) /\ w \notin Children
  /\ UNCHANGED proc
  /\ Register(w)
  /\ UNCHANGED <<python2, session, sessions, lock, is_master, workers, keeper, watch, again, raised, elected>>

(* Only a master looks for the workers that are down. *)
WatchBegin(w) ==
  /\ event[w] /\ ~watch[w].on /\ Connected(w) /\ w \in Children
  /\ event' = [event EXCEPT ![w] = FALSE]
  /\ watch' = [watch EXCEPT ![w] =
       [on |-> TRUE, children |-> Children, todo |-> IF is_master[w] THEN workers[w] \ Children ELSE {}]]
  /\ UNCHANGED <<python2, proc, server, zk_node, is_master, workers, keeper, history>>

(* recovery_exec is run, by the worker itself or where the POST arrives. *)
Executed(w, assign_worker) == assign_worker = w \/ proc[assign_worker] = "up"

(* History: master m has tried to have worker w recovered. *)
Tried(m, w, executed) ==
  /\ gone' = [gone EXCEPT ![m] = @ \ {w}]
  /\ recovered' = IF executed THEN [recovered EXCEPT ![m] = @ \cup {w}] ELSE recovered
  /\ again' = IF executed /\ w \in recovered[m] THEN again \cup {m} ELSE again

(* Mutant: the loop ends with the first worker that is down. *)
RecoverFirst(w, down, assign_worker) ==
  /\ watch[w].on /\ down \in watch[w].todo /\ assign_worker \in watch[w].children
  /\ assign_worker = w \/ python2
  /\ Tried(w, down, Executed(w, assign_worker))
  /\ watch' = [watch EXCEPT ![w].todo = {}]
  /\ UNCHANGED <<python2, proc, server, zk_node, is_master, workers, event, keeper, raised, elected>>

(* One worker that is down: random.choice(children) recovers it.  The result *)
(* of a POST that was refused or timed out is logged and not looked at.      *)
RecoverOne(w, down, assign_worker) ==
  /\ watch[w].on /\ down \in watch[w].todo /\ assign_worker \in watch[w].children
  /\ assign_worker = w \/ python2
  /\ Tried(w, down, Executed(w, assign_worker))
  /\ watch' = [watch EXCEPT ![w].todo = @ \ {down}]
  /\ UNCHANGED <<python2, proc, server, zk_node, is_master, workers, event, keeper, raised, elected>>

(* from common.base_http_handler import BasicHttpClient: no module named     *)
(* urlparse.  kazoo logs what the watch raises; self.workers is as before.   *)
ImportFails(w) ==
  /\ ~python2
  /\ watch[w].on /\ watch[w].todo # {} /\ watch[w].children # {w}
  /\ watch' = [watch EXCEPT ![w] = Idle]
  /\ raised' = raised \cup {w}
  /\ UNCHANGED <<python2, proc, server, zk_node, is_master, workers, event, keeper, gone, recovered, again, elected>>

(* Mutant: the workers are not refreshed by the master. *)
WatchEndStale(w) ==
  /\ watch[w].on /\ watch[w].todo = {}
  /\ workers' = [workers EXCEPT ![w] = IF is_master[w] /\ @ # {} THEN @ \cup watch[w].children ELSE watch[w].children]
  /\ watch' = [watch EXCEPT ![w] = Idle]
  /\ UNCHANGED <<python2, proc, server, zk_node, is_master, event, keeper, history>>

(* refresh online workers *)
WatchEnd(w) ==
  /\ watch[w].on /\ watch[w].todo = {}
  /\ workers' = [workers EXCEPT ![w] = watch[w].children]
  /\ watch' = [watch EXCEPT ![w] = Idle]
  /\ UNCHANGED <<python2, proc, server, zk_node, is_master, event, keeper, history>>

WatchStep(w) ==
  \/ WatchMissing(w) \/ WatchBegin(w) \/ WatchEnd(w) \/ ImportFails(w)
  \/ \E down, assign_worker \in Workers : RecoverOne(w, down, assign_worker)

Next ==
  \/ \E s \in sessions : Expire(s)
  \/ \E w \in Workers :
       \/ Start(w) \/ Initialize(w) \/ Elect(w) \/ Reconnect(w) \/ KeepInfo(w)
       \/ Crash(w)
       \/ WatchStep(w)

Spec == Init /\ [][Next]_vars

----------------------------------------------------------------------------
(* The properties. *)

(* The variables keep their types; a master runs, and looks only for workers that are gone. *)
TypeOK ==
  /\ python2 \in BOOLEAN
  /\ proc \in [Workers -> {"down", "starting", "up"}]
  /\ session \in [Workers -> Nat] /\ znode \in [Workers -> Nat] /\ elected \in [Workers -> Nat]
  /\ sessions \subseteq Workers \X (Nat \ {0})
  /\ lock \in sessions \cup {NoLock}
  /\ zk_node \in [Workers -> BOOLEAN] /\ is_master \in [Workers -> BOOLEAN]
  /\ event \in [Workers -> BOOLEAN] /\ keeper \in [Workers -> BOOLEAN]
  /\ workers \in [Workers -> SUBSET Workers]
  /\ gone \in [Workers -> SUBSET Workers] /\ recovered \in [Workers -> SUBSET Workers]
  /\ watch \in [Workers -> [on : BOOLEAN, children : SUBSET Workers, todo : SUBSET Workers]]
  /\ \A w \in Workers : watch[w].todo \cap watch[w].children = {} /\ (is_master[w] => proc[w] = "up")
  /\ raised \subseteq Workers /\ again \subseteq Workers

(* Two workers that both take themselves for the master: a session that one  *)
(* of them was elected in expired, and poller did not notice.                *)
TwoMastersNeedExpiry ==
  \A v, w \in Workers :
    v # w /\ is_master[v] /\ is_master[w] => \E m \in {v, w} : <<m, elected[m]>> \notin sessions

(* A master that has gone through its watch has tried to have every worker   *)
(* recovered that vanished while it knew it, and had each death recovered    *)
(* once, unless a call of the watch ended with an exception, which leaves    *)
(* self.workers as it was.                                                   *)
DeathsHandledOnce ==
  \A m \in Workers \ raised :
    /\ is_master[m] /\ ~event[m] /\ ~watch[m].on => gone[m] = {}
    /\ m \notin again

(* A worker that is connected and has nothing left to do has a znode, even   *)
(* if the one it found at its start was of an older session and has expired. *)
QuietMeansRegistered ==
  \A w \in Workers :
    proc[w] = "up" /\ Connected(w) /\ ~event[w] /\ ~watch[w].on /\ ~keeper[w] => w \in Children
=============================================================================
