------------------------- MODULE NodeRegisterProofs -------------------------
(***************************************************************************)
(* Proofs about NodeRegister, for any set of workers and any number of     *)
(* sessions.  The inductive invariant is                                   *)
(*                                                                         *)
(*   Inv == TypeOK /\ LockInv /\ EventInv /\ GoneInv /\ RecoveredInv        *)
(***************************************************************************)
EXTENDS NodeRegister, TLAPS

(* As long as the session a master was elected in lives, it has the lock. *)
LockInv ==
  \A m \in Workers :
    /\ elected[m] <= session[m]
    /\ is_master[m] /\ <<m, elected[m]>> \in sessions => lock = <<m, elected[m]>>

(* A connected worker without a znode has a call of its watch coming. *)
EventInv ==
  \A w \in Workers : proc[w] # "down" /\ Connected(w) /\ w \notin Children => event[w]

(* What a master has lost sight of is in the list it was given last, and it  *)
(* is looking at it already or has a call of its watch coming.               *)
GoneInv ==
  \A m \in Workers : is_master[m] /\ m \notin raised =>
    /\ gone[m] \cap Children = {}
    /\ watch[m].on => gone[m] \subseteq watch[m].todo \cup watch[m].children
    /\ ~watch[m].on => gone[m] \subseteq workers[m]
    /\ ~event[m] => gone[m] \subseteq watch[m].todo

(* The children the watch was given last. *)
Known(m) == IF watch[m].on THEN watch[m].children ELSE workers[m]

(* What a master had recovered is not looked at again, unless it came back. *)
RecoveredInv ==
  \A m \in Workers : m \notin raised =>
    /\ Known(m) \cap recovered[m] \subseteq Children
    /\ watch[m].todo \cap recovered[m] = {}
    /\ ~watch[m].on => watch[m].todo = {}
    /\ m \notin again

Inv == TypeOK /\ LockInv /\ EventInv /\ GoneInv /\ RecoveredInv

----------------------------------------------------------------------------
(* The watch of every process that runs is due. *)
LEMMA NotifyFacts ==
  ASSUME Notify
  PROVE  event' \in [Workers -> BOOLEAN] /\ \A v \in Workers : event'[v] = (proc'[v] # "down")
<1>1. \A v \in Workers : (proc'[v] # "down") \in BOOLEAN
  OBVIOUS
<1> QED BY <1>1, Zenon DEF Notify

(* register() touches the znode of its worker and what hangs on it. *)
LEMMA RegisterFacts ==
  ASSUME TypeOK, NEW w \in Workers, Connected(w), Register(w)
  PROVE  /\ znode' \in [Workers -> Nat] /\ zk_node' \in [Workers -> BOOLEAN]
         /\ gone' \in [Workers -> SUBSET Workers] /\ recovered' = recovered
         /\ event' \in [Workers -> BOOLEAN]
         /\ Children' = Children \cup {w}
         /\ w \in Children => gone' = gone /\ event' = event
         /\ w \notin Children =>
              /\ \A m \in Workers : gone'[m] = gone[m] \ {w}
              /\ \A v \in Workers : event'[v] = (proc'[v] # "down")
<1>1. CASE znode[w] = 0
  <2>1. /\ znode' = [znode EXCEPT ![w] = session[w]] /\ zk_node' = [zk_node EXCEPT ![w] = TRUE]
        /\ Created(w) /\ Notify
    BY <1>1 DEF Register
  <2>2. znode' \in [Workers -> Nat] /\ zk_node' \in [Workers -> BOOLEAN]
    BY <2>1 DEF TypeOK
  <2>3. Children' = Children \cup {w} /\ w \notin Children
    <3>1. session[w] # 0
      BY DEF TypeOK, Connected, Mine
    <3> QED BY <1>1, <2>1, <3>1 DEF TypeOK, Children
  <2>4. /\ gone' \in [Workers -> SUBSET Workers] /\ recovered' = recovered
        /\ \A m \in Workers : gone'[m] = gone[m] \ {w}
    BY <2>1 DEF TypeOK, Created
  <2> QED
    BY <2>1, <2>2, <2>3, <2>4, NotifyFacts
<1>2. CASE znode[w] # 0
  BY <1>2 DEF Register, TypeOK, Children
<1> QED BY <1>1, <1>2

(* The end of a session takes the znode it created, and frees its lock. *)
LEMMA EndSessionFacts ==
  ASSUME TypeOK, NEW s \in sessions, EndSession(s), UNCHANGED proc
  PROVE  /\ s[1] \in Workers /\ sessions' = sessions \ {s}
         /\ lock' = IF lock = s THEN NoLock ELSE lock
         /\ znode' \in [Workers -> Nat] /\ event' \in [Workers -> BOOLEAN]
         /\ gone' \in [Workers -> SUBSET Workers] /\ recovered' \in [Workers -> SUBSET Workers]
         /\ \/ /\ Children' = Children \ {s[1]}
               /\ \A m \in Workers : gone'[m] = IF Knows(m, s[1]) THEN gone[m] \cup {s[1]} ELSE gone[m]
               /\ \A m \in Workers : recovered'[m] = recovered[m] \ {s[1]}
               /\ \A v \in Workers : event'[v] = (proc[v] # "down")
            \/ /\ Children' = Children /\ gone' = gone /\ recovered' = recovered
               /\ \A v \in Workers : event'[v] = (event[v] /\ proc[v] # "down")
<1> DEFINE w == s[1]
<1>1. w \in Workers /\ sessions' = sessions \ {s} /\ lock' = IF lock = s THEN NoLock ELSE lock
  BY DEF TypeOK, EndSession, Release
<1>2. CASE znode[w] = s[2]
  <2>1. znode' = [znode EXCEPT ![w] = 0] /\ Vanished(w) /\ Notify
    BY <1>2 DEF EndSession
  <2>2. znode' \in [Workers -> Nat] /\ Children' = Children \ {w}
    BY <1>1, <2>1 DEF TypeOK, Children
  <2>3. /\ gone' = [m \in Workers |-> IF Knows(m, w) THEN gone[m] \cup {w} ELSE gone[m]]
        /\ recovered' = [m \in Workers |-> recovered[m] \ {w}]
    BY <2>1 DEF Vanished
  <2>4. gone' \in [Workers -> SUBSET Workers] /\ recovered' \in [Workers -> SUBSET Workers]
    BY <1>1, <2>3 DEF TypeOK
  <2> QED BY <1>1, <2>1, <2>2, <2>3, <2>4, NotifyFacts
<1>3. CASE znode[w] # s[2]
  <2>1. /\ UNCHANGED <<znode, gone, recovered>>
        /\ event' = [v \in Workers |-> event[v] /\ proc'[v] # "down"]
    BY <1>3 DEF EndSession
  <2>2. event' \in [Workers -> BOOLEAN] /\ \A v \in Workers : event'[v] = (event[v] /\ proc[v] # "down")
    <3>1. \A v \in Workers : (event[v] /\ proc'[v] # "down") \in BOOLEAN
      OBVIOUS
    <3> QED BY <2>1, <3>1, Zenon
  <2> QED BY <1>1, <2>1, <2>2 DEF TypeOK, Children
<1> QED BY <1>2, <1>3

----------------------------------------------------------------------------
(* Every action preserves the invariant. *)

LEMMA InitInv == Init => Inv
BY DEF Init, Inv, TypeOK, LockInv, EventInv, GoneInv, RecoveredInv, Known, Idle, NoLock, Children, Connected, Mine

LEMMA ExpireInv ==
  ASSUME Inv, NEW s \in sessions, Expire(s)
  PROVE  Inv'
<1>0. /\ EndSession(s)
      /\ UNCHANGED <<python2, proc, session, zk_node, is_master, workers, keeper, watch, again, raised, elected>>
  BY DEF Expire
<1>1. TypeOK'
  BY <1>0, EndSessionFacts DEF Inv, TypeOK, NoLock
<1>2. LockInv'
  BY <1>0, EndSessionFacts DEF Inv, TypeOK, LockInv, NoLock
<1>3. EventInv'
  BY <1>0, EndSessionFacts DEF Inv, TypeOK, EventInv, Connected, Mine
<1>4. GoneInv'
  <2> SUFFICES ASSUME NEW m \in Workers, is_master[m], m \notin raised
               PROVE  /\ gone'[m] \cap Children' = {}
                      /\ watch[m].on => gone'[m] \subseteq watch[m].todo \cup watch[m].children
                      /\ ~watch[m].on => gone'[m] \subseteq workers[m]
                      /\ ~event'[m] => gone'[m] \subseteq watch[m].todo
    BY <1>0 DEF GoneInv
  <2>1. /\ gone[m] \cap Children = {}
        /\ watch[m].on => gone[m] \subseteq watch[m].todo \cup watch[m].children
        /\ ~watch[m].on => gone[m] \subseteq workers[m]
        /\ ~event[m] => gone[m] \subseteq watch[m].todo
        /\ proc[m] = "up"
    BY DEF Inv, TypeOK, GoneInv
  <2>2. CASE /\ Children' = Children \ {s[1]}
             /\ gone'[m] = IF Knows(m, s[1]) THEN gone[m] \cup {s[1]} ELSE gone[m]
             /\ event'[m] = (proc[m] # "down")
    BY <2>1, <2>2 DEF Knows
  <2>3. CASE Children' = Children /\ gone' = gone /\ event'[m] = (event[m] /\ proc[m] # "down")
    BY <2>1, <2>3
  <2> QED BY <1>0, <2>2, <2>3, EndSessionFacts DEF Inv
<1>5. RecoveredInv'
  <2> SUFFICES ASSUME NEW m \in Workers, m \notin raised
               PROVE  /\ Known(m) \cap recovered'[m] \subseteq Children'
                      /\ watch[m].todo \cap recovered'[m] = {}
                      /\ ~watch[m].on => watch[m].todo = {}
                      /\ m \notin again
    BY <1>0 DEF RecoveredInv, Known
  <2>1. /\ Known(m) \cap recovered[m] \subseteq Children
        /\ watch[m].todo \cap recovered[m] = {}
        /\ ~watch[m].on => watch[m].todo = {}
        /\ m \notin again
    BY DEF Inv, RecoveredInv
  <2>2. CASE Children' = Children \ {s[1]} /\ recovered'[m] = recovered[m] \ {s[1]}
    BY <2>1, <2>2
  <2>3. CASE Children' = Children /\ recovered' = recovered
    BY <2>1, <2>3
  <2> QED BY <1>0, <2>2, <2>3, EndSessionFacts DEF Inv
<1> QED BY <1>1, <1>2, <1>3, <1>4, <1>5 DEF Inv

LEMMA StartInv ==
  ASSUME Inv, NEW w \in Workers, Start(w)
  PROVE  Inv'
<1> USE DEF Start, Connected, Mine, Children, NoLock, server, history
<1>1. TypeOK'
  BY DEF Inv, TypeOK, Idle
<1>2. LockInv'
  BY DEF Inv, TypeOK, LockInv
<1>3. EventInv'
  BY DEF Inv, TypeOK, EventInv
<1>4. GoneInv'
  BY DEF Inv, TypeOK, GoneInv, Idle
<1>5. RecoveredInv'
  BY DEF Inv, TypeOK, RecoveredInv, Known, Idle
<1> QED BY <1>1, <1>2, <1>3, <1>4, <1>5 DEF Inv

LEMMA ElectInv ==
  ASSUME Inv, NEW w \in Workers, Elect(w)
  PROVE  Inv'
<1> USE DEF Elect, Connected, Mine, Children, NoLock, server, history
<1>1. TypeOK'
  BY DEF Inv, TypeOK, Idle
<1>2. LockInv'
  BY DEF Inv, TypeOK, LockInv
<1>3. EventInv'
  BY DEF Inv, TypeOK, EventInv
<1>4. GoneInv'
  BY DEF Inv, TypeOK, GoneInv, Idle
<1>5. RecoveredInv'
  BY DEF Inv, TypeOK, RecoveredInv, Known, Idle
<1> QED BY <1>1, <1>2, <1>3, <1>4, <1>5 DEF Inv

LEMMA ReconnectInv ==
  ASSUME Inv, NEW w \in Workers, Reconnect(w)
  PROVE  Inv'
<1> USE DEF Reconnect, Connected, Mine, Children, NoLock, server, history
<1>1. TypeOK'
  BY DEF Inv, TypeOK, Idle
<1>2. LockInv'
  BY DEF Inv, TypeOK, LockInv
<1>3. EventInv'
  BY DEF Inv, TypeOK, EventInv
<1>4. GoneInv'
  BY DEF Inv, TypeOK, GoneInv, Idle
<1>5. RecoveredInv'
  BY DEF Inv, TypeOK, RecoveredInv, Known, Idle
<1> QED BY <1>1, <1>2, <1>3, <1>4, <1>5 DEF Inv

LEMMA CrashInv ==
  ASSUME Inv, NEW w \in Workers, Crash(w)
  PROVE  Inv'
<1> USE DEF Crash, Down, Connected, Mine, Children, NoLock, server, history
<1>1. TypeOK'
  BY DEF Inv, TypeOK, Idle
<1>2. LockInv'
  BY DEF Inv, TypeOK, LockInv
<1>3. EventInv'
  BY DEF Inv, TypeOK, EventInv
<1>4. GoneInv'
  BY DEF Inv, TypeOK, GoneInv, Idle
<1>5. RecoveredInv'
  BY DEF Inv, TypeOK, RecoveredInv, Known, Idle
<1> QED BY <1>1, <1>2, <1>3, <1>4, <1>5 DEF Inv

LEMMA WatchBeginInv ==
  ASSUME Inv, NEW w \in Workers, WatchBegin(w)
  PROVE  Inv'
<1> USE DEF WatchBegin, Connected, Mine, Children, NoLock, server, history
<1>1. TypeOK'
  BY DEF Inv, TypeOK, Idle
<1>2. LockInv'
  BY DEF Inv, TypeOK, LockInv
<1>3. EventInv'
  BY DEF Inv, TypeOK, EventInv
<1>4. GoneInv'
  BY DEF Inv, TypeOK, GoneInv, Idle
<1>5. RecoveredInv'
  BY DEF Inv, TypeOK, RecoveredInv, Known, Idle
<1> QED BY <1>1, <1>2, <1>3, <1>4, <1>5 DEF Inv

LEMMA WatchEndInv ==
  ASSUME Inv, NEW w \in Workers, WatchEnd(w)
  PROVE  Inv'
<1> USE DEF WatchEnd, Connected, Mine, Children, NoLock, server, history
<1>1. TypeOK'
  BY DEF Inv, TypeOK, Idle
<1>2. LockInv'
  BY DEF Inv, TypeOK, LockInv
<1>3. EventInv'
  BY DEF Inv, TypeOK, EventInv
<1>4. GoneInv'
  BY DEF Inv, TypeOK, GoneInv, Idle
<1>5. RecoveredInv'
  BY DEF Inv, TypeOK, RecoveredInv, Known, Idle
<1> QED BY <1>1, <1>2, <1>3, <1>4, <1>5 DEF Inv

LEMMA ImportFailsInv ==
  ASSUME Inv, NEW w \in Workers, ImportFails(w)
  PROVE  Inv'
<1> USE DEF ImportFails, Connected, Mine, Children, NoLock, server, history
<1>1. TypeOK'
  BY DEF Inv, TypeOK, Idle
<1>2. LockInv'
  BY DEF Inv, TypeOK, LockInv
<1>3. EventInv'
  BY DEF Inv, TypeOK, EventInv
<1>4. GoneInv'
  BY DEF Inv, TypeOK, GoneInv, Idle
<1>5. RecoveredInv'
  BY DEF Inv, TypeOK, RecoveredInv, Known, Idle
<1> QED BY <1>1, <1>2, <1>3, <1>4, <1>5 DEF Inv

LEMMA InitializeInv ==
  ASSUME Inv, NEW w \in Workers, Initialize(w)
  PROVE  Inv'
<1> USE DEF Initialize, NoLock, server, history
<1>0. Connected(w) /\ Register(w)
  OBVIOUS
<1>1. TypeOK'
  BY <1>0, RegisterFacts DEF Inv, TypeOK, Idle
<1>2. LockInv'
  BY DEF Inv, TypeOK, LockInv
<1>3. EventInv'
  BY <1>0, RegisterFacts DEF Inv, TypeOK, EventInv, Connected, Mine
<1>4. GoneInv'
  <2> SUFFICES ASSUME NEW m \in Workers, is_master'[m], m \notin raised
               PROVE  /\ gone'[m] \cap Children' = {}
                      /\ watch[m].on => gone'[m] \subseteq watch[m].todo \cup watch[m].children
                      /\ ~watch[m].on => gone'[m] \subseteq workers'[m]
                      /\ ~event'[m] => gone'[m] \subseteq watch[m].todo
    BY DEF GoneInv
  <2>1. m # w /\ is_master[m] /\ workers'[m] = workers[m] /\ proc'[m] = "up"
    BY DEF Inv, TypeOK
  <2>2. /\ gone[m] \cap Children = {}
        /\ watch[m].on => gone[m] \subseteq watch[m].todo \cup watch[m].children
        /\ ~watch[m].on => gone[m] \subseteq workers[m]
        /\ ~event[m] => gone[m] \subseteq watch[m].todo
    BY <2>1 DEF Inv, GoneInv
  <2>3. CASE w \in Children
    BY <1>0, <2>1, <2>2, <2>3, RegisterFacts DEF Inv
  <2>4. CASE w \notin Children
    BY <1>0, <2>1, <2>2, <2>4, RegisterFacts DEF Inv
  <2> QED BY <2>3, <2>4
<1>5. RecoveredInv'
  BY <1>0, RegisterFacts DEF Inv, TypeOK, RecoveredInv, Known
<1> QED BY <1>1, <1>2, <1>3, <1>4, <1>5 DEF Inv

(* A registration by a running worker keeps what is known of the deaths. *)
LEMMA RegisterGone ==
  ASSUME Inv, NEW w \in Workers, Connected(w), Register(w),
         UNCHANGED <<proc, is_master, raised, watch, workers>>
  PROVE  GoneInv'
<1> SUFFICES ASSUME NEW m \in Workers, is_master[m], m \notin raised
             PROVE  /\ gone'[m] \cap Children' = {}
                    /\ watch[m].on => gone'[m] \subseteq watch[m].todo \cup watch[m].children
                    /\ ~watch[m].on => gone'[m] \subseteq workers[m]
                    /\ ~event'[m] => gone'[m] \subseteq watch[m].todo
  BY DEF GoneInv
<1>1. proc'[m] = "up"
  BY DEF Inv, TypeOK
<1>2. /\ gone[m] \cap Children = {}
      /\ watch[m].on => gone[m] \subseteq watch[m].todo \cup watch[m].children
      /\ ~watch[m].on => gone[m] \subseteq workers[m]
      /\ ~event[m] => gone[m] \subseteq watch[m].todo
  BY DEF Inv, GoneInv
<1>3. /\ Children' = Children \cup {w}
      /\ w \in Children => gone' = gone /\ event' = event
      /\ w \notin Children => gone'[m] = gone[m] \ {w} /\ event'[m] = (proc'[m] # "down")
  BY RegisterFacts DEF Inv
<1>4. CASE w \in Children
  BY <1>2, <1>3, <1>4
<1>5. CASE w \notin Children
  BY <1>1, <1>2, <1>3, <1>5
<1> QED BY <1>4, <1>5

LEMMA KeepInfoInv ==
  ASSUME Inv, NEW w \in Workers, KeepInfo(w)
  PROVE  Inv'
<1> USE DEF KeepInfo, NoLock, server, history
<1>0. Connected(w) /\ Register(w)
  OBVIOUS
<1>1. TypeOK'
  BY <1>0, RegisterFacts DEF Inv, TypeOK, Idle
<1>2. LockInv'
  BY DEF Inv, TypeOK, LockInv
<1>3. EventInv'
  BY <1>0, RegisterFacts DEF Inv, TypeOK, EventInv, Connected, Mine
<1>4. GoneInv'
  BY <1>0, RegisterGone
<1>5. RecoveredInv'
  BY <1>0, RegisterFacts DEF Inv, TypeOK, RecoveredInv, Known
<1> QED BY <1>1, <1>2, <1>3, <1>4, <1>5 DEF Inv

LEMMA WatchMissingInv ==
  ASSUME Inv, NEW w \in Workers, WatchMissing(w)
  PROVE  Inv'
<1> USE DEF WatchMissing, NoLock, server, history
<1>0. Connected(w) /\ Register(w)
  OBVIOUS
<1>1. TypeOK'
  BY <1>0, RegisterFacts DEF Inv, TypeOK, Idle
<1>2. LockInv'
  BY DEF Inv, TypeOK, LockInv
<1>3. EventInv'
  BY <1>0, RegisterFacts DEF Inv, TypeOK, EventInv, Connected, Mine
<1>4. GoneInv'
  BY <1>0, RegisterGone
<1>5. RecoveredInv'
  BY <1>0, RegisterFacts DEF Inv, TypeOK, RecoveredInv, Known
<1> QED BY <1>1, <1>2, <1>3, <1>4, <1>5 DEF Inv

LEMMA RecoverOneInv ==
  ASSUME Inv, NEW w \in Workers, NEW down \in Workers, NEW assign_worker \in Workers,
         RecoverOne(w, down, assign_worker)
  PROVE  Inv'
<1> DEFINE executed == Executed(w, assign_worker)
<1>0. /\ watch[w].on /\ down \in watch[w].todo
      /\ watch' = [watch EXCEPT ![w].todo = @ \ {down}]
      /\ gone' = [gone EXCEPT ![w] = @ \ {down}]
      /\ recovered' = IF executed THEN [recovered EXCEPT ![w] = @ \cup {down}] ELSE recovered
      /\ again' = IF executed /\ down \in recovered[w] THEN again \cup {w} ELSE again
      /\ UNCHANGED <<python2, proc, session, sessions, znode, lock, zk_node, is_master, workers>>
      /\ UNCHANGED <<event, keeper, raised, elected>>
  BY DEF RecoverOne, Tried, server
<1> HIDE DEF executed
<1>1. TypeOK'
  <2>1. watch' \in [Workers -> [on : BOOLEAN, children : SUBSET Workers, todo : SUBSET Workers]]
    <3>1. watch[w] \in [on : BOOLEAN, children : SUBSET Workers, todo : SUBSET Workers]
      BY DEF Inv, TypeOK
    <3>2. [watch[w] EXCEPT !.todo = @ \ {down}] \in [on : BOOLEAN, children : SUBSET Workers, todo : SUBSET Workers]
      BY <3>1
    <3>3. watch' = [watch EXCEPT ![w] = [watch[w] EXCEPT !.todo = @ \ {down}]]
      BY <1>0
    <3> QED BY <3>2, <3>3 DEF Inv, TypeOK
  <2>2. gone' \in [Workers -> SUBSET Workers] /\ recovered' \in [Workers -> SUBSET Workers]
    BY <1>0 DEF Inv, TypeOK
  <2>3. \A v \in Workers : watch'[v].todo \cap watch'[v].children = {}
    BY <1>0 DEF Inv, TypeOK
  <2>4. again' \subseteq Workers
    BY <1>0 DEF Inv, TypeOK
  <2>5. /\ UNCHANGED <<python2, proc, session, sessions, znode, lock, zk_node, is_master, workers>>
        /\ UNCHANGED <<event, keeper, raised, elected>>
    BY <1>0
  <2>6. TypeOK
    BY DEF Inv
  <2> QED BY <2>1, <2>2, <2>3, <2>4, <2>5, <2>6 DEF TypeOK
<1>2. LockInv' /\ EventInv'
  BY <1>0 DEF Inv, LockInv, EventInv, Connected, Mine, Children
<1>3. GoneInv'
  BY <1>0 DEF Inv, TypeOK, GoneInv, Children
<1>4. RecoveredInv'
  BY <1>0 DEF Inv, TypeOK, RecoveredInv, Known, Children
<1> QED BY <1>1, <1>2, <1>3, <1>4 DEF Inv

LEMMA StutterInv == ASSUME Inv, UNCHANGED vars PROVE Inv'
<1> USE DEF vars, server, history
<1>1. TypeOK'
  BY DEF Inv, TypeOK
<1>2. LockInv' /\ EventInv'
  BY DEF Inv, LockInv, EventInv, Connected, Mine, Children
<1>3. GoneInv' /\ RecoveredInv'
  BY DEF Inv, GoneInv, RecoveredInv, Known, Children
<1> QED BY <1>1, <1>2, <1>3 DEF Inv

(* Inv holds in every reachable state. *)
THEOREM Invariance == Spec => []Inv
<1>1. Inv /\ [Next]_vars => Inv'
  <2> SUFFICES ASSUME Inv, [Next]_vars PROVE Inv'
    OBVIOUS
  <2>1. CASE UNCHANGED vars
    BY <2>1, StutterInv
  <2>2. ASSUME NEW s \in sessions, Expire(s) PROVE Inv'
    BY <2>2, ExpireInv
  <2>3. ASSUME NEW w \in Workers,
               Start(w) \/ Initialize(w) \/ Elect(w) \/ Reconnect(w) \/ KeepInfo(w) \/ Crash(w)
        PROVE  Inv'
    BY <2>3, StartInv, InitializeInv, ElectInv, ReconnectInv, KeepInfoInv, CrashInv
  <2>4. ASSUME NEW w \in Workers, WatchStep(w) PROVE Inv'
    BY <2>4, WatchMissingInv, WatchBeginInv, WatchEndInv, ImportFailsInv, RecoverOneInv DEF WatchStep
  <2> QED BY <2>1, <2>2, <2>3, <2>4 DEF Next
<1> QED BY <1>1, InitInv, PTL DEF Spec

(* The variables keep their types; a master runs, and what its watch still   *)
(* looks at is never among the children the watch was called with.           *)
THEOREM TypeCorrect == Spec => []TypeOK
BY Invariance, PTL DEF Inv

(* However many workers there are and however their sessions expire: two     *)
(* that take themselves for the master differ in that one's session is over. *)
THEOREM MastersExclude == Spec => []TwoMastersNeedExpiry
<1>1. Inv => TwoMastersNeedExpiry
  BY DEF Inv, LockInv, TwoMastersNeedExpiry
<1> QED BY <1>1, Invariance, PTL

(* Whatever order crashes, expirations, registrations and calls of the watch *)
(* come in, a master that is through has tried every death it could see, and *)
(* had each recovered once.                                                  *)
THEOREM DeathsHandled == Spec => []DeathsHandledOnce
<1>1. Inv => DeathsHandledOnce
  BY DEF Inv, GoneInv, RecoveredInv, DeathsHandledOnce
<1> QED BY <1>1, Invariance, PTL

(* A worker that is connected and has nothing left to do is registered: the  *)
(* watch makes up for a znode that vanished, whenever it does.               *)
THEOREM QuietRegistered == Spec => []QuietMeansRegistered
<1>1. Inv => QuietMeansRegistered
  BY DEF Inv, EventInv, QuietMeansRegistered
<1> QED BY <1>1, Invariance, PTL
=============================================================================
