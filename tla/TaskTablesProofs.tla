-------------------------- MODULE TaskTablesProofs --------------------------
(***************************************************************************)
(* Proofs about TaskTables, for any number of connections, queues, hosts,  *)
(* calls, retries, locked commits and crashes.  The inductive invariant is *)
(*                                                                         *)
(*   Inv == OpTypeOK /\ LockInv,                                            *)
(*                                                                         *)
(* on which rest the invariants of the rows: RowsInv, what the tables, the *)
(* open transaction and the arguments of the statements are; CountInv, how *)
(* many results of hosts a queue has.                                      *)
(***************************************************************************)
EXTENDS TaskTables, FiniteSetTheorems, WellFoundedInduction, TLAPS

(* A connection that is not idle executes a statement of its operation. *)
OpTypeOK ==
  /\ op \in [Conns -> [name : Ops \cup {"none"}, queue : Queues \cup {"none"},
                       host : Hosts \cup {"none"}, next : 1..3]]
  /\ stage \in [Conns -> {"idle", "begin", "execute", "commit", "unclosed"}]
  /\ outcome \in [Conns -> {"none", "returned", "raised", "crashed"}]
  /\ \A c \in Conns : stage[c] # "idle" => op[c].name \in Ops /\ op[c].next <= Len(Statements(op[c].name))

(* The lock is held from a statement to its commit, by a failing job, which *)
(* commits none of its statements, from one statement to the next, and by a *)
(* cleanup that gave up.  Only a locked commit executes a statement again.  *)
LockInv ==
  \A c \in Conns :
    /\ stage[c] = "execute" => Statement(c) # "commit"
    /\ stage[c] = "execute" /\ writer = c => exhausted \/ op[c].name = "fail"
    /\ stage[c] = "unclosed" => op[c].name = "cleanup"
    /\ writer = c => \/ stage[c] \in {"execute", "commit", "unclosed"}
                     \/ stage[c] = "begin" /\ op[c].name = "fail"

Inv == OpTypeOK /\ LockInv

(* An operation has one to three statements, the failure of a job has three, *)
(* of which the last commits.                                                *)
LEMMA StatementsFacts ==
  ASSUME NEW name \in Ops
  PROVE  /\ Len(Statements(name)) \in 1..3
         /\ name = "fail" => /\ Len(Statements(name)) = 3
                             /\ \A i \in 1..3 : Statements(name)[i] = "commit" => i = 3
                             /\ \A i \in 1..3 : Statements(name)[i] \in {"insert failure", "update complete", "commit"}
<1>1. CASE name = "submit"
  BY <1>1 DEF Statements
<1>2. CASE name = "fail"
  <2>1. Len(Statements("fail")) = 3
    BY DEF Statements
  <2>2. /\ Statements("fail")[1] = "insert failure"
        /\ Statements("fail")[2] = "update complete"
        /\ Statements("fail")[3] = "commit"
    BY DEF Statements
  <2>3. \A i \in 1..3 : i = 1 \/ i = 2 \/ i = 3
    OBVIOUS
  <2>4. \A i \in 1..3 : Statements("fail")[i] = "commit" => i = 3
    BY <2>2, <2>3, Zenon
  <2>5. \A i \in 1..3 : Statements("fail")[i] \in {"insert failure", "update complete", "commit"}
    BY <2>2, <2>3, Zenon
  <2>6. 3 \in 1..3
    OBVIOUS
  <2> QED BY <1>2, <2>1, <2>4, <2>5, <2>6, Zenon
<1>3. CASE name = "respond failure"
  <2>1. Len(Statements(name)) = 2
    BY <1>3 DEF Statements
  <2>2. 2 \in 1..3
    OBVIOUS
  <2>3. name # "fail"
    BY <1>3
  <2> QED BY <2>1, <2>2, <2>3, Zenon
<1>4. CASE name \in {"mark", "result", "summary", "finish", "respond", "cleanup", "refresh"}
  <2>1. Len(Statements(name)) = 1
    BY <1>4 DEF Statements
  <2> QED BY <1>4, <2>1
<1> QED BY <1>1, <1>2, <1>3, <1>4 DEF Ops

LEMMA InitInv == Init => Inv
BY TablesAssumption DEF Init, Inv, OpTypeOK, LockInv, Idle

(* Close makes a connection idle; the others are as they were. *)
LEMMA CloseFacts ==
  ASSUME OpTypeOK, NEW c \in Conns, NEW how \in {"returned", "raised", "crashed"}, Close(c, how)
  PROVE  OpTypeOK' /\ stage'[c] = "idle" /\ \A d \in Conns \ {c} : stage'[d] = stage[d] /\ op'[d] = op[d]
<1>1. Idle \in [name : Ops \cup {"none"}, queue : Queues \cup {"none"}, host : Hosts \cup {"none"}, next : 1..3]
  BY DEF Idle
<1>2. /\ op' = [op EXCEPT ![c] = Idle] /\ stage' = [stage EXCEPT ![c] = "idle"]
      /\ outcome' = [outcome EXCEPT ![c] = how]
  BY DEF Close
<1> QED BY <1>1, <1>2 DEF OpTypeOK

(* A statement that is done is followed by the next one, or by the end. *)
LEMMA StatementDoneFacts ==
  ASSUME OpTypeOK, NEW c \in Conns, stage[c] # "idle", NEW row, StatementDone(c, row)
  PROVE  /\ OpTypeOK'
         /\ \A d \in Conns \ {c} : stage'[d] = stage[d] /\ op'[d] = op[d]
         /\ \/ stage'[c] = "idle" /\ op[c].next = Len(Statements(op[c].name))
            \/ stage'[c] = "begin" /\ op'[c].name = op[c].name
<1>1. op[c].name \in Ops /\ op[c].next \in 1..3 /\ op[c].next <= Len(Statements(op[c].name))
      /\ Len(Statements(op[c].name)) \in 1..3
  BY StatementsFacts DEF OpTypeOK
<1>2. CASE op[c].next < Len(Statements(op[c].name))
  <2>1. op' = [op EXCEPT ![c].next = @ + 1] /\ stage' = [stage EXCEPT ![c] = "begin"] /\ outcome' = outcome
    BY <1>2 DEF StatementDone
  <2>2. op[c].next + 1 \in 1..3 /\ op[c].next + 1 <= Len(Statements(op[c].name))
    <3> DEFINE n == Len(Statements(op[c].name))
               i == op[c].next
    <3>1. n \in 1..3 /\ i \in 1..3 /\ i < n
      BY <1>1, <1>2
    <3> HIDE DEF n, i
    <3>2. i + 1 \in 1..3 /\ i + 1 <= n
      BY <3>1
    <3> QED BY <3>2 DEF n, i
  <2>3. /\ op' \in [Conns -> [name : Ops \cup {"none"}, queue : Queues \cup {"none"},
                              host : Hosts \cup {"none"}, next : 1..3]]
        /\ op'[c].name = op[c].name /\ op'[c].next = op[c].next + 1
        /\ \A d \in Conns \ {c} : op'[d] = op[d]
    BY <2>1, <2>2 DEF OpTypeOK
  <2> QED BY <1>1, <2>1, <2>2, <2>3 DEF OpTypeOK
<1>3. CASE ~(op[c].next < Len(Statements(op[c].name)))
  <2>1. Close(c, "returned")
    BY <1>3 DEF StatementDone
  <2> QED BY <1>1, <1>3, <2>1, CloseFacts
<1> QED BY <1>2, <1>3

LEMMA CallInv ==
  ASSUME Inv, NEW c \in Conns, Call(c)
  PROVE  Inv'
<1>1. PICK name \in Called, q \in Queues :
        \E i \in 1..(IF name = "result" THEN Len(HostList[q]) ELSE 1) :
          op' = [op EXCEPT ![c] = [name |-> name, queue |-> q, host |-> HostList[q][i], next |-> 1]]
  BY DEF Call
<1>2. PICK i \in 1..(IF name = "result" THEN Len(HostList[q]) ELSE 1) :
        op' = [op EXCEPT ![c] = [name |-> name, queue |-> q, host |-> HostList[q][i], next |-> 1]]
  BY <1>1
<1>3. name \in Ops /\ HostList[q] \in Seq(Hosts) /\ HostList[q] # <<>>
  BY TablesAssumption
<1>4. HostList[q][i] \in Hosts
  BY <1>2, <1>3
<1>5. /\ stage[c] = "idle" /\ stage' = [stage EXCEPT ![c] = "begin"] /\ writer' = writer
      /\ outcome' = [outcome EXCEPT ![c] = "none"]
  BY DEF Call
<1>6. OpTypeOK'
  <2>1. [name |-> name, queue |-> q, host |-> HostList[q][i], next |-> 1]
          \in [name : Ops \cup {"none"}, queue : Queues \cup {"none"}, host : Hosts \cup {"none"}, next : 1..3]
    BY <1>3, <1>4
  <2>2. Len(Statements(name)) \in 1..3
    BY <1>3, StatementsFacts
  <2>3. 1 <= Len(Statements(name))
    <3> DEFINE n == Len(Statements(name))
    <3>1. n \in 1..3
      BY <2>2
    <3> HIDE DEF n
    <3>2. 1 <= n
      BY <3>1
    <3> QED BY <3>2 DEF n
  <2>4. op'[c].name = name /\ op'[c].next = 1 /\ \A d \in Conns \ {c} : op'[d] = op[d]
    BY <1>2 DEF Inv, OpTypeOK
  <2>5. \A d \in Conns : stage'[d] # "idle" => op'[d].name \in Ops /\ op'[d].next <= Len(Statements(op'[d].name))
    BY <1>3, <1>5, <2>3, <2>4 DEF Inv, OpTypeOK
  <2> QED BY <1>2, <1>5, <2>1, <2>5 DEF Inv, OpTypeOK
<1>7. LockInv'
  BY <1>2, <1>5 DEF Inv, OpTypeOK, LockInv, Statement, Call
<1> QED BY <1>6, <1>7 DEF Inv

(* A connection that goes on to execute or commit keeps its statement. *)
LEMMA GoInv ==
  ASSUME Inv, NEW c \in Conns, stage[c] # "idle", NEW place \in {"execute", "commit"},
         stage' = [stage EXCEPT ![c] = place], UNCHANGED <<op, outcome>>,
         place = "execute" => Statement(c) # "commit", writer' \in {writer, c},
         place = "execute" /\ writer' = c => exhausted' \/ op[c].name = "fail", exhausted => exhausted'
  PROVE  Inv'
<1>1. OpTypeOK'
  BY DEF Inv, OpTypeOK
<1>2. LockInv'
  BY DEF Inv, OpTypeOK, LockInv, Statement
<1> QED BY <1>1, <1>2 DEF Inv

(* A connection that ends its statement releases the lock, or fails a job. *)
LEMMA DoneInv ==
  ASSUME Inv, NEW c \in Conns, stage[c] # "idle", NEW row, StatementDone(c, row),
         \/ writer' = IF writer = c THEN NoOne ELSE writer
         \/ writer' = c /\ op[c].name = "fail" /\ Statement(c) # "commit"
         \/ writer' = writer /\ writer # c,
         UNCHANGED exhausted
  PROVE  Inv'
<1>1. OpTypeOK'
  BY StatementDoneFacts DEF Inv
<1>2. /\ \A d \in Conns \ {c} : stage'[d] = stage[d] /\ op'[d] = op[d]
      /\ \/ stage'[c] = "idle" /\ op[c].next = Len(Statements(op[c].name))
         \/ stage'[c] = "begin" /\ op'[c].name = op[c].name
  BY StatementDoneFacts DEF Inv
<1>3. writer' = c => op[c].name = "fail" /\ stage'[c] = "begin"
  <2>1. NoOne # c
    BY TablesAssumption
  <2>2. op[c].name = "fail" /\ Statement(c) # "commit" => op[c].next # Len(Statements(op[c].name))
    <3>1. op[c].next \in 1..3 /\ op[c].name \in Ops
      BY DEF Inv, OpTypeOK
    <3>2. op[c].name = "fail" =>
            /\ Len(Statements(op[c].name)) = 3
            /\ \A i \in 1..3 : Statements(op[c].name)[i] = "commit" => i = 3
      BY <3>1, StatementsFacts
    <3>3. op[c].name = "fail" /\ op[c].next = 3 => Statements(op[c].name)[3] = "commit"
      BY DEF Statements
    <3> QED BY <3>1, <3>2, <3>3 DEF Statement
  <2> QED BY <1>2, <2>1, <2>2
<1>4. LockInv'
  <2> SUFFICES ASSUME NEW d \in Conns
               PROVE  /\ stage'[d] = "execute" => Statement(d)' # "commit"
                      /\ stage'[d] = "execute" /\ writer' = d => exhausted' \/ op'[d].name = "fail"
                      /\ stage'[d] = "unclosed" => op'[d].name = "cleanup"
                      /\ writer' = d => \/ stage'[d] \in {"execute", "commit", "unclosed"}
                                        \/ stage'[d] = "begin" /\ op'[d].name = "fail"
    BY DEF LockInv
  <2>1. CASE d = c
    BY <1>2, <1>3, <2>1
  <2>2. CASE d # c
    <3>1. stage'[d] = stage[d] /\ op'[d] = op[d] /\ Statement(d)' = Statement(d)
      BY <1>2, <2>2 DEF Statement
    <3>2. writer' = d => writer = d
      BY <2>2, TablesAssumption
    <3> QED BY <3>1, <3>2 DEF Inv, LockInv
  <2> QED BY <2>1, <2>2
<1> QED BY <1>1, <1>4 DEF Inv

(* A connection that is closed has rolled back and is idle. *)
LEMMA ClosedInv ==
  ASSUME Inv, NEW c \in Conns, NEW how \in {"returned", "raised", "crashed"}, Close(c, how), writer' = IF writer = c THEN NoOne ELSE writer,
         exhausted => exhausted'
  PROVE  Inv'
<1>1. OpTypeOK' /\ stage'[c] = "idle" /\ \A d \in Conns \ {c} : stage'[d] = stage[d] /\ op'[d] = op[d]
  BY CloseFacts DEF Inv
<1>2. LockInv'
  BY <1>1, TablesAssumption DEF Inv, LockInv, Statement
<1> QED BY <1>1, <1>2 DEF Inv

(* An operation that gives up is closed, or is a cleanup and is not. *)
LEMMA RaiseInv ==
  ASSUME Inv, NEW c \in Conns, Raise(c), stage[c] # "idle", exhausted => exhausted'
  PROVE  Inv'
<1>1. CASE Close(c, "raised") /\ writer' = IF writer = c THEN NoOne ELSE writer
  BY <1>1, ClosedInv
<1>2. CASE op[c].name = "cleanup" /\ StayOpen(c)
  <2>1. OpTypeOK'
    BY <1>2 DEF StayOpen, Inv, OpTypeOK
  <2>2. LockInv'
    BY <1>2 DEF StayOpen, Inv, OpTypeOK, LockInv, Statement
  <2> QED BY <2>1, <2>2 DEF Inv
<1> QED BY <1>1, <1>2 DEF Raise

LEMMA BeginInv == ASSUME Inv, NEW c \in Conns, Begin(c) PROVE Inv'
<1> DEFINE row == FirstRow(Lookup(View(c), Statement(c), op[c].queue))
<1>1. stage[c] = "begin" /\ writer' = writer /\ UNCHANGED exhausted
  BY DEF Begin
<1>2. CASE Unneeded(Statement(c), row) /\ StatementDone(c, row)
  <2>1. writer # c
    <3>1. Statement(c) \in {"update running", "update failed"}
      BY <1>2 DEF Unneeded
    <3>2. op[c].name = "fail" => Statement(c) \in {"insert failure", "update complete", "commit"}
      <4>1. op[c].next \in 1..3
        BY DEF Inv, OpTypeOK
      <4>2. op[c].name = "fail" =>
              \A i \in 1..3 : Statements(op[c].name)[i] \in {"insert failure", "update complete", "commit"}
        BY <1>1, StatementsFacts DEF Inv, OpTypeOK
      <4> QED BY <4>1, <4>2 DEF Statement
    <3> QED BY <1>1, <3>1, <3>2 DEF Inv, LockInv
  <2> HIDE DEF row
  <2> QED BY <1>1, <1>2, <2>1, DoneInv
<1>3. CASE stage' = [stage EXCEPT ![c] = "commit"] /\ UNCHANGED <<op, outcome>>
  BY <1>1, <1>3, GoInv
<1>4. CASE stage' = [stage EXCEPT ![c] = "execute"] /\ UNCHANGED <<op, outcome>> /\ Statement(c) # "commit"
  <2>1. writer = c => op[c].name = "fail"
    BY <1>1 DEF Inv, LockInv
  <2> QED BY <1>1, <1>4, <2>1, GoInv
<1> QED BY <1>1, <1>2, <1>3, <1>4 DEF Begin

LEMMA ExecuteInv == ASSUME Inv, NEW c \in Conns, Execute(c) PROVE Inv'
<1>1. stage[c] = "execute" /\ writer' = c /\ Statement(c) # "commit" /\ UNCHANGED exhausted
  BY DEF Execute, Inv, LockInv
<1>2. CASE Commits(op[c].name)
  BY <1>1, <1>2, GoInv DEF Execute
<1>3. CASE ~Commits(op[c].name)
  BY <1>1, <1>3, DoneInv DEF Execute, Commits
<1> QED BY <1>2, <1>3

LEMMA ExecuteLockedInv == ASSUME Inv, NEW c \in Conns, ExecuteLocked(c) PROVE Inv'
<1>1. CASE Raise(c)
  BY <1>1, RaiseInv DEF ExecuteLocked
<1>2. CASE UNCHANGED <<writer, op, stage, outcome>>
  BY <1>2 DEF ExecuteLocked, Inv, OpTypeOK, LockInv, Statement
<1> QED BY <1>1, <1>2 DEF ExecuteLocked

LEMMA CommitInv == ASSUME Inv, NEW c \in Conns, Commit(c) PROVE Inv'
BY DoneInv DEF Commit

LEMMA CommitLockedInv == ASSUME Inv, NEW c \in Conns, CommitLocked(c) PROVE Inv'
<1>0. stage[c] = "commit" /\ (exhausted => exhausted')
  BY DEF CommitLocked
<1>1. CASE Raise(c)
  BY <1>0, <1>1, RaiseInv
<1>2. CASE UNCHANGED <<writer, op, stage, outcome, exhausted>>
  BY <1>2 DEF Inv, OpTypeOK, LockInv, Statement
<1>3. CASE exhausted' /\ Statement(c) # "commit" /\ stage' = [stage EXCEPT ![c] = "execute"] /\ UNCHANGED <<writer, op, outcome>>
  BY <1>0, <1>3, GoInv
<1> QED BY <1>1, <1>2, <1>3 DEF CommitLocked

LEMMA CollectInv == ASSUME Inv, NEW c \in Conns, Collect(c) PROVE Inv'
BY ClosedInv DEF Collect, history

LEMMA CrashInv == ASSUME Inv, NEW c \in Conns, Crash(c) PROVE Inv'
BY ClosedInv DEF Crash, history

(* Inv holds in every reachable state. *)
THEOREM Invariance == Spec => []Inv
<1>1. Inv /\ [Next]_vars => Inv'
  <2> SUFFICES ASSUME Inv, [Next]_vars PROVE Inv'
    OBVIOUS
  <2>1. CASE UNCHANGED vars
    BY <2>1 DEF vars, history, Inv, OpTypeOK, LockInv, Statement
  <2>2. ASSUME NEW c \in Conns, Call(c) \/ Step(c) \/ Collect(c) \/ Crash(c) PROVE Inv'
    BY <2>2, CallInv, BeginInv, ExecuteInv, ExecuteLockedInv, CommitInv, CommitLockedInv, CollectInv, CrashInv DEF Step
  <2> QED BY <2>1, <2>2 DEF Next
<1> QED BY <1>1, InitInv, PTL DEF Spec

(* Whatever fails, is locked or dies: no connection but that of a failing    *)
(* job or of a cleanup keeps the lock outside of a statement and its commit. *)
THEOREM LockIsReleased == Spec => []LockReleased
<1>1. Inv => LockReleased
  BY DEF Inv, LockInv, LockReleased
<1> QED BY <1>1, Invariance, PTL

----------------------------------------------------------------------------
(* The rows of the tables. *)
Request == [id : Nat, queue : Queues, responded : BOOLEAN]
Task == [id : Nat, request_id : Nat, status : {TASK_NEW, TASK_RUNNING, TASK_COMPLETE}]
Target == Hosts \cup {"", "0.0.0.0"}
Valid == {0, 1}
ResultRow == [id : Nat, task_id : Nat, target : Target, valid : Valid]
Tables == [requests : SUBSET Request, status : SUBSET Task, results : SUBSET ResultRow,
           lastRequest : Nat, lastTask : Nat, lastResult : Nat]

(* Ids are given once, and every row names a row that is there. *)
TabOK(t) ==
  /\ t \in Tables
  /\ \A r \in t.requests : r.id <= t.lastRequest
  /\ \A r, o \in t.requests : r.id = o.id => r = o
  /\ \A s \in t.status : s.id <= t.lastTask /\ \E r \in t.requests : s.request_id = r.id
  /\ \A s, o \in t.status : s.id = o.id => s = o
  /\ \A x \in t.results : x.id <= t.lastResult /\ \E s \in t.status : x.task_id = s.id

(* Requests and tasks are never deleted, and keep what they name; a new      *)
(* request comes after those that were there.                                *)
Grown(t, u) ==
  /\ t.lastRequest <= u.lastRequest
  /\ \A r \in u.requests : r.id <= t.lastRequest => \E o \in t.requests : o.id = r.id
  /\ \A r \in t.requests : \E o \in u.requests : o.id = r.id /\ o.queue = r.queue
  /\ \A s \in t.status : \E o \in u.status : o.id = s.id /\ o.request_id = s.request_id

SameRows(t, u, q) ==
  /\ RequestsOf(u, q) = RequestsOf(t, q)
  /\ StatusOf(u, q) = StatusOf(t, q)
  /\ ResultsOf(u, q) = ResultsOf(t, q)

OwnRequest(t, id, q) == \E r \in t.requests : r.id = id /\ r.queue = q

OwnTask(t, row, q) ==
  \E s \in t.status : s.id = row.id /\ s.request_id = row.request_id /\ OwnRequest(t, s.request_id, q)

----------------------------------------------------------------------------
(* What the effects of the statements do to the tables. *)

LEMMA InsertRequestFacts ==
  ASSUME NEW t, TabOK(t), NEW q \in Queues
  PROVE  LET u == InsertRequest(t, q)
         IN  /\ TabOK(u) /\ Grown(t, u) /\ u.results = t.results /\ u.status = t.status
             /\ \A p \in Queues \ {q} : SameRows(t, u, p)
             /\ OwnRequest(u, u.lastRequest, q)
             /\ u.requests = t.requests \cup {[id |-> t.lastRequest + 1, queue |-> q, responded |-> FALSE]}
<1> DEFINE u == InsertRequest(t, q)
           n == [id |-> t.lastRequest + 1, queue |-> q, responded |-> FALSE]
<1>1. /\ t.requests \in SUBSET Request /\ t.status \in SUBSET Task /\ t.results \in SUBSET ResultRow
      /\ t.lastRequest \in Nat /\ t.lastTask \in Nat /\ t.lastResult \in Nat
      /\ t \in Tables
  BY DEF TabOK, Tables
<1>2. /\ u.requests = t.requests \cup {n} /\ u.lastRequest = t.lastRequest + 1
      /\ u.status = t.status /\ u.results = t.results
      /\ u.lastTask = t.lastTask /\ u.lastResult = t.lastResult
  BY <1>1 DEF InsertRequest, Tables
<1>3. n \in Request /\ n.id = t.lastRequest + 1 /\ n.queue = q
  BY <1>1 DEF Request
<1>4. u \in Tables
  <2> DEFINE rows == t.requests \cup {n}
             k == t.lastRequest + 1
  <2> HIDE DEF n
  <2>1. rows \in SUBSET Request /\ k \in Nat
    BY <1>1, <1>3
  <2> USE DEF n
  <2>2. u = [t EXCEPT !.lastRequest = k, !.requests = rows]
    BY <1>1 DEF InsertRequest, Tables
  <2> HIDE DEF rows, k, u
  <2> QED
    BY <1>1, <2>1, <2>2 DEF Tables
<1> HIDE DEF u, n
<1>5. TabOK(u)
  BY <1>1, <1>2, <1>3, <1>4 DEF TabOK, Request
<1>6. Grown(t, u) /\ OwnRequest(u, u.lastRequest, q)
  <2>1. t.lastRequest <= u.lastRequest /\ ~(n.id <= t.lastRequest)
    BY <1>1, <1>2, <1>3
  <2> QED
    BY <1>2, <1>3, <2>1 DEF Grown, OwnRequest
<1>7. ASSUME NEW p \in Queues \ {q} PROVE SameRows(t, u, p)
  BY <1>2, <1>3 DEF SameRows, RequestsOf, StatusOf, ResultsOf
<1> QED
  BY <1>2, <1>5, <1>6, <1>7 DEF u, n

LEMMA InsertStatusFacts ==
  ASSUME NEW t, TabOK(t), NEW q \in Queues, NEW id, OwnRequest(t, id, q)
  PROVE  LET u == InsertStatus(t, id)
         IN  /\ TabOK(u) /\ Grown(t, u) /\ u.results = t.results /\ u.requests = t.requests
             /\ \A p \in Queues \ {q} : SameRows(t, u, p)
<1> DEFINE u == InsertStatus(t, id)
           n == [id |-> t.lastTask + 1, request_id |-> id, status |-> TASK_NEW]
<1>1. /\ t.requests \in SUBSET Request /\ t.status \in SUBSET Task /\ t.results \in SUBSET ResultRow
      /\ t.lastRequest \in Nat /\ t.lastTask \in Nat /\ t.lastResult \in Nat
      /\ t \in Tables
  BY DEF TabOK, Tables
<1>2. /\ u.status = t.status \cup {n} /\ u.lastTask = t.lastTask + 1
      /\ u.requests = t.requests /\ u.results = t.results
      /\ u.lastRequest = t.lastRequest /\ u.lastResult = t.lastResult
  BY <1>1 DEF InsertStatus, Tables
<1>3. n \in Task /\ n.id = t.lastTask + 1 /\ n.request_id = id
  BY <1>1 DEF Task, OwnRequest, Request
<1>4. u \in Tables
  <2> DEFINE rows == t.status \cup {n}
             k == t.lastTask + 1
  <2> HIDE DEF n
  <2>1. rows \in SUBSET Task /\ k \in Nat
    BY <1>1, <1>3
  <2> USE DEF n
  <2>2. u = [t EXCEPT !.lastTask = k, !.status = rows]
    BY <1>1 DEF InsertStatus, Tables
  <2> HIDE DEF rows, k, u
  <2> QED
    BY <1>1, <2>1, <2>2 DEF Tables
<1> HIDE DEF u, n
<1>5. TabOK(u)
  BY <1>1, <1>2, <1>3, <1>4 DEF TabOK, Task, OwnRequest
<1>6. Grown(t, u)
  BY <1>1, <1>2 DEF Grown
<1>7. ASSUME NEW p \in Queues \ {q} PROVE SameRows(t, u, p)
  <2>1. RequestsOf(u, p) = RequestsOf(t, p)
    BY <1>2 DEF RequestsOf
  <2>2. \A r \in RequestsOf(t, p) : r.id # id
    BY DEF RequestsOf, OwnRequest, TabOK
  <2>3. StatusOf(u, p) = StatusOf(t, p)
    BY <1>2, <1>3, <2>1, <2>2 DEF StatusOf
  <2> QED
    BY <1>2, <2>1, <2>3 DEF SameRows, ResultsOf
<1> QED
  BY <1>2, <1>5, <1>6, <1>7 DEF u

LEMMA InsertResultFacts ==
  ASSUME NEW t, TabOK(t), NEW q \in Queues, NEW row, OwnTask(t, row, q),
         NEW target \in Target, NEW valid \in Valid
  PROVE  LET u == InsertResult(t, row.id, target, valid)
         IN  /\ TabOK(u) /\ Grown(t, u) /\ u.requests = t.requests /\ u.status = t.status
             /\ \A p \in Queues \ {q} : SameRows(t, u, p)
             /\ \E n \in ResultsOf(u, q) : /\ n \notin t.results /\ n.valid = valid /\ n.target = target
                                            /\ u.results = t.results \cup {n}
<1> DEFINE u == InsertResult(t, row.id, target, valid)
           n == [id |-> t.lastResult + 1, task_id |-> row.id, target |-> target, valid |-> valid]
<1>1. /\ t.requests \in SUBSET Request /\ t.status \in SUBSET Task /\ t.results \in SUBSET ResultRow
      /\ t.lastRequest \in Nat /\ t.lastTask \in Nat /\ t.lastResult \in Nat
      /\ t \in Tables
  BY DEF TabOK, Tables
<1>2. /\ u.results = t.results \cup {n} /\ u.lastResult = t.lastResult + 1
      /\ u.requests = t.requests /\ u.status = t.status
      /\ u.lastRequest = t.lastRequest /\ u.lastTask = t.lastTask
  BY <1>1 DEF InsertResult, Tables
<1>0. PICK s \in t.status : s.id = row.id /\ OwnRequest(t, s.request_id, q)
  BY DEF OwnTask
<1>a. row.id \in Nat
  BY <1>0, <1>1 DEF Task
<1>3. n \in ResultRow /\ n.id = t.lastResult + 1 /\ n.task_id = row.id /\ n.valid = valid /\ n.target = target
  BY <1>1, <1>a DEF ResultRow
<1>4. u \in Tables
  <2> DEFINE rows == t.results \cup {n}
             k == t.lastResult + 1
  <2> HIDE DEF n
  <2>1. rows \in SUBSET ResultRow /\ k \in Nat
    BY <1>1, <1>3
  <2> USE DEF n
  <2>2. u = [t EXCEPT !.lastResult = k, !.results = rows]
    BY <1>1 DEF InsertResult, Tables
  <2> HIDE DEF rows, k, u
  <2> QED
    BY <1>1, <2>1, <2>2 DEF Tables
<1> HIDE DEF u, n
<1>b. \A x \in t.results : x.id \in Nat /\ x.id <= t.lastResult /\ \E o \in t.status : x.task_id = o.id
  BY <1>1 DEF TabOK, ResultRow
<1>5. TabOK(u)
  <2>1. \A x \in t.results : x.id <= u.lastResult /\ \E o \in u.status : x.task_id = o.id
    BY <1>1, <1>2, <1>b
  <2>2. n.id <= u.lastResult /\ \E o \in u.status : n.task_id = o.id
    BY <1>0, <1>1, <1>2, <1>3
  <2>3. \A x \in u.results : x.id <= u.lastResult /\ \E o \in u.status : x.task_id = o.id
    BY <1>2, <2>1, <2>2
  <2> QED
    BY <1>2, <1>4, <2>3 DEF TabOK
<1>6. Grown(t, u)
  BY <1>1, <1>2 DEF Grown
<1>7. ASSUME NEW p \in Queues \ {q} PROVE SameRows(t, u, p)
  <2>1. RequestsOf(u, p) = RequestsOf(t, p) /\ StatusOf(u, p) = StatusOf(t, p)
    BY <1>2 DEF RequestsOf, StatusOf
  <2>2. \A o \in StatusOf(t, p) : o.id # row.id
    BY <1>0 DEF RequestsOf, StatusOf, OwnRequest, TabOK
  <2> QED
    BY <1>2, <1>3, <2>1, <2>2 DEF SameRows, ResultsOf
<1>8. n \in ResultsOf(u, q) /\ n \notin t.results
  <2>1. n \in ResultsOf(u, q)
    BY <1>2, <1>3 DEF ResultsOf, StatusOf, RequestsOf, OwnTask, OwnRequest
  <2>2. n \notin t.results
    <3>0. \A i \in Nat : i <= t.lastResult => i # t.lastResult + 1
      BY <1>1
    <3>1. \A x \in t.results : x.id # t.lastResult + 1
      BY <1>b, <3>0
    <3> QED
      BY <1>3, <3>1
  <2> QED
    BY <2>1, <2>2
<1> QED
  BY <1>2, <1>3, <1>5, <1>6, <1>7, <1>8 DEF u

LEMMA UpdateRequestFacts ==
  ASSUME NEW t, TabOK(t), NEW q \in Queues, NEW id, OwnRequest(t, id, q)
  PROVE  LET u == UpdateRequest(t, id)
         IN  /\ TabOK(u) /\ Grown(t, u) /\ u.results = t.results /\ u.status = t.status
             /\ \A p \in Queues \ {q} : SameRows(t, u, p)
             /\ \A r \in u.requests : \E o \in t.requests : o.id = r.id /\ o.queue = r.queue
<1> DEFINE u == UpdateRequest(t, id)
           f(r) == IF r.id = id THEN [r EXCEPT !.responded = TRUE] ELSE r
<1>1. /\ t.requests \in SUBSET Request /\ t.status \in SUBSET Task /\ t.results \in SUBSET ResultRow
      /\ t.lastRequest \in Nat /\ t.lastTask \in Nat /\ t.lastResult \in Nat
      /\ t \in Tables
  BY DEF TabOK, Tables
<1>2. /\ u.requests = {f(r) : r \in t.requests} /\ u.status = t.status /\ u.results = t.results
      /\ u.lastRequest = t.lastRequest /\ u.lastTask = t.lastTask /\ u.lastResult = t.lastResult
  BY <1>1 DEF UpdateRequest, Tables
<1>3. \A r \in t.requests : f(r) \in Request /\ f(r).id = r.id /\ f(r).queue = r.queue /\ (r.id # id => f(r) = r)
  BY <1>1 DEF Request
<1>4. u \in Tables
  BY <1>1, <1>3 DEF UpdateRequest, Tables
<1> HIDE DEF u, f
<1>5. TabOK(u)
  BY <1>1, <1>2, <1>3, <1>4 DEF TabOK
<1>6. Grown(t, u) /\ \A r \in u.requests : \E o \in t.requests : o.id = r.id /\ o.queue = r.queue
  BY <1>1, <1>2, <1>3 DEF Grown
<1>7. ASSUME NEW p \in Queues \ {q} PROVE SameRows(t, u, p)
  <2>1. \A r \in t.requests : r.queue = p => f(r) = r
    BY <1>3 DEF OwnRequest, TabOK
  <2>2. RequestsOf(u, p) = RequestsOf(t, p)
    BY <1>2, <1>3, <2>1 DEF RequestsOf
  <2> QED
    BY <1>2, <2>2 DEF SameRows, StatusOf, ResultsOf
<1> QED
  BY <1>2, <1>5, <1>6, <1>7 DEF u

LEMMA UpdateStatusFacts ==
  ASSUME NEW t, TabOK(t), NEW q \in Queues, NEW id, OwnRequest(t, id, q),
         NEW status \in {TASK_NEW, TASK_RUNNING, TASK_COMPLETE}
  PROVE  LET u == UpdateStatus(t, id, status)
         IN  /\ TabOK(u) /\ Grown(t, u) /\ u.results = t.results /\ u.requests = t.requests
             /\ \A p \in Queues \ {q} : SameRows(t, u, p)
             /\ ResultsOf(u, q) = ResultsOf(t, q)
             /\ \A s \in u.status : s.request_id = id => s.status = status
<1> DEFINE u == UpdateStatus(t, id, status)
           f(s) == IF s.request_id = id THEN [s EXCEPT !.status = status] ELSE s
<1>1. /\ t.requests \in SUBSET Request /\ t.status \in SUBSET Task /\ t.results \in SUBSET ResultRow
      /\ t.lastRequest \in Nat /\ t.lastTask \in Nat /\ t.lastResult \in Nat
      /\ t \in Tables
  BY DEF TabOK, Tables
<1>2. /\ u.status = {f(s) : s \in t.status} /\ u.requests = t.requests /\ u.results = t.results
      /\ u.lastRequest = t.lastRequest /\ u.lastTask = t.lastTask /\ u.lastResult = t.lastResult
  BY <1>1 DEF UpdateStatus, Tables
<1>3. \A s \in t.status : /\ f(s) \in Task /\ f(s).id = s.id /\ f(s).request_id = s.request_id
                          /\ s.request_id # id => f(s) = s
                          /\ s.request_id = id => f(s).status = status
  BY <1>1 DEF Task
<1>4. u \in Tables
  BY <1>1, <1>3 DEF UpdateStatus, Tables
<1> HIDE DEF u, f
<1>5. TabOK(u)
  BY <1>1, <1>2, <1>3, <1>4 DEF TabOK
<1>6. Grown(t, u) /\ \A s \in u.status : s.request_id = id => s.status = status
  BY <1>1, <1>2, <1>3 DEF Grown
<1>7. ASSUME NEW p \in Queues \ {q} PROVE SameRows(t, u, p)
  <2>1. RequestsOf(u, p) = RequestsOf(t, p) /\ \A r \in RequestsOf(t, p) : r.id # id
    BY <1>2 DEF RequestsOf, OwnRequest, TabOK
  <2>2. StatusOf(u, p) = StatusOf(t, p)
    BY <1>2, <1>3, <2>1 DEF StatusOf
  <2> QED
    BY <1>2, <2>1, <2>2 DEF SameRows, ResultsOf
<1>8. ResultsOf(u, q) = ResultsOf(t, q)
  BY <1>2, <1>3 DEF ResultsOf, StatusOf, RequestsOf
<1> QED
  BY <1>2, <1>5, <1>6, <1>7, <1>8 DEF u

LEMMA DeleteResultsFacts ==
  ASSUME NEW t, TabOK(t), NEW ands, NEW targets
  PROVE  LET u == DeleteResults(t, ands, targets)
         IN  /\ TabOK(u) /\ Grown(t, u) /\ u.results \subseteq t.results
             /\ u.requests = t.requests /\ u.status = t.status
<1> DEFINE u == DeleteResults(t, ands, targets)
<1>1. /\ t.requests \in SUBSET Request /\ t.status \in SUBSET Task /\ t.results \in SUBSET ResultRow
      /\ t.lastRequest \in Nat /\ t.lastTask \in Nat /\ t.lastResult \in Nat
      /\ t \in Tables
  BY DEF TabOK, Tables
<1>2. /\ u.results \subseteq t.results /\ u.requests = t.requests /\ u.status = t.status
      /\ u.lastRequest = t.lastRequest /\ u.lastTask = t.lastTask /\ u.lastResult = t.lastResult
  BY DEF DeleteResults, TabOK, Tables
<1>4. u \in Tables
  BY <1>1 DEF DeleteResults, Tables
<1> HIDE DEF u
<1>5. TabOK(u)
  BY <1>1, <1>2, <1>4 DEF TabOK
<1> QED
  BY <1>1, <1>2, <1>5 DEF u, Grown

(* The least element of a set of ids, and the rows that have it. *)
LEMMA LeastNat ==
  ASSUME NEW S \in SUBSET Nat, S # {}
  PROVE  \E n \in S : \A m \in S : n <= m
<1> DEFINE R == OpToRel(<, Nat)
<1>1. \A n, m \in Nat : m < n => <<m, n>> \in R
  BY DEF OpToRel
<1>2. IsWellFoundedOn(R, Nat)
  BY NatLessThanWellFounded
<1> HIDE DEF R
<1>3. PICK n \in S : \A m \in S : ~(<<m, n>> \in R)
  BY <1>2, WFMin
<1>4. ASSUME NEW m \in S PROVE n <= m
  <2>1. m \in Nat /\ n \in Nat
    OBVIOUS
  <2>2. ~(m < n)
    BY <1>1, <1>3, <2>1, Zenon
  <2> QED
    BY <2>1, <2>2
<1> QED
  BY <1>4
LEMMA FirstRowFacts ==
  ASSUME NEW rs, rs # {}, \A r \in rs : r.id \in Nat
  PROVE  FirstRow(rs) \in rs /\ \A o \in rs : FirstRow(rs).id <= o.id
<1> DEFINE S == {r.id : r \in rs}
<1>1. S \in SUBSET Nat /\ S # {}
  OBVIOUS
<1>2. PICK n \in S : \A m \in S : n <= m
  BY <1>1, LeastNat
<1>3. \E r \in rs : \A o \in rs : r.id <= o.id
  BY <1>2
<1> QED
  BY <1>3 DEF FirstRow

(* The first request of a queue stays the first. *)
LEMMA FirstStays ==
  ASSUME NEW t, NEW u, TabOK(t), TabOK(u), Grown(t, u), NEW q, RequestsOf(t, q) # {}
  PROVE  FirstRow(RequestsOf(u, q)).id = FirstRow(RequestsOf(t, q)).id
<1> DEFINE f == FirstRow(RequestsOf(t, q))
           g == FirstRow(RequestsOf(u, q))
<1>1. /\ t.requests \in SUBSET Request /\ u.requests \in SUBSET Request
      /\ t.lastRequest \in Nat /\ u.lastRequest \in Nat
  BY DEF TabOK, Tables
<1>2. \A r \in t.requests \cup u.requests : r.id \in Nat
  BY <1>1 DEF Request
<1>3. f \in RequestsOf(t, q) /\ \A o \in RequestsOf(t, q) : f.id <= o.id
  BY <1>2, FirstRowFacts DEF RequestsOf
<1>4. PICK n \in u.requests : n.id = f.id /\ n.queue = q
  BY <1>3 DEF Grown, RequestsOf
<1>5. g \in RequestsOf(u, q) /\ \A o \in RequestsOf(u, q) : g.id <= o.id
  <2>1. RequestsOf(u, q) # {}
    BY <1>4 DEF RequestsOf
  <2> QED
    BY <1>2, <2>1, FirstRowFacts DEF RequestsOf
<1> HIDE DEF f, g
<1>6. g.id <= f.id /\ f.id <= t.lastRequest /\ f.id \in Nat /\ g.id \in Nat
  <2>1. g.id <= n.id
    BY <1>4, <1>5 DEF RequestsOf
  <2> QED
    BY <1>2, <1>3, <1>4, <1>5, <2>1 DEF RequestsOf, TabOK
<1>7. g.id <= t.lastRequest
  BY <1>1, <1>6
<1>8. PICK o \in t.requests : o.id = g.id
  BY <1>5, <1>7 DEF Grown, RequestsOf
<1>9. o.queue = q
  <2>1. PICK m \in u.requests : m.id = o.id /\ m.queue = o.queue
    BY DEF Grown
  <2>2. g \in u.requests /\ g.queue = q
    BY <1>5 DEF RequestsOf
  <2>3. \A x, y \in u.requests : x.id = y.id => x = y
    BY DEF TabOK
  <2>4. m = g
    BY <1>8, <2>1, <2>2, <2>3
  <2> QED
    BY <2>1, <2>2, <2>4
<1>10. f.id <= g.id
  BY <1>3, <1>8, <1>9 DEF RequestsOf
<1> QED
  BY <1>6, <1>10 DEF f, g

Busy(c) == stage[c] # "idle"

(* Statement i of the k statements of an operation. *)
Is(o, n, k, s, name, i) ==
  name = o /\ i = n /\ Statements(name)[i] = s /\ Len(Statements(name)) = k

(* A connection is at statement i of the k statements of an operation. *)
IsAt(c, o, n, k, s) == Is(o, n, k, s, op[c].name, op[c].next)

LEMMA StatementsAre ==
  ASSUME NEW name \in Ops, NEW i \in 1..3, i <= Len(Statements(name))
  PROVE  \/ Is("submit", 1, 2, "insert request", name, i) \/ Is("submit", 2, 2, "insert status", name, i)
         \/ Is("mark", 1, 1, "update running", name, i)
         \/ Is("result", 1, 1, "insert result", name, i) \/ Is("summary", 1, 1, "insert summary", name, i)
         \/ Is("finish", 1, 1, "update complete", name, i)
         \/ Is("fail", 1, 3, "insert failure", name, i) \/ Is("fail", 2, 3, "update complete", name, i)
         \/ Is("fail", 3, 3, "commit", name, i)
         \/ Is("respond", 1, 1, "update request", name, i)
         \/ Is("respond failure", 1, 2, "update request", name, i) \/ Is("respond failure", 2, 2, "update failed", name, i)
         \/ Is("cleanup", 1, 1, "delete unvalid", name, i)
         \/ Is("refresh", 1, 1, "delete by request", name, i)
<1>2. i = 1 \/ i = 2 \/ i = 3
  OBVIOUS
<1>3. CASE name = "submit"
  <2>1. Len(Statements("submit")) = 2
    BY DEF Statements
  <2>2. Statements("submit")[1] = "insert request" /\ Statements("submit")[2] = "insert status"
    BY DEF Statements
  <2>3. ~(3 <= 2)
    OBVIOUS
  <2> QED
    BY <1>2, <1>3, <2>1, <2>2, <2>3, Zenon DEF Is
<1>4. CASE name = "respond failure"
  <2>1. Len(Statements("respond failure")) = 2
    BY DEF Statements
  <2>2. Statements("respond failure")[1] = "update request" /\ Statements("respond failure")[2] = "update failed"
    BY DEF Statements
  <2>3. ~(3 <= 2)
    OBVIOUS
  <2> QED
    BY <1>2, <1>4, <2>1, <2>2, <2>3, Zenon DEF Is
<1>5. CASE name = "fail"
  <2>1. Len(Statements("fail")) = 3
    BY DEF Statements
  <2>2. /\ Statements("fail")[1] = "insert failure" /\ Statements("fail")[2] = "update complete"
        /\ Statements("fail")[3] = "commit"
    BY DEF Statements
  <2> QED
    BY <1>2, <1>5, <2>1, <2>2, Zenon DEF Is
<1>6. CASE name \in {"mark", "result", "summary", "finish", "respond", "cleanup", "refresh"}
  <2>1. Len(Statements(name)) = 1
    BY <1>6 DEF Statements
  <2>2. i = 1
    <3> DEFINE n == Len(Statements(name))
    <3>1. n = 1 /\ i <= n
      BY <2>1
    <3> HIDE DEF n
    <3> QED
      BY <1>2, <3>1
  <2>3. /\ Statements("mark")[1] = "update running" /\ Statements("result")[1] = "insert result"
        /\ Statements("finish")[1] = "update complete" /\ Statements("respond")[1] = "update request"
        /\ Statements("cleanup")[1] = "delete unvalid" /\ Statements("refresh")[1] = "delete by request"
        /\ Statements("summary")[1] = "insert summary"
    BY DEF Statements
  <2> QED
    BY <1>6, <2>1, <2>2, <2>3, Zenon DEF Is
<1> QED
  BY <1>3, <1>4, <1>5, <1>6 DEF Ops

LEMMA StatementCases ==
  ASSUME OpTypeOK, NEW c \in Conns, Busy(c)
  PROVE  \/ IsAt(c, "submit", 1, 2, "insert request") \/ IsAt(c, "submit", 2, 2, "insert status")
         \/ IsAt(c, "mark", 1, 1, "update running")
         \/ IsAt(c, "result", 1, 1, "insert result") \/ IsAt(c, "summary", 1, 1, "insert summary")
         \/ IsAt(c, "finish", 1, 1, "update complete")
         \/ IsAt(c, "fail", 1, 3, "insert failure") \/ IsAt(c, "fail", 2, 3, "update complete")
         \/ IsAt(c, "fail", 3, 3, "commit")
         \/ IsAt(c, "respond", 1, 1, "update request")
         \/ IsAt(c, "respond failure", 1, 2, "update request") \/ IsAt(c, "respond failure", 2, 2, "update failed")
         \/ IsAt(c, "cleanup", 1, 1, "delete unvalid")
         \/ IsAt(c, "refresh", 1, 1, "delete by request")
BY StatementsAre DEF OpTypeOK, Busy, IsAt, Is, Statement

LEMMA FirstStatement ==
  ASSUME NEW name \in Ops
  PROVE  /\ Statements(name)[1] # "insert status"
         /\ Statements(name)[1] = "update request" => name \in {"respond", "respond failure"}
<1>1. 1 \in 1..3 /\ 1 <= Len(Statements(name))
  <2> DEFINE n == Len(Statements(name))
  <2>1. n \in 1..3
    BY StatementsFacts
  <2> HIDE DEF n
  <2>2. 1 \in 1..3 /\ 1 <= n
    BY <2>1
  <2> QED
    BY <2>2 DEF n
<1>2. 1 # 2 /\ 1 # 3
  OBVIOUS
<1> QED
  BY <1>1, <1>2, StatementsAre, Zenon DEF Is

(* Who has an open transaction: the connection that commits, and a failing   *)
(* job from its first statement on.                                          *)
LockOf(c) ==
  /\ stage[c] = "commit" => writer = c /\ (op[c].name = "fail" => op[c].next = 3)
  /\ Busy(c) /\ op[c].name = "fail" /\ op[c].next # 1 => writer = c

(* An operation works on a queue that has a status row; a submission gets    *)
(* one for the request it inserted, and a response is to one of the queue.   *)
AcceptedOf(c) ==
  Busy(c) =>
    /\ op[c].queue \in Queues
    /\ op[c].name = "result" => op[c].host \in Hosts
    /\ op[c].name # "submit" => StatusOf(db, op[c].queue) # {}
    /\ Statement(c) \in {"insert status", "update request"} => OwnRequest(db, arg[c].id, op[c].queue)

FirstId(t, q) == FirstRow(RequestsOf(t, q)).id

OfTask == {"insert result", "insert summary", "insert failure", "update running", "update failed"}

(* The row a statement is executed with is one of the operation's queue, and *)
(* the one that is completed its first.                                      *)
ArgOf(c) ==
  /\ stage[c] \in {"execute", "commit"} =>
       /\ Statement(c) \in {"update complete", "update request"} =>
            OwnRequest(View(c), arg[c].id, op[c].queue)
       /\ Statement(c) = "update complete" => arg[c].id = FirstId(View(c), op[c].queue)
       /\ Statement(c) \in OfTask => OwnTask(View(c), arg[c], op[c].queue)
  /\ stage[c] = "commit" /\ Statement(c) = "insert request" =>
       OwnRequest(tx, tx.lastRequest, op[c].queue)

(* What a transaction has not changed. *)
OwnOf(c) ==
  writer = c =>
    /\ op[c].name \in {"cleanup", "refresh"} => tx.requests = db.requests /\ tx.status = db.status
    /\ op[c].name \notin {"cleanup", "refresh"} => \A q \in Queues \ {op[c].queue} : SameRows(db, tx, q)

Completed(c) ==
  \/ Busy(c) /\ op[c].name = "fail" /\ op[c].next = 3
  \/ stage[c] = "commit" /\ Statement(c) = "update complete"

(* A failure is stored by handle_job_exception alone, and the status of the  *)
(* first request is COMPLETE when it or a finished job commits.              *)
FailOf(c) ==
  /\ writer = c /\ op[c].name # "fail" => \A x \in tx.results : IsFailure(x) => x \in db.results
  /\ Completed(c) => \A s \in tx.status : s.request_id = FirstId(tx, op[c].queue) => s.status = TASK_COMPLETE

ConnOK(c) == LockOf(c) /\ AcceptedOf(c) /\ ArgOf(c) /\ OwnOf(c) /\ FailOf(c)

TablesOK ==
  /\ TabOK(db)
  /\ arg = [c \in Conns |-> arg[c]]
  /\ writer \in Conns \cup {NoOne}
  /\ writer # NoOne => TabOK(tx) /\ Grown(db, tx)

RowsInv == Inv /\ TablesOK /\ \A c \in Conns : ConnOK(c)

----------------------------------------------------------------------------
(* Tables that grow. *)

LEMMA GrownIs ==
  ASSUME NEW t, TabOK(t)
  PROVE  Grown(t, t)
BY DEF Grown, TabOK, Tables

LEMMA GrownTwice ==
  ASSUME NEW t, NEW u, NEW v, TabOK(t), TabOK(u), TabOK(v), Grown(t, u), Grown(u, v)
  PROVE  Grown(t, v)
<1>1. t.lastRequest \in Nat /\ u.lastRequest \in Nat /\ v.lastRequest \in Nat /\ v.requests \in SUBSET Request
  BY DEF TabOK, Tables
<1>2. t.lastRequest <= u.lastRequest /\ u.lastRequest <= v.lastRequest
  BY DEF Grown
<1>3. t.lastRequest <= v.lastRequest
  BY <1>1, <1>2
<1>4. ASSUME NEW r \in v.requests, r.id <= t.lastRequest PROVE \E o \in t.requests : o.id = r.id
  <2>1. r.id \in Nat
    BY <1>1 DEF Request
  <2>2. r.id <= u.lastRequest
    BY <1>1, <1>2, <1>4, <2>1
  <2>3. PICK m \in u.requests : m.id = r.id
    BY <2>2 DEF Grown
  <2> QED
    BY <1>4, <2>3 DEF Grown
<1> QED
  BY <1>3, <1>4 DEF Grown

LEMMA GrownKeeps ==
  ASSUME NEW t, NEW u, Grown(t, u), NEW q
  PROVE  /\ \A id : OwnRequest(t, id, q) => OwnRequest(u, id, q)
         /\ \A row : OwnTask(t, row, q) => OwnTask(u, row, q)
         /\ StatusOf(t, q) # {} => StatusOf(u, q) # {}
         /\ RequestsOf(t, q) # {} => RequestsOf(u, q) # {}
<1>1. ASSUME NEW id, OwnRequest(t, id, q) PROVE OwnRequest(u, id, q)
  BY <1>1 DEF Grown, OwnRequest
<1>2. ASSUME NEW row, OwnTask(t, row, q) PROVE OwnTask(u, row, q)
  <2>1. PICK s \in t.status : s.id = row.id /\ s.request_id = row.request_id /\ OwnRequest(t, s.request_id, q)
    BY <1>2 DEF OwnTask
  <2>2. PICK o \in u.status : o.id = s.id /\ o.request_id = s.request_id
    BY DEF Grown
  <2> QED
    BY <1>1, <2>1, <2>2 DEF OwnTask
<1>3. StatusOf(t, q) # {} => StatusOf(u, q) # {}
  BY DEF Grown, StatusOf, RequestsOf
<1>4. RequestsOf(t, q) # {} => RequestsOf(u, q) # {}
  BY DEF Grown, RequestsOf
<1> QED
  BY <1>1, <1>2, <1>3, <1>4

(* A result that was there already belongs to the queue it belonged to. *)
LEMMA ResultsStay ==
  ASSUME NEW t, NEW u, TabOK(t), TabOK(u), Grown(t, u), NEW q,
         NEW x \in ResultsOf(u, q), x \in t.results
  PROVE  x \in ResultsOf(t, q)
<1>1. PICK s \in t.status : x.task_id = s.id
  BY DEF TabOK
<1>2. PICK r \in t.requests : s.request_id = r.id
  BY DEF TabOK
<1>3. PICK so \in u.status, ro \in u.requests : x.task_id = so.id /\ so.request_id = ro.id /\ ro.queue = q
  BY DEF ResultsOf, StatusOf, RequestsOf
<1>4. so.request_id = s.request_id
  BY <1>1, <1>3 DEF Grown, TabOK
<1>5. r.queue = q
  <2>1. PICK o \in u.requests : o.id = r.id /\ o.queue = r.queue
    BY DEF Grown
  <2>2. o = ro
    <3>1. o \in u.requests /\ ro \in u.requests /\ o.id = ro.id
      BY <1>2, <1>3, <1>4, <2>1
    <3>2. \A x1, x2 \in u.requests : x1.id = x2.id => x1 = x2
      BY DEF TabOK
    <3> QED
      BY <3>1, <3>2
  <2> QED
    BY <1>3, <2>1, <2>2
<1> QED
  BY <1>1, <1>2, <1>5 DEF ResultsOf, StatusOf, RequestsOf

LEMMA SameTwice ==
  ASSUME NEW t, NEW u, NEW v, NEW q, SameRows(t, u, q), SameRows(u, v, q)
  PROVE  SameRows(t, v, q)
BY DEF SameRows

LEMMA SameIs ==
  ASSUME NEW t, NEW q
  PROVE  SameRows(t, t, q)
BY DEF SameRows

----------------------------------------------------------------------------
(* The other connections. *)

(* What a connection that did not take the step sees. *)
LEMMA OthersOK ==
  ASSUME TablesOK, TablesOK', NEW d \in Conns, ConnOK(d),
         op'[d] = op[d], stage'[d] = stage[d], arg'[d] = arg[d],
         writer' = d <=> writer = d,
         writer = d => tx' = tx /\ db' = db,
         Grown(db, db')
  PROVE  ConnOK(d)'
<1>1. Statement(d)' = Statement(d) /\ (Busy(d)' <=> Busy(d))
  BY DEF Statement, Busy
<1>2. TabOK(View(d)) /\ TabOK(View(d)') /\ Grown(db, View(d)) /\ Grown(View(d), View(d)')
  <2>1. NoOne # d
    BY TablesAssumption
  <2> QED
    BY <2>1, GrownIs DEF View, TablesOK
<1>3. LockOf(d)'
  BY <1>1 DEF ConnOK, LockOf
<1>4. AcceptedOf(d)'
  BY <1>1, GrownKeeps DEF ConnOK, AcceptedOf
<1>5. ArgOf(d)'
  <2>1. stage[d] = "commit" => writer = d
    BY DEF ConnOK, LockOf
  <2>2. \A id, q : OwnRequest(View(d), id, q) => OwnRequest(View(d)', id, q)
    BY <1>2, GrownKeeps
  <2>3. \A row, q : OwnTask(View(d), row, q) => OwnTask(View(d)', row, q)
    BY <1>2, GrownKeeps
  <2>4. ArgOf(d)
    BY DEF ConnOK
  <2>5. stage[d] \in {"execute", "commit"} /\ Statement(d) = "update complete" =>
          FirstId(View(d)', op[d].queue) = FirstId(View(d), op[d].queue)
    <3> DEFINE t == View(d)
               u == View(d)'
               q == op[d].queue
    <3>1. stage[d] \in {"execute", "commit"} /\ Statement(d) = "update complete" => RequestsOf(t, q) # {}
      BY <2>4 DEF ArgOf, OwnRequest, RequestsOf
    <3>2. TabOK(t) /\ TabOK(u) /\ Grown(t, u)
      BY <1>2
    <3> HIDE DEF t, u, q
    <3>3. RequestsOf(t, q) # {} => FirstRow(RequestsOf(u, q)).id = FirstRow(RequestsOf(t, q)).id
      BY <3>2, FirstStays
    <3> QED
      BY <3>1, <3>3 DEF FirstId, t, u, q
  <2> HIDE DEF View
  <2> QED
    BY <1>1, <2>1, <2>2, <2>3, <2>4, <2>5 DEF ArgOf
<1>6. OwnOf(d)'
  BY DEF ConnOK, OwnOf
<1>7. FailOf(d)'
  <2>1. Completed(d)' => Completed(d) /\ writer = d
    <3>1. 3 # 1
      OBVIOUS
    <3> QED
      BY <1>1, <3>1 DEF ConnOK, LockOf, Completed
  <2> QED
    BY <1>1, <2>1 DEF ConnOK, FailOf
<1> QED
  BY <1>3, <1>4, <1>5, <1>6, <1>7 DEF ConnOK

(* A connection that became idle owes nothing. *)
LEMMA IdleOK ==
  ASSUME NEW c \in Conns, stage'[c] = "idle", writer' # c
  PROVE  ConnOK(c)'
BY DEF ConnOK, LockOf, AcceptedOf, ArgOf, OwnOf, FailOf, Completed, Busy

----------------------------------------------------------------------------
(* The statement of a connection, executed. *)

EffectOf(c) == Effect(View(c), Statement(c), op[c], arg[c])

LEMMA ViewOK ==
  ASSUME TablesOK, NEW c \in Conns
  PROVE  TabOK(View(c)) /\ Grown(db, View(c))
<1>1. NoOne # c
  BY TablesAssumption
<1> QED
  BY <1>1, GrownIs DEF TablesOK, View

(* The tables after a statement are tables, have grown, and differ from      *)
(* those before in rows of the queue of the operation.                       *)
EffectOK(c, t, u) ==
  /\ TabOK(u) /\ Grown(t, u)
  /\ op[c].name \in {"cleanup", "refresh"} => u.requests = t.requests /\ u.status = t.status
  /\ op[c].name \notin {"cleanup", "refresh"} => \A q \in Queues \ {op[c].queue} : SameRows(t, u, q)
  /\ op[c].name # "fail" => \A x \in u.results : IsFailure(x) => x \in t.results
  /\ Statement(c) = "insert request" => OwnRequest(u, u.lastRequest, op[c].queue)
  /\ Statement(c) = "update complete" =>
       /\ u.requests = t.requests
       /\ \A s \in u.status : s.request_id = arg[c].id => s.status = TASK_COMPLETE

LEMMA EffectFacts ==
  ASSUME RowsInv, NEW c \in Conns, stage[c] = "execute"
  PROVE  EffectOK(c, View(c), EffectOf(c))
<1> DEFINE t == View(c)
           q == op[c].queue
           u == EffectOf(c)
           row == arg[c]
<1>1. TabOK(t)
  BY ViewOK DEF RowsInv
<1>2. q \in Queues /\ (op[c].name = "result" => op[c].host \in Hosts)
  BY DEF RowsInv, ConnOK, AcceptedOf, Busy
<1>3. /\ Statement(c) = "insert status" => OwnRequest(t, row.id, q)
      /\ Statement(c) \in {"update complete", "update request"} => OwnRequest(t, row.id, q)
      /\ Statement(c) \in OfTask => OwnTask(t, row, q)
  BY ViewOK, GrownKeeps DEF RowsInv, ConnOK, AcceptedOf, ArgOf, Busy
<1>4. u = Effect(t, Statement(c), op[c], row) /\ op[c].queue = q /\ arg[c] = row
  BY DEF EffectOf
<1>5. SUFFICES EffectOK(c, t, u)
  OBVIOUS
<1> HIDE DEF t, q, u, row
<1>6. TASK_RUNNING \in {TASK_NEW, TASK_RUNNING, TASK_COMPLETE} /\ TASK_COMPLETE \in {TASK_NEW, TASK_RUNNING, TASK_COMPLETE}
  OBVIOUS
<1>7. CASE IsAt(c, "submit", 1, 2, "insert request")
  <2>1. u = InsertRequest(t, q)
    BY <1>4, <1>7 DEF Effect, IsAt, Is, Statement
  <2>2. /\ TabOK(u) /\ Grown(t, u) /\ u.results = t.results
        /\ \A p \in Queues \ {q} : SameRows(t, u, p)
        /\ OwnRequest(u, u.lastRequest, q)
    BY <1>1, <1>2, <2>1, InsertRequestFacts
  <2> QED
    BY <1>4, <1>7, <2>2 DEF IsAt, Is, Statement, EffectOK
<1>8. CASE IsAt(c, "submit", 2, 2, "insert status")
  <2>1. u = InsertStatus(t, row.id) /\ OwnRequest(t, row.id, q)
    BY <1>3, <1>4, <1>8 DEF Effect, IsAt, Is, Statement
  <2>2. /\ TabOK(u) /\ Grown(t, u) /\ u.results = t.results
        /\ \A p \in Queues \ {q} : SameRows(t, u, p)
    BY <1>1, <1>2, <2>1, InsertStatusFacts
  <2> QED
    BY <1>4, <1>8, <2>2 DEF IsAt, Is, Statement, EffectOK
<1>9. CASE IsAt(c, "mark", 1, 1, "update running") \/ IsAt(c, "respond failure", 2, 2, "update failed")
  <2>1. PICK k \in {TASK_NEW, TASK_RUNNING, TASK_COMPLETE} : u = UpdateStatus(t, row.request_id, k)
    BY <1>4, <1>6, <1>9 DEF Effect, IsAt, Is, Statement
  <2>2. OwnRequest(t, row.request_id, q)
    BY <1>3, <1>9 DEF OwnTask, OfTask, IsAt, Is, Statement
  <2>3. /\ TabOK(u) /\ Grown(t, u) /\ u.results = t.results
        /\ \A p \in Queues \ {q} : SameRows(t, u, p)
    BY <1>1, <1>2, <2>1, <2>2, UpdateStatusFacts
  <2> QED
    BY <1>4, <1>9, <2>3 DEF IsAt, Is, Statement, EffectOK
<1>10. CASE Statement(c) = "update complete" /\ op[c].name \in {"finish", "fail"}
  <2>1. u = UpdateStatus(t, row.id, TASK_COMPLETE) /\ OwnRequest(t, row.id, q)
    BY <1>3, <1>4, <1>10 DEF Effect
  <2>2. /\ TabOK(u) /\ Grown(t, u) /\ u.results = t.results /\ u.requests = t.requests
        /\ \A p \in Queues \ {q} : SameRows(t, u, p)
        /\ \A s \in u.status : s.request_id = row.id => s.status = TASK_COMPLETE
    BY <1>1, <1>2, <1>6, <2>1, UpdateStatusFacts
  <2> QED
    BY <1>4, <1>10, <2>2 DEF EffectOK
<1>11. CASE IsAt(c, "result", 1, 1, "insert result") \/ IsAt(c, "summary", 1, 1, "insert summary")
  <2>1. PICK target \in Target, valid \in Valid :
          u = InsertResult(t, row.id, target, valid) /\ (valid = 0 \/ target = "0.0.0.0")
    BY <1>2, <1>4, <1>11 DEF Effect, IsAt, Is, Statement, Target, Valid
  <2>2. OwnTask(t, row, q) /\ op[c].name \in {"result", "summary"}
    BY <1>3, <1>11 DEF OfTask, IsAt, Is, Statement
  <2>3. /\ TabOK(u) /\ Grown(t, u)
        /\ \A p \in Queues \ {q} : SameRows(t, u, p)
        /\ \E n : n.valid = valid /\ n.target = target /\ u.results = t.results \cup {n}
    BY <1>1, <1>2, <2>1, <2>2, InsertResultFacts
  <2>4. \A x \in u.results : IsFailure(x) => x \in t.results
    <3>1. valid # 1 \/ target # ""
      <4>1. CASE valid = 0
        BY <4>1
      <4>2. CASE target = "0.0.0.0"
        BY <4>2
      <4> QED
        BY <2>1, <4>1, <4>2
    <3>2. PICK n : n.valid = valid /\ n.target = target /\ u.results = t.results \cup {n}
      BY <2>3
    <3>3. ~IsFailure(n)
      BY <3>1, <3>2 DEF IsFailure
    <3> QED
      BY <3>2, <3>3
  <2> QED
    BY <1>4, <1>11, <2>2, <2>3, <2>4 DEF IsAt, Is, Statement, EffectOK
<1>12. CASE IsAt(c, "fail", 1, 3, "insert failure")
  <2>1. u = InsertResult(t, row.id, "", 1) /\ OwnTask(t, row, q)
    BY <1>3, <1>4, <1>12 DEF Effect, OfTask, IsAt, Is, Statement
  <2>2. "" \in Target /\ 1 \in Valid
    BY DEF Target, Valid
  <2>3. /\ TabOK(u) /\ Grown(t, u)
        /\ \A p \in Queues \ {q} : SameRows(t, u, p)
    BY <1>1, <1>2, <2>1, <2>2, InsertResultFacts
  <2> QED
    BY <1>4, <1>12, <2>3 DEF IsAt, Is, Statement, EffectOK
<1>13. CASE Statement(c) = "update request" /\ op[c].name \in {"respond", "respond failure"}
  <2>1. u = UpdateRequest(t, row.id) /\ OwnRequest(t, row.id, q)
    BY <1>3, <1>4, <1>13 DEF Effect
  <2>2. /\ TabOK(u) /\ Grown(t, u) /\ u.results = t.results
        /\ \A p \in Queues \ {q} : SameRows(t, u, p)
    BY <1>1, <1>2, <2>1, UpdateRequestFacts
  <2> QED
    BY <1>4, <1>13, <2>2 DEF EffectOK
<1>14. CASE op[c].name \in {"cleanup", "refresh"} /\ Statement(c) \in {"delete unvalid", "delete by request"}
  <2>1. PICK ands, targets : u = DeleteResults(t, ands, targets)
    BY <1>4, <1>14 DEF Effect
  <2>2. /\ TabOK(u) /\ Grown(t, u) /\ u.results \subseteq t.results
        /\ u.requests = t.requests /\ u.status = t.status
    BY <1>1, <2>1, DeleteResultsFacts
  <2> QED
    BY <1>14, <2>2 DEF EffectOK
<1>15. ~IsAt(c, "fail", 3, 3, "commit")
  BY DEF RowsInv, Inv, LockInv, IsAt, Is, Statement
<1> QED
  BY <1>7, <1>8, <1>9, <1>10, <1>11, <1>12, <1>13, <1>14, <1>15, StatementCases, Zenon DEF RowsInv, Inv, Busy, IsAt, Is, Statement

----------------------------------------------------------------------------
(* The lookup before a statement. *)

LEMMA LookupFacts ==
  ASSUME RowsInv, NEW c \in Conns, stage[c] = "begin"
  PROVE  LET q == op[c].queue
             row == FirstRow(Lookup(View(c), Statement(c), q))
         IN  /\ Statement(c) = "update complete" =>
                  row = FirstRow(RequestsOf(View(c), q)) /\ OwnRequest(View(c), row.id, q)
             /\ Statement(c) \in OfTask => OwnTask(View(c), row, q)
<1> DEFINE t == View(c)
           q == op[c].queue
           s == Statement(c)
           row == FirstRow(Lookup(t, s, q))
<1>1. TabOK(t) /\ Grown(db, t)
  BY ViewOK DEF RowsInv
<1>2. s \in OfTask \cup {"update complete"} => StatusOf(t, q) # {}
  <2>1. s \in OfTask \cup {"update complete"} => op[c].name # "submit"
    BY StatementCases DEF OfTask, RowsInv, Inv, Busy, IsAt, Is, Statement
  <2> QED
    BY <1>1, <2>1, GrownKeeps DEF RowsInv, ConnOK, AcceptedOf, Busy
<1> HIDE DEF t
<1>3. StatusOf(t, q) # {} => RequestsOf(t, q) # {}
  BY DEF StatusOf
<1>4. /\ \A r \in RequestsOf(t, q) : r.id \in Nat /\ r.id <= t.lastRequest
      /\ \A r \in StatusOf(t, q) : r.id \in Nat
      /\ t.lastRequest \in Nat
  BY <1>1 DEF TabOK, Tables, Request, Task, RequestsOf, StatusOf
<1>5. CASE s = "update complete"
  <2>1. Lookup(t, s, q) = RequestsOf(t, q)
    BY <1>5 DEF Lookup
  <2>2. row \in RequestsOf(t, q)
    BY <1>2, <1>3, <1>4, <1>5, <2>1, FirstRowFacts
  <2>3. OwnRequest(t, row.id, q) /\ row = FirstRow(RequestsOf(t, q))
    BY <2>1, <2>2 DEF RequestsOf, OwnRequest
  <2> QED
    BY <1>5, <2>3 DEF t, OfTask
<1>7. CASE s \in OfTask
  <2>1. Lookup(t, s, q) = StatusOf(t, q)
    BY <1>7 DEF Lookup, OfTask
  <2>2. row \in StatusOf(t, q)
    BY <1>2, <1>4, <1>7, <2>1, FirstRowFacts
  <2>3. OwnTask(t, row, q)
    BY <2>2 DEF StatusOf, RequestsOf, OwnTask, OwnRequest
  <2> QED
    BY <1>7, <2>3 DEF t, OfTask
<1> QED
  BY <1>5, <1>7

----------------------------------------------------------------------------
(* The steps. *)

(* The row of a lookup becomes the argument of the connection. *)
LEMMA ArgStep ==
  ASSUME TablesOK, NEW c \in Conns, NEW row, arg' = [arg EXCEPT ![c] = row]
  PROVE  arg' = [d \in Conns |-> arg'[d]] /\ arg'[c] = row /\ \A d \in Conns \ {c} : arg'[d] = arg[d]
<1>1. arg = [d \in Conns |-> arg[d]]
  BY DEF TablesOK
<1>2. arg' = [d \in Conns |-> IF d = c THEN row ELSE arg[d]]
  BY <1>1
<1> QED
  BY <1>2

(* The connections that did not take the step, and the tables they see. *)
LEMMA RowsStep ==
  ASSUME RowsInv, NEW c \in Conns, Inv', TablesOK', Grown(db, db'), ConnOK(c)',
         \A d \in Conns \ {c} : op'[d] = op[d] /\ stage'[d] = stage[d] /\ arg'[d] = arg[d],
         writer' \in {writer, c, NoOne}, writer \notin {NoOne, c} => UNCHANGED <<db, tx, writer>>
  PROVE  RowsInv'
<1>1. ASSUME NEW d \in Conns \ {c} PROVE ConnOK(d)'
  <2>1. NoOne # d
    BY TablesAssumption
  <2>2. ConnOK(d)
    BY DEF RowsInv
  <2>3. (writer' = d <=> writer = d) /\ (writer = d => tx' = tx /\ db' = db)
    BY <2>1
  <2> QED
    BY <2>2, <2>3, OthersOK DEF RowsInv
<1> QED
  BY <1>1 DEF RowsInv

(* An operation that ends leaves nothing behind. *)
LEMMA EndRows ==
  ASSUME RowsInv, NEW c \in Conns, Inv', TabOK(db'), Grown(db, db'), NEW how \in {"returned", "raised", "crashed"}, Close(c, how),
         writer' = IF writer = c THEN NoOne ELSE writer,
         writer # c => UNCHANGED <<db, tx>>
  PROVE  RowsInv'
<1>1. /\ \A d \in Conns \ {c} : op'[d] = op[d] /\ stage'[d] = stage[d]
      /\ stage'[c] = "idle"
  BY CloseFacts DEF RowsInv, Inv
<1>2. ConnOK(c)'
  BY <1>1, IdleOK, TablesAssumption
<1>3. arg' = [d \in Conns |-> arg'[d]] /\ \A d \in Conns \ {c} : arg'[d] = arg[d]
  BY ArgStep DEF Close, RowsInv
<1>4. TablesOK'
  BY <1>3 DEF RowsInv, TablesOK
<1> QED
  BY <1>1, <1>2, <1>3, <1>4, RowsStep

LEMMA CallRows ==
  ASSUME RowsInv, NEW c \in Conns, Call(c)
  PROVE  RowsInv'
<1>1. Inv'
  BY CallInv DEF RowsInv
<1>2. stage[c] = "idle" /\ stage' = [stage EXCEPT ![c] = "begin"] /\ UNCHANGED <<db, tx, writer>>
  BY DEF Call
<1>3. PICK name \in Called, q \in Queues :
        /\ name = "submit" \/ Accepted(q)
        /\ \E i \in 1..(IF name = "result" THEN Len(HostList[q]) ELSE 1) :
             op' = [op EXCEPT ![c] = [name |-> name, queue |-> q, host |-> HostList[q][i], next |-> 1]]
        /\ \E row \in Answered(name, q) : arg' = [arg EXCEPT ![c] = row]
  BY DEF Call
<1>r. PICK row \in Answered(name, q) : arg' = [arg EXCEPT ![c] = row]
  BY <1>3
<1>a. arg' = [d \in Conns |-> arg'[d]] /\ arg'[c] = row /\ \A d \in Conns \ {c} : arg'[d] = arg[d]
  BY <1>r, ArgStep DEF RowsInv
<1>4. PICK i \in 1..(IF name = "result" THEN Len(HostList[q]) ELSE 1) :
        op' = [op EXCEPT ![c] = [name |-> name, queue |-> q, host |-> HostList[q][i], next |-> 1]]
  BY <1>3
<1>5. HostList[q][i] \in Hosts
  <2>1. HostList[q] \in Seq(Hosts) /\ HostList[q] # <<>>
    BY TablesAssumption
  <2> QED
    BY <1>4, <2>1
<1>6. /\ op'[c].name = name /\ op'[c].queue = q /\ op'[c].host = HostList[q][i] /\ op'[c].next = 1
      /\ stage'[c] = "begin"
      /\ \A d \in Conns \ {c} : op'[d] = op[d] /\ stage'[d] = stage[d]
  BY <1>2, <1>4 DEF RowsInv, Inv, OpTypeOK
<1>7. writer # c
  BY <1>2 DEF RowsInv, Inv, LockInv
<1>8. /\ Statement(c)' # "insert status"
      /\ Statement(c)' = "update request" => name \in {"respond", "respond failure"}
  BY <1>3, <1>6, FirstStatement, TablesAssumption DEF Statement
<1>b. Statement(c)' = "update request" => OwnRequest(db, arg'[c].id, q)
  BY <1>a, <1>8 DEF Answered, RequestsOf, OwnRequest
<1>9. ConnOK(c)'
  <2>0. 1 # 2 /\ 1 # 3 /\ writer' # c
    BY <1>2, <1>7
  <2>1. LockOf(c)' /\ ArgOf(c)' /\ OwnOf(c)' /\ FailOf(c)'
    BY <1>6, <2>0, Zenon DEF LockOf, ArgOf, OwnOf, FailOf, Completed
  <2>2. AcceptedOf(c)'
    BY <1>2, <1>3, <1>5, <1>6, <1>8, <1>b DEF AcceptedOf, Accepted
  <2> QED
    BY <2>1, <2>2 DEF ConnOK
<1>10. TablesOK' /\ Grown(db, db')
  BY <1>2, <1>a, GrownIs DEF RowsInv, TablesOK
<1> QED
  BY <1>1, <1>2, <1>6, <1>9, <1>10, <1>a, RowsStep

LEMMA BeginRows ==
  ASSUME RowsInv, NEW c \in Conns, Begin(c)
  PROVE  RowsInv'
<1> DEFINE q == op[c].queue
           s == Statement(c)
           row == FirstRow(Lookup(View(c), s, q))
<1>1. Inv'
  BY BeginInv DEF RowsInv
<1>2. stage[c] = "begin" /\ UNCHANGED <<db, tx, writer>>
  BY DEF Begin
<1>3. Grown(db, db')
  BY <1>2, GrownIs DEF RowsInv, TablesOK
<1>4. /\ s = "update complete" => row = FirstRow(RequestsOf(View(c), q)) /\ OwnRequest(View(c), row.id, q)
      /\ s \in OfTask => OwnTask(View(c), row, q)
  BY <1>2, LookupFacts
<1> HIDE DEF row
<1>5. CASE Unneeded(s, row) /\ StatementDone(c, row)
  <2>1. op[c].name # "fail" /\ op[c].next = Len(Statements(op[c].name))
    BY <1>2, <1>5, StatementCases DEF Unneeded, RowsInv, Inv, Busy, IsAt, Is, Statement
  <2>2. Close(c, "returned")
    <3> DEFINE n == Len(Statements(op[c].name))
    <3>1. op[c].next = n /\ n \in Nat
      BY <1>2, <2>1 DEF RowsInv, Inv, OpTypeOK
    <3> HIDE DEF n
    <3>2. ~(op[c].next < n)
      BY <3>1
    <3> QED
      BY <3>2, <1>5 DEF StatementDone, n
  <2>3. writer # c
    BY <1>2, <2>1 DEF RowsInv, Inv, LockInv
  <2>4. TabOK(db') /\ writer' = IF writer = c THEN NoOne ELSE writer
    BY <1>2, <2>3 DEF RowsInv, TablesOK
  <2> QED
    BY <1>1, <1>2, <1>3, <2>2, <2>3, <2>4, EndRows
<1>6. ASSUME NEW place \in {"execute", "commit"}, stage' = [stage EXCEPT ![c] = place], UNCHANGED op,
             \/ place = "execute" /\ s \in {"insert request", "insert status", "update request"} /\ UNCHANGED arg
             \/ place = "commit" /\ s = "commit" /\ UNCHANGED arg
             \/ place = "execute" /\ s \notin {"commit", "insert request", "insert status", "update request"} /\ arg' = [arg EXCEPT ![c] = row]
      PROVE  RowsInv'
  <2>1. stage'[c] = place /\ op' = op /\ \A d \in Conns \ {c} : stage'[d] = stage[d]
    BY <1>6 DEF RowsInv, Inv, OpTypeOK
  <2>2. /\ arg' = [d \in Conns |-> arg'[d]] /\ \A d \in Conns \ {c} : arg'[d] = arg[d]
        /\ s \notin {"commit", "insert request", "insert status", "update request"} => arg'[c] = row
        /\ s \in {"commit", "insert request", "insert status", "update request"} => arg'[c] = arg[c]
    BY <1>6, ArgStep DEF RowsInv, TablesOK
  <2>3. TablesOK'
    BY <1>2, <2>2 DEF RowsInv, TablesOK
  <2>4. Statement(c)' = Statement(c) /\ View(c)' = View(c) /\ Busy(c) /\ Busy(c)'
    BY <1>2, <2>1 DEF Statement, View, Busy
  <2>5. ConnOK(c)
    BY DEF RowsInv
  <2>6. place = "commit" => s = "commit" /\ op[c].name = "fail" /\ op[c].next = 3
    BY <1>6, <2>4, StatementCases DEF RowsInv, Inv, IsAt, Is, Statement
  <2>7. LockOf(c)'
    BY <1>2, <2>1, <2>4, <2>5, <2>6 DEF ConnOK, LockOf
  <2>8. AcceptedOf(c)'
    BY <1>2, <2>1, <2>2, <2>4, <2>5 DEF ConnOK, AcceptedOf
  <2>9. ArgOf(c)'
    <3>1. s = "update request" => OwnRequest(View(c), arg[c].id, q)
      BY <2>4, <2>5, ViewOK, GrownKeeps DEF RowsInv, ConnOK, AcceptedOf
    <3> HIDE DEF View
    <3> QED
      BY <1>4, <2>1, <2>2, <2>4, <2>6, <3>1 DEF ArgOf, FirstId, OfTask
  <2>10. OwnOf(c)'
    BY <1>2, <2>1, <2>5 DEF ConnOK, OwnOf
  <2>11. FailOf(c)'
    <3>1. Completed(c)' => Completed(c)
      BY <2>1, <2>4, <2>6 DEF Completed
    <3> QED
      BY <1>2, <2>1, <2>5, <3>1 DEF ConnOK, FailOf
  <2>12. ConnOK(c)'
    BY <2>7, <2>8, <2>9, <2>10, <2>11 DEF ConnOK
  <2> QED
    BY <1>1, <1>2, <1>3, <2>1, <2>2, <2>3, <2>12, RowsStep
<1> QED
  BY <1>5, <1>6 DEF Begin, row

LEMMA ExecuteRows ==
  ASSUME RowsInv, NEW c \in Conns, Execute(c)
  PROVE  RowsInv'
<1> DEFINE q == op[c].queue
           s == Statement(c)
<1>1. Inv'
  BY ExecuteInv DEF RowsInv
<1>2. /\ stage[c] = "execute" /\ writer \in {NoOne, c} /\ writer' = c
      /\ tx' = EffectOf(c) /\ db' = db
  BY DEF Execute, EffectOf
<1>3. EffectOK(c, View(c), tx')
  BY <1>2, EffectFacts
<1>4. TabOK(View(c)) /\ Grown(db, View(c)) /\ ConnOK(c) /\ Busy(c)
  BY <1>2, ViewOK DEF RowsInv, Busy
<1>5. TabOK(tx') /\ Grown(db, tx') /\ Grown(View(c), tx') /\ Grown(db, db') /\ View(c)' = tx'
  BY <1>2, <1>3, <1>4, GrownTwice, GrownIs DEF EffectOK, View, RowsInv, TablesOK
<1>6. OwnOf(c) /\ FailOf(c) /\ AcceptedOf(c) /\ ArgOf(c) /\ LockOf(c)
  BY <1>4 DEF ConnOK
<1>7. writer = c \/ View(c) = db
  BY DEF View
<1>8. /\ op[c].name \in {"cleanup", "refresh"} => tx'.requests = db.requests /\ tx'.status = db.status
      /\ op[c].name \notin {"cleanup", "refresh"} => \A p \in Queues \ {q} : SameRows(db, tx', p)
      /\ op[c].name # "fail" => \A x \in tx'.results : IsFailure(x) => x \in db.results
      /\ s = "update complete" =>
           \A o \in tx'.status : o.request_id = FirstId(tx', q) => o.status = TASK_COMPLETE
  <2>0. s = "update complete" =>
          \A o \in tx'.status : o.request_id = FirstId(tx', q) => o.status = TASK_COMPLETE
    <3>1. s = "update complete" => /\ arg[c].id = FirstId(View(c), q) /\ tx'.requests = View(c).requests
                                   /\ \A o \in tx'.status : o.request_id = arg[c].id => o.status = TASK_COMPLETE
      BY <1>2, <1>3, <1>6 DEF ArgOf, EffectOK
    <3>2. s = "update complete" => FirstId(tx', q) = FirstId(View(c), q)
      BY <3>1 DEF FirstId, RequestsOf
    <3> QED
      BY <3>1, <3>2
  <2>1. CASE View(c) = db
    BY <1>3, <2>0, <2>1 DEF EffectOK
  <2>2. CASE writer = c
    <3>1. View(c) = tx
      BY <2>2 DEF View
    <3> QED
      BY <1>3, <1>6, <2>0, <2>2, <3>1, SameTwice DEF EffectOK, OwnOf, FailOf
  <2> QED
    BY <1>7, <2>1, <2>2
<1>9. CASE stage' = [stage EXCEPT ![c] = "commit"] /\ UNCHANGED <<op, arg>> /\ op[c].name # "fail"
  <2>1. /\ stage'[c] = "commit" /\ op' = op /\ arg' = arg
        /\ \A d \in Conns \ {c} : stage'[d] = stage[d]
        /\ Statement(c)' = s /\ Busy(c)'
    BY <1>9 DEF RowsInv, Inv, OpTypeOK, Statement, Busy
  <2>2. LockOf(c)' /\ AcceptedOf(c)' /\ OwnOf(c)' /\ FailOf(c)'
    BY <1>2, <1>4, <1>6, <1>8, <1>9, <2>1 DEF LockOf, AcceptedOf, OwnOf, FailOf, Completed
  <2>3. ArgOf(c)'
    <3>1. /\ OwnRequest(View(c), arg[c].id, q) => OwnRequest(tx', arg[c].id, q)
          /\ OwnTask(View(c), arg[c], q) => OwnTask(tx', arg[c], q)
      BY <1>5, GrownKeeps
    <3>2. /\ s = "insert request" => OwnRequest(tx', tx'.lastRequest, q)
          /\ s = "update complete" => tx'.requests = View(c).requests
      BY <1>3 DEF EffectOK
    <3>3. s = "update complete" => FirstId(tx', q) = FirstId(View(c), q)
      BY <3>2 DEF FirstId, RequestsOf
    <3> HIDE DEF View
    <3> QED
      BY <1>2, <1>5, <1>6, <2>1, <3>1, <3>2, <3>3 DEF ArgOf
  <2>4. ConnOK(c)'
    BY <2>2, <2>3 DEF ConnOK
  <2>5. TablesOK'
    BY <1>2, <1>5, <2>1 DEF RowsInv, TablesOK
  <2> QED
    BY <1>1, <1>2, <1>5, <2>1, <2>4, <2>5, RowsStep
<1>10. CASE StatementDone(c, arg[c]) /\ op[c].name = "fail"
  <2>1. (op[c].next = 1 \/ op[c].next = 2) /\ Len(Statements(op[c].name)) = 3
    BY <1>2, <1>4, <1>10, StatementCases DEF RowsInv, Inv, LockInv, IsAt, Is, Statement
  <2>2. op[c].next < Len(Statements(op[c].name))
    <3> DEFINE n == Len(Statements(op[c].name))
    <3>1. n = 3
      BY <2>1
    <3> HIDE DEF n
    <3>2. op[c].next < n
      BY <2>1, <3>1
    <3> QED
      BY <3>2 DEF n
  <2>3. /\ op' = [op EXCEPT ![c].next = @ + 1] /\ stage' = [stage EXCEPT ![c] = "begin"]
        /\ arg' = [arg EXCEPT ![c] = arg[c]]
    BY <1>10, <2>2 DEF StatementDone
  <2>4. /\ stage'[c] = "begin" /\ op'[c].name = "fail" /\ op'[c].queue = q
        /\ op'[c].next = op[c].next + 1 /\ op'[c].host = op[c].host
        /\ \A d \in Conns \ {c} : stage'[d] = stage[d] /\ op'[d] = op[d]
    BY <1>10, <2>3 DEF RowsInv, Inv, OpTypeOK
  <2>5. arg' = [d \in Conns |-> arg'[d]] /\ arg'[c] = arg[c] /\ \A d \in Conns \ {c} : arg'[d] = arg[d]
    BY <2>3, ArgStep DEF RowsInv
  <2>6. TablesOK'
    BY <1>2, <1>5, <2>5 DEF RowsInv, TablesOK
  <2>7. Statement(c)' \notin {"insert status", "update request"} /\ Busy(c)'
    <3>1. Statement(c)' \in {"insert failure", "update complete", "commit"}
      <4>1. OpTypeOK'
        BY <1>1 DEF Inv
      <4>2. op'[c].next \in 1..3
        BY <4>1 DEF OpTypeOK
      <4> QED
        BY <2>4, <4>2, StatementsFacts DEF Statement, Ops
    <3> QED
      BY <2>4, <3>1 DEF Busy
  <2>8. LockOf(c)' /\ AcceptedOf(c)' /\ ArgOf(c)' /\ OwnOf(c)'
    BY <1>2, <1>4, <1>6, <1>8, <1>10, <2>4, <2>7 DEF LockOf, AcceptedOf, ArgOf, OwnOf
  <2>9. FailOf(c)'
    <3>1. op'[c].next = 3 => op[c].next = 2
      BY <2>1, <2>4
    <3>2. op[c].next = 2 => s = "update complete"
      <4>1. 2 # 1 /\ 2 # 3
        OBVIOUS
      <4> QED
        BY <1>4, <1>10, <4>1, StatementCases DEF RowsInv, Inv, IsAt, Is, Statement
    <3> QED
      BY <1>8, <2>4, <3>1, <3>2 DEF FailOf, Completed
  <2>10. ConnOK(c)'
    BY <2>8, <2>9 DEF ConnOK
  <2> QED
    BY <1>1, <1>2, <1>5, <2>4, <2>5, <2>6, <2>10, RowsStep
<1> QED
  BY <1>9, <1>10 DEF Execute, Commits

(* An operation that fails, is closed or dies before it commits. *)
LEMMA AbortRows ==
  ASSUME RowsInv, NEW c \in Conns, NEW how \in {"returned", "raised", "crashed"}, Inv', Close(c, how), UNCHANGED <<db, tx>>,
         writer' = IF writer = c THEN NoOne ELSE writer
  PROVE  RowsInv'
<1>1. TabOK(db') /\ Grown(db, db')
  BY GrownIs DEF RowsInv, TablesOK
<1> QED
  BY <1>1, EndRows

(* An operation that gives up is closed, or is a cleanup, whose transaction   *)
(* stays open.                                                               *)
LEMMA RaiseRows ==
  ASSUME RowsInv, NEW c \in Conns, Inv', Raise(c), stage[c] # "idle", UNCHANGED <<db, tx>>
  PROVE  RowsInv'
<1>1. CASE Close(c, "raised") /\ writer' = IF writer = c THEN NoOne ELSE writer
  BY <1>1, AbortRows
<1>2. CASE op[c].name = "cleanup" /\ StayOpen(c)
  <2>1. /\ stage'[c] = "unclosed" /\ \A d \in Conns \ {c} : stage'[d] = stage[d]
        /\ UNCHANGED <<writer, op, arg>> /\ Busy(c) /\ Busy(c)' /\ Statement(c)' = Statement(c)
    BY <1>2 DEF StayOpen, RowsInv, Inv, OpTypeOK, Busy, Statement
  <2>2. ConnOK(c)
    BY DEF RowsInv
  <2>3. ConnOK(c)'
    BY <1>2, <2>1, <2>2 DEF ConnOK, LockOf, AcceptedOf, ArgOf, OwnOf, FailOf, Completed
  <2>4. TablesOK' /\ Grown(db, db')
    BY <2>1, GrownIs DEF RowsInv, TablesOK
  <2> QED
    BY <2>1, <2>3, <2>4, RowsStep
<1> QED
  BY <1>1, <1>2 DEF Raise

(* A connection that waits for the database keeps what it is at. *)
LEMMA WaitRows ==
  ASSUME RowsInv, Inv', UNCHANGED <<db, tx, writer, op, stage, arg>>
  PROVE  RowsInv'
<1>1. TablesOK'
  BY DEF RowsInv, TablesOK
<1>2. ASSUME NEW c \in Conns PROVE ConnOK(c)'
  <2>1. ConnOK(c)
    BY DEF RowsInv
  <2>2. /\ View(c)' = View(c) /\ Statement(c)' = Statement(c) /\ Busy(c)' = Busy(c)
        /\ op'[c] = op[c] /\ stage'[c] = stage[c] /\ arg'[c] = arg[c]
    BY DEF View, Statement, Busy
  <2>3. LockOf(c)' /\ AcceptedOf(c)'
    BY <2>1, <2>2 DEF ConnOK, LockOf, AcceptedOf
  <2>4. ArgOf(c)'
    BY <2>1, <2>2 DEF ConnOK, ArgOf
  <2>5. OwnOf(c)' /\ FailOf(c)'
    BY <2>1, <2>2 DEF ConnOK, OwnOf, FailOf, Completed
  <2> QED
    BY <2>3, <2>4, <2>5 DEF ConnOK
<1> QED
  BY <1>1, <1>2 DEF RowsInv

LEMMA ExecuteLockedRows ==
  ASSUME RowsInv, NEW c \in Conns, ExecuteLocked(c)
  PROVE  RowsInv'
<1>1. Inv'
  BY ExecuteLockedInv DEF RowsInv
<1>2. CASE Raise(c)
  BY <1>1, <1>2, RaiseRows DEF ExecuteLocked
<1>3. CASE UNCHANGED <<writer, op, stage, arg>>
  BY <1>1, <1>3, WaitRows DEF ExecuteLocked
<1> QED
  BY <1>2, <1>3 DEF ExecuteLocked

LEMMA CollectRows ==
  ASSUME RowsInv, NEW c \in Conns, Collect(c)
  PROVE  RowsInv'
BY CollectInv, AbortRows DEF Collect, RowsInv

LEMMA CrashRows ==
  ASSUME RowsInv, NEW c \in Conns, Crash(c)
  PROVE  RowsInv'
BY CrashInv, AbortRows DEF Crash, RowsInv

LEMMA CommitLockedRows ==
  ASSUME RowsInv, NEW c \in Conns, CommitLocked(c)
  PROVE  RowsInv'
<1>1. Inv' /\ stage[c] = "commit" /\ UNCHANGED <<db, tx>>
  BY CommitLockedInv DEF RowsInv, CommitLocked
<1>2. CASE Raise(c)
  BY <1>1, <1>2, RaiseRows
<1>3. CASE UNCHANGED <<writer, op, stage, arg>>
  BY <1>1, <1>3, WaitRows
<1>4. CASE Statement(c) # "commit" /\ stage' = [stage EXCEPT ![c] = "execute"] /\ UNCHANGED <<writer, op, arg>>
  <2>1. /\ stage'[c] = "execute" /\ \A d \in Conns \ {c} : stage'[d] = stage[d]
        /\ Statement(c)' = Statement(c) /\ View(c)' = View(c) /\ Busy(c) /\ Busy(c)'
    BY <1>1, <1>4 DEF RowsInv, Inv, OpTypeOK, Statement, View, Busy
  <2>2. ConnOK(c)
    BY DEF RowsInv
  <2>3. op[c].name # "fail"
    <3>1. op[c].name = "fail" => op[c].next = 3
      BY <1>1, <2>2 DEF ConnOK, LockOf
    <3>2. Statements("fail")[3] = "commit"
      BY DEF Statements
    <3> QED
      BY <1>4, <3>1, <3>2 DEF Statement
  <2>4. LockOf(c)' /\ AcceptedOf(c)' /\ OwnOf(c)' /\ FailOf(c)'
    BY <1>1, <1>4, <2>1, <2>2, <2>3 DEF ConnOK, LockOf, AcceptedOf, OwnOf, FailOf, Completed
  <2>5. ArgOf(c)'
    <3> HIDE DEF View
    <3> QED
      BY <1>1, <1>4, <2>1, <2>2 DEF ConnOK, ArgOf
  <2>6. ConnOK(c)' /\ TablesOK' /\ Grown(db, db')
    BY <1>1, <1>4, <2>4, <2>5, GrownIs DEF ConnOK, RowsInv, TablesOK
  <2> QED
    BY <1>1, <1>4, <2>1, <2>6, RowsStep
<1> QED
  BY <1>1, <1>2, <1>3, <1>4 DEF CommitLocked

LEMMA CommitRows ==
  ASSUME RowsInv, NEW c \in Conns, Commit(c)
  PROVE  RowsInv'
<1> DEFINE q == op[c].queue
           s == Statement(c)
           row == [id |-> InsertedId(db')]
<1>1. Inv'
  BY CommitInv DEF RowsInv
<1>2. stage[c] = "commit" /\ ConnOK(c) /\ Busy(c) /\ writer = c /\ NoOne # c
  BY TablesAssumption DEF Commit, RowsInv, ConnOK, LockOf, Busy
<1>3. db' = tx /\ tx' = tx /\ writer' = NoOne /\ View(c) = tx /\ View(c)' = tx
  BY <1>2 DEF Commit, View
<1>4. TabOK(tx) /\ Grown(db, tx) /\ Grown(tx, tx)
  BY <1>2, GrownIs DEF RowsInv, TablesOK
<1>5. StatementDone(c, row) /\ row.id = tx.lastRequest
  BY <1>3 DEF Commit, InsertedId
<1> HIDE DEF row
<1>6. CASE op[c].next < Len(Statements(op[c].name))
  <2>1. /\ op' = [op EXCEPT ![c].next = @ + 1] /\ stage' = [stage EXCEPT ![c] = "begin"]
        /\ arg' = [arg EXCEPT ![c] = row]
    BY <1>5, <1>6 DEF StatementDone
  <2>2. /\ stage'[c] = "begin" /\ op'[c].name = op[c].name /\ op'[c].queue = q /\ op'[c].host = op[c].host
        /\ \A d \in Conns \ {c} : stage'[d] = stage[d] /\ op'[d] = op[d]
    BY <2>1 DEF RowsInv, Inv, OpTypeOK
  <2>3. arg' = [d \in Conns |-> arg'[d]] /\ arg'[c] = row /\ \A d \in Conns \ {c} : arg'[d] = arg[d]
    BY <2>1, ArgStep DEF RowsInv
  <2>4. op[c].name # "fail"
    <3> DEFINE n == Len(Statements(op[c].name))
    <3>1. op[c].name = "fail" => op[c].next = 3 /\ n = 3
      BY <1>2, StatementsFacts DEF ConnOK, LockOf, Ops
    <3> HIDE DEF n
    <3>2. op[c].next < n
      BY <1>6 DEF n
    <3> QED
      BY <3>1, <3>2
  <2>5. TablesOK'
    BY <1>3, <1>4, <2>3 DEF TablesOK
  <2>6. /\ Statement(c)' = "insert status" => s = "insert request" /\ op[c].name = "submit"
        /\ Statement(c)' # "update request"
    <3>1. OpTypeOK' /\ Busy(c)'
      BY <1>1, <2>2 DEF Inv, Busy
    <3>2. Statement(c)' = "insert status" => op[c].name = "submit"
      <4> DEFINE name == op'[c].name
                 i == op'[c].next
      <4>1. name = op[c].name /\ Statement(c)' = Statements(name)[i]
        BY <2>2 DEF Statement
      <4>2. name \in Ops /\ i \in 1..3 /\ i <= Len(Statements(name))
        BY <3>1 DEF OpTypeOK, Busy
      <4> HIDE DEF name, i
      <4>3. Statements(name)[i] = "insert status" => name = "submit"
        BY <4>2, StatementsAre DEF Is
      <4> QED
        BY <4>1, <4>3
    <3>4. Statement(c)' # "update request"
      <4> DEFINE name == op'[c].name
                 i == op'[c].next
      <4>1. name = op[c].name /\ Statement(c)' = Statements(name)[i] /\ i # 1
        BY <2>1, <2>2, <1>2 DEF Statement, RowsInv, Inv, OpTypeOK
      <4>2. name \in Ops /\ i \in 1..3 /\ i <= Len(Statements(name))
        BY <3>1 DEF OpTypeOK, Busy
      <4> HIDE DEF name, i
      <4>3. Statements(name)[i] # "update request"
        BY <4>1, <4>2, StatementsAre DEF Is
      <4> QED
        BY <4>1, <4>3
    <3>3. op[c].name = "submit" => s = "insert request"
      <4> DEFINE n == Len(Statements(op[c].name))
      <4>1. n = 2 /\ op[c].next = 2 => ~(op[c].next < n)
        OBVIOUS
      <4> HIDE DEF n
      <4>2. op[c].name = "submit" => ((op[c].next = 1 /\ s = "insert request") \/ (op[c].next = 2 /\ n = 2))
        BY <1>2, StatementCases DEF n, RowsInv, Inv, IsAt, Is, Statement
      <4>3. op[c].next < n
        BY <1>6 DEF n
      <4> QED
        BY <4>1, <4>2, <4>3
    <3> QED
      BY <3>2, <3>3, <3>4
  <2>7. AcceptedOf(c)'
    <3>1. Statement(c)' = "insert status" => OwnRequest(tx, row.id, q)
      BY <1>2, <1>5, <2>6 DEF ConnOK, ArgOf
    <3>2. StatusOf(db, q) # {} => StatusOf(tx, q) # {}
      BY <1>4, GrownKeeps
    <3> QED
      BY <1>2, <1>3, <2>2, <2>3, <2>6, <3>1, <3>2 DEF ConnOK, AcceptedOf
  <2>8. LockOf(c)' /\ ArgOf(c)' /\ OwnOf(c)' /\ FailOf(c)'
    BY <1>2, <1>3, <2>2, <2>4 DEF LockOf, ArgOf, OwnOf, FailOf, Completed
  <2>9. ConnOK(c)'
    BY <2>7, <2>8 DEF ConnOK
  <2> QED
    BY <1>1, <1>2, <1>3, <1>4, <2>2, <2>3, <2>5, <2>9, RowsStep
<1>7. CASE Close(c, "returned")
  BY <1>1, <1>2, <1>3, <1>4, <1>7, EndRows
<1> QED
  BY <1>5, <1>6, <1>7 DEF StatementDone

LEMMA InitRows == Init => RowsInv
<1> SUFFICES ASSUME Init PROVE RowsInv
  OBVIOUS
<1>1. Inv
  BY InitInv
<1>2. TabOK(db)
  BY DEF Init, EmptyTables, TabOK, Tables
<1>3. TablesOK
  BY <1>2 DEF Init, TablesOK
<1>4. ASSUME NEW c \in Conns PROVE ConnOK(c)
  BY TablesAssumption DEF Init, ConnOK, LockOf, AcceptedOf, ArgOf, OwnOf, FailOf, Completed, Busy
<1> QED
  BY <1>1, <1>3, <1>4 DEF RowsInv

LEMMA NextRows ==
  ASSUME RowsInv, [Next]_vars
  PROVE  RowsInv'
<1>1. CASE UNCHANGED vars
  <2>1. Inv'
    BY <1>1 DEF vars, history, RowsInv, Inv, OpTypeOK, LockInv, Statement
  <2> QED
    BY <1>1, <2>1, WaitRows DEF vars
<1>2. ASSUME NEW c \in Conns, Call(c) \/ Step(c) \/ Collect(c) \/ Crash(c) PROVE RowsInv'
  BY <1>2, CallRows, BeginRows, ExecuteRows, ExecuteLockedRows, CommitRows, CommitLockedRows, CollectRows, CrashRows DEF Step
<1> QED
  BY <1>1, <1>2 DEF Next

(* RowsInv holds in every reachable state. *)
THEOREM RowsInvariance == Spec => []RowsInv
BY InitRows, NextRows, PTL DEF Spec

(* No foreign key is enforced, and every status row names a request, every   *)
(* result a status row, for any number of threads, failures and crashes.     *)
THEOREM ReferencesHold == Spec => []ReferencesOK
<1>1. RowsInv => ReferencesOK
  BY DEF RowsInv, TablesOK, TabOK, ReferencesOK
<1> QED
  BY <1>1, RowsInvariance, PTL

(* Only a commit changes the committed tables, and it commits the tables of  *)
(* the connection that has the transaction.                                  *)
LEMMA OnlyCommits ==
  ASSUME RowsInv, [Next]_vars
  PROVE  \/ db' = db
         \/ \E c \in Conns : Commit(c) /\ stage[c] = "commit" /\ writer = c /\ db' = tx
<1>1. ASSUME NEW c \in Conns, Commit(c) PROVE stage[c] = "commit" /\ writer = c /\ db' = tx
  BY <1>1 DEF Commit, RowsInv, ConnOK, LockOf, View
<1> QED
  BY <1>1 DEF Next, Step, Call, Begin, Execute, ExecuteLocked, CommitLocked, Collect, Crash, vars

(* Where the statuses of the first request are COMPLETE, the status that is  *)
(* read is COMPLETE or of another request.                                   *)
LEMMA CompletedIs ==
  ASSUME RowsInv, NEW c \in Conns, writer = c, Completed(c), db' = tx, NEW q, op[c].queue = q
  PROVE  IsComplete(q)' \/ Overtaken(q)'
<1>1. /\ TabOK(tx) /\ Grown(db, tx) /\ StatusOf(db, q) # {}
      /\ \A s \in tx.status : s.request_id = FirstId(tx, q) => s.status = TASK_COMPLETE
  <2>1. Busy(c) /\ op[c].name # "submit"
    <3>1. Busy(c)
      BY DEF Completed, Busy
    <3> QED
      BY <3>1, StatementCases DEF Completed, RowsInv, Inv, IsAt, Is, Statement
  <2> QED
    BY <2>1, TablesAssumption DEF RowsInv, TablesOK, ConnOK, AcceptedOf, FailOf
<1>2. FirstRow(StatusOf(tx, q)) \in tx.status
  <2>1. StatusOf(tx, q) # {} /\ \A s \in StatusOf(tx, q) : s.id \in Nat
    BY <1>1, GrownKeeps DEF TabOK, Tables, Task, StatusOf
  <2> QED
    BY <2>1, FirstRowFacts DEF StatusOf
<1> QED
  BY <1>1, <1>2 DEF IsComplete, Overtaken, FirstId

(* The failure handle_job_exception stores becomes visible in the commit     *)
(* that makes the queue's status COMPLETE, unless that of a later request    *)
(* has overtaken it.                                                         *)
THEOREM FailuresAreAtomic == Spec => FailureAtomic
<1>1. ASSUME RowsInv, RowsInv', [Next]_vars, NEW q \in Queues,
             NEW x \in ResultsOf(db', q) \ ResultsOf(db, q), IsFailure(x)
      PROVE  IsComplete(q)' \/ Overtaken(q)'
  <2>1. PICK c \in Conns : Commit(c) /\ stage[c] = "commit" /\ writer = c /\ db' = tx
    BY <1>1, OnlyCommits
  <2>2. ConnOK(c) /\ Busy(c) /\ TabOK(db) /\ TabOK(tx) /\ Grown(db, tx)
    BY <1>1, <2>1, TablesAssumption DEF RowsInv, TablesOK, Busy
  <2>3. op[c].name = "fail"
    <3>1. x \in tx.results /\ x \notin db.results
      BY <1>1, <2>1, <2>2, ResultsStay DEF ResultsOf
    <3> QED
      BY <1>1, <2>1, <2>2, <3>1 DEF ConnOK, FailOf
  <2>4. op[c].queue = q
    BY <1>1, <2>1, <2>2, <2>3 DEF ConnOK, OwnOf, SameRows
  <2>5. Completed(c)
    BY <2>1, <2>2, <2>3 DEF ConnOK, LockOf, Completed
  <2> QED
    BY <1>1, <2>1, <2>4, <2>5, CompletedIs
<1>2. RowsInv /\ RowsInv' /\ [Next]_vars =>
        [\A q \in Queues :
           (\E r \in ResultsOf(db', q) \ ResultsOf(db, q) : IsFailure(r))
           => IsComplete(q)' \/ Overtaken(q)']_vars
  BY <1>1
<1> QED
  BY <1>2, RowsInvariance, PTL DEF Spec, FailureAtomic

(* When set_task_as_finished returns, the status that is read first is       *)
(* COMPLETE or of a request that overtook the first.                         *)
THEOREM FinishedIsComplete == Spec => FinishedUnlessOvertaken
<1>1. ASSUME RowsInv, [Next]_vars, NEW c \in Conns, NEW q \in Queues, Finishes(c, q)
      PROVE  IsComplete(q)' \/ Overtaken(q)'
  <2>1. /\ op[c].name = "finish" /\ op[c].queue = q /\ stage[c] # "idle" /\ Busy(c)
        /\ stage'[c] = "idle" /\ outcome'[c] = "returned" /\ Statement(c) = "update complete"
    BY <1>1, StatementCases DEF Finishes, RowsInv, Inv, Busy, IsAt, Is, Statement
  <2>2. stage \in [Conns -> {"idle", "begin", "execute", "commit", "unclosed"}] /\ c \in DOMAIN outcome
    BY <1>1 DEF RowsInv, Inv, OpTypeOK
  <2>3. Commit(c)
    <3>1. ASSUME NEW d \in Conns \ {c}, Call(d) \/ Step(d) \/ Collect(d) \/ Crash(d) PROVE FALSE
      <4>1. stage'[c] = stage[c]
        BY <2>2, <3>1 DEF Call, Step, Begin, Execute, ExecuteLocked, Commit, CommitLocked, Collect, Crash,
                          StatementDone, Raise, StayOpen, Close
      <4> QED
        BY <2>1, <4>1
    <3>2. CASE Call(c) \/ ExecuteLocked(c) \/ CommitLocked(c) \/ Collect(c) \/ Crash(c)
      BY <2>1, <2>2, <3>2 DEF Call, ExecuteLocked, CommitLocked, Collect, Crash, Raise, StayOpen, Close
    <3>3. CASE Begin(c)
      BY <2>1, <2>2, <3>3 DEF Begin, Unneeded
    <3>4. CASE Execute(c)
      BY <2>1, <2>2, <3>4 DEF Execute, Commits
    <3>5. CASE UNCHANGED vars
      BY <2>1, <3>5 DEF vars
    <3> QED
      BY <1>1, <3>1, <3>2, <3>3, <3>4, <3>5 DEF Next, Step
  <2>4. stage[c] = "commit" /\ writer = c /\ db' = tx
    BY <1>1, <2>3 DEF Commit, RowsInv, ConnOK, LockOf, View
  <2> QED
    BY <1>1, <2>1, <2>4, CompletedIs DEF Completed
<1>2. RowsInv /\ [Next]_vars =>
        [\A c \in Conns, q \in Queues : Finishes(c, q) => IsComplete(q)' \/ Overtaken(q)']_vars
  BY <1>1
<1> QED
  BY <1>2, RowsInvariance, PTL DEF Spec, FinishedUnlessOvertaken

(* No operation but a cleanup or a refresh changes rows of another queue,    *)
(* whichever ids its lookups returned.                                       *)
THEOREM OthersRowsKept == Spec => OnlyOwnRows
<1>1. ASSUME RowsInv, [Next]_vars, NEW c \in Conns, stage[c] = "commit", stage'[c] # "commit",
             op[c].name \notin {"cleanup", "refresh"}, NEW q \in Queues \ {op[c].queue}
      PROVE  SameRows(db, db', q)
  <2>1. CASE db' = db
    BY <2>1, SameIs
  <2>2. ASSUME NEW d \in Conns, stage[d] = "commit", writer = d, db' = tx
        PROVE  SameRows(db, db', q)
    <3>1. writer = c
      BY <1>1 DEF RowsInv, ConnOK, LockOf
    <3> QED
      BY <1>1, <2>2, <3>1 DEF RowsInv, ConnOK, OwnOf
  <2> QED
    BY <1>1, <2>1, <2>2, OnlyCommits
<1>2. RowsInv /\ [Next]_vars =>
        [\A c \in Conns : stage[c] = "commit" /\ op[c].name \notin {"cleanup", "refresh"} =>
           \A q \in Queues \ {op[c].queue} :
             stage'[c] # "commit" =>
               /\ RequestsOf(db', q) = RequestsOf(db, q)
               /\ StatusOf(db', q) = StatusOf(db, q)
               /\ ResultsOf(db', q) = ResultsOf(db, q)]_vars
  BY <1>1 DEF SameRows
<1> QED
  BY <1>2, RowsInvariance, PTL DEF Spec, OnlyOwnRows

(* A status that is set already ends the operation, which has no lock. *)
LEMMA UnneededEnds ==
  ASSUME RowsInv, NEW c \in Conns, stage[c] = "begin", NEW row,
         Unneeded(Statement(c), row), StatementDone(c, row)
  PROVE  Close(c, "returned") /\ writer # c
<1>1. op[c].name # "fail" /\ op[c].next = Len(Statements(op[c].name))
  BY StatementCases DEF Unneeded, RowsInv, Inv, Busy, IsAt, Is, Statement
<1>2. ~(op[c].next < Len(Statements(op[c].name)))
  <2> DEFINE n == Len(Statements(op[c].name))
  <2>1. op[c].next = n /\ n \in Nat
    BY <1>1 DEF RowsInv, Inv, OpTypeOK
  <2> HIDE DEF n
  <2>2. ~(op[c].next < n)
    BY <2>1
  <2> QED
    BY <2>2 DEF n
<1> QED
  BY <1>1, <1>2 DEF StatementDone, RowsInv, Inv, LockInv

(* A statement of a failing job that is executed is not its last. *)
LEMMA FailGoesOn ==
  ASSUME RowsInv, NEW c \in Conns, stage[c] = "execute", op[c].name = "fail"
  PROVE  op[c].next < Len(Statements(op[c].name))
<1> DEFINE n == Len(Statements(op[c].name))
<1>1. (op[c].next = 1 \/ op[c].next = 2) /\ n = 3
  BY StatementCases DEF RowsInv, Inv, LockInv, Busy, IsAt, Is, Statement
<1> HIDE DEF n
<1>2. op[c].next < n
  BY <1>1
<1> QED
  BY <1>2 DEF n

----------------------------------------------------------------------------
(* The results counted. *)

(* The results of hosts a queue has, and the calls that are to store one. *)
HostRows(t, q) == {x \in ResultsOf(t, q) : x.valid = 0}

Asking(q) == {c \in Conns : op[c].name = "result" /\ op[c].queue = q}

(* A transaction of insert_async_task_result stores rows of its queue, one   *)
(* unless it was executed again; a deletion removes some, and nothing else   *)
(* changes them.                                                             *)
CountOf(c) ==
  writer = c =>
    \A q \in Queues :
      /\ op[c].name \in {"cleanup", "refresh"} => HostRows(tx, q) \subseteq HostRows(db, q)
      /\ op[c].name \notin {"cleanup", "refresh"} /\ ~(op[c].name = "result" /\ op[c].queue = q) =>
           HostRows(tx, q) = HostRows(db, q)
      /\ op[c].name = "result" /\ op[c].queue = q =>
           /\ HostRows(db, q) \subseteq HostRows(tx, q)
           /\ IsFiniteSet(HostRows(tx, q))
           /\ stage[c] = "commit" =>
                /\ HostRows(tx, q) # HostRows(db, q)
                /\ ~exhausted => \E n : HostRows(tx, q) = HostRows(db, q) \cup {n}

Counted(q) ==
  /\ IsFiniteSet(HostRows(db, q)) /\ IsFiniteSet(Asking(q))
  /\ ~deleted => stored[q] <= Cardinality(HostRows(db, q))
  /\ ~exhausted => Cardinality(HostRows(db, q)) + Cardinality(Asking(q)) <= asked[q]

CountInv ==
  /\ asked \in [Queues -> Nat] /\ stored \in [Queues -> Nat]
  /\ \A q \in Queues : Counted(q)
  /\ \A c \in Conns : CountOf(c)

(* A result that is still there belongs to the queue it belonged to. *)
LEMMA ResultsGrow ==
  ASSUME NEW t, NEW u, Grown(t, u), NEW q, NEW x \in ResultsOf(t, q), x \in u.results
  PROVE  x \in ResultsOf(u, q)
<1>1. PICK s \in t.status, r \in t.requests : x.task_id = s.id /\ s.request_id = r.id /\ r.queue = q
  BY DEF ResultsOf, StatusOf, RequestsOf
<1>2. PICK so \in u.status : so.id = s.id /\ so.request_id = s.request_id
  BY DEF Grown
<1>3. PICK ro \in u.requests : ro.id = r.id /\ ro.queue = r.queue
  BY DEF Grown
<1> QED
  BY <1>1, <1>2, <1>3 DEF ResultsOf, StatusOf, RequestsOf

(* What a statement does to the rows of hosts. *)
LEMMA EffectCounts ==
  ASSUME RowsInv, NEW c \in Conns, stage[c] = "execute", NEW q \in Queues
  PROVE  /\ op[c].name \in {"cleanup", "refresh"} => HostRows(EffectOf(c), q) \subseteq HostRows(View(c), q)
         /\ op[c].name \notin {"cleanup", "refresh"} /\ ~(op[c].name = "result" /\ op[c].queue = q) =>
              HostRows(EffectOf(c), q) = HostRows(View(c), q)
         /\ op[c].name = "result" /\ op[c].queue = q =>
              \E n : n \notin HostRows(View(c), q) /\ HostRows(EffectOf(c), q) = HostRows(View(c), q) \cup {n}
<1> DEFINE t == View(c)
           u == EffectOf(c)
<1>1. TabOK(t) /\ TabOK(u) /\ Grown(t, u) /\ t \in Tables
  BY ViewOK, EffectFacts DEF RowsInv, EffectOK, TabOK
<1>2. u = Effect(t, Statement(c), op[c], arg[c]) /\ EffectOK(c, t, u)
  BY EffectFacts DEF EffectOf
<1>3. ConnOK(c) /\ Busy(c) /\ op[c].queue \in Queues
  BY DEF RowsInv, ConnOK, AcceptedOf, Busy
<1>4. ~IsAt(c, "fail", 3, 3, "commit")
  BY DEF RowsInv, Inv, LockInv, IsAt, Is, Statement
<1>5. IsAt(c, "result", 1, 1, "insert result") => OwnTask(t, arg[c], op[c].queue) /\ op[c].host \in Target /\ 0 \in Valid
  <2>1. IsAt(c, "result", 1, 1, "insert result") => OwnTask(t, arg[c], op[c].queue) /\ op[c].host \in Hosts
    BY <1>3 DEF ConnOK, ArgOf, OfTask, AcceptedOf, IsAt, Is, Statement
  <2> QED
    BY <2>1 DEF Target, Valid
<1> SUFFICES /\ op[c].name \in {"cleanup", "refresh"} => HostRows(u, q) \subseteq HostRows(t, q)
             /\ op[c].name \notin {"cleanup", "refresh"} /\ ~(op[c].name = "result" /\ op[c].queue = q) =>
                  HostRows(u, q) = HostRows(t, q)
             /\ op[c].name = "result" /\ op[c].queue = q =>
                  \E n : n \notin HostRows(t, q) /\ HostRows(u, q) = HostRows(t, q) \cup {n}
  OBVIOUS
<1> HIDE DEF t, u
<1>6. (\A x \in u.results : x.valid = 0 => x \in t.results) => HostRows(u, q) \subseteq HostRows(t, q)
  BY <1>1, ResultsStay DEF HostRows, ResultsOf
<1>7. (\A x \in t.results : x \in u.results) => HostRows(t, q) \subseteq HostRows(u, q)
  BY <1>1, ResultsGrow DEF HostRows, ResultsOf
<1>8. CASE IsAt(c, "result", 1, 1, "insert result")
  <2>1. u = InsertResult(t, arg[c].id, op[c].host, 0) /\ OwnTask(t, arg[c], op[c].queue)
    BY <1>2, <1>5, <1>8 DEF Effect, IsAt, Is, Statement
  <2>2. /\ u.requests = t.requests /\ u.status = t.status
        /\ \A p \in Queues \ {op[c].queue} : SameRows(t, u, p)
        /\ \E n \in ResultsOf(u, op[c].queue) : n \notin t.results /\ n.valid = 0 /\ u.results = t.results \cup {n}
    <3> DEFINE row == arg[c]
               host == op[c].host
               own == op[c].queue
    <3>1. /\ OwnTask(t, row, own) /\ host \in Target /\ 0 \in Valid /\ own \in Queues
          /\ u = InsertResult(t, row.id, host, 0)
      BY <1>3, <1>5, <1>8, <2>1
    <3> HIDE DEF row, host, own
    <3>2. /\ u.requests = t.requests /\ u.status = t.status
          /\ \A p \in Queues \ {own} : SameRows(t, u, p)
          /\ \E n \in ResultsOf(u, own) : n \notin t.results /\ n.valid = 0 /\ u.results = t.results \cup {n}
      BY <1>1, <3>1, InsertResultFacts
    <3> QED
      BY <3>2 DEF own
  <2>3. op[c].name = "result"
    BY <1>8 DEF IsAt, Is
  <2>4. CASE op[c].queue = q
    <3>1. PICK n \in ResultsOf(u, q) : n \notin t.results /\ n.valid = 0 /\ u.results = t.results \cup {n}
      BY <2>2, <2>4
    <3>2. n \notin HostRows(t, q) /\ HostRows(u, q) = HostRows(t, q) \cup {n}
      BY <2>2, <3>1 DEF HostRows, ResultsOf, StatusOf, RequestsOf
    <3> QED
      BY <2>3, <2>4, <3>2
  <2>5. CASE op[c].queue # q
    BY <2>2, <2>3, <2>5 DEF SameRows, HostRows
  <2> QED
    BY <2>4, <2>5
<1>9. CASE Statement(c) \in {"delete unvalid", "delete by request"} /\ op[c].name \in {"cleanup", "refresh"}
  <2>1. PICK ands, targets : u = DeleteResults(t, ands, targets)
    BY <1>2, <1>9 DEF Effect
  <2>2. u.results \subseteq t.results
    BY <1>1, <2>1, DeleteResultsFacts
  <2> QED
    BY <1>6, <1>9, <2>2
<1>10. CASE Statement(c) \in {"insert summary", "insert failure"} /\ op[c].name \in {"summary", "fail"}
  <2>1. PICK target : u = InsertResult(t, arg[c].id, target, 1)
    BY <1>2, <1>10 DEF Effect
  <2> DEFINE n == [id |-> t.lastResult + 1, task_id |-> arg[c].id, target |-> target, valid |-> 1]
  <2>2. u.results = t.results \cup {n}
    BY <1>1, <2>1 DEF InsertResult, Tables
  <2>3. n.valid = 1
    OBVIOUS
  <2> HIDE DEF n
  <2>4. \A x \in u.results : x.valid = 0 => x \in t.results
    BY <2>2, <2>3
  <2> QED
    BY <1>6, <1>7, <1>10, <2>2, <2>4
<1>11. CASE /\ Statement(c) \in {"insert request", "insert status", "update running", "update complete",
                               "update request", "update failed"}
            /\ op[c].name \notin {"cleanup", "refresh", "result"}
  <2>1. u.results = t.results
    <3>1. CASE Statement(c) = "insert request"
      <4>1. u = InsertRequest(t, op[c].queue)
        BY <1>2, <3>1 DEF Effect
      <4> QED
        BY <1>1, <4>1 DEF InsertRequest, Tables
    <3>2. CASE Statement(c) = "insert status"
      <4>1. u = InsertStatus(t, arg[c].id)
        BY <1>2, <3>2 DEF Effect
      <4> QED
        BY <1>1, <4>1 DEF InsertStatus, Tables
    <3>3. CASE Statement(c) \in {"update running", "update complete", "update failed"}
      <4>1. PICK id, status : u = UpdateStatus(t, id, status)
        BY <1>2, <3>3 DEF Effect
      <4> QED
        BY <1>1, <4>1 DEF UpdateStatus, Tables
    <3>4. CASE Statement(c) = "update request"
      <4>1. u = UpdateRequest(t, arg[c].id)
        BY <1>2, <3>4 DEF Effect
      <4> QED
        BY <1>1, <4>1 DEF UpdateRequest, Tables
    <3> QED
      BY <1>11, <3>1, <3>2, <3>3, <3>4
  <2> QED
    BY <1>6, <1>7, <1>11, <2>1
<1>12. \/ IsAt(c, "result", 1, 1, "insert result")
       \/ Statement(c) \in {"delete unvalid", "delete by request"} /\ op[c].name \in {"cleanup", "refresh"}
       \/ Statement(c) \in {"insert summary", "insert failure"} /\ op[c].name \in {"summary", "fail"}
       \/ /\ Statement(c) \in {"insert request", "insert status", "update running", "update complete",
                                "update request", "update failed"}
          /\ op[c].name \notin {"cleanup", "refresh", "result"}
  BY <1>3, <1>4, StatementCases DEF RowsInv, Inv, IsAt, Is, Statement
<1> QED
  BY <1>8, <1>9, <1>10, <1>11, <1>12

(* The counts of the other queues and connections, from what the step is. *)
LEMMA CountStep ==
  ASSUME RowsInv, CountInv, NEW c \in Conns,
         \A d \in Conns \ {c} : op'[d] = op[d] /\ stage'[d] = stage[d],
         writer' \in {writer, c, NoOne}, writer \notin {NoOne, c} => UNCHANGED <<db, tx, writer>>,
         exhausted => exhausted',
         asked' \in [Queues -> Nat], stored' \in [Queues -> Nat],
         \A q \in Queues : Counted(q)', CountOf(c)'
  PROVE  CountInv'
<1>1. ASSUME NEW d \in Conns \ {c} PROVE CountOf(d)'
  <2>1. NoOne # d
    BY TablesAssumption
  <2>2. writer' = d => writer = d /\ UNCHANGED <<db, tx, writer>>
    BY <2>1
  <2>3. CountOf(d) /\ op'[d] = op[d] /\ stage'[d] = stage[d]
    BY DEF CountInv
  <2> QED
    BY <2>2, <2>3 DEF CountOf
<1> QED
  BY <1>1 DEF CountInv

(* Nothing is committed, and no call of insert_async_task_result begins. *)
LEMMA SameCounts ==
  ASSUME CountInv, NEW q \in Queues, UNCHANGED <<db, asked, stored>>, exhausted => exhausted', deleted => deleted',
         \A d \in Conns : op'[d].name = "result" => op[d].name = "result" /\ op'[d].queue = op[d].queue
  PROVE  Counted(q)'
<1>1. Asking(q)' \subseteq Asking(q) /\ Counted(q) /\ HostRows(db', q) = HostRows(db, q)
  BY DEF Asking, CountInv, HostRows
<1>2. /\ IsFiniteSet(Asking(q)') /\ Cardinality(Asking(q)') <= Cardinality(Asking(q))
      /\ Cardinality(Asking(q)') \in Nat /\ Cardinality(Asking(q)) \in Nat
  BY <1>1, FS_Subset, FS_CardinalityType DEF Counted
<1>3. Cardinality(HostRows(db, q)) \in Nat /\ asked[q] \in Nat /\ stored[q] \in Nat
  BY <1>1, FS_CardinalityType DEF Counted, CountInv
<1>4. \A h, a, b, n \in Nat : b <= a /\ h + a <= n => h + b <= n
  OBVIOUS
<1> QED
  BY <1>1, <1>2, <1>3, <1>4 DEF Counted

(* A step of c that commits nothing and calls nothing. *)
LEMMA QuietCount ==
  ASSUME RowsInv, CountInv, NEW c \in Conns,
         \A d \in Conns \ {c} : op'[d] = op[d] /\ stage'[d] = stage[d],
         op'[c].name = "result" => op[c].name = "result" /\ op'[c].queue = op[c].queue,
         writer' \in {writer, c, NoOne}, writer \notin {NoOne, c} => UNCHANGED <<db, tx, writer>>,
         exhausted => exhausted', deleted => deleted', UNCHANGED <<db, asked, stored>>, CountOf(c)'
  PROVE  CountInv'
<1>1. \A d \in Conns : op'[d].name = "result" => op[d].name = "result" /\ op'[d].queue = op[d].queue
  OBVIOUS
<1>2. \A q \in Queues : Counted(q)'
  BY <1>1, SameCounts
<1>3. asked' \in [Queues -> Nat] /\ stored' \in [Queues -> Nat]
  BY DEF CountInv
<1> QED
  BY <1>2, <1>3, CountStep

(* An operation that ends without a commit. *)
LEMMA AbortCount ==
  ASSUME RowsInv, CountInv, NEW c \in Conns, NEW how \in {"returned", "raised", "crashed"}, Close(c, how), UNCHANGED <<db, tx, asked, stored>>,
         exhausted => exhausted', deleted => deleted', writer' = IF writer = c THEN NoOne ELSE writer
  PROVE  CountInv'
<1>1. /\ \A d \in Conns \ {c} : op'[d] = op[d] /\ stage'[d] = stage[d]
      /\ op'[c].name # "result"
  BY CloseFacts DEF RowsInv, Inv, Close, OpTypeOK, Idle
<1>2. CountOf(c)'
  BY TablesAssumption DEF CountOf
<1> QED
  BY <1>1, <1>2, QuietCount

LEMMA RaiseCount ==
  ASSUME RowsInv, CountInv, NEW c \in Conns, Raise(c), UNCHANGED <<db, tx, asked>>,
         exhausted => exhausted', deleted => deleted'
  PROVE  CountInv'
<1>1. CASE Close(c, "raised") /\ writer' = IF writer = c THEN NoOne ELSE writer
  BY <1>1, AbortCount DEF Raise
<1>2. CASE op[c].name = "cleanup" /\ StayOpen(c)
  <2>1. UNCHANGED <<writer, op, stored>> /\ \A d \in Conns \ {c} : op'[d] = op[d] /\ stage'[d] = stage[d]
    BY <1>2 DEF Raise, StayOpen, RowsInv, Inv, OpTypeOK
  <2>2. CountOf(c)'
    BY <1>2, <2>1 DEF CountInv, CountOf
  <2> QED
    BY <2>1, <2>2, QuietCount
<1> QED
  BY <1>1, <1>2 DEF Raise

LEMMA WaitCount ==
  ASSUME RowsInv, CountInv, UNCHANGED <<db, tx, writer, op, stage, asked, stored>>,
         exhausted => exhausted', deleted => deleted'
  PROVE  CountInv'
<1>1. \A q \in Queues : Counted(q)'
  BY SameCounts
<1>2. \A c \in Conns : CountOf(c)'
  BY DEF CountInv, CountOf
<1> QED
  BY <1>1, <1>2 DEF CountInv

LEMMA CallCount ==
  ASSUME RowsInv, CountInv, NEW c \in Conns, Call(c)
  PROVE  CountInv'
<1>1. PICK name \in Called, q \in Queues :
        /\ \E i \in 1..(IF name = "result" THEN Len(HostList[q]) ELSE 1) :
             op' = [op EXCEPT ![c] = [name |-> name, queue |-> q, host |-> HostList[q][i], next |-> 1]]
        /\ asked' = IF name = "result" THEN [asked EXCEPT ![q] = @ + 1] ELSE asked
  BY DEF Call
<1>2. /\ op'[c].name = name /\ op'[c].queue = q /\ \A d \in Conns \ {c} : op'[d] = op[d]
  BY <1>1 DEF RowsInv, Inv, OpTypeOK
<1>3. /\ stage[c] = "idle" /\ \A d \in Conns \ {c} : stage'[d] = stage[d]
      /\ UNCHANGED <<db, tx, writer, stored, exhausted, deleted>>
  BY DEF Call, RowsInv, Inv, OpTypeOK
<1>4. CountOf(c)'
  BY <1>3 DEF CountOf, RowsInv, Inv, LockInv
<1>5. CASE name # "result"
  <2>1. asked' = asked /\ op'[c].name # "result"
    BY <1>1, <1>2, <1>5
  <2> QED
    BY <1>2, <1>3, <1>4, <2>1, QuietCount
<1>6. CASE name = "result"
  <2>1. /\ asked' \in [Queues -> Nat] /\ asked'[q] = asked[q] + 1 /\ \A p \in Queues \ {q} : asked'[p] = asked[p]
        /\ stored' \in [Queues -> Nat]
    BY <1>1, <1>3, <1>6 DEF CountInv
  <2>2. ASSUME NEW p \in Queues PROVE Counted(p)'
    <3>1. Asking(p)' \subseteq Asking(p) \cup {c} /\ (p # q => Asking(p)' \subseteq Asking(p))
      BY <1>2 DEF Asking
    <3>2. IsFiniteSet(Asking(p)) /\ Cardinality(Asking(p)) \in Nat /\ Counted(p)
      BY FS_CardinalityType DEF CountInv, Counted
    <3>3. /\ IsFiniteSet(Asking(p) \cup {c}) /\ Cardinality(Asking(p) \cup {c}) \in Nat
          /\ Cardinality(Asking(p) \cup {c}) <= Cardinality(Asking(p)) + 1
      <4> DEFINE S == Asking(p)
                 k == Cardinality(S)
                 m == Cardinality(S \cup {c})
      <4>1. IsFiniteSet(S \cup {c}) /\ (m = k \/ m = k + 1)
        BY <3>2, FS_AddElement
      <4>2. k \in Nat
        BY <3>2
      <4> HIDE DEF k, m
      <4>3. m \in Nat /\ m <= k + 1
        BY <4>1, <4>2
      <4> QED
        BY <4>1, <4>3 DEF k, m
    <3>4. /\ IsFiniteSet(Asking(p)') /\ Cardinality(Asking(p)') \in Nat
          /\ Cardinality(Asking(p)') <= Cardinality(Asking(p) \cup {c})
          /\ p # q => Cardinality(Asking(p)') <= Cardinality(Asking(p))
      BY <3>1, <3>2, <3>3, FS_Subset, FS_CardinalityType
    <3>5. HostRows(db', p) = HostRows(db, p) /\ stored' = stored /\ Cardinality(HostRows(db, p)) \in Nat /\ asked[p] \in Nat
      BY <1>3, <3>2, FS_CardinalityType DEF HostRows, Counted, CountInv
    <3>6. /\ p = q => Cardinality(Asking(p)') <= Cardinality(Asking(p)) + 1 /\ asked'[p] = asked[p] + 1
          /\ p # q => Cardinality(Asking(p)') <= Cardinality(Asking(p)) /\ asked'[p] = asked[p]
      <4>1. \A a, b, d \in Nat : a <= b /\ b <= d + 1 => a <= d + 1
        OBVIOUS
      <4> QED
        BY <2>1, <3>2, <3>3, <3>4, <4>1
    <3>7. \A h, a, b, n \in Nat : h + a <= n => /\ (b <= a + 1 => h + b <= n + 1)
                                             /\ (b <= a => h + b <= n)
      OBVIOUS
    <3>8. ~exhausted => Cardinality(HostRows(db, p)) + Cardinality(Asking(p)') <= asked'[p]
      BY <3>2, <3>4, <3>5, <3>6, <3>7 DEF Counted
    <3> QED
      BY <1>3, <3>2, <3>4, <3>5, <3>8 DEF Counted
  <2> QED
    BY <1>2, <1>3, <1>4, <2>1, <2>2, CountStep
<1> QED
  BY <1>5, <1>6

LEMMA BeginCount ==
  ASSUME RowsInv, CountInv, NEW c \in Conns, Begin(c)
  PROVE  CountInv'
<1> DEFINE s == Statement(c)
           row == FirstRow(Lookup(View(c), s, op[c].queue))
<1>1. stage[c] = "begin" /\ UNCHANGED <<db, tx, writer, asked, exhausted, deleted>>
  BY DEF Begin
<1> HIDE DEF row
<1>2. CASE Unneeded(s, row) /\ StatementDone(c, row)
  <2>1. Close(c, "returned") /\ writer # c
    BY <1>1, <1>2, UnneededEnds
  <2>2. stored' = stored
    BY <1>2 DEF StatementDone, Unneeded
  <2>3. writer' = IF writer = c THEN NoOne ELSE writer
    BY <1>1, <2>1
  <2>4. (exhausted => exhausted') /\ (deleted => deleted')
    BY <1>1
  <2> QED
    BY <1>1, <2>1, <2>2, <2>3, <2>4, AbortCount
<1>3. ASSUME NEW place \in {"execute", "commit"}, stage' = [stage EXCEPT ![c] = place], UNCHANGED <<op, stored>>,
             place = "commit" => s = "commit"
      PROVE  CountInv'
  <2>1. op' = op /\ stage'[c] = place /\ \A d \in Conns \ {c} : op'[d] = op[d] /\ stage'[d] = stage[d]
    BY <1>3 DEF RowsInv, Inv, OpTypeOK
  <2>2. s = "commit" => op[c].name # "result"
    BY <1>1, StatementCases DEF RowsInv, Inv, Busy, IsAt, Is, Statement
  <2>3. CountOf(c)'
    BY <1>1, <1>3, <2>1, <2>2 DEF CountInv, CountOf
  <2>4. (exhausted => exhausted') /\ (deleted => deleted')
    BY <1>1
  <2> QED
    BY <1>1, <1>3, <2>1, <2>3, <2>4, QuietCount
<1> QED
  BY <1>2, <1>3 DEF Begin, row

(* The rows of hosts in an open transaction, after one more statement. *)
LEMMA EffectCountOf ==
  ASSUME RowsInv, CountInv, NEW c \in Conns, stage[c] = "execute", NEW q \in Queues
  PROVE  LET u == EffectOf(c)
         IN  /\ op[c].name \in {"cleanup", "refresh"} => HostRows(u, q) \subseteq HostRows(db, q)
             /\ op[c].name \notin {"cleanup", "refresh"} /\ ~(op[c].name = "result" /\ op[c].queue = q) =>
                  HostRows(u, q) = HostRows(db, q)
             /\ op[c].name = "result" /\ op[c].queue = q =>
                  /\ HostRows(db, q) \subseteq HostRows(u, q) /\ IsFiniteSet(HostRows(u, q))
                  /\ HostRows(u, q) # HostRows(db, q)
                  /\ ~exhausted => \E n : HostRows(u, q) = HostRows(db, q) \cup {n}
<1> DEFINE t == View(c)
           u == EffectOf(c)
<1>1. /\ op[c].name \in {"cleanup", "refresh"} => HostRows(u, q) \subseteq HostRows(t, q)
      /\ op[c].name \notin {"cleanup", "refresh"} /\ ~(op[c].name = "result" /\ op[c].queue = q) =>
           HostRows(u, q) = HostRows(t, q)
      /\ op[c].name = "result" /\ op[c].queue = q =>
           \E n : n \notin HostRows(t, q) /\ HostRows(u, q) = HostRows(t, q) \cup {n}
  BY EffectCounts
<1>2. CASE writer = c
  <2>1. t = tx /\ CountOf(c)
    BY <1>2 DEF View, CountInv
  <2>2. op[c].name = "result" => exhausted
    BY <1>2 DEF RowsInv, Inv, LockInv
  <2> HIDE DEF t, u
  <2>3. CASE op[c].name = "result" /\ op[c].queue = q
    <3>1. PICK n : n \notin HostRows(t, q) /\ HostRows(u, q) = HostRows(t, q) \cup {n}
      BY <1>1, <2>3
    <3>2. HostRows(db, q) \subseteq HostRows(t, q) /\ IsFiniteSet(HostRows(t, q))
      BY <1>2, <2>1, <2>3 DEF CountOf
    <3>3. IsFiniteSet(HostRows(u, q))
      BY <3>1, <3>2, FS_AddElement
    <3>4. HostRows(db, q) \subseteq HostRows(u, q) /\ HostRows(u, q) # HostRows(db, q)
      BY <3>1, <3>2
    <3> QED
      BY <2>2, <2>3, <3>3, <3>4 DEF u
  <2>4. CASE ~(op[c].name = "result" /\ op[c].queue = q)
    BY <1>1, <1>2, <2>1, <2>4 DEF CountOf, u
  <2> QED
    BY <2>3, <2>4
<1>3. CASE writer # c
  <2>1. t = db
    BY <1>3 DEF View
  <2>2. IsFiniteSet(HostRows(db, q))
    BY DEF CountInv, Counted
  <2> HIDE DEF t, u
  <2>3. CASE op[c].name = "result" /\ op[c].queue = q
    <3>1. PICK n : n \notin HostRows(db, q) /\ HostRows(u, q) = HostRows(db, q) \cup {n}
      BY <1>1, <2>1, <2>3
    <3>2. IsFiniteSet(HostRows(u, q)) /\ HostRows(db, q) \subseteq HostRows(u, q) /\ HostRows(u, q) # HostRows(db, q)
      BY <2>2, <3>1, FS_AddElement
    <3> QED
      BY <2>3, <3>1, <3>2 DEF u
  <2>4. CASE ~(op[c].name = "result" /\ op[c].queue = q)
    BY <1>1, <2>1, <2>4 DEF u
  <2> QED
    BY <2>3, <2>4
<1> QED
  BY <1>2, <1>3

LEMMA ExecuteCount ==
  ASSUME RowsInv, CountInv, NEW c \in Conns, Execute(c)
  PROVE  CountInv'
<1>1. /\ stage[c] = "execute" /\ writer \in {NoOne, c} /\ writer' = c
      /\ tx' = EffectOf(c) /\ UNCHANGED <<db, asked, exhausted, deleted>>
  BY DEF Execute, EffectOf
<1>2. ASSUME op'[c].name = op[c].name, op'[c].queue = op[c].queue
      PROVE  CountOf(c)'
  BY <1>1, <1>2, EffectCountOf DEF CountOf
<1>3. CASE stage' = [stage EXCEPT ![c] = "commit"] /\ UNCHANGED <<op, stored>>
  <2>1. op' = op /\ \A d \in Conns \ {c} : op'[d] = op[d] /\ stage'[d] = stage[d]
    BY <1>3 DEF RowsInv, Inv, OpTypeOK
  <2>2. CountOf(c)'
    BY <1>2, <2>1
  <2>3. (exhausted => exhausted') /\ (deleted => deleted')
    BY <1>1
  <2> QED
    BY <1>1, <1>3, <2>1, <2>2, <2>3, QuietCount
<1>4. CASE StatementDone(c, arg[c]) /\ op[c].name = "fail"
  <2>1. op[c].next < Len(Statements(op[c].name))
    BY <1>1, <1>4, FailGoesOn
  <2>2. /\ op' = [op EXCEPT ![c].next = @ + 1] /\ stage' = [stage EXCEPT ![c] = "begin"]
        /\ stored' = stored
    <3>1. Statement(c) # "insert result"
      BY <1>1, <1>4, StatementCases DEF RowsInv, Inv, Busy, IsAt, Is, Statement
    <3> QED
      BY <1>4, <2>1, <3>1 DEF StatementDone
  <2>3. /\ op'[c].name = op[c].name /\ op'[c].queue = op[c].queue
        /\ \A d \in Conns \ {c} : op'[d] = op[d] /\ stage'[d] = stage[d]
    BY <2>2 DEF RowsInv, Inv, OpTypeOK
  <2>4. CountOf(c)'
    BY <1>2, <2>3
  <2>5. (exhausted => exhausted') /\ (deleted => deleted')
    BY <1>1
  <2> QED
    BY <1>1, <2>2, <2>3, <2>4, <2>5, QuietCount
<1> QED
  BY <1>3, <1>4 DEF Execute, Commits

(* A commit of insert_async_task_result stores a row and ends the call. *)
LEMMA CommitCounted ==
  ASSUME RowsInv, CountInv, NEW c \in Conns, Commit(c), NEW q \in Queues
  PROVE  Counted(q)'
<1>1. stage[c] = "commit" /\ writer = c /\ db' = tx /\ UNCHANGED <<asked, exhausted>>
  BY DEF Commit, RowsInv, ConnOK, LockOf, View
<1>2. deleted' = (deleted \/ op[c].name \in {"cleanup", "refresh"})
  BY DEF Commit
<1>3. StatementDone(c, [id |-> InsertedId(db')]) /\ Busy(c)
  BY <1>1 DEF Commit, Busy
<1>4. \A d \in Conns \ {c} : op'[d] = op[d]
  BY <1>1, <1>3, StatementDoneFacts DEF RowsInv, Inv
<1>5. /\ IsFiniteSet(HostRows(db, q)) /\ IsFiniteSet(Asking(q)) /\ Counted(q) /\ CountOf(c)
      /\ asked[q] \in Nat /\ stored[q] \in Nat /\ stored \in [Queues -> Nat]
      /\ Cardinality(HostRows(db, q)) \in Nat /\ Cardinality(Asking(q)) \in Nat
  BY FS_CardinalityType DEF CountInv, Counted
<1>6. HostRows(db', q) = HostRows(tx, q)
  BY <1>1 DEF HostRows
<1>7. CASE op[c].name = "result"
  <2>1. Statement(c) = "insert result" /\ op[c].next = 1 /\ Len(Statements(op[c].name)) = 1
    BY <1>3, <1>7, StatementCases DEF RowsInv, Inv, IsAt, Is, Statement
  <2>2. op'[c].name # "result" /\ stored' = [stored EXCEPT ![op[c].queue] = @ + 1]
    <3>1. Close(c, "returned")
      <4> DEFINE n == Len(Statements(op[c].name))
      <4>1. ~(op[c].next < n)
        <5>1. ~(1 < 1)
          OBVIOUS
        <5> QED
          BY <2>1, <5>1, Zenon
      <4> QED
        BY <1>3, <4>1 DEF StatementDone
    <3> QED
      BY <1>3, <2>1, <3>1 DEF StatementDone, Close, Idle, RowsInv, Inv, OpTypeOK
  <2>3. CASE op[c].queue = q
    <3> DEFINE r == Cardinality(HostRows(db, q))
               rr == Cardinality(HostRows(db', q))
               a == Cardinality(Asking(q))
               aa == Cardinality(Asking(q)')
    <3>1. /\ HostRows(db, q) \subseteq HostRows(tx, q) /\ IsFiniteSet(HostRows(tx, q))
          /\ HostRows(tx, q) # HostRows(db, q)
          /\ ~exhausted => \E n : HostRows(tx, q) = HostRows(db, q) \cup {n}
      BY <1>1, <1>5, <1>7, <2>3 DEF CountOf
    <3>2. rr \in Nat /\ r <= rr /\ r # rr
      BY <1>6, <3>1, FS_Subset, FS_CardinalityType
    <3>3. ~exhausted => rr = r \/ rr = r + 1
      <4> SUFFICES ASSUME ~exhausted PROVE rr = r \/ rr = r + 1
        OBVIOUS
      <4>1. PICK n : HostRows(tx, q) = HostRows(db, q) \cup {n}
        BY <3>1
      <4>2. \/ Cardinality(HostRows(tx, q)) = Cardinality(HostRows(db, q))
            \/ Cardinality(HostRows(tx, q)) = Cardinality(HostRows(db, q)) + 1
        BY <1>5, <4>1, FS_AddElement
      <4> QED
        BY <1>6, <4>2
    <3>4. Asking(q)' = Asking(q) \ {c} /\ c \in Asking(q)
      BY <1>4, <1>7, <2>2, <2>3 DEF Asking
    <3>5. IsFiniteSet(Asking(q)') /\ aa = a - 1
      BY <1>5, <3>4, FS_RemoveElement
    <3>6. stored'[q] = stored[q] + 1
      BY <1>5, <2>2, <2>3
    <3>7. ~deleted' => stored[q] <= r
      BY <1>2, <1>5 DEF Counted
    <3>8. ~exhausted' => r + a <= asked[q]
      BY <1>1, <1>5 DEF Counted
    <3>9. IsFiniteSet(HostRows(db', q)) /\ r \in Nat /\ a \in Nat /\ asked[q] \in Nat /\ stored[q] \in Nat /\ asked' = asked
      BY <1>1, <1>5, <1>6, <3>1
    <3> SUFFICES (~deleted' => stored'[q] <= rr) /\ (~exhausted' => rr + aa <= asked'[q])
      BY <3>5, <3>9 DEF Counted
    <3> HIDE DEF r, rr, a, aa
    <3>10. \A i, j, k \in Nat : i <= j /\ j <= k /\ j # k => i + 1 <= k
      OBVIOUS
    <3>11. ~deleted' => stored'[q] <= rr
      BY <3>2, <3>6, <3>7, <3>9, <3>10
    <3>12. \A i, j, k, l \in Nat : i + j <= l /\ (k = i \/ k = i + 1) => k + (j - 1) <= l
      OBVIOUS
    <3>13. ~exhausted' => rr + aa <= asked'[q]
      <4>1. ~exhausted' => rr = r \/ rr = r + 1
        BY <1>1, <3>3
      <4> QED
        BY <3>2, <3>5, <3>8, <3>9, <3>12, <4>1
    <3> QED
      BY <3>11, <3>13
  <2>4. CASE op[c].queue # q
    <3>1. HostRows(tx, q) = HostRows(db, q)
      BY <1>1, <1>5, <1>7, <2>4 DEF CountOf
    <3>2. Asking(q)' = Asking(q)
      BY <1>4, <2>2, <2>4 DEF Asking
    <3>3. stored'[q] = stored[q]
      BY <1>5, <2>2, <2>4
    <3> QED
      BY <1>1, <1>2, <1>5, <1>6, <3>1, <3>2, <3>3 DEF Counted
  <2> QED
    BY <2>3, <2>4
<1>8. CASE op[c].name # "result"
  <2>1. Statement(c) # "insert result" /\ op'[c].name # "result"
    <3>1. Statement(c) # "insert result"
      BY <1>3, <1>8, StatementCases DEF RowsInv, Inv, IsAt, Is, Statement
    <3>2. op' = [op EXCEPT ![c].next = @ + 1] \/ op' = [op EXCEPT ![c] = Idle]
      BY <1>3 DEF StatementDone, Close
    <3>3. op[c].name # "result" /\ "none" # "result"
      BY <1>8
    <3>4. op' = [op EXCEPT ![c].next = @ + 1] => op'[c].name = op[c].name
      BY DEF RowsInv, Inv, OpTypeOK
    <3>5. op' = [op EXCEPT ![c] = Idle] => op'[c].name = "none"
      BY DEF Idle, RowsInv, Inv, OpTypeOK
    <3> QED
      BY <3>1, <3>2, <3>3, <3>4, <3>5
  <2>2. stored' = stored
    BY <1>3, <2>1 DEF StatementDone
  <2>3. Asking(q)' = Asking(q)
    BY <1>4, <1>8, <2>1 DEF Asking
  <2>4. CASE op[c].name \in {"cleanup", "refresh"}
    <3>1. HostRows(tx, q) \subseteq HostRows(db, q)
      BY <1>1, <1>5, <2>4 DEF CountOf
    <3>2. /\ IsFiniteSet(HostRows(tx, q)) /\ Cardinality(HostRows(tx, q)) \in Nat
          /\ Cardinality(HostRows(tx, q)) <= Cardinality(HostRows(db, q))
      BY <1>5, <3>1, FS_Subset, FS_CardinalityType
    <3>3. deleted'
      BY <1>2, <2>4
    <3>4. \A i, j, k, l \in Nat : i <= j /\ j + k <= l => i + k <= l
      OBVIOUS
    <3>5. ~exhausted' => Cardinality(HostRows(db', q)) + Cardinality(Asking(q)') <= asked'[q]
      BY <1>1, <1>5, <1>6, <2>3, <3>2, <3>4 DEF Counted
    <3> QED
      BY <1>5, <1>6, <2>3, <3>2, <3>3, <3>5 DEF Counted
  <2>5. CASE op[c].name \notin {"cleanup", "refresh"}
    <3>1. HostRows(tx, q) = HostRows(db, q)
      BY <1>1, <1>5, <1>8, <2>5 DEF CountOf
    <3> QED
      BY <1>1, <1>2, <1>5, <1>6, <2>2, <2>3, <3>1 DEF Counted
  <2> QED
    BY <2>4, <2>5
<1> QED
  BY <1>7, <1>8

LEMMA CommitCount ==
  ASSUME RowsInv, CountInv, NEW c \in Conns, Commit(c)
  PROVE  CountInv'
<1>1. stage[c] = "commit" /\ writer = c /\ NoOne # c /\ writer' = NoOne /\ UNCHANGED <<asked, exhausted>>
  BY TablesAssumption DEF Commit, RowsInv, ConnOK, LockOf
<1>2. \A d \in Conns \ {c} : op'[d] = op[d] /\ stage'[d] = stage[d]
  BY <1>1, StatementDoneFacts DEF Commit, RowsInv, Inv
<1>3. \A q \in Queues : Counted(q)'
  BY CommitCounted
<1>4. CountOf(c)'
  BY <1>1 DEF CountOf
<1>5. asked' \in [Queues -> Nat] /\ stored' \in [Queues -> Nat]
  <2>1. asked \in [Queues -> Nat] /\ stored \in [Queues -> Nat]
    BY DEF CountInv
  <2>2. stored' = stored \/ stored' = [stored EXCEPT ![op[c].queue] = @ + 1]
    BY DEF Commit, StatementDone
  <2> QED
    BY <1>1, <2>1, <2>2
<1>6. exhausted => exhausted'
  BY <1>1
<1> QED
  BY <1>1, <1>2, <1>3, <1>4, <1>5, <1>6, CountStep

LEMMA LockedCount ==
  ASSUME RowsInv, CountInv, NEW c \in Conns, ExecuteLocked(c) \/ CommitLocked(c) \/ Collect(c) \/ Crash(c)
  PROVE  CountInv'
<1>1. UNCHANGED <<db, tx, asked, deleted>> /\ (exhausted => exhausted') /\ (deleted => deleted')
  BY DEF ExecuteLocked, CommitLocked, Collect, Crash, history
<1>2. CASE Raise(c)
  BY <1>1, <1>2, RaiseCount
<1>3. CASE UNCHANGED <<writer, op, stage, stored>>
  BY <1>1, <1>3, WaitCount
<1>4. CASE stage[c] = "commit" /\ stage' = [stage EXCEPT ![c] = "execute"] /\ UNCHANGED <<writer, op, stored>>
  <2>1. stage'[c] = "execute" /\ \A d \in Conns \ {c} : op'[d] = op[d] /\ stage'[d] = stage[d]
    BY <1>4 DEF RowsInv, Inv, OpTypeOK
  <2>2. CountOf(c)'
    BY <1>1, <1>4, <2>1 DEF CountInv, CountOf
  <2> QED
    BY <1>1, <1>4, <2>1, <2>2, QuietCount
<1>5. CASE Collect(c) \/ Crash(c)
  BY <1>1, <1>5, AbortCount DEF Collect, Crash, history
<1> QED
  BY <1>2, <1>3, <1>4, <1>5 DEF ExecuteLocked, CommitLocked

LEMMA InitCount == Init => CountInv
<1> SUFFICES ASSUME Init PROVE CountInv
  OBVIOUS
<1>1. ASSUME NEW q \in Queues PROVE Counted(q)
  <2>1. HostRows(db, q) = {} /\ Asking(q) = {}
    BY DEF Init, HostRows, ResultsOf, Asking, EmptyTables, Idle
  <2> QED
    BY <2>1, FS_EmptySet DEF Init, Counted
<1>2. \A c \in Conns : CountOf(c)
  BY TablesAssumption DEF Init, CountOf
<1> QED
  BY <1>1, <1>2 DEF Init, CountInv

(* CountInv holds in every reachable state. *)
THEOREM CountInvariance == Spec => []CountInv
<1>1. ASSUME RowsInv, CountInv, [Next]_vars PROVE CountInv'
  <2>1. CASE UNCHANGED vars
    BY <1>1, <2>1, WaitCount DEF vars, history
  <2>2. ASSUME NEW c \in Conns, Call(c) \/ Step(c) \/ Collect(c) \/ Crash(c) PROVE CountInv'
    BY <1>1, <2>2, CallCount, BeginCount, ExecuteCount, CommitCount, LockedCount DEF Step
  <2> QED
    BY <1>1, <2>1, <2>2 DEF Next
<1> QED
  BY <1>1, InitCount, RowsInvariance, PTL DEF Spec

(* Every call of insert_async_task_result that returned has its row, as long *)
(* as none is deleted; and a call stores one at most, unless a commit used   *)
(* up its retries.                                                           *)
THEOREM RowsAreStoredOnce == Spec => []StoredOnce
<1>1. CountInv => StoredOnce
  <2> SUFFICES ASSUME CountInv, NEW q \in Queues
               PROVE  /\ ~deleted => stored[q] <= Cardinality(HostRows(db, q))
                      /\ ~exhausted => Cardinality(HostRows(db, q)) <= asked[q]
    BY DEF StoredOnce, HostRows
  <2>1. Counted(q) /\ Cardinality(HostRows(db, q)) \in Nat /\ Cardinality(Asking(q)) \in Nat /\ asked[q] \in Nat
    BY FS_CardinalityType DEF CountInv, Counted
  <2>2. \A i, j, k \in Nat : i + j <= k => i <= k
    OBVIOUS
  <2> QED
    BY <2>1, <2>2 DEF Counted
<1> QED
  BY <1>1, CountInvariance, PTL

=============================================================================
