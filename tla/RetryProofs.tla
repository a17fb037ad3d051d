---------------------------- MODULE RetryProofs ----------------------------
(***************************************************************************)
(* Proofs about Retry, for any number of commands, of retries and of        *)
(* requests under way.                                                      *)
(***************************************************************************)
EXTENDS Retry, TLAPS

NoWrites(r)   == "NoWritesPerformed" \in r.labels
Overloaded(r) == "SystemOverloadedError" \in r.labels

\* The requests of a command that are still under way.
Late(o) == {m \in flight : m.op = o}

\* A command is run once: it has a report, or is being run, or has left no
\* trace yet.
Begun(o) == report[o] # Nil \/ (pc # "idle" /\ o = op)

OpsOK ==
    /\ pc # "idle" => report[op] = Nil
    /\ \A o \in Ops : ~Begun(o) => applied[o] = 0
    /\ \A m \in flight : Begun(m.op)

\* Transaction numbers: the server is never ahead of the client, a number
\* belongs to one command, and a request that the server would carry out is one
\* of a command that was not carried out yet.
NumbersOK ==
    /\ \A s \in Sessions : known[s] <= number[s]
    /\ \A m \in flight :
         /\ m.txn <= number[m.session]
         /\ m.read => m.txn = 0
         /\ m.txn = 0 => applied[m.op] = 0
         /\ m.txn > known[m.session] => applied[m.op] = 0
         /\ m.txn > 0 /\ m.txn = known[m.session] => applied[m.op] = 1

\* Requests of one command are attempts at the same thing; requests without a
\* number are never under way twice.
RequestsOK ==
    \A m1, m2 \in flight :
        /\ m1.op = m2.op =>
             /\ m1.session = m2.session /\ m1.txn = m2.txn
             /\ m1.read <=> m2.read
             /\ m1.txn = 0 /\ ~m1.read => m1 = m2
        /\ m1.txn > 0 /\ m1.session = m2.session /\ m1.txn = m2.txn =>
             m1.op = m2.op

\* The command that is being run, and what its requests have in common.
CurrentOK ==
    pc # "idle" =>
        /\ \A m \in Late(op) : /\ m.session = session /\ m.txn = txn
                               /\ m.read <=> (elig = "read")
        /\ elig = "write" =>
             /\ txn > 0 /\ txn = number[session]
             /\ txn > known[session] => applied[op] = 0
             /\ txn = known[session] => applied[op] = 1
             /\ \A m \in flight : m.session = session /\ m.txn = txn =>
                  m.op = op
        /\ elig # "write" => txn = 0
        /\ elig = "read" => applied[op] = 0

\* One answer at most is awaited, and it is the answer to this command.
StreamOK ==
    /\ pc # "wait" => inbox = <<>> /\ \A m \in flight : ~m.open
    /\ pc = "wait" =>
         /\ inbox = <<>> \/ \E r \in Replies : inbox = <<r>>
         /\ \A m \in flight : m.open => m.op = op /\ inbox = <<>>
         /\ \A m1, m2 \in flight : m1.open /\ m2.open => m1 = m2
         /\ inbox # <<>> => /\ Head(inbox).op = op
                            /\ Head(inbox).ok => elig = "read" \/ applied[op] = 1
    /\ pc # "idle" /\ saved # Nil => saved.op = op
    /\ pc \in {"decide", "select"} =>
         /\ ret => elig = "read" \/ applied[op] = 1

\* No attempt before this one can have had an effect: each was refused.
Refused == IF elig = "write" THEN saved = Nil \/ NoWrites(saved)
                             ELSE elig # "read"

\* And the last reply says so of its own attempt.
SaysNone(r) == IF elig = "write" THEN NoWrites(r)
                                 ELSE NoWrites(r) \/ Overloaded(r)

\* What may be concluded from refusals.
RefusedOK ==
    /\ pc = "send" /\ Refused => applied[op] = 0 /\ Late(op) = {}
    /\ pc = "wait" /\ Refused =>
         /\ \A m \in Late(op) : m.open
         /\ Late(op) # {} => applied[op] = 0
         /\ inbox # <<>> /\ SaysNone(Head(inbox)) => applied[op] = 0
    /\ pc \in {"decide", "select"} /\ elig = "write" /\ NoWrites(saved) =>
         applied[op] = 0 /\ Late(op) = {}
    /\ pc \in {"decide", "select"} /\ elig \notin {"read", "write"} =>
         /\ NoWrites(saved) \/ Overloaded(reply) =>
              applied[op] = 0 /\ Late(op) = {}
    /\ pc = "select" /\ elig \notin {"read", "write"} => Overloaded(reply)

\* What the callers were told.
ReportsOK ==
    \A o \in Ops : report[o] # Nil =>
        /\ report[o].reply.op = o
        /\ report[o].ret => report[o].elig = "read" \/ applied[o] = 1
        /\ report[o].elig = "read" =>
             applied[o] = 0 /\ \A m \in Late(o) : m.read
        /\ report[o].elig # "read" /\ NoWrites(report[o].reply) =>
             applied[o] = 0 /\ Late(o) = {}

IInv ==
    /\ TypeOK
    /\ AtMostOnce
    /\ OpsOK
    /\ NumbersOK
    /\ RequestsOK
    /\ CurrentOK
    /\ StreamOK
    /\ RefusedOK
    /\ ReportsOK
-----------------------------------------------------------------------------
(***************************************************************************)
(* The invariant holds at first, and every action keeps it.                 *)
(***************************************************************************)

LEMMA InitOK == Init => IInv
<1> SUFFICES ASSUME Init PROVE IInv
  OBVIOUS
<1>1. TypeOK
  <2>1. inbox \in Seq(Replies) /\ report \in [Ops -> Reports \cup {Nil}]
    BY DEF Init
  <2>2. /\ number \in [Sessions -> Nat] /\ known \in [Sessions -> Nat]
        /\ applied \in [Ops -> Nat]
    BY DEF Init
  <2>3. path \in Paths(elig)
    BY DEF Init, Paths
  <2> QED
    BY <2>1, <2>2, <2>3 DEF Init, TypeOK
<1>2. Ops \subseteq Nat
  BY RetryAssumption DEF Ops
<1>3. AtMostOnce /\ OpsOK /\ NumbersOK /\ RequestsOK /\ CurrentOK /\ ReportsOK
  BY <1>2 DEF Init, AtMostOnce, OpsOK, NumbersOK, RequestsOK, CurrentOK, ReportsOK, Begun, Sessions
<1>4. StreamOK /\ RefusedOK
  BY DEF Init, StreamOK, RefusedOK
<1> QED
  BY <1>1, <1>3, <1>4 DEF IInv

\* A command begins.
LEMMA StartStep ==
    ASSUME IInv, NEW o \in Ops, NEW e \in Eligible, Start(o, e)
    PROVE  IInv'
<1> DEFINE s == IF pool # Nil THEN pool ELSE o
<1>0. /\ pc = "idle" /\ pc' = "send" /\ op' = o /\ elig' = e /\ session' = s
      /\ report[o] = Nil /\ saved' = Nil
      /\ number' = IF e = "write" THEN [number EXCEPT ![s] = number[s] + 1]
                                  ELSE number
      /\ txn' = IF e = "write" THEN number[s] + 1 ELSE 0
      /\ UNCHANGED <<ret, reply, report, dirty, inbox, flight, known, applied>>
  BY DEF Start, NextNumber, Ops, netVars, serverVars
<1>1. TypeOK /\ s \in Sessions /\ s \in Ops
  BY DEF IInv, TypeOK, Sessions
<1>2. TypeOK'
  <2>1. number' \in [Sessions -> Nat] /\ txn' \in Nat
    BY <1>0, <1>1 DEF TypeOK
  <2>2. pool' = Nil /\ attempt' = 0 /\ allowed' \in Nat
    BY DEF Start
  <2>3. path' \in Paths(elig)'
    BY DEF Start, Paths
  <2> QED
    BY <1>0, <1>1, <2>1, <2>2, <2>3 DEF TypeOK
<1>3. /\ applied[o] = 0 /\ \A m \in flight : m.op # o
      /\ \A x \in Ops : Begun(x)' <=> Begun(x) \/ x = o
  BY <1>0, <1>1 DEF IInv, OpsOK, Begun, TypeOK, Requests
<1>4. AtMostOnce' /\ OpsOK'
  BY <1>0, <1>1, <1>3 DEF IInv, AtMostOnce, OpsOK, TypeOK, Requests
<1>5. \A x \in Sessions : number'[x] \in Nat /\ number[x] <= number'[x]
  BY <1>0, <1>1 DEF TypeOK
<1>6. NumbersOK'
  <2>1. \A x \in Sessions : known[x] \in Nat /\ number[x] \in Nat
    BY <1>1 DEF TypeOK
  <2>2. \A m \in flight : m.session \in Sessions /\ m.txn \in Nat
    BY <1>1 DEF TypeOK, Requests
  <2> QED
    BY <1>0, <1>5, <2>1, <2>2 DEF IInv, NumbersOK
<1>7. RequestsOK'
  BY <1>0 DEF IInv, RequestsOK
<1>8. CurrentOK'
  <2>1. Late(op)' = {}
    BY <1>0, <1>3 DEF Late
  <2>2. CASE e = "write"
    <3>1. txn' = number[s] + 1 /\ number'[s] = number[s] + 1
      BY <1>0, <1>1, <2>2 DEF TypeOK
    <3>2. known[s] < txn' /\ txn' > 0 /\ known[s] \in Nat
      BY <1>1, <3>1 DEF IInv, NumbersOK, TypeOK
    <3>3. \A m \in flight : m.session = s => m.txn # txn'
      BY <1>1, <3>1 DEF IInv, NumbersOK, TypeOK, Requests
    <3> QED
      BY <1>0, <1>1, <1>3, <2>1, <2>2, <3>1, <3>2, <3>3 DEF CurrentOK, TypeOK
  <2>3. CASE e # "write"
    BY <1>0, <1>3, <2>1, <2>3 DEF CurrentOK
  <2> QED
    BY <2>2, <2>3
<1>9. StreamOK' /\ RefusedOK'
  <2>1. inbox = <<>> /\ \A m \in flight : ~m.open
    BY <1>0 DEF IInv, StreamOK
  <2> QED
    BY <1>0, <1>3, <2>1 DEF StreamOK, RefusedOK, Late
<1>10. ReportsOK'
  BY <1>0 DEF IInv, ReportsOK, Late
<1> QED
  BY <1>2, <1>4, <1>6, <1>7, <1>8, <1>9, <1>10 DEF IInv

\* A request is sent.
LEMMA SendStep ==
    ASSUME IInv, Send
    PROVE  IInv'
<1> PICK k \in 1 .. MaxFlight :
      flight' = flight \cup
        {[n |-> k, op |-> op, session |-> session, txn |-> txn,
          read |-> elig = "read", open |-> TRUE]}
  BY DEF Send
<1> DEFINE q == [n |-> k, op |-> op, session |-> session, txn |-> txn,
                 read |-> elig = "read", open |-> TRUE]
<1>0. /\ pc = "send" /\ pc' = "wait" /\ flight' = flight \cup {q}
      /\ UNCHANGED <<op, elig, path, attempt, allowed, ret, reply, saved,
                     report>>
      /\ UNCHANGED <<session, number, txn, dirty, pool, inbox, known, applied>>
  BY DEF Send, runVars, sessVars, serverVars
<1>1. TypeOK /\ op \in Ops /\ session \in Sessions /\ q \in Requests
  BY <1>0 DEF IInv, TypeOK, Requests
<1>2. TypeOK'
  BY <1>0, <1>1 DEF TypeOK
<1>3. /\ q.op = op /\ q.session = session /\ q.txn = txn /\ q.open
      /\ q.read <=> (elig = "read")
  OBVIOUS
<1> HIDE DEF q
<1>4. AtMostOnce' /\ OpsOK'
  BY <1>0, <1>3 DEF IInv, AtMostOnce, OpsOK, Begun
<1>5. /\ elig = "write" => /\ txn > 0 /\ txn = number[session]
                           /\ txn > known[session] => applied[op] = 0
                           /\ txn = known[session] => applied[op] = 1
      /\ elig # "write" => txn = 0
      /\ elig = "read" => applied[op] = 0
      /\ elig \notin {"read", "write"} => applied[op] = 0 /\ Late(op) = {}
      /\ txn \in Nat /\ number[session] \in Nat /\ known[session] \in Nat
  BY <1>0, <1>1 DEF IInv, CurrentOK, RefusedOK, Refused, TypeOK
<1>6. NumbersOK'
  <2>1. /\ q.txn <= number[q.session]
        /\ q.read => q.txn = 0
        /\ q.txn = 0 => applied[q.op] = 0
        /\ q.txn > known[q.session] => applied[q.op] = 0
        /\ q.txn > 0 /\ q.txn = known[q.session] => applied[q.op] = 1
    BY <1>1, <1>3, <1>5 DEF TypeOK
  <2> QED
    BY <1>0, <2>1 DEF IInv, NumbersOK
<1>7. RequestsOK'
  <2>1. ASSUME NEW m \in flight, m.op = op
        PROVE  /\ m.session = session /\ m.txn = txn /\ (m.read <=> q.read)
               /\ m.txn = 0 => q.read
    BY <1>0, <1>3, <1>5, <2>1 DEF IInv, CurrentOK, Late
  <2>2. ASSUME NEW m \in flight, txn > 0, m.session = session, m.txn = txn
        PROVE  m.op = op
    BY <1>0, <1>5, <2>2 DEF IInv, CurrentOK
  <2> QED
    BY <1>0, <1>3, <2>1, <2>2 DEF IInv, RequestsOK
<1>8. CurrentOK'
  BY <1>0, <1>3 DEF IInv, CurrentOK, Late
<1>9. inbox = <<>> /\ \A m \in flight : ~m.open
  BY <1>0 DEF IInv, StreamOK
<1>10. StreamOK'
  BY <1>0, <1>3, <1>9 DEF IInv, StreamOK
<1>11. RefusedOK'
  BY <1>0, <1>3, <1>9 DEF IInv, RefusedOK, Refused, Late
<1>12. ReportsOK'
  <2>1. report[op] = Nil
    BY <1>0 DEF IInv, OpsOK
  <2> QED
    BY <1>0, <1>3, <2>1 DEF IInv, ReportsOK, Late
<1> QED
  BY <1>2, <1>4, <1>6, <1>7, <1>8, <1>10, <1>11, <1>12 DEF IInv

\* What is kept of two replies is one of them, and the earlier one only if the
\* later says that its attempt wrote nothing.
LEMMA SaveKeeps ==
    ASSUME NEW r
    PROVE  /\ Save(r) \in {r, saved}
           /\ Save(r) # r => saved # Nil /\ NoWrites(r)
           /\ path = "write" /\ NoWrites(r) /\ saved # Nil => Save(r) = saved
  BY DEF Save, NoWrites

\* An attempt ends with the reply r, for which nothing may be under way that
\* the client would still read.
LEMMA ExecutedStep ==
    ASSUME IInv, pc = "wait", NEW r \in Replies, NEW k \in BOOLEAN,
           Executed(r, k), r.op = op,
           k => elig = "read" \/ applied[op] = 1,
           Refused /\ elig # "read" /\ SaysNone(r) =>
               applied[op] = 0 /\ Late(op) = {},
           inbox' = <<>>,
           UNCHANGED <<op, elig, path, attempt, allowed, report, session,
                       number, txn, pool, known, applied>>,
           dirty' \in SUBSET Sessions,
           \/ flight' = flight /\ \A m \in flight : ~m.open
           \/ flight' = {[m EXCEPT !.open = FALSE] : m \in flight}
    PROVE  IInv'
<1>0. /\ pc' = "decide" /\ reply' = r /\ ret' = k /\ saved' = Save(r)
      /\ saved \in Replies \cup {Nil} /\ op \in Ops
  BY DEF Executed, IInv, TypeOK
<1>1. saved' \in Replies
  BY <1>0, SaveKeeps
<1>2. TypeOK /\ flight \subseteq Requests
  BY DEF IInv, TypeOK
<1>3. /\ flight' \subseteq Requests
      /\ \A x \in flight' : /\ ~x.open
                            /\ \E m \in flight :
                                 x.op = m.op /\ x.session = m.session
                                 /\ x.txn = m.txn /\ (x.read <=> m.read)
      /\ \A x, y \in flight' : \E m, p \in flight :
            /\ x.op = m.op /\ x.session = m.session
            /\ x.txn = m.txn /\ (x.read <=> m.read)
            /\ y.op = p.op /\ y.session = p.session
            /\ y.txn = p.txn /\ (y.read <=> p.read)
            /\ m = p => x = y
  <2>1. CASE flight' = flight /\ \A m \in flight : ~m.open
    BY <1>2, <2>1
  <2>2. CASE flight' = {[m EXCEPT !.open = FALSE] : m \in flight}
    <3> DEFINE shut(m) == [m EXCEPT !.open = FALSE]
    <3>1. ASSUME NEW m \in flight
          PROVE  /\ shut(m) \in Requests /\ ~shut(m).open
                 /\ shut(m).op = m.op /\ shut(m).session = m.session
                 /\ shut(m).txn = m.txn /\ (shut(m).read <=> m.read)
      BY <1>2 DEF Requests
    <3>2. \A x \in flight' : \E m \in flight : x = shut(m)
      BY <2>2
    <3> HIDE DEF shut
    <3> QED
      BY <3>1, <3>2
  <2> QED
    BY <2>1, <2>2
<1>4. TypeOK'
  BY <1>0, <1>1, <1>2, <1>3 DEF TypeOK
<1>5. AtMostOnce' /\ OpsOK'
  BY <1>0, <1>3 DEF IInv, AtMostOnce, OpsOK, Begun
<1>6. NumbersOK'
  BY <1>3 DEF IInv, NumbersOK
<1>7. RequestsOK'
  BY <1>3 DEF IInv, RequestsOK
<1>8. CurrentOK'
  BY <1>0, <1>3 DEF IInv, CurrentOK, Late
<1>9. StreamOK'
  <2>1. saved' # Nil => saved'.op = op
    BY <1>0, SaveKeeps DEF IInv, StreamOK
  <2> QED
    BY <1>0, <1>3, <2>1 DEF StreamOK
<1>10. RefusedOK'
  <2>0. Late(op) = {} => Late(op)' = {}
    <3>1. op' = op /\ \A x \in flight' : \E m \in flight : x.op = m.op
      BY <1>3
    <3> QED
      BY <3>1 DEF Late
  <2>1. ASSUME elig = "write", NoWrites(saved')
        PROVE  Refused /\ SaysNone(r)
    <3>1. path = "write"
      BY <1>2, <2>1 DEF TypeOK, Paths
    <3> QED
      BY <1>0, <2>1, <3>1, SaveKeeps DEF Refused, SaysNone
  <2>2. ASSUME elig \notin {"read", "write"},
               NoWrites(saved') \/ Overloaded(r)
        PROVE  Refused /\ SaysNone(r)
    BY <1>0, <2>2, SaveKeeps DEF Refused, SaysNone
  <2> QED
    BY <1>0, <2>0, <2>1, <2>2 DEF RefusedOK
<1>11. ReportsOK'
  <2>1. \A x \in flight' : \E m \in flight : x.op = m.op /\ (x.read <=> m.read)
    BY <1>3
  <2>2. ASSUME NEW o \in Ops
        PROVE  /\ Late(o) = {} => Late(o)' = {}
               /\ (\A m \in Late(o) : m.read) =>
                    (\A m \in Late(o)' : m.read)
    BY <2>1 DEF Late
  <2>3. ReportsOK /\ report' = report /\ applied' = applied
    BY DEF IInv
  <2> QED
    BY <2>2, <2>3 DEF ReportsOK, NoWrites
<1> QED
  BY <1>4, <1>5, <1>6, <1>7, <1>8, <1>9, <1>10, <1>11 DEF IInv

\* A reply is read.
LEMMA ReceiveStep ==
    ASSUME IInv, Receive
    PROVE  IInv'
<1> DEFINE r == Head(inbox)
<1>1. pc = "wait" /\ inbox # <<>> /\ Executed(r, r.ok) /\ inbox' = Tail(inbox)
  BY DEF Receive
<1>2. PICK x \in Replies : inbox = <<x>>
  BY <1>1 DEF IInv, StreamOK
<1>3. r \in Replies /\ r.ok \in BOOLEAN /\ inbox' = <<>>
  <2>1. r = x /\ inbox' = <<>>
    BY <1>1, <1>2
  <2> QED
    BY <2>1 DEF Replies
<1>4. /\ r.op = op
      /\ r.ok => elig = "read" \/ applied[op] = 1
      /\ \A m \in flight : ~m.open
  BY <1>1 DEF IInv, StreamOK
<1>5. Refused /\ SaysNone(r) => applied[op] = 0 /\ Late(op) = {}
  BY <1>1, <1>4 DEF IInv, RefusedOK, Late
<1>6. /\ UNCHANGED <<op, elig, path, attempt, allowed, report, session, number,
                     txn, pool, known, applied>>
      /\ flight' = flight /\ dirty' \in SUBSET Sessions
  BY DEF Receive, sessVars, serverVars, IInv, TypeOK
<1> HIDE DEF r
<1> QED
  BY <1>1, <1>3, <1>4, <1>5, <1>6, ExecutedStep

\* The stream is closed or a timeout is over.
LEMMA NetworkErrorStep ==
    ASSUME IInv, NetworkError
    PROVE  IInv'
<1> DEFINE r == Reply(op, FALSE, NetworkLabels, "network")
<1>1. pc = "wait" /\ Executed(r, FALSE) /\ inbox' = <<>>
  BY DEF NetworkError, Disconnect
<1>2. op \in Ops /\ session \in Sessions /\ dirty \in SUBSET Sessions
  BY <1>1 DEF IInv, TypeOK
<1>3. r \in Replies /\ r.op = op /\ ~NoWrites(r) /\ ~Overloaded(r)
  BY <1>2 DEF Reply, NetworkLabels, Replies, Labels, Codes, NoWrites, Overloaded
<1>4. /\ UNCHANGED <<op, elig, path, attempt, allowed, report, session, number,
                     txn, pool, known, applied>>
      /\ dirty' \in SUBSET Sessions
      /\ flight' = {[m EXCEPT !.open = FALSE] : m \in flight}
  BY <1>2 DEF NetworkError, Disconnect, serverVars
<1>5. ~SaysNone(r)
  BY <1>3 DEF SaysNone
<1> HIDE DEF r
<1> QED
  BY <1>1, <1>3, <1>4, <1>5, ExecutedStep

\* The command returns.
LEMMA ReturnStep ==
    ASSUME IInv, pc \in {"decide", "select"}, Return, attempt' \in Nat,
           allowed' \in Nat,
           UNCHANGED <<op, elig, path, ret, reply, saved, session, number, txn,
                       dirty, inbox, flight, known, applied>>
    PROVE  IInv'
<1> DEFINE told == [elig |-> elig, ret |-> ret, reply |-> saved]
<1>0. /\ report' = [report EXCEPT ![op] = told] /\ pc' = "idle"
      /\ pool' \in {Nil, session}
  BY DEF Return
<1>1. TypeOK /\ op \in Ops /\ session \in Sessions /\ told \in Reports
  BY DEF IInv, TypeOK, Reports
<1>2. /\ told # Nil /\ told.elig = elig /\ told.reply = saved
      /\ told.ret <=> ret
  BY <1>1, RetryAssumption
<1> HIDE DEF told
<1>3. TypeOK'
  BY <1>0, <1>1 DEF TypeOK
<1>4. \A o \in Ops : report'[o] = IF o = op THEN told ELSE report[o]
  BY <1>0, <1>1 DEF TypeOK
<1>5. \A m \in flight : m.op \in Ops
  BY <1>1 DEF TypeOK, Requests
<1>6. AtMostOnce' /\ OpsOK'
  BY <1>0, <1>1, <1>2, <1>4, <1>5 DEF IInv, AtMostOnce, OpsOK, Begun
<1>7. NumbersOK' /\ RequestsOK'
  BY DEF IInv, NumbersOK, RequestsOK
<1>8. CurrentOK' /\ StreamOK' /\ RefusedOK'
  BY <1>0 DEF IInv, CurrentOK, StreamOK, RefusedOK
<1>9. ReportsOK'
  <2>1. /\ saved.op = op
        /\ ret => elig = "read" \/ applied[op] = 1
        /\ elig = "read" => applied[op] = 0 /\ \A m \in Late(op) : m.read
    BY RetryAssumption DEF IInv, StreamOK, CurrentOK, TypeOK
  <2>2. elig # "read" /\ NoWrites(saved) => applied[op] = 0 /\ Late(op) = {}
    BY DEF IInv, RefusedOK
  <2>3. \A o \in Ops : Late(o)' = Late(o)
    BY DEF Late
  <2> QED
    BY <1>2, <1>4, <2>1, <2>2, <2>3 DEF IInv, ReportsOK
<1> QED
  BY <1>3, <1>6, <1>7, <1>8, <1>9 DEF IInv

\* An attempt is over: return or try again.
LEMMA DecideStep ==
    ASSUME IInv, Decide
    PROVE  IInv'
<1>0. /\ pc = "decide"
      /\ UNCHANGED <<op, elig, path, ret, reply, saved, session, number, txn,
                     dirty, inbox, flight, known, applied>>
  BY DEF Decide, netVars, serverVars
<1>1. attempt' \in Nat /\ allowed' \in Nat
  BY RetryAssumption DEF Decide, Counted, IInv, TypeOK
<1>2. CASE Return
  BY <1>0, <1>1, <1>2, ReturnStep
<1>3. CASE Retryable /\ pc' = "select" /\ UNCHANGED <<report, pool>>
  <2>1. TypeOK'
    BY <1>0, <1>1, <1>3 DEF IInv, TypeOK
  <2>2. AtMostOnce' /\ OpsOK' /\ NumbersOK' /\ RequestsOK' /\ CurrentOK'
    BY <1>0, <1>3 DEF IInv, AtMostOnce, OpsOK, NumbersOK, RequestsOK,
                      CurrentOK, Begun, Late
  <2>3. StreamOK' /\ ReportsOK'
    BY <1>0, <1>3 DEF IInv, StreamOK, ReportsOK, Late
  <2>4. elig \notin {"read", "write"} => Overloaded(reply)
    BY <1>3 DEF Retryable, Overload, Overloaded
  <2>5. RefusedOK'
    BY <1>0, <1>3, <2>4 DEF IInv, RefusedOK, Late
  <2> QED
    BY <2>1, <2>2, <2>3, <2>5 DEF IInv
<1> QED
  BY <1>2, <1>3 DEF Decide

\* A server was found for the next attempt, or not.
LEMMA SelectStep ==
    ASSUME IInv, Selected \/ NotSelected
    PROVE  IInv'
<1>1. CASE Selected
  <2>0. /\ pc = "select" /\ pc' = "send"
        /\ UNCHANGED <<op, elig, path, attempt, allowed, ret, reply, saved,
                       report>>
        /\ UNCHANGED <<session, number, txn, dirty, pool, inbox, flight, known,
                       applied>>
    BY <1>1 DEF Selected, runVars, sessVars, netVars, serverVars
  <2>1. TypeOK' /\ saved # Nil
    BY <2>0, RetryAssumption DEF IInv, TypeOK
  <2>2. AtMostOnce' /\ OpsOK' /\ NumbersOK' /\ RequestsOK' /\ CurrentOK'
    BY <2>0 DEF IInv, AtMostOnce, OpsOK, NumbersOK, RequestsOK, CurrentOK,
                Begun, Late
  <2>3. StreamOK' /\ ReportsOK'
    BY <2>0 DEF IInv, StreamOK, ReportsOK, Late
  <2>4. RefusedOK'
    BY <2>0, <2>1 DEF IInv, RefusedOK, Refused, Late
  <2> QED
    BY <2>1, <2>2, <2>3, <2>4 DEF IInv
<1>2. CASE NotSelected
  <2>1. /\ pc = "select" /\ Return /\ attempt' \in Nat /\ allowed' \in Nat
        /\ UNCHANGED <<op, elig, path, ret, reply, saved, session, number, txn,
                       dirty, inbox, flight, known, applied>>
    BY <1>2 DEF NotSelected, netVars, serverVars, IInv, TypeOK
  <2> QED
    BY <2>1, ReturnStep
<1> QED
  BY <1>1, <1>2

\* A request the client still waits for is one of the command it runs, and no
\* answer has come yet.
LEMMA OpenAwaited ==
    ASSUME IInv, NEW m \in flight, m.open
    PROVE  /\ pc = "wait" /\ m.op = op /\ inbox = <<>> /\ m \in Late(op)
           /\ \A x \in flight : x.open => x = m
  BY DEF IInv, StreamOK, Late

\* An answer arrives on the client's stream or goes astray.
LEMMA AnswerArrives ==
    ASSUME IInv, NEW m \in flight, NEW r \in Replies, Answer(m, r)
    PROVE  /\ m.open => inbox' = <<r>> /\ Head(inbox') = r
           /\ ~m.open => inbox' = inbox
           /\ inbox' \in Seq(Replies)
<1>1. CASE m.open
  <2>1. inbox' = Append(<<>>, r)
    BY <1>1, OpenAwaited DEF Answer
  <2> QED
    BY <1>1, <2>1
<1>2. CASE ~m.open
  BY <1>2 DEF Answer, IInv, TypeOK
<1> QED
  BY <1>1, <1>2

\* A request is gone and has had no effect, or none that is new.
LEMMA GoneStep ==
    ASSUME IInv, NEW m \in flight, flight' = flight \ {m},
           UNCHANGED <<pc, op, elig, path, attempt, allowed, ret, reply, saved,
                       report>>,
           UNCHANGED <<session, number, txn, dirty, pool, known, applied>>,
           \/ inbox' = inbox
           \/ \E r \in Replies :
                /\ Answer(m, r) /\ r.op = m.op
                /\ r.ok => m.read \/ applied[m.op] = 1
                /\ r.ok => ~NoWrites(r) /\ ~Overloaded(r)
    PROVE  IInv'
<1>1. inbox' \in Seq(Replies)
  BY AnswerArrives DEF IInv, TypeOK
<1>2. TypeOK'
  BY <1>1 DEF IInv, TypeOK
<1>3. AtMostOnce' /\ OpsOK' /\ NumbersOK' /\ RequestsOK'
  BY DEF IInv, AtMostOnce, OpsOK, NumbersOK, RequestsOK, Begun
<1>4. \A o : Late(o)' \subseteq Late(o)
  BY DEF Late
<1>5. CurrentOK'
  BY <1>4 DEF IInv, CurrentOK
<1>6. ReportsOK'
  BY <1>4 DEF IInv, ReportsOK
<1>7. CASE inbox' = inbox
  <2>1. StreamOK'
    BY <1>7 DEF IInv, StreamOK
  <2>2. RefusedOK'
    BY <1>4, <1>7 DEF IInv, RefusedOK, Refused, SaysNone
  <2> QED
    BY <1>2, <1>3, <1>5, <1>6, <2>1, <2>2 DEF IInv
<1>8. CASE inbox' # inbox
  <2>1. PICK r \in Replies :
          /\ Answer(m, r) /\ r.op = m.op
          /\ r.ok => m.read \/ applied[m.op] = 1
          /\ r.ok => ~NoWrites(r) /\ ~Overloaded(r)
    BY <1>8
  <2>2. m.open /\ inbox' = <<r>> /\ Head(inbox') = r
    BY <1>8, <2>1, AnswerArrives
  <2>3. /\ pc = "wait" /\ m.op = op /\ m \in Late(op)
        /\ \A x \in flight : x.open => x = m
    BY <2>2, OpenAwaited
  <2>4. m.read <=> elig = "read"
    BY <2>3 DEF IInv, CurrentOK
  <2>5. StreamOK'
    BY <2>1, <2>2, <2>3, <2>4 DEF IInv, StreamOK
  <2>6. RefusedOK'
    BY <1>4, <2>3 DEF IInv, RefusedOK, Refused
  <2> QED
    BY <1>2, <1>3, <1>5, <1>6, <2>5, <2>6 DEF IInv
<1> QED
  BY <1>7, <1>8

\* A request is refused or lost.
LEMMA RefuseStep ==
    ASSUME IInv, NEW m \in flight, Refuse(m) \/ Lose(m)
    PROVE  IInv'
<1>1. /\ flight' = flight \ {m}
      /\ UNCHANGED <<pc, op, elig, path, attempt, allowed, ret, reply, saved,
                     report>>
      /\ UNCHANGED <<session, number, txn, dirty, pool, known, applied>>
  BY DEF Refuse, Lose, runVars, sessVars, serverVars
<1>2. CASE Lose(m)
  BY <1>1, <1>2, GoneStep DEF Lose
<1>3. CASE Refuse(m)
  <2>1. m.op \in Ops
    BY DEF IInv, TypeOK, Requests
  <2>2. PICK l \in SUBSET Labels, c \in Codes :
          Answer(m, Reply(m.op, FALSE, l, c))
    BY <1>3 DEF Refuse, WithNumber, Labels, Codes
  <2>3. /\ Reply(m.op, FALSE, l, c) \in Replies
        /\ Reply(m.op, FALSE, l, c).op = m.op
        /\ ~Reply(m.op, FALSE, l, c).ok
    BY <2>1 DEF Reply, Replies
  <2> QED
    BY <1>1, <2>2, <2>3, GoneStep
<1> QED
  BY <1>2, <1>3

\* A request is carried out for the first time.
LEMMA FirstAccept ==
    ASSUME IInv, NEW m \in flight, flight' = flight \ {m}, ~m.read,
           m.txn = 0 \/ m.txn > known[m.session],
           known' = IF m.txn = 0 THEN known
                    ELSE [known EXCEPT ![m.session] = m.txn],
           applied' = [applied EXCEPT ![m.op] = @ + 1],
           UNCHANGED <<pc, op, elig, path, attempt, allowed, ret, reply, saved,
                       report>>,
           UNCHANGED <<session, number, txn, dirty, pool>>,
           NEW r \in Replies, Answer(m, r), r.op = m.op,
           ~NoWrites(r) /\ ~Overloaded(r)
    PROVE  IInv'
<1>0. /\ TypeOK /\ m \in Requests /\ m.op \in Ops /\ m.session \in Sessions
      /\ m.txn \in Nat
  BY DEF IInv, TypeOK, Requests
<1>1. /\ applied[m.op] = 0 /\ m.txn <= number[m.session]
  BY DEF IInv, NumbersOK
<1>2. \A o \in Ops : applied'[o] = IF o = m.op THEN 1 ELSE applied[o]
  BY <1>0, <1>1 DEF TypeOK
<1>3. \A x \in Sessions :
        known'[x] = IF x = m.session /\ m.txn > 0 THEN m.txn ELSE known[x]
  BY <1>0 DEF TypeOK
<1>4. TypeOK'
  <2>1. inbox' \in Seq(Replies)
    BY AnswerArrives
  <2>2. applied' \in [Ops -> Nat] /\ known' \in [Sessions -> Nat]
    BY <1>0 DEF TypeOK
  <2> QED
    BY <1>0, <2>1, <2>2 DEF TypeOK
<1>5. AtMostOnce' /\ OpsOK'
  BY <1>0, <1>2 DEF IInv, AtMostOnce, OpsOK, Begun
<1>6. NumbersOK'
  <2>1. \A x \in Sessions : known'[x] <= number[x]
    BY <1>0, <1>1, <1>3 DEF IInv, NumbersOK
  <2>2. ASSUME NEW x \in flight, x # m
        PROVE  /\ x.txn <= number[x.session]
               /\ x.read => x.txn = 0
               /\ x.txn = 0 => applied'[x.op] = 0
               /\ x.txn > known'[x.session] => applied'[x.op] = 0
               /\ x.txn > 0 /\ x.txn = known'[x.session] => applied'[x.op] = 1
    <3>0. x \in Requests /\ x.op \in Ops /\ x.session \in Sessions /\ x.txn \in Nat
      BY <1>0 DEF TypeOK, Requests
    <3>1. known[x.session] \in Nat
      BY <1>0, <3>0 DEF TypeOK
    <3>2. /\ x.txn <= number[x.session]
          /\ x.read => x.txn = 0
          /\ x.txn = 0 => applied[x.op] = 0
          /\ x.txn > known[x.session] => applied[x.op] = 0
          /\ x.txn > 0 /\ x.txn = known[x.session] => applied[x.op] = 1
      BY DEF IInv, NumbersOK
    <3>3. CASE x.op = m.op
      <4>1. x.session = m.session /\ x.txn = m.txn /\ m.txn > 0
        BY <1>0, <2>2, <3>3 DEF IInv, RequestsOK
      <4> QED
        BY <1>0, <1>2, <1>3, <3>0, <3>2, <3>3, <4>1
    <3>4. CASE x.op # m.op
      <4>1. applied'[x.op] = applied[x.op]
        BY <1>2, <3>0, <3>4
      <4>2. m.txn > 0 /\ x.session = m.session => x.txn # m.txn
        BY <3>4 DEF IInv, RequestsOK
      <4> QED
        BY <1>0, <1>3, <3>0, <3>1, <3>2, <4>1, <4>2
    <3> QED
      BY <3>3, <3>4
  <2> QED
    BY <2>1, <2>2 DEF NumbersOK
<1>7. RequestsOK'
  BY DEF IInv, RequestsOK
<1>8. \A o : Late(o)' = Late(o) \ {m}
  BY DEF Late
<1>9. CurrentOK'
  <2> SUFFICES ASSUME pc # "idle" PROVE CurrentOK'
    BY DEF CurrentOK
  <2>0. op \in Ops /\ session \in Sessions /\ txn \in Nat /\ known[session] \in Nat
    BY <1>0 DEF TypeOK
  <2>1. m.op = op => /\ m.session = session /\ m.txn = txn /\ elig # "read"
    BY DEF IInv, CurrentOK, Late
  <2>2. elig = "write" =>
          /\ txn > 0 /\ txn = number[session]
          /\ txn > known[session] => applied[op] = 0
          /\ txn = known[session] => applied[op] = 1
          /\ m.session = session /\ m.txn = txn => m.op = op
    BY DEF IInv, CurrentOK
  <2>3. elig = "write" =>
          /\ txn > known'[session] => applied'[op] = 0
          /\ txn = known'[session] => applied'[op] = 1
    <3>1. CASE m.op = op
      BY <1>0, <1>2, <1>3, <2>0, <2>1, <2>2, <3>1
    <3>2. CASE m.op # op
      BY <1>0, <1>1, <1>2, <1>3, <2>0, <2>2, <3>2
    <3> QED
      BY <3>1, <3>2
  <2>4. elig = "read" => applied'[op] = 0
    BY <1>2, <2>0, <2>1 DEF IInv, CurrentOK
  <2> QED
    BY <1>8, <2>3, <2>4 DEF IInv, CurrentOK
<1>10. /\ m.open => /\ pc = "wait" /\ m.op = op /\ inbox' = <<r>>
                    /\ Head(inbox') = r
                    /\ \A x \in flight : x.open => x = m
       /\ ~m.open => inbox' = inbox
  BY OpenAwaited, AnswerArrives
<1>11. StreamOK'
  <2>1. pc # "idle" => applied'[op] = 1 \/ applied'[op] = applied[op]
    BY <1>0, <1>2 DEF TypeOK
  <2>2. m.open => applied'[op] = 1
    BY <1>0, <1>2, <1>10
  <2> QED
    BY <1>10, <2>1, <2>2 DEF IInv, StreamOK
<1>12. RefusedOK'
  <2>1. CASE pc # "idle" /\ m.op # op
    <3>1. applied'[op] = applied[op] /\ inbox' = inbox
      BY <1>0, <1>2, <1>10, <2>1 DEF TypeOK
    <3> QED
      BY <1>8, <3>1 DEF IInv, RefusedOK, Refused, SaysNone
  <2>2. CASE pc # "idle" /\ m.op = op
    <3>1. m \in Late(op)
      BY <2>2 DEF Late
    <3>2. pc = "send" => ~Refused
      BY <3>1 DEF IInv, RefusedOK
    <3>3. pc = "wait" /\ Refused => Late(op)' = {} /\ inbox' = <<r>> /\ Head(inbox') = r
      BY <1>8, <1>10, <3>1 DEF IInv, RefusedOK, Late
    <3>4. /\ pc \in {"decide", "select"} /\ elig = "write" => ~NoWrites(saved)
          /\ pc \in {"decide", "select"} /\ elig \notin {"read", "write"} =>
               ~NoWrites(saved) /\ ~Overloaded(reply)
      BY <3>1 DEF IInv, RefusedOK
    <3> QED
      BY <3>2, <3>3, <3>4 DEF IInv, RefusedOK, Refused, SaysNone
  <2>3. CASE pc = "idle"
    BY <2>3 DEF RefusedOK
  <2> QED
    BY <2>1, <2>2, <2>3
<1>13. ReportsOK'
  <2>1. report[m.op] # Nil => /\ report[m.op].elig # "read"
                              /\ ~NoWrites(report[m.op].reply)
    BY <1>0 DEF IInv, ReportsOK, Late
  <2> QED
    BY <1>0, <1>2, <1>8, <2>1 DEF IInv, ReportsOK
<1> QED
  BY <1>4, <1>5, <1>6, <1>7, <1>9, <1>11, <1>12, <1>13 DEF IInv

\* The server answers that a request is carried out.
LEMMA AcceptStep ==
    ASSUME IInv, NEW m \in flight, Accept(m)
    PROVE  IInv'
<1>0. /\ TypeOK /\ m.op \in Ops /\ m.session \in Sessions /\ m.txn \in Nat
      /\ known[m.session] \in Nat
  BY DEF IInv, TypeOK, Requests
<1>1. /\ flight' = flight \ {m}
      /\ UNCHANGED <<pc, op, elig, path, attempt, allowed, ret, reply, saved,
                     report>>
      /\ UNCHANGED <<session, number, txn, dirty, pool>>
      /\ m.txn = 0 \/ m.txn >= known[m.session]
      /\ known' = IF m.txn = 0 THEN known
                  ELSE [known EXCEPT ![m.session] = m.txn]
  BY DEF Accept, runVars, sessVars
<1>2. PICK r \in Replies :
        /\ Answer(m, r) /\ r.op = m.op
        /\ ~NoWrites(r) /\ ~Overloaded(r)
  <2>1. PICK l \in {{}, {"RetryableWriteError"}}, c \in Codes :
          Answer(m, Reply(m.op, TRUE, l, c))
    BY DEF Accept, WithNumber, Codes
  <2>2. /\ Reply(m.op, TRUE, l, c) \in Replies
        /\ Reply(m.op, TRUE, l, c).op = m.op
        /\ ~NoWrites(Reply(m.op, TRUE, l, c))
        /\ ~Overloaded(Reply(m.op, TRUE, l, c))
    BY <1>0 DEF Reply, Replies, Labels, NoWrites, Overloaded
  <2> QED
    BY <2>1, <2>2
<1>3. CASE m.read \/ (m.txn > 0 /\ m.txn = known[m.session])
  <2>1. applied' = applied
    BY <1>3 DEF Accept
  <2>2. known' = known
    <3>1. m.txn = 0 \/ m.txn = known[m.session]
      BY <1>3 DEF IInv, NumbersOK
    <3> QED
      BY <1>0, <1>1, <3>1 DEF TypeOK
  <2>3. m.read \/ applied[m.op] = 1
    BY <1>3 DEF IInv, NumbersOK
  <2> QED
    BY <1>1, <1>2, <2>1, <2>2, <2>3, GoneStep
<1>4. CASE ~(m.read \/ (m.txn > 0 /\ m.txn = known[m.session]))
  <2>1. applied' = [applied EXCEPT ![m.op] = @ + 1]
    BY <1>4 DEF Accept
  <2>2. ~m.read /\ (m.txn = 0 \/ m.txn > known[m.session])
    BY <1>0, <1>1, <1>4
  <2> QED
    BY <1>1, <1>2, <2>1, <2>2, FirstAccept
<1> QED
  BY <1>3, <1>4

-----------------------------------------------------------------------------
(***************************************************************************)
(* The theorems.                                                            *)
(***************************************************************************)

\* IInv is an invariant: it holds at first and every step of the client, the
\* network and the server keeps it.
THEOREM Invariance == Spec => []IInv
<1>1. IInv /\ [Next]_vars => IInv'
  <2> SUFFICES ASSUME IInv, [Next]_vars PROVE IInv'
    OBVIOUS
  <2>1. CASE UNCHANGED vars
    BY <2>1 DEF vars, runVars, sessVars, netVars, serverVars, IInv, TypeOK,
       AtMostOnce, OpsOK, NumbersOK, RequestsOK, CurrentOK, StreamOK,
       RefusedOK, ReportsOK, Begun, Late, Refused, SaysNone
  <2>2. CASE Client
    BY <2>2, StartStep, SendStep, ReceiveStep, NetworkErrorStep, DecideStep,
       SelectStep DEF Client
  <2>3. CASE Network
    BY <2>3, AcceptStep, RefuseStep DEF Network
  <2> QED
    BY <2>1, <2>2, <2>3 DEF Next
<1> QED
  BY <1>1, InitOK, PTL DEF Spec

\* Every variable of the client and of the server keeps its type.
THEOREM TypeCorrect == Spec => []TypeOK
  BY Invariance, PTL DEF IInv

\* However many attempts are sent, lost, late or answered twice, no command
\* takes effect twice.
THEOREM NoDoubleEffect == Spec => []AtMostOnce
  BY Invariance, PTL DEF IInv

\* No caller gets the answer to another command.
THEOREM AnswersBelong == Spec => []AnswersMatch
<1>1. IInv => AnswersMatch
  BY DEF IInv, ReportsOK, AnswersMatch
<1> QED
  BY <1>1, Invariance, PTL

\* A write that is reported as done has taken effect.
THEOREM SuccessIsTrue == Spec => []OkMeansApplied
<1>1. IInv => OkMeansApplied
  BY DEF IInv, ReportsOK, OkMeansApplied
<1> QED
  BY <1>1, Invariance, PTL

\* An error that promises that nothing was written is right, and stays right.
THEOREM NoWritesIsTrue == Spec => []NoWritesMeansNone
<1>1. IInv => NoWritesMeansNone
  BY DEF IInv, ReportsOK, NoWritesMeansNone, NoWrites, Late
<1> QED
  BY <1>1, Invariance, PTL

-----------------------------------------------------------------------------
(***************************************************************************)
(* The refinement: every step is a step of Command, or changes nothing     *)
(* that a caller is promised.                                              *)
(***************************************************************************)

\* The abstract state.
BegunSet == {o \in Ops : report[o] # Nil \/ (pc # "idle" /\ o = op)}
ToldAll  == [o \in Ops |-> Told(o)]
absVars  == <<BegunSet, applied, ToldAll>>

\* A step that leaves the reports, the effects and the running command alone.
LEMMA Stutters ==
    ASSUME report' = report, applied' = applied, op' = op,
           pc # "idle" <=> pc' # "idle"
    PROVE  UNCHANGED absVars
<1>1. BegunSet' = BegunSet
  BY DEF BegunSet
<1>2. ToldAll' = ToldAll
  BY DEF ToldAll, Told
<1> QED
  BY <1>1, <1>2 DEF absVars

\* Start begins a command.
LEMMA BeginStep ==
    ASSUME IInv, NEW o \in Ops, NEW e \in Eligible, Start(o, e)
    PROVE  Abstract!Begin(o)
<1>1. pc = "idle" /\ pc' = "send" /\ op' = o /\ report' = report /\ applied' = applied
  BY DEF Start, serverVars
<1>2. report[o] = Nil
  <2>1. o >= o
    BY RetryAssumption DEF Ops
  <2> QED
    BY <2>1 DEF Start
<1>3. BegunSet = {x \in Ops : report[x] # Nil}
  BY <1>1 DEF BegunSet
<1>4. BegunSet' = BegunSet \cup {o}
  BY <1>1, <1>3 DEF BegunSet
<1>5. ToldAll' = ToldAll
  BY <1>1 DEF ToldAll, Told
<1>6. o \notin BegunSet
  BY <1>2, <1>3
<1>7. ASSUME NEW d \in BegunSet PROVE ToldAll[d] # "nothing"
  <2>1. d \in Ops /\ report[d] # Nil
    BY <1>3
  <2> QED
    BY <2>1 DEF ToldAll, Told
<1> QED
  BY <1>1, <1>4, <1>5, <1>6, <1>7 DEF Abstract!Begin, BegunSet, ToldAll

\* Return tells the caller what is true.
LEMMA TellStep ==
    ASSUME IInv, IInv', Return, pc # "idle", applied' = applied,
           saved \in Replies, NEW o \in Ops, o = op
    PROVE  \E t \in Abstract!Outcomes : Abstract!Tell(o, t)
<1>1. /\ elig \in Eligible /\ ret \in BOOLEAN
      /\ report \in [Ops -> Reports \cup {Nil}]
  BY DEF IInv, TypeOK
<1> DEFINE r == [elig |-> elig, ret |-> ret, reply |-> saved]
<1>2. r \in Reports
  BY <1>1 DEF Reports
<1>3. r # Nil
  BY <1>2, RetryAssumption
<1>4. report' = [report EXCEPT ![o] = r] /\ pc' = "idle"
  BY DEF Return
<1>5. report'[o] = r /\ \A x \in Ops : x # o => report'[x] = report[x]
  BY <1>1, <1>4
<1>6. report[o] = Nil
  BY DEF IInv, OpsOK
<1>7. BegunSet' = BegunSet /\ o \in BegunSet
  BY <1>3, <1>4, <1>5 DEF BegunSet
<1>8. PICK t : t = Told(o)'
  OBVIOUS
<1>9. report'[o] # Nil
  BY <1>3, <1>5
<1> HIDE DEF r
<1>10. t \in Abstract!Outcomes
  BY <1>8, <1>9 DEF Told, Abstract!Outcomes
<1>11. /\ report'[o].ret => report'[o].elig = "read" \/ applied'[o] = 1
       /\ report'[o].elig = "read" => applied'[o] = 0
       /\ report'[o].elig # "read" /\ NoWrites(report'[o].reply) =>
            applied'[o] = 0
  BY <1>9 DEF IInv, ReportsOK
<1>12. t = "ok" => applied[o] = 1
  BY <1>8, <1>9, <1>11 DEF Told
<1>13. t \in {"read", "untouched"} => applied[o] = 0
  BY <1>8, <1>9, <1>11 DEF Told, NoWrites
<1>14. ToldAll[o] = "nothing"
  BY <1>6 DEF ToldAll, Told
<1>15. ToldAll' = [ToldAll EXCEPT ![o] = t]
  <2>1. \A x \in Ops : Told(x)' = IF x = o THEN t ELSE Told(x)
    BY <1>5, <1>8 DEF Told
  <2> QED
    BY <2>1 DEF ToldAll
<1>16. Abstract!Tell(o, t)
  BY <1>7, <1>12, <1>13, <1>14, <1>15 DEF Abstract!Tell, BegunSet, ToldAll
<1> QED
  BY <1>10, <1>16

\* Accept has an effect only on a command that had none, and whose caller does
\* not believe otherwise.
LEMMA EffectStep ==
    ASSUME IInv, NEW m \in flight, Accept(m), applied' # applied
    PROVE  Abstract!Effect(m.op)
<1>1. m \in Requests /\ applied \in [Ops -> Nat]
  BY DEF IInv, TypeOK
<1>2. m.op \in Ops /\ m.session \in Sessions /\ m.txn \in Nat
  BY <1>1 DEF Requests
<1>3. PICK o \in Ops : o = m.op
  BY <1>2
<1>4. /\ ~m.read
      /\ ~(m.txn > 0 /\ m.txn = known[m.session])
      /\ applied' = [applied EXCEPT ![o] = @ + 1]
  BY <1>3 DEF Accept
<1>5. applied[o] = 0
  <2>1. known[m.session] \in Nat
    BY <1>2 DEF IInv, TypeOK
  <2>2. m.txn = 0 \/ m.txn > known[m.session]
    BY <1>2, <1>4, <2>1 DEF Accept
  <2> QED
    BY <1>3, <2>2 DEF IInv, NumbersOK
<1>6. applied' = [applied EXCEPT ![o] = 1]
  BY <1>1, <1>4, <1>5
<1>7. o \in BegunSet
  BY <1>3 DEF IInv, OpsOK, Begun, BegunSet
<1>8. Told(o) \in {"nothing", "error"}
  <2> SUFFICES ASSUME report[o] # Nil
               PROVE  /\ report[o].elig # "read"
                      /\ ~report[o].ret
                      /\ ~NoWrites(report[o].reply)
    BY DEF Told, NoWrites
  <2>1. m \in Late(o)
    BY <1>3 DEF Late
  <2>2. report[o].elig # "read"
    BY <1>4, <2>1 DEF IInv, ReportsOK
  <2> QED
    BY <1>5, <2>1, <2>2 DEF IInv, ReportsOK
<1>9. report' = report /\ pc' = pc /\ op' = op
  BY DEF Accept, runVars
<1>10. BegunSet' = BegunSet /\ ToldAll' = ToldAll
  BY <1>9 DEF BegunSet, ToldAll, Told
<1>11. ToldAll[o] \in {"nothing", "error"}
  BY <1>8 DEF ToldAll
<1>12. Abstract!Effect(o)
  BY <1>5, <1>6, <1>7, <1>10, <1>11 DEF Abstract!Effect, BegunSet, ToldAll
<1> QED
  BY <1>3, <1>12

\* Retries, transaction numbers and streams implement Command: however requests
\* are lost and delayed, a command takes effect once at most, and never after
\* its caller was told that it has succeeded or that nothing was written.
THEOREM RetryImplementsCommand == Spec => ImplementsCommand
<1>1. Init => Abstract!Init
  <2> SUFFICES ASSUME Init PROVE Abstract!Init
    OBVIOUS
  <2>1. BegunSet = {}
    BY DEF Init, BegunSet
  <2>2. \A o \in Ops : Told(o) = "nothing"
    BY DEF Init, Told
  <2> QED
    BY <2>1, <2>2 DEF Init, Abstract!Init, BegunSet
<1>2. ASSUME IInv, IInv', [Next]_vars
      PROVE  [Abstract!Next]_absVars
  <2> DEFINE Steps == \E c \in Ops : \/ Abstract!Begin(c)
                                    \/ Abstract!Effect(c)
                                    \/ \E t \in Abstract!Outcomes : Abstract!Tell(c, t)
  <2>1. Steps => Abstract!Next
    BY DEF Abstract!Next
  <2> SUFFICES Steps \/ UNCHANGED absVars
    BY <2>1
  <2>2. CASE \E o \in Ops, e \in Eligible : Start(o, e)
    BY <1>2, <2>2, BeginStep
  <2>3. CASE Send \/ Receive \/ NetworkError \/ Selected \/ UNCHANGED vars
    <3>1. /\ report' = report /\ applied' = applied /\ op' = op
          /\ pc # "idle" <=> pc' # "idle"
      BY <2>3 DEF Send, Receive, NetworkError, Selected, Executed, runVars,
         serverVars, vars
    <3> QED
      BY <3>1, Stutters
  <2>4. ASSUME Return, pc \in {"decide", "select"}, applied' = applied
        PROVE  Steps
    <3>1. op \in Ops /\ saved \in Replies /\ pc # "idle"
      BY <1>2, <2>4 DEF IInv, TypeOK
    <3>2. PICK o \in Ops : o = op
      BY <3>1
    <3> QED
      BY <1>2, <2>4, <3>1, <3>2, TellStep
  <2>5. CASE Decide
    <3>1. CASE Return
      BY <2>4, <2>5, <3>1 DEF Decide, serverVars
    <3>2. CASE ~Return
      <4>1. /\ report' = report /\ applied' = applied /\ op' = op
            /\ pc # "idle" /\ pc' # "idle"
        BY <2>5, <3>2 DEF Decide, serverVars
      <4> QED
        BY <4>1, Stutters
    <3> QED
      BY <3>1, <3>2
  <2>6. CASE NotSelected
    BY <2>4, <2>6 DEF NotSelected, serverVars
  <2>7. CASE Network
    <3>1. PICK m \in flight : Accept(m) \/ Refuse(m) \/ Lose(m)
      BY <2>7 DEF Network
    <3>2. m.op \in Ops
      BY <1>2 DEF IInv, TypeOK, Requests
    <3>3. CASE Accept(m) /\ applied' # applied
      BY <1>2, <3>2, <3>3, EffectStep
    <3>4. CASE (Accept(m) /\ applied' = applied) \/ Refuse(m) \/ Lose(m)
      <4>1. /\ report' = report /\ applied' = applied /\ op' = op
            /\ pc # "idle" <=> pc' # "idle"
        BY <3>4 DEF Accept, Refuse, Lose, runVars, serverVars
      <4> QED
        BY <4>1, Stutters
    <3> QED
      BY <3>1, <3>3, <3>4
  <2> QED
    BY <1>2, <2>2, <2>3, <2>5, <2>6, <2>7 DEF Next, Client
<1> QED
  BY <1>1, <1>2, Invariance, PTL
     DEF Spec, ImplementsCommand, Abstract!Spec, absVars, BegunSet, ToldAll

-----------------------------------------------------------------------------
(***************************************************************************)
(* Why commands return: their distance from the end of an attempt, and the *)
(* number of attempts.                                                     *)
(***************************************************************************)

\* How far an attempt is from its end, and how many retries there may be.
Distance == [select |-> 4, send |-> 3, wait |-> 2, decide |-> 1, idle |-> 0][pc]
MaxRetries == IF MaxAdaptive > 1 THEN MaxAdaptive ELSE 1

\* Why it returns: each step of the client gets the attempt nearer to its end or
\* counts it, and none is made beyond the last that any mixture of errors
\* allows; the network only takes requests away.
Advances ==
    [][pc # "idle" =>
         \/ attempt < attempt' /\ attempt <= MaxRetries
         \/ attempt' = attempt /\ Distance' < Distance
         \/ UNCHANGED <<pc, attempt>> /\ flight' # flight
              /\ flight' \subseteq flight]_vars

\* A command that runs has retries left, also if the last error raised or
\* lowered how many there may be.
AttemptsOK ==
    /\ allowed <= MaxRetries
    /\ pc # "idle" => attempt <= allowed

\* AttemptsOK is kept.
LEMMA AttemptsInductive == IInv /\ AttemptsOK /\ [Next]_vars => AttemptsOK'
<1> SUFFICES ASSUME IInv, AttemptsOK, [Next]_vars PROVE AttemptsOK'
  OBVIOUS
<1>1. attempt \in Nat /\ allowed \in Nat /\ MaxRetries \in Nat /\ MaxAdaptive <= MaxRetries
      /\ 1 <= MaxRetries /\ MaxAdaptive \in Nat
  BY RetryAssumption DEF IInv, TypeOK, MaxRetries
<1>2. CASE \E o \in Ops, e \in Eligible : Start(o, e)
  BY <1>1, <1>2 DEF Start, AttemptsOK
<1>3. CASE Decide
  <2>1. PICK n \in Nat : n = attempt + 1
    BY <1>1
  <2>2. PICK most \in Nat : /\ most = IF Overload THEN MaxAdaptive ELSE allowed
                            /\ most <= MaxRetries
    BY <1>1 DEF AttemptsOK
  <2>3. CASE Retryable
    <3>1. /\ attempt' = n /\ allowed' = most
          /\ IF attempt' > most THEN Return ELSE pc' = "select"
      BY <1>3, <2>1, <2>2, <2>3 DEF Decide, Counted
    <3>2. n > most => pc' = "idle"
      BY <3>1 DEF Return
    <3> QED
      BY <2>2, <3>1, <3>2 DEF AttemptsOK
  <2>4. CASE ~Retryable
    BY <1>3, <2>4 DEF Decide, Return, AttemptsOK
  <2> QED
    BY <2>3, <2>4
<1>4. CASE \/ Send \/ Receive \/ NetworkError \/ Selected \/ NotSelected
           \/ Network \/ UNCHANGED vars
  <2>1. /\ attempt' = attempt /\ allowed' = allowed
        /\ pc' # "idle" => pc # "idle"
    BY <1>4 DEF Send, Receive, NetworkError, Selected, NotSelected, Network,
       Executed, Accept, Refuse, Lose, Return, runVars, vars
  <2> QED
    BY <2>1 DEF AttemptsOK
<1> QED
  BY <1>2, <1>3, <1>4 DEF Next, Client

\* Every step of a command gets its attempt nearer to the end, or counts it, and
\* the count is bounded whatever mixture of errors the attempts meet: with the
\* fairness of FairSpec this is why Returns holds, for any bound on retries.
THEOREM CommandsAdvance == Spec => Advances
<1> DEFINE Step == \/ attempt < attempt' /\ attempt <= MaxRetries
                   \/ attempt' = attempt /\ Distance' < Distance
                   \/ UNCHANGED <<pc, attempt>> /\ flight' # flight
                        /\ flight' \subseteq flight
<1>1. Init => AttemptsOK
  BY RetryAssumption DEF Init, AttemptsOK, MaxRetries
<1>2. ASSUME IInv, AttemptsOK, Next, pc # "idle" PROVE Step
  <2>1. CASE \E o \in Ops, e \in Eligible : Start(o, e)
    BY <1>2, <2>1 DEF Start
  <2>2. CASE Send \/ Receive \/ NetworkError \/ Selected \/ NotSelected
    <3>1. /\ attempt' = attempt
          /\ \/ pc = "send" /\ pc' = "wait"
             \/ pc = "wait" /\ pc' = "decide"
             \/ pc = "select" /\ pc' \in {"send", "idle"}
      BY <2>2 DEF Send, Receive, NetworkError, Selected, NotSelected, Executed,
         Return, runVars
    <3> QED
      BY <3>1 DEF Distance
  <2>3. CASE Decide
    <3>1. CASE Retryable
      <4>1. attempt' = attempt + 1
        BY <2>3, <3>1 DEF Decide, Counted
      <4>2. attempt \in Nat /\ allowed \in Nat /\ MaxRetries \in Nat
        BY <1>2, RetryAssumption DEF IInv, TypeOK, MaxRetries
      <4> QED
        BY <1>2, <4>1, <4>2 DEF AttemptsOK
    <3>2. CASE ~Retryable
      <4>1. attempt' = attempt /\ pc = "decide" /\ pc' = "idle"
        BY <2>3, <3>2 DEF Decide, Return
      <4> QED
        BY <4>1 DEF Distance
    <3> QED
      BY <3>1, <3>2
  <2>4. CASE Network
    <3>1. PICK m \in flight : flight' = flight \ {m} /\ UNCHANGED <<pc, attempt>>
      BY <2>4 DEF Network, Accept, Refuse, Lose, runVars
    <3> QED
      BY <3>1
  <2> QED
    BY <1>2, <2>1, <2>2, <2>3, <2>4 DEF Next, Client
<1>3. IInv /\ AttemptsOK /\ [Next]_vars => [pc # "idle" => Step]_vars
  BY <1>2
<1> QED
  BY <1>1, <1>3, AttemptsInductive, Invariance, PTL DEF Spec, Advances
=============================================================================
