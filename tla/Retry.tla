-------------------------------- MODULE Retry --------------------------------
(***************************************************************************)
(* One command after another on libmongoc's connection: sent, answered,    *)
(* lost, late, and tried again.  Inserts, updates with one document and     *)
(* removals of one are retryable writes, with a transaction number by which *)
(* the server knows an attempt it has already carried out; other writes     *)
(* have none; reads are classified by the code of their error.             *)
(*                                                                         *)
(* The network and the server are external.  A request stays under way      *)
(* until the server takes it, long after the client has given up if need    *)
(* be, or is lost; its reply goes to the stream it came from.  The servers  *)
(* of a set are one server here, which remembers the transaction numbers of *)
(* a session across an election (the writes are replicated with them).      *)
(* Which server is selected is the subject of Topology.tla.                 *)
(***************************************************************************)
EXTENDS Integers, Sequences, FiniteSets

CONSTANTS NumOps,       \* bound: commands the client runs
          Eligible,     \* how they may be retried
          MaxAdaptive,  \* client->max_adaptive_retries
          MaxFlight,    \* bound: requests under way at once
          Nil

Ops      == 1 .. NumOps
Sessions == Ops

Labels == {"RetryableWriteError", "NoWritesPerformed", "SystemOverloadedError",
           "RetryableError"}
Codes  == {"none", "network", "notPrimary", "overloaded", "other",
           "writeConcern"}

\* A reply: which command it answers, whether the server says ok, its labels
\* and the kind of its error.
Replies == [op : Ops, ok : BOOLEAN, labels : SUBSET Labels, code : Codes]

\* What the caller of a command is told.
Reports == [elig : Eligible, ret : BOOLEAN, reply : Replies]

ASSUME RetryAssumption ==
    /\ Eligible \subseteq {"none", "overload", "read", "write"}
    /\ NumOps \in Nat /\ MaxAdaptive \in Nat /\ MaxFlight \in Nat \ {0}
    /\ Nil \notin Nat /\ Nil \notin Replies /\ Nil \notin Reports

VARIABLES
    pc,        \* where the client is
    op,        \* the command it runs
    elig,      \* retry_eligibility
    path,      \* the function that runs it: for reads or for writes
    attempt, allowed,   \* the counters of _mongoc_retryable_cmd_run
    ret,       \* what execute returned
    reply,     \* and the reply it filled in
    saved,     \* reply_and_error, the one that will be returned
    report,    \* what the caller of each command was told
    session,   \* the server session of the command
    number,    \* txn_number of each server session
    txn,       \* txnNumber in the command
    dirty,     \* the session met a network error
    pool,      \* the session in the pool, if there is one
    inbox,     \* replies that arrived on the stream and were not read
    flight,    \* requests under way
    known,     \* the server: last transaction number of each session
    applied    \* the server: how often each command took effect

runVars    == <<op, elig, path, attempt, allowed, ret, reply, saved, report>>
sessVars   == <<session, number, txn, dirty, pool>>
netVars    == <<inbox, flight>>
serverVars == <<known, applied>>
vars       == <<pc, runVars, sessVars, netVars, serverVars>>

Reply(o, k, l, e) == [op |-> o, ok |-> k, labels |-> l, code |-> e]
-----------------------------------------------------------------------------
(* The client.                                                              *)

SameNumber(s) == IF number[s] = 0 THEN 1 ELSE number[s]

\* ++txn_number, for the first attempt of each retryable write.
NextNumber(s) == number[s] + 1

\* Who runs a command: mongoc_cluster_run_retryable_write runs inserts, updates
\* and removals, _mongoc_client_retryable_read_command_with_stream everything
\* else, writes among it, of which it retries none but for overload.
Paths(e) == CASE e = "read" -> {"read"}
              [] e = "write" -> {"write"}
              [] OTHER -> {"read", "write"}

\* A command begins, with the session from the pool or a new one.
Start(o, e) ==
    LET s == IF pool # Nil THEN pool ELSE o
    IN  /\ pc = "idle" /\ \A p \in Ops : report[p] = Nil <=> p >= o
        /\ op' = o /\ elig' = e /\ path' \in Paths(e)
        /\ session' = s /\ pool' = Nil
        /\ number' = IF e = "write" THEN [number EXCEPT ![s] = NextNumber(s)]
                                    ELSE number
        /\ txn' = IF e = "write" THEN NextNumber(s) ELSE 0
        /\ attempt' = 0
        /\ allowed' = IF e = "overload" THEN 0 ELSE 1
        /\ saved' = Nil
        /\ pc' = "send"
        /\ UNCHANGED <<ret, reply, report, dirty, netVars, serverVars>>

\* mongoc_cluster_run_opmsg writes the request to the stream.
Send ==
    /\ pc = "send" /\ Cardinality(flight) < MaxFlight
    /\ \E n \in 1 .. MaxFlight :
         /\ \A m \in flight : m.n # n
         /\ \A k \in 1 .. n - 1 : \E m \in flight : m.n = k
         /\ flight' = flight \cup
              {[n |-> n, op |-> op, session |-> session, txn |-> txn,
                read |-> elig = "read", open |-> TRUE]}
    /\ pc' = "wait"
    /\ UNCHANGED <<runVars, sessVars, inbox, serverVars>>

SaveLast(r) == r
SaveNever(r) == saved

\* _retryable_write_execute: a reply that says no write was performed never
\* replaces another one.  On the path for reads the last reply is returned.
Save(r) ==
    IF path = "write" /\ saved # Nil /\ "NoWritesPerformed" \in r.labels
    THEN saved ELSE r

\* execute returns.
Executed(r, k) ==
    /\ reply' = r
    /\ ret' = k
    /\ saved' = Save(r)
    /\ pc' = "decide"

\* A reply is read from the stream.
Receive ==
    /\ pc = "wait" /\ inbox # <<>>
    /\ inbox' = Tail(inbox)
    /\ Executed(Head(inbox), Head(inbox).ok)
    /\ UNCHANGED <<op, elig, path, attempt, allowed, report, sessVars, flight,
                   serverVars>>

\* _mongoc_write_error_handle_labels, for a network error.
NetworkLabels ==
    IF elig = "write" THEN {"RetryableWriteError"} ELSE {}

KeepStream == inbox' = inbox /\ flight' = flight

\* mongoc_cluster_disconnect_node: the next command gets a new stream, and
\* what is still to come on this one is never read.
Disconnect ==
    /\ inbox' = <<>>
    /\ flight' = {[m EXCEPT !.open = FALSE] : m \in flight}

\* The stream is closed, or socketTimeoutMS is over: _handle_network_error.
NetworkError ==
    /\ pc = "wait"
    /\ Disconnect
    /\ dirty' = dirty \cup {session}
    /\ Executed(Reply(op, FALSE, NetworkLabels, "network"), FALSE)
    /\ UNCHANGED <<op, elig, path, attempt, allowed, report, session, number,
                   txn, pool, serverVars>>

Overload == "SystemOverloadedError" \in reply.labels

RetryAnyNetworkError ==
    \/ elig # "none" /\ reply.code \in {"network", "notPrimary"}
    \/ elig # "none" /\ Overload /\ "RetryableError" \in reply.labels

\* What _mongoc_retryable_cmd_run takes for worth another attempt.
Retryable ==
    \/ elig = "read" /\ reply.code \in {"network", "notPrimary"}
    \/ elig = "write" /\ "RetryableWriteError" \in reply.labels
    \/ elig # "none" /\ Overload /\ "RetryableError" \in reply.labels

NotCounted == attempt
Counted == attempt + 1

Return ==
    /\ report' = [report EXCEPT ![op] = 
                    [elig |-> elig, ret |-> ret, reply |-> saved]]
    /\ pool' = IF session \in dirty THEN Nil ELSE session
    /\ pc' = "idle"

\* After an attempt: return, or select a server for the next one.
Decide ==
    /\ pc = "decide"
    /\ IF Retryable
       THEN LET most == IF Overload THEN MaxAdaptive ELSE allowed
            IN  /\ attempt' = Counted
                /\ allowed' = most
                /\ IF attempt' > most THEN Return
                   ELSE pc' = "select" /\ UNCHANGED <<report, pool>>
       ELSE Return /\ UNCHANGED <<attempt, allowed>>
    /\ UNCHANGED <<op, elig, path, ret, reply, saved, session, number, txn,
                   dirty, netVars, serverVars>>

Selected ==
    /\ pc = "select"
    /\ pc' = "send"
    /\ UNCHANGED <<runVars, sessVars, netVars, serverVars>>

\* No server for the retry: the earlier result is returned.
NotSelected ==
    /\ pc = "select"
    /\ Return
    /\ UNCHANGED <<op, elig, path, attempt, allowed, ret, reply, saved, session,
                   number, txn, dirty, netVars, serverVars>>

-----------------------------------------------------------------------------
(* The network and the server.                                              *)

\* The reply r to m: to the stream m came from, if the client still has it.
Answer(m, r) ==
    inbox' = IF m.open THEN Append(inbox, r) ELSE inbox

\* Labels for an error of a command with a transaction number.
WithNumber(m) == IF m.txn > 0 THEN {"RetryableWriteError"} ELSE {}

\* The server carries m out, or finds that it did so already; a write concern
\* that was not met is reported on top of that.
Accept(m) ==
    /\ m \in flight /\ (m.txn = 0 \/ m.txn >= known[m.session])
    /\ flight' = flight \ {m}
    /\ applied' = IF m.read \/ (m.txn > 0 /\ m.txn = known[m.session])
                  THEN applied ELSE [applied EXCEPT ![m.op] = @ + 1]
    /\ known' = IF m.txn = 0 THEN known
                ELSE [known EXCEPT ![m.session] = m.txn]
    /\ \/ Answer(m, Reply(m.op, TRUE, {}, "none"))
       \/ ~m.read /\ Answer(m, Reply(m.op, TRUE, WithNumber(m),
                                     "writeConcern"))
    /\ UNCHANGED <<pc, runVars, sessVars>>

\* The server does not carry m out: it is no primary, it is overloaded, the
\* transaction number is an old one, or the command is wrong.
Refuse(m) ==
    /\ m \in flight
    /\ flight' = flight \ {m}
    /\ \E none \in {{}, {"NoWritesPerformed"}} :
         \/ Answer(m, Reply(m.op, FALSE, WithNumber(m) \cup none,
                            "notPrimary"))
         \/ Answer(m, Reply(m.op, FALSE, none \cup
                     {"SystemOverloadedError", "RetryableError"},
                            "overloaded"))
         \/ Answer(m, Reply(m.op, FALSE, {}, "other"))
    /\ UNCHANGED <<pc, runVars, sessVars, serverVars>>

\* m is lost.
Lose(m) ==
    /\ m \in flight
    /\ flight' = flight \ {m}
    /\ UNCHANGED <<pc, runVars, sessVars, inbox, serverVars>>

-----------------------------------------------------------------------------
Init ==
    /\ pc = "idle" /\ op = Nil /\ elig = "none" /\ path = "write"
    /\ attempt = 0 /\ allowed = 0
    /\ ret = FALSE /\ reply = Nil /\ saved = Nil
    /\ report = [o \in Ops |-> Nil]
    /\ session = Nil /\ number = [s \in Sessions |-> 0] /\ txn = 0
    /\ dirty = {} /\ pool = Nil
    /\ inbox = <<>> /\ flight = {}
    /\ known = [s \in Sessions |-> 0] /\ applied = [o \in Ops |-> 0]

Client ==
    \/ \E o \in Ops, e \in Eligible : Start(o, e)
    \/ Send \/ Receive \/ NetworkError \/ Decide \/ Selected \/ NotSelected

Network == \E m \in flight : Accept(m) \/ Refuse(m) \/ Lose(m)

Next == Client \/ Network

Spec == Init /\ [][Next]_vars

\* The client runs on; a read from the stream ends with socketTimeoutMS; and
\* no request is under way for ever.
FairSpec == Spec /\ WF_vars(Client) /\ WF_vars(Network)

-----------------------------------------------------------------------------
(* Properties.                                                              *)

\* Requests under way: who sent them, with which number, and whether the
\* stream they came on is still the client's.
Requests == [n : 1 .. MaxFlight, op : Ops, session : Sessions, txn : Nat,
             read : BOOLEAN, open : BOOLEAN]

\* Types of the client's and of the server's state.
TypeOK ==
    /\ pc \in {"idle", "send", "wait", "decide", "select"}
    /\ elig \in Eligible \cup {"none"} /\ path \in Paths(elig)
    /\ attempt \in Nat /\ allowed \in Nat /\ ret \in BOOLEAN
    /\ reply \in Replies \cup {Nil} /\ saved \in Replies \cup {Nil}
    /\ pc \in {"decide", "select"} => reply \in Replies /\ saved \in Replies
    /\ report \in [Ops -> Reports \cup {Nil}]
    /\ pool \in Sessions \cup {Nil} /\ dirty \subseteq Sessions
    /\ pc # "idle" => op \in Ops /\ session \in Sessions /\ elig \in Eligible
    /\ number \in [Sessions -> Nat] /\ txn \in Nat
    /\ inbox \in Seq(Replies) /\ flight \subseteq Requests
    /\ known \in [Sessions -> Nat] /\ applied \in [Ops -> Nat]

\* However often it is sent, lost and sent again, and however late a request
\* arrives, no command takes effect twice.
AtMostOnce == \A o \in Ops : applied[o] <= 1

\* The answer to a command is the answer to that command: one that comes after
\* the client has given up is never read as the answer to the next.
AnswersMatch == \A o \in Ops : report[o] # Nil => report[o].reply.op = o

\* A write that is reported to have succeeded has taken effect: the server did
\* not take it for an attempt of the one before it.
OkMeansApplied ==
    \A o \in Ops : report[o] # Nil /\ report[o].ret =>
        applied[o] = 1 \/ report[o].elig = "read"

\* An error with the label NoWritesPerformed says that the caller may run the
\* command again: none of its attempts took effect, or ever will.
NoWritesMeansNone ==
    \A o \in Ops :
        report[o] # Nil /\ "NoWritesPerformed" \in report[o].reply.labels =>
            applied[o] = 0 /\ \A m \in flight : m.op = o => m.read

\* A command is retried a bounded number of times: it returns.
Returns == pc # "idle" ~> pc = "idle"

\* What the reply of a command tells its caller.
Told(o) ==
    IF report[o] = Nil THEN "nothing"
    ELSE IF report[o].elig = "read" THEN "read"
    ELSE IF report[o].ret THEN "ok"
    ELSE IF "NoWritesPerformed" \in report[o].reply.labels THEN "untouched"
    ELSE "error"

Abstract == INSTANCE Command WITH
    Commands <- Ops,
    begun    <- {o \in Ops : report[o] # Nil \/ (pc # "idle" /\ o = op)},
    times    <- applied,
    told     <- [o \in Ops |-> Told(o)]

\* With all its attempts, numbers and late requests, the driver runs commands
\* as Command says: after a caller was told "ok" or "untouched" nothing changes
\* any more, and only an error leaves open what a late request still does.
ImplementsCommand == Abstract!Spec
=============================================================================
