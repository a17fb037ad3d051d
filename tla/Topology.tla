------------------------------ MODULE Topology ------------------------------
(***************************************************************************)
(* What a mongolite client knows of the deployment it talks to: libmongoc's *)
(* topology description, the scanner that keeps it up to date, and the      *)
(* selection of a server for an operation.  mongolite creates its clients   *)
(* with mongoc_client_new_from_uri, so everything here is single-threaded:  *)
(* nothing is monitored in the background, a scan blocks the operation that *)
(* needs it, and the replies of a scan are handled one at a time, in the    *)
(* order in which they happen to arrive.                                    *)
(*                                                                          *)
(* The servers are external: each is what it would answer to a hello, and   *)
(* elections, reconfigurations and failures change that at any time.  Two   *)
(* servers may both claim to be the primary.                                *)
(*                                                                          *)
(* An operation here is one attempt to reach a writable server; Retry.tla   *)
(* is about what is done with an attempt that failed.                       *)
(***************************************************************************)
EXTENDS Integers, Sequences

CONSTANTS Addr,        \* addresses, as strings in a URI or in a list of hosts
          Me,          \* Me[a]: the address the server at a has for itself
          Uris,        \* connection strings: [seeds, set, direct]
          Configs,     \* Configs[v]: the members in version v of the set
          Records,     \* Records[a]: how many DNS records the host of a has
          Starts,      \* what the servers may be at first, and their releases
          Strays,      \* what else a server may turn into
          MaxElections, MaxChanges, MaxTimeouts,  \* bounds on the servers
          NoSet, Nobody

Servers == {Me[a] : a \in Addr}

\* A server that is "closing" refuses everything until it stops.
Kinds == {"down", "closing", "primary", "secondary", "arbiter", "other",
          "standalone", "mongos", "ghost", "alien"}

\* Releases: 1 is MongoDB 4.2, 2 is 4.4 to 5.3, with the topologyVersion, and
\* 3 is 6.0 and later, with the other rule to compare primaries.
Releases == 1 .. 3
Versioned(r) == r >= 2
ElectionFirst(r) == r >= 3

ASSUME TopologyAssumption ==
    /\ Me \in [Addr -> Addr]
    /\ Configs \in Seq(SUBSET Servers) /\ Configs # <<>>
    /\ Uris \subseteq [seeds : SUBSET Addr, set : {NoSet, "rs"},
                       direct : {"unset", "yes", "no"}]
    /\ \A u \in Uris : /\ u.seeds # {}
                       /\ u.direct = "yes" => \E a \in Addr : u.seeds = {a}
    /\ Records \in [Addr -> Nat \ {0}]
    /\ Starts \subseteq [Servers -> [kind : Kinds, rel : Releases]]
    /\ Strays \subseteq Kinds
    /\ MaxElections \in Nat /\ MaxChanges \in Nat /\ MaxTimeouts \in Nat
    /\ Nobody \notin Addr /\ NoSet \notin {"rs", "other"}

VARIABLES
    truth,      \* what each server is, and what it knows of its set
    elections, config, changes, timeouts,
    dead,       \* addresses whose stream was closed by the server
    td,         \* mongoc_topology_description_t
    stale,      \* topology->stale
    nodes,      \* addresses of the scanner's nodes
    retired,    \* nodes whose server was removed during this scan
    conn,       \* nodes that have a stream
    cool,       \* nodes in cooldown: their last hello failed
    lasterr,    \* nodes whose last_error is set
    snubbed,    \* nodes whose handshake_sd is of a hello that was refused
    trying,     \* trying[a]: commands that connect to a node
    sent,       \* sent[a]: a hello is sent, on the node's stream or a new one
    pc,         \* where the operation is
    phase,      \* which selection this is, or that a stream is fetched
    tried,      \* `tried_once'
    chosen,     \* server_id
    result,     \* how the last operation ended
    best,       \* history: the primary that was accepted last
    suspect     \* history: servers that failed an operation and have not
                \* answered a hello since

setVars  == <<truth, elections, config, changes, timeouts>>
cmdVars  == <<trying, sent>>
scanVars == <<nodes, retired, conn, cool, lasterr, snubbed, cmdVars>>
opVars   == <<pc, phase, tried, chosen, result>>
vars     == <<setVars, dead, td, stale, scanVars, opVars, best, suspect>>

\* Nodes whose hello is sent, and those with any command under way.
Asked   == {a \in Addr : sent[a] # "no"}
Pending == {a \in Addr : sent[a] # "no" \/ trying[a] > 0}

-----------------------------------------------------------------------------
(* Server descriptions.                                                     *)

\* A description of which nothing is known; tv is its topologyVersion, or 0.
Reset == [type |-> "Unknown", election |-> 0, setv |-> -1, hello |-> FALSE,
          tv |-> 0]

\* A description is reset: its topologyVersion stays.
Forget(d) == [Reset EXCEPT !.tv = d.tv]

\* mongoc_server_description_topology_version_cmp, where both have one.
NotNewer(old, new) == old # 0 /\ new # 0 /\ old >= new
Older(old, new) == old # 0 /\ new # 0 /\ old > new

\* The type of the server that sent this hello.
ServerType(h) ==
    CASE h.role = "mongos"                    -> "Mongos"
      [] h.set # NoSet /\ h.role = "primary"   -> "RSPrimary"
      [] h.set # NoSet /\ h.role = "secondary" -> "RSSecondary"
      [] h.set # NoSet /\ h.role = "arbiter"   -> "RSArbiter"
      [] h.set # NoSet /\ h.role = "other"     -> "RSOther"
      [] h.role = "ghost"                     -> "RSGhost"
      [] OTHER                                -> "Standalone"

\* A hello that was refused (ok: 0) says nothing, but it is an answer.
Describe(h) ==
    IF h.ok THEN [type |-> ServerType(h), election |-> h.election,
                  setv |-> h.setv, hello |-> TRUE, tv |-> h.tv]
            ELSE [Reset EXCEPT !.hello = TRUE]

-----------------------------------------------------------------------------
(* The topology description and what a hello does to it.                    *)

HasPrimary(t) == \E a \in DOMAIN t.sd : t.sd[a].type = "RSPrimary"

UpdateRsType(t) ==
    [t EXCEPT !.type = IF HasPrimary(t) THEN "RSWithPrimary"
                                        ELSE "RSNoPrimary"]

RemoveServer(t, a) ==
    [t EXCEPT !.sd = [x \in DOMAIN t.sd \ {a} |-> t.sd[x]]]

AddPrimaryToo(t, h) ==
    [t EXCEPT !.sd = [x \in DOMAIN t.sd \cup h.hosts \cup {h.primary} |->
                        IF x \in DOMAIN t.sd THEN t.sd[x] ELSE Reset]]
AddNewServers(t, h) ==
    [t EXCEPT !.sd = [x \in DOMAIN t.sd \cup h.hosts |->
                        IF x \in DOMAIN t.sd THEN t.sd[x] ELSE Reset]]

RemoveUnreported(t, h) ==
    [t EXCEPT !.sd = [x \in DOMAIN t.sd \cap h.hosts |-> t.sd[x]]]

KeepPrimaries(t, a) == t

\* Another primary is no longer believed; a primary that is, is a newer one.
InvalidatePrimaries(t, a) ==
    [t EXCEPT !.sd = [x \in DOMAIN t.sd |->
        IF x # a /\ t.sd[x].type = "RSPrimary" THEN Forget(t.sd[x])
                                                ELSE t.sd[x]]]

LabelUnknownMember(t, p) ==
    [t EXCEPT !.sd = [x \in DOMAIN t.sd |->
        IF x = p /\ t.sd[x].type = "Unknown"
        THEN [t.sd[x] EXCEPT !.type = "PossiblePrimary"] ELSE t.sd[x]]]

MatchesMe(a, h) == h.me = a

InvalidateRemoves(t, a) ==
    LET u == RemoveServer(t, a)
    IN  IF u.type = "RSWithPrimary" THEN UpdateRsType(u) ELSE u

\* A hello that failed: the server becomes Unknown.
InvalidateServer(t, a) ==
    LET u == [t EXCEPT !.sd[a] = Forget(t.sd[a])]
    IN  IF u.type = "RSWithPrimary" THEN UpdateRsType(u) ELSE u

\* (x1, x2) is at least (y1, y2).
AtLeast(x1, x2, y1, y2) == x1 > y1 \/ (x1 = y1 /\ x2 >= y2)

NeverStale(t, h) == FALSE

\* Whether this primary was elected before the one known already, by the rule
\* for its own release.
IsStale(t, h) ==
    IF ElectionFirst(h.rel) THEN ~AtLeast(h.election, h.setv, t.maxe, t.maxv)
                            ELSE ~AtLeast(h.setv, h.election, t.maxv, t.maxe)

RememberElection(t, h) == [t EXCEPT !.maxe = h.election, !.maxv = h.setv]

PrimaryUnnamed(t, a, h) ==
    IF IsStale(t, h)
    THEN UpdateRsType(InvalidateServer(t, a))
    ELSE LET v == InvalidatePrimaries(RememberElection(t, h), a)
         IN  UpdateRsType(RemoveUnreported(AddNewServers(v, h), h))

UpdateRsFromPrimary(t, a, h) ==
    IF t.set \notin {NoSet, h.set}
    THEN UpdateRsType(RemoveServer(t, a))
    ELSE LET u == [t EXCEPT !.set = h.set]
         IN  IF IsStale(u, h)
             THEN UpdateRsType(InvalidateServer(u, a))
             ELSE LET v == InvalidatePrimaries(RememberElection(u, h), a)
                  IN  UpdateRsType(RemoveUnreported(AddNewServers(v, h), h))

UpdateRsWithoutPrimary(t, a, h) ==
    IF t.set \notin {NoSet, h.set}
    THEN RemoveServer(t, a)
    ELSE LET u == AddNewServers([t EXCEPT !.set = h.set], h)
             v == IF h.primary # Nobody THEN LabelUnknownMember(u, h.primary)
                                        ELSE u
         IN  IF MatchesMe(a, h) THEN v ELSE RemoveServer(v, a)

UpdateRsWithPrimaryFromMember(t, a, h) ==
    IF t.set # h.set THEN UpdateRsType(RemoveServer(t, a))
    ELSE IF ~MatchesMe(a, h) THEN RemoveServer(t, a)
    ELSE IF ~HasPrimary(t) /\ h.primary # Nobody
    THEN LabelUnknownMember([t EXCEPT !.type = "RSNoPrimary"], h.primary)
    ELSE t

SingleAlways(t, a) == [t EXCEPT !.type = "Single"]

UpdateUnknownWithStandalone(t, a) ==
    IF DOMAIN t.sd # {a} THEN RemoveServer(t, a)
                         ELSE [t EXCEPT !.type = "Single"]

\* gSDAMTransitionTable, by the type of the server and of the topology.
Transition(t, a, h) ==
    LET from(types) == t.sd[a].type \in types
        member == {"RSSecondary", "RSArbiter", "RSOther"}
    IN  CASE t.type = "Single" -> t
          [] t.type = "Unknown" /\ from({"Standalone"}) ->
                UpdateUnknownWithStandalone(t, a)
          [] t.type = "Unknown" /\ from({"Mongos"}) ->
                [t EXCEPT !.type = "Sharded"]
          [] t.type = "Unknown" /\ from(member) ->
                UpdateRsWithoutPrimary([t EXCEPT !.type = "RSNoPrimary"], a, h)
          [] t.type \notin {"Single", "Sharded"} /\ from({"RSPrimary"}) ->
                UpdateRsFromPrimary(t, a, h)
          [] t.type = "Sharded" /\ ~from({"Mongos", "Unknown"}) ->
                RemoveServer(t, a)
          [] t.type = "RSNoPrimary" /\ from({"Standalone", "Mongos"}) ->
                RemoveServer(t, a)
          [] t.type = "RSNoPrimary" /\ from(member) ->
                UpdateRsWithoutPrimary(t, a, h)
          [] t.type = "RSWithPrimary" /\ from({"Standalone", "Mongos"}) ->
                UpdateRsType(RemoveServer(t, a))
          [] t.type = "RSWithPrimary" /\ from(member) ->
                UpdateRsWithPrimaryFromMember(t, a, h)
          [] t.type = "RSWithPrimary" /\ from({"RSGhost", "Unknown"}) ->
                UpdateRsType(t)
          [] OTHER -> t

\* A hello was answered.  An answer older than what is known is ignored.  A
\* server of the wrong set, where the URI names one server and a set, counts
\* as a server that did not answer.
HandleHello(t, a, h) ==
    LET wrong == t.type = "Single" /\ t.set \notin {NoSet, h.set}
        d     == IF wrong THEN Forget(Describe(h)) ELSE Describe(h)
    IN  IF Older(t.sd[a].tv, h.tv) THEN t
                                   ELSE Transition([t EXCEPT !.sd[a] = d], a, h)

-----------------------------------------------------------------------------
(* The servers: external.  Each keeps answering from what it last knew.     *)

Members == Configs[config]

\* What the server reached at an address answers to a hello.
Hello(a) ==
    LET s == truth[Me[a]]
        rs == s.kind \in {"primary", "secondary", "arbiter", "other"}
    IN  [ok       |-> s.kind # "closing",
         rel      |-> s.rel,
         tv       |-> IF s.kind # "closing" THEN s.tv ELSE 0,
         role     |-> IF s.kind = "alien" THEN "primary" ELSE s.kind,
         set      |-> IF rs THEN "rs"
                      ELSE IF s.kind = "alien" THEN "other" ELSE NoSet,
         me       |-> Me[a],
         primary  |-> s.primary,
         hosts    |-> IF rs THEN Configs[s.setv]
                      ELSE IF s.kind = "alien" THEN {Me[a]} ELSE {},
         election |-> s.election,
         setv     |-> s.setv]

\* A server's topologyVersion, after the one it had: 0 where there is none.
NextVersion(r, v) == IF Versioned(r) THEN v + 1 ELSE 0

\* s is now a server of this kind, election, configuration and primary.
Change(s, k, e, v, p) ==
    /\ changes < MaxChanges
    /\ changes' = changes + 1
    /\ truth' = [truth EXCEPT ![s] =
                   [kind |-> k, election |-> e, setv |-> v, primary |-> p,
                    rel |-> truth[s].rel,
                    tv |-> NextVersion(truth[s].rel, truth[s].tv)]]
    /\ UNCHANGED <<timeouts, td, stale, scanVars, opVars, best, suspect>>

\* s wins an election, with the last configuration or with the one it knows;
\* an earlier primary may not know of it yet.
Elect(s) ==
    /\ s \in Members /\ elections < MaxElections
    /\ truth[s].kind # "closing"
    /\ elections' = elections + 1
    /\ \E v \in {config, truth[s].setv} :
         Change(s, "primary", elections + 1, v, s)
    /\ UNCHANGED <<config, dead>>

\* s is a secondary that has heard of the primary p, or of none.
Follow(s, p) ==
    /\ s \in Members /\ p # s /\ truth[s].kind # "closing"
    /\ Change(s, "secondary", 0, config, p)
    /\ UNCHANGED <<elections, config, dead>>

\* s is told to stop.
ShutDown(s) ==
    /\ truth[s].kind \notin {"closing", "down"}
    /\ Change(s, "closing", 0, config, Nobody)
    /\ UNCHANGED <<elections, config, dead>>

\* s stops, and every stream to it is closed.
Fail(s) ==
    /\ truth[s].kind # "down"
    /\ dead' = dead \cup {a \in conn \cup Asked : Me[a] = s}
    /\ Change(s, "down", 0, config, Nobody)
    /\ UNCHANGED <<elections, config>>

\* s, which does not run, is replaced by a later release.
Upgrade(s) ==
    /\ truth[s].kind = "down" /\ truth[s].rel + 1 \in Releases
    /\ changes < MaxChanges
    /\ changes' = changes + 1
    /\ truth' = [truth EXCEPT ![s].rel = truth[s].rel + 1]
    /\ UNCHANGED <<elections, config, timeouts, dead, td, stale, scanVars,
                   opVars, best, suspect>>

\* Something else is started at the address of s.
Stray(s, k) ==
    /\ truth[s].kind # "closing"
    /\ Change(s, k, IF k = "alien" THEN 1 ELSE 0, config, Nobody)
    /\ UNCHANGED <<elections, config, dead>>

\* The primary installs the next configuration of the set.
Reconfig(s) ==
    /\ truth[s].kind = "primary" /\ truth[s].setv = config
    /\ config < Len(Configs) /\ s \in Configs[config + 1]
    /\ config' = config + 1
    /\ Change(s, "primary", truth[s].election, config + 1, s)
    /\ UNCHANGED <<elections, dead>>

Environment ==
    \E s \in Servers :
        \/ Elect(s) \/ ShutDown(s) \/ Fail(s) \/ Upgrade(s) \/ Reconfig(s)
        \/ \E p \in Members \cup {Nobody} : Follow(s, p)
        \/ \E k \in Strays : Stray(s, k)

-----------------------------------------------------------------------------
(* The scanner.                                                             *)

\* The operation ends.
Done(r) == pc' = "idle" /\ result' = r

\* The next description, and the primary that was accepted last: the one it
\* has, or one that is not in its own list of hosts.
Describes(t) ==
    /\ td' = t
    /\ best' = IF t.type = "Single" THEN best
               ELSE IF ~HasPrimary(t) THEN [e |-> t.maxe, v |-> t.maxv]
               ELSE LET p == CHOOSE a \in DOMAIN t.sd :
                                t.sd[a].type = "RSPrimary"
                    IN  [e |-> t.sd[p].election, v |-> t.sd[p].setv]

\* A scan begins.  Servers described since the last one get their node, and
\* every node that is not in cooldown is set up: a hello takes its stream if it
\* has one, otherwise there is a command for each DNS record.  A node that is
\* new is set up twice, when it is added and with the others.
StartScan ==
    LET all == DOMAIN td.sd
        ask == all \ cool
    IN  /\ nodes' = all
        /\ trying' = [a \in Addr |->
                        IF a \notin ask \ conn THEN 0
                        ELSE IF a \in nodes THEN Records[a]
                        ELSE Records[a] + Records[a]]
        /\ sent' = [a \in Addr |-> IF a \in ask \cap conn THEN "kept"
                                                          ELSE "no"]
        /\ conn' = (conn \ ask) \cap all
        /\ cool' = cool \cap all
        /\ lasterr' = lasterr \cap all
        /\ snubbed' = snubbed \cap all
        /\ retired' = {}
        /\ pc' = "scan"

\* Nodes follow the description t after a hello was handled, while the commands
\* in left connect: a new node is set up, and one that is gone is retired, with
\* its commands, which are not cancelled.
Reconcile(t, left) ==
    LET new  == DOMAIN t.sd \ (nodes \cup retired)
        gone == nodes \ DOMAIN t.sd
    IN  /\ nodes' = (nodes \ gone) \cup new
        /\ retired' = retired \cup gone
        /\ trying' = [x \in Addr |-> IF x \in new THEN Records[x] ELSE left[x]]

OnlySelf(a) == [trying EXCEPT ![a] = trying[a] - 1]

\* The other commands of the node end.
CancelSiblings(a) == [trying EXCEPT ![a] = 0]

\* One of a node's commands has connected, and sends its hello.
Connected(a) ==
    /\ trying[a] > 0 /\ a \notin retired /\ truth[Me[a]].kind # "down"
    /\ trying' = CancelSiblings(a)
    /\ sent' = [sent EXCEPT ![a] = "fresh"]
    /\ UNCHANGED <<setVars, dead, td, stale, nodes, retired, conn, cool,
                   lasterr, snubbed, opVars, best, suspect>>

\* One of several commands did not connect: a DNS record that leads nowhere.
\* (A node that has connected before tries the record it used, as if the
\* others had failed.)
AttemptFails(a) ==
    /\ trying[a] > 1 /\ a \notin retired
    /\ trying' = [trying EXCEPT ![a] = trying[a] - 1]
    /\ UNCHANGED <<setVars, dead, td, stale, nodes, retired, conn, cool,
                   lasterr, snubbed, sent, opVars, best, suspect>>

\* The hello of a node was answered; the first one on a stream is kept with it.
ReplyOk(a) ==
    /\ a \in Asked \ retired /\ truth[Me[a]].kind # "down" /\ a \notin dead
    /\ LET t == HandleHello(td, a, Hello(a))
       IN  Describes(t) /\ Reconcile(t, trying)
    /\ sent' = [sent EXCEPT ![a] = "no"]
    /\ conn' = conn \cup {a}
    /\ cool' = cool \ {a}
    /\ snubbed' = CASE sent[a] = "kept"                      -> snubbed
                    [] sent[a] = "fresh" /\ Hello(a).ok      -> snubbed \ {a}
                    [] sent[a] = "fresh" /\ ~Hello(a).ok     -> snubbed \cup {a}
    /\ suspect' = suspect \ {a}
    /\ UNCHANGED <<setVars, dead, stale, lasterr, opVars>>

\* The last command of a node failed or timed out.  A server that was known is
\* asked once more, on new streams, in this scan.
ReplyFail(a) ==
    /\ a \notin retired
    /\ \/ trying[a] = 1 /\ a \notin Asked /\ truth[Me[a]].kind = "down"
       \/ trying[a] = 0 /\ a \in Asked
          /\ (truth[Me[a]].kind = "down" \/ a \in dead)
    /\ cool' = cool \cup {a}
    /\ lasterr' = lasterr \cup {a}
    /\ dead' = dead \ {a}
    /\ snubbed' = snubbed \ {a}
    /\ sent' = [sent EXCEPT ![a] = "no"]
    /\ LET t == InvalidateServer(td, a)
       IN  /\ Describes(t)
           /\ IF td.sd[a].type # "Unknown"
              THEN /\ trying' = [trying EXCEPT ![a] = Records[a]]
                   /\ UNCHANGED <<nodes, retired>>
              ELSE Reconcile(t, [trying EXCEPT ![a] = 0])
    /\ UNCHANGED <<setVars, stale, conn, opVars, suspect>>

\* The commands of a node retired since end, and are not looked at.
ReplyRetired(a) ==
    /\ a \in Pending \cap retired
    /\ trying' = [trying EXCEPT ![a] = 0]
    /\ sent' = [sent EXCEPT ![a] = "no"]
    /\ dead' = dead \ {a}
    /\ UNCHANGED <<setVars, td, stale, nodes, retired, conn, cool, lasterr,
                   snubbed, opVars, best, suspect>>

\* Nothing is under way any more: the errors of all nodes are summed up, for
\* the operation if it waits for a stream, and then retired nodes are deleted
\* with their streams.  An error of the client ends the operation: the stream
\* is not fetched again.
EndScan ==
    /\ pc = "scan" /\ Pending = {}
    /\ stale' = FALSE
    /\ retired' = {}
    /\ conn' = conn \cap nodes
    /\ cool' = cool \cap nodes
    /\ lasterr' = lasterr \cap nodes
    /\ snubbed' = snubbed \cap nodes
    /\ IF phase = "fetch" /\ lasterr # {} THEN Done("connect")
       ELSE /\ pc' = IF phase = "fetch" THEN "fetched" ELSE "select"
            /\ UNCHANGED result
    /\ dead' = dead \cap conn'
    /\ UNCHANGED <<setVars, td, nodes, cmdVars, phase, tried, chosen, best,
                   suspect>>

\* Five seconds after a failure, a node is asked again.
CooldownEnds(a) ==
    /\ a \in cool
    /\ cool' = cool \ {a}
    /\ UNCHANGED <<setVars, dead, td, stale, nodes, retired, conn, lasterr,
                   snubbed, cmdVars, opVars, best, suspect>>

-----------------------------------------------------------------------------
(* One operation: select a server, check its stream, fetch it, use it.      *)

\* Servers an operation that writes may use.
Suitable(t) ==
    CASE t.type = "Single"        -> {a \in DOMAIN t.sd : t.sd[a].hello}
      [] t.type = "RSWithPrimary" ->
            {a \in DOMAIN t.sd : t.sd[a].type = "RSPrimary"}
      [] t.type = "Sharded"       ->
            {a \in DOMAIN t.sd : t.sd[a].type = "Mongos"}
      [] OTHER                    -> {}

Begin ==
    /\ pc = "idle"
    /\ pc' = "enter" /\ phase' = "first" /\ result' = "none"
    /\ chosen' = Nobody
    /\ UNCHANGED <<setVars, dead, td, stale, scanVars, tried, best, suspect>>

\* A selection begins; the last scan may be a heartbeat ago.
Enter ==
    /\ pc = "enter"
    /\ IF nodes = {} THEN Done("select") /\ UNCHANGED <<tried, stale>>
       ELSE /\ pc' = "select" /\ tried' = FALSE
            /\ stale' \in {stale, TRUE}
            /\ UNCHANGED result
    /\ UNCHANGED <<setVars, dead, td, scanVars, phase, chosen, best, suspect>>

\* The description is stale: scan.
Rescan ==
    /\ pc = "select" /\ stale
    /\ StartScan
    /\ tried' = TRUE
    /\ UNCHANGED <<setVars, dead, td, stale, phase, chosen, result, best,
                   suspect>>

\* The last scan was less than half a second ago and every node will still be
\* in cooldown when the next may begin.
TooEarly ==
    /\ pc = "select" /\ stale /\ nodes \subseteq cool
    /\ Done("select")
    /\ UNCHANGED <<setVars, dead, td, stale, scanVars, phase, tried, chosen,
                   best, suspect>>

StillFresh == FALSE

\* No server is suitable: scan before the next attempt.
StaleWhenNone == TRUE

\* A suitable server is taken, if there is one.
Pick ==
    /\ pc = "select" /\ ~stale
    /\ \/ /\ chosen' \in Suitable(td)
          /\ pc' = IF phase = "first" THEN "check" ELSE "fetch"
          /\ UNCHANGED <<stale, result>>
       \/ /\ Suitable(td) = {}
          /\ stale' = StaleWhenNone
          /\ IF tried THEN Done("select") ELSE UNCHANGED <<pc, result>>
          /\ UNCHANGED chosen
    /\ UNCHANGED <<setVars, dead, td, scanVars, phase, tried, best, suspect>>

DestroyNode(a) ==
    /\ nodes' = nodes \ {a} /\ conn' = conn \ {a} /\ dead' = dead \ {a}
    /\ snubbed' = snubbed \ {a}

\* The stream is given up, with its handshake; the node stays.
Disconnect(a) ==
    /\ nodes' = nodes /\ conn' = conn \ {a} /\ dead' = dead \ {a}
    /\ snubbed' = snubbed \ {a}

\* A stream that was not used for a while is looked at: without a node, or a
\* stream that is open, the server is selected a second time.
CheckInterval ==
    /\ pc = "check"
    /\ \/ /\ chosen \notin nodes \cap conn
          /\ pc' = "enter" /\ phase' = "second"
          /\ UNCHANGED <<nodes, conn, dead, snubbed, td, best>>
       \/ /\ chosen \in nodes \cap conn \cap dead
          /\ pc' = "enter" /\ phase' = "second"
          /\ Disconnect(chosen)
          /\ Describes(InvalidateServer(td, chosen))
       \/ /\ chosen \in nodes \cap conn
          /\ pc' = "fetch"
          /\ UNCHANGED <<nodes, conn, dead, snubbed, phase, td, best>>
    /\ UNCHANGED <<setVars, stale, retired, cool, lasterr, cmdVars, tried,
                   chosen, result, suspect>>

\* A stream is used if its handshake was not refused.
WithStream(ready) ==
    IF ready /\ chosen \notin snubbed THEN pc' = "use" /\ UNCHANGED result
                                      ELSE Done("connect")

\* The stream of the selected server, or a scan to connect to it again.  The
\* errors for a server without a node or with a retired one are not here:
\* ChosenHasNode says that they cannot happen.
Fetch ==
    /\ pc = "fetch"
    /\ \/ /\ chosen \in conn /\ WithStream(TRUE)
          /\ UNCHANGED <<scanVars, phase>>
       \/ /\ chosen \notin conn /\ StartScan /\ phase' = "fetch"
          /\ UNCHANGED result
    /\ UNCHANGED <<setVars, dead, td, stale, tried, chosen, best, suspect>>

\* After that scan.  A stream that is missing without an error is that of a
\* removed server: it is fetched once more, which fails at once because there
\* is no node, and the first error stands.  (A host name that does not resolve
\* is not modelled.)
Fetched ==
    /\ pc = "fetched"
    /\ WithStream(chosen \in nodes \cap conn)
    /\ UNCHANGED <<setVars, dead, td, stale, scanVars, phase, tried, chosen,
                   best, suspect>>

\* The command is sent.
UseOk ==
    /\ pc = "use" /\ chosen \notin dead
    /\ truth[Me[chosen]].kind \in {"primary", "standalone", "mongos", "alien"}
    /\ Done("ok")
    /\ UNCHANGED <<setVars, dead, td, stale, scanVars, phase, tried, chosen,
                   best, suspect>>

\* The server closed the stream: it is Unknown, and the stream is given up.
\* (SystemOverloadedError, which keeps the description, is a label for streams
\* of client pools that fail before their first hello.)
NetworkError ==
    /\ pc = "use" /\ chosen \in dead
    /\ Disconnect(chosen)
    /\ Describes(InvalidateServer(td, chosen))
    /\ suspect' = suspect \cup {chosen}
    /\ Done("network")
    /\ UNCHANGED <<setVars, stale, retired, cool, lasterr, cmdVars, phase,
                   tried, chosen>>

\* The reply is not there in time: only the stream is given up.
Timeout ==
    /\ pc = "use" /\ timeouts < MaxTimeouts
    /\ timeouts' = timeouts + 1
    /\ Disconnect(chosen)
    /\ suspect' = suspect \cup {chosen}
    /\ Done("timeout")
    /\ UNCHANGED <<truth, elections, config, changes, td, stale, retired, cool,
                   lasterr, cmdVars, phase, tried, chosen, best>>

\* How a server refuses to write: as not the primary, as one that recovers, or
\* as one that shuts down.
Refusal(k) == CASE k \in {"secondary", "arbiter", "ghost"} -> "notprimary"
                [] k = "other"                            -> "recovering"
                [] k = "closing"                          -> "shutdown"
                [] OTHER                                  -> "none"

ErrorIgnored(t, a, v) == t

\* An error that comes with the topologyVersion v and is not older than the
\* description makes the server Unknown.
HandleAppError(t, a, v) ==
    InvalidateServer([t EXCEPT !.sd[a].tv = v], a)

\* The server refuses the command.  What the description knows already is no
\* news; otherwise the server is Unknown, the next selection scans if it is
\* not the primary, and the stream is given up if it shuts down.
NotPrimary ==
    LET refusal == Refusal(truth[Me[chosen]].kind)
    IN  /\ pc = "use" /\ chosen \notin dead /\ refusal # "none"
        /\ IF NotNewer(td.sd[chosen].tv, truth[Me[chosen]].tv)
           THEN UNCHANGED <<dead, td, stale, nodes, conn, snubbed, best,
                            suspect>>
           ELSE /\ Describes(HandleAppError(td, chosen, truth[Me[chosen]].tv))
                /\ stale' = (stale \/ refusal = "notprimary")
                /\ suspect' = suspect \cup {chosen}
                /\ IF refusal = "shutdown" THEN Disconnect(chosen)
                   ELSE UNCHANGED <<dead, nodes, conn, snubbed>>
        /\ Done("notprimary")
        /\ UNCHANGED <<setVars, retired, cool, lasterr, cmdVars, phase, tried,
                       chosen>>

-----------------------------------------------------------------------------
\* The type a description starts with.
InitType(u) ==
    LET one == \E a \in Addr : u.seeds = {a}
    IN  CASE u.direct = "yes"                        -> "Single"
          [] u.direct # "yes" /\ u.set # NoSet       -> "RSNoPrimary"
          [] u.direct = "unset" /\ u.set = NoSet /\ one -> "Single"
          [] OTHER                                   -> "Unknown"

Init ==
    /\ config = 1 /\ elections = 1 /\ changes = 0 /\ timeouts = 0
    /\ \E f \in Starts :
         LET primaries == {s \in Servers : f[s].kind = "primary"}
             p == IF primaries = {} THEN Nobody
                                    ELSE CHOOSE s \in primaries : TRUE
         IN  truth = [s \in Servers |->
                        [kind |-> f[s].kind, setv |-> 1, rel |-> f[s].rel,
                         tv |-> NextVersion(f[s].rel, 0),
                         election |-> IF f[s].kind = "primary" THEN 1 ELSE 0,
                         primary |-> IF f[s].kind \in {"primary", "secondary"}
                                     THEN p ELSE Nobody]]
    /\ \E u \in Uris :
         /\ td = [type |-> InitType(u), set |-> u.set, maxe |-> 0,
                  maxv |-> -1, sd |-> [a \in u.seeds |-> Reset]]
         /\ nodes = u.seeds
    /\ dead = {} /\ stale = TRUE /\ retired = {} /\ conn = {} /\ cool = {}
    /\ lasterr = {} /\ snubbed = {}
    /\ trying = [a \in Addr |-> 0] /\ sent = [a \in Addr |-> "no"]
    /\ pc = "idle" /\ phase = "first" /\ tried = FALSE /\ chosen = Nobody
    /\ result = "none"
    /\ best = [e |-> 0, v |-> -1] /\ suspect = {}

Scan == \/ \E a \in Addr : \/ Connected(a) \/ AttemptFails(a)
                            \/ ReplyOk(a) \/ ReplyFail(a) \/ ReplyRetired(a)
        \/ EndScan

Operation == \/ Begin \/ Enter \/ Rescan \/ TooEarly \/ Pick \/ CheckInterval
             \/ Fetch \/ Fetched \/ UseOk \/ NetworkError \/ Timeout
             \/ NotPrimary

Next == Environment \/ Scan \/ Operation \/ \E a \in Addr : CooldownEnds(a)

Spec == Init /\ [][Next]_vars

\* A command of a scan goes on or ends.
CommandMoves ==
    /\ pc = "scan" /\ Pending # {}
    /\ trying' \in [Addr -> UNION {0 .. Records[a] + Records[a] : a \in Addr}]
    /\ sent' \in [Addr -> {"no", "kept", "fresh"}]

\* Every command ends, by an answer or by connectTimeoutMS; a cooldown ends; and
\* a session that keeps using its collection starts operation after operation.
FairSpec == Spec /\ WF_cmdVars(CommandMoves) /\ WF_pc(EndScan)
                 /\ WF_vars(Operation)
                 /\ \A a \in Addr : WF_vars(CooldownEnds(a))

-----------------------------------------------------------------------------
(* Properties.                                                              *)

ServerTypes == {"Unknown", "PossiblePrimary", "Standalone", "Mongos",
                "RSPrimary", "RSSecondary", "RSArbiter", "RSOther", "RSGhost"}

SetNames == {NoSet, "rs", "other"}

\* Descriptions of servers, and of a topology.
ServerDescriptions ==
    [type : ServerTypes, election : Int, setv : Int, hello : BOOLEAN, tv : Nat]

IsDescription(t) ==
    /\ DOMAIN t.sd \subseteq Addr
    /\ t \in [type : {"Unknown", "Single", "Sharded", "RSNoPrimary",
                      "RSWithPrimary"},
              set : SetNames, maxe : Int, maxv : Int,
              sd : [DOMAIN t.sd -> ServerDescriptions]]

ServerStates ==
    [kind : Kinds, election : Nat, setv : 1 .. Len(Configs),
     primary : Addr \cup {Nobody}, rel : Releases, tv : Nat]

\* Types of the servers' and of the client's state; a chosen server
\* while one is checked, fetched or used.
TypeOK ==
    /\ truth \in [Servers -> ServerStates] /\ elections \in Nat
    /\ config \in 1 .. Len(Configs) /\ changes \in Nat /\ timeouts \in Nat
    /\ IsDescription(td)
    /\ stale \in BOOLEAN /\ tried \in BOOLEAN
    /\ nodes \subseteq Addr /\ retired \subseteq Addr /\ conn \subseteq Addr
    /\ cool \subseteq Addr /\ lasterr \subseteq Addr /\ snubbed \subseteq Addr
    /\ trying \in [Addr -> Nat] /\ sent \in [Addr -> {"no", "kept", "fresh"}]
    /\ dead \subseteq Addr /\ suspect \subseteq Addr
    /\ pc \in {"idle", "enter", "select", "scan", "check", "fetch", "fetched",
               "use"}
    /\ phase \in {"first", "second", "fetch"}
    /\ chosen \in Addr \cup {Nobody}
    /\ pc \in {"check", "fetch", "fetched", "use"} => chosen \in Addr

\* However many servers claim to be the primary, and in whatever order their
\* answers and failures are handled, one is believed at most, and only by a
\* description that says so: select takes the first primary it meets.
OnePrimary ==
    LET primaries == {a \in DOMAIN td.sd : td.sd[a].type = "RSPrimary"}
    IN  /\ td.type \in {"Unknown", "RSNoPrimary", "Sharded"} =>
             primaries = {}
        /\ \A a, b \in primaries : a = b

\* "set_name should never be null here": a description with a primary has the
\* name of its set, which the handlers compare with a member's.
SetNameKnown == td.type = "RSWithPrimary" => td.set # NoSet

\* A description of a single server has that server: the selection takes the
\* first item of the set and does not look whether there is one.
SingleHasServer ==
    td.type = "Single" => \E a \in Addr : DOMAIN td.sd = {a}

\* A node with a command under way has no stream: it was handed to the hello,
\* and of the commands that connect, for each DNS record and for each of two
\* set-ups, one gets to send.  _async_success asserts it when it keeps a stream.
OneStreamPerNode == Pending \cap conn = {}

\* The server an operation has selected has a node, and not a retired one:
\* mongoc_cluster_check_interval asserts it and _cluster_fetch_stream_single
\* says that anything else "would indicate a bug".  A server may be described
\* and have no node: one that was removed and reported again in one scan.
ChosenHasNode ==
    pc \in {"check", "fetch"} => chosen \in nodes /\ chosen \notin retired

\* A server that closed the stream of an operation, let it time out, or refused
\* it with news of itself is used again only after it has answered a hello.
NoSuspectReused == pc = "use" => chosen \notin suspect

\* A primary is accepted only if it is not older than the one accepted before
\* it, by the rule for its own release, although an old primary may go on
\* answering long after the election, and is not believed in between; and
\* nothing but an answer makes one.
NewestPrimary ==
    [][best' # best =>
         \E a \in Addr :
           /\ ReplyOk(a)
           /\ IF ElectionFirst(truth[Me[a]].rel)
              THEN AtLeast(best'.e, best'.v, best.e, best.v)
              ELSE AtLeast(best'.v, best'.e, best.v, best.e)]_vars

\* Only an answer takes servers out of the description: a failed hello does
\* not, which the scanner's callback relies on when it asks the server once
\* more through the description it looked up before.
OnlyAnswersRemove ==
    [][\/ DOMAIN td.sd \subseteq DOMAIN td'.sd
       \/ \E a \in Addr : ReplyOk(a)]_vars

\* The members agree on one primary, and nobody else is a member.
Healthy ==
    /\ \A s \in Servers \ Members :
         truth[s].kind \in {"down", "secondary"}
    /\ \E p \in Members :
         /\ truth[p].kind = "primary" /\ truth[p].election = elections
         /\ \A s \in Members \ {p} : truth[s].kind = "secondary"
         /\ \A s \in Members : truth[s].setv = config /\ truth[s].primary = p

\* The description is one of that set and has a member of it that is scanned,
\* under its own address or, before any node was retired, under another.
Reaches ==
    /\ td.type \in {"Unknown", "RSNoPrimary", "RSWithPrimary"}
    /\ td.set \in {NoSet, "rs"}
    /\ \E a \in DOMAIN td.sd \cap nodes :
         Me[a] \in Members /\ (Me[a] = a \/ retired = {})

\* Once the set has settled on a primary, a client that knows a member of it
\* finds that primary and an operation succeeds, whatever it believed before.
Recovers == (Healthy /\ Reaches) ~> (result = "ok" \/ ~Healthy)
=============================================================================
