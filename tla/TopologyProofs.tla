--------------------------- MODULE TopologyProofs ---------------------------
(***************************************************************************)
(* Proofs about Topology, for any addresses, aliases, connection strings,   *)
(* configurations and histories of the servers.                             *)
(***************************************************************************)
EXTENDS Topology, TLAPS

Primaries(t) == {x \in DOMAIN t.sd : t.sd[x].type = "RSPrimary"}

\* (e, v) is at least (f, w) in the order that decides between primaries.
NotBefore(new, e, v, f, w) ==
    IF new THEN AtLeast(e, v, f, w) ELSE AtLeast(v, e, w, f)

\* A description as every hello leaves it.
DescOK(t) ==
    /\ IsDescription(t)
    /\ t.type \in {"Unknown", "RSNoPrimary", "Sharded"} => Primaries(t) = {}
    /\ \A x, y \in Primaries(t) : x = y
    /\ t.type = "RSWithPrimary" => t.set # NoSet
    /\ t.type = "Single" => \E x \in Addr : DOMAIN t.sd = {x}
    /\ t.type # "Single" => \A x \in Primaries(t) :
         t.sd[x].election = t.maxe /\ t.sd[x].setv = t.maxv

\* Nothing a selection would take.
Quiet(d) == d.type \in {"Unknown", "PossiblePrimary"} /\ ~d.hello

\* Nodes and the description: a described server without a node is one of which
\* nothing is known.
NodesOK ==
    /\ nodes \subseteq DOMAIN td.sd
    /\ nodes \cap retired = {}
    /\ Pending \subseteq nodes \cup retired
    /\ conn \subseteq nodes \cup retired
    /\ pc # "scan" => Pending = {} /\ retired = {}
    /\ \A x \in DOMAIN td.sd \ nodes : Quiet(td.sd[x])

\* A node whose hello is sent has no command left that connects.
CommandsOK == \A x \in Addr : sent[x] # "no" => trying[x] = 0

\* Of servers that failed an operation and kept their stream, nothing is
\* believed.
SuspectsOK == \A x \in suspect \cap conn \cap DOMAIN td.sd : Quiet(td.sd[x])

\* Where an operation is: a scan for a stream has a server in mind, the server
\* in use is still described, and the one selected either has failed nothing
\* or has no stream.
PhaseOK ==
    /\ pc \in {"enter", "select"} => phase # "fetch"
    /\ pc = "use" => chosen \in nodes
    /\ pc = "scan" /\ phase = "fetch" => chosen \in Addr
    /\ \/ pc \in {"check", "fetch", "fetched"}
       \/ pc = "scan" /\ phase = "fetch"
       => chosen \notin suspect \cap conn

\* What the description remembers is the primary that was accepted last.
BestOK == best = [e |-> td.maxe, v |-> td.maxv]

IInv ==
    /\ TypeOK
    /\ DescOK(td)
    /\ NodesOK
    /\ CommandsOK
    /\ SuspectsOK
    /\ PhaseOK
    /\ BestOK
    /\ OneStreamPerNode
    /\ ChosenHasNode
    /\ NoSuspectReused

\* Answers to a hello.
Hellos == [ok : BOOLEAN, rel : Releases, tv : Nat, role : Kinds,
           set : SetNames, me : Addr, primary : Addr \cup {Nobody},
           hosts : SUBSET Addr, election : Int, setv : Int]
-----------------------------------------------------------------------------
(***************************************************************************)
(* The functions of the description, one lemma each.                        *)
(***************************************************************************)

TopTypes == {"Unknown", "Single", "Sharded", "RSNoPrimary", "RSWithPrimary"}

\* Two descriptions differ in their servers at most.
SameHead(t, u) == /\ u.type = t.type /\ u.set = t.set
                  /\ u.maxe = t.maxe /\ u.maxv = t.maxv

\* A description with other servers is a description.
LEMMA WithServers ==
    ASSUME NEW t, IsDescription(t), NEW D \in SUBSET Addr,
           NEW f \in [D -> ServerDescriptions]
    PROVE  /\ IsDescription([t EXCEPT !.sd = f])
           /\ SameHead(t, [t EXCEPT !.sd = f])
           /\ [t EXCEPT !.sd = f].sd = f /\ DOMAIN f = D
  BY DEF IsDescription, SameHead

\* A description with another type is a description.
LEMMA WithType ==
    ASSUME NEW t, IsDescription(t), NEW k \in TopTypes, NEW u,
           u = [t EXCEPT !.type = k]
    PROVE  /\ IsDescription(u) /\ u.type = k /\ u.set = t.set /\ u.sd = t.sd
           /\ u.maxe = t.maxe /\ u.maxv = t.maxv
  BY DEF IsDescription, TopTypes

\* A description with another name of the set is a description.
LEMMA WithSet ==
    ASSUME NEW t, IsDescription(t), NEW s \in SetNames, NEW u,
           u = [t EXCEPT !.set = s]
    PROVE  /\ IsDescription(u) /\ u.type = t.type /\ u.set = s /\ u.sd = t.sd
           /\ u.maxe = t.maxe /\ u.maxv = t.maxv
  BY DEF IsDescription, TopTypes

\* A description with another election is a description.
LEMMA WithElection ==
    ASSUME NEW t, IsDescription(t), NEW h \in Hellos
    PROVE  LET u == RememberElection(t, h)
           IN  /\ IsDescription(u) /\ u.type = t.type /\ u.set = t.set
               /\ u.sd = t.sd /\ u.maxe = h.election /\ u.maxv = h.setv
  BY DEF IsDescription, RememberElection, Hellos

\* A server that is reset is unknown.
LEMMA ResetType ==
    /\ Reset \in ServerDescriptions /\ Reset.type = "Unknown" /\ Quiet(Reset)
  BY DEF Reset, ServerDescriptions, ServerTypes, Quiet

\* A server that is forgotten is unknown.
LEMMA ForgetType ==
    ASSUME NEW d \in ServerDescriptions
    PROVE  /\ Forget(d) \in ServerDescriptions /\ Quiet(Forget(d))
           /\ Forget(d).type = "Unknown"
<1> DEFINE v == d.tv
<1>2. v \in Nat
  BY DEF ServerDescriptions
<1>0. Forget(d) = [Reset EXCEPT !.tv = v]
  BY DEF Forget
<1> HIDE DEF v
<1>1. Forget(d) = [type |-> "Unknown", election |-> 0, setv |-> -1,
                   hello |-> FALSE, tv |-> v]
  BY <1>0 DEF Reset
<1> QED
  BY <1>1, <1>2 DEF ServerDescriptions, ServerTypes, Quiet

\* What an answer says of a server: nothing, if it was refused.
LEMMA DescribeType ==
    ASSUME NEW h \in Hellos
    PROVE  /\ Describe(h) \in ServerDescriptions
           /\ Describe(h).type \in {"Unknown", "Standalone", "Mongos",
                "RSPrimary", "RSSecondary", "RSArbiter", "RSOther", "RSGhost"}
           /\ Describe(h).type = "RSPrimary" =>
                /\ h.set # NoSet
                /\ Describe(h).election = h.election
                /\ Describe(h).setv = h.setv
<1>1. CASE h.ok
  <2>1. ServerType(h) \in {"Standalone", "Mongos", "RSPrimary", "RSSecondary",
                           "RSArbiter", "RSOther", "RSGhost"}
        /\ (ServerType(h) = "RSPrimary" => h.set # NoSet)
    BY DEF ServerType
  <2>2. Describe(h) = [type |-> ServerType(h), election |-> h.election,
                       setv |-> h.setv, hello |-> TRUE, tv |-> h.tv]
    BY <1>1 DEF Describe
  <2> QED
    BY <2>1, <2>2 DEF Hellos, ServerDescriptions, ServerTypes
<1>2. CASE ~h.ok
  <2>1. Describe(h) = [type |-> "Unknown", election |-> 0, setv |-> -1,
                       hello |-> TRUE, tv |-> 0]
    BY <1>2 DEF Describe, Reset
  <2> QED
    BY <2>1 DEF ServerDescriptions, ServerTypes
<1> QED
  BY <1>1, <1>2

\* What is known of one server is replaced.
LEMMA PutServer ==
    ASSUME NEW t, IsDescription(t), NEW a \in DOMAIN t.sd,
           NEW d \in ServerDescriptions
    PROVE  LET u == [t EXCEPT !.sd[a] = d]
           IN  /\ IsDescription(u) /\ SameHead(t, u)
               /\ DOMAIN u.sd = DOMAIN t.sd
               /\ \A x \in DOMAIN t.sd : u.sd[x] = IF x = a THEN d ELSE t.sd[x]
<1> DEFINE f == [t.sd EXCEPT ![a] = d]
           u == [t EXCEPT !.sd[a] = d]
<1>1. DOMAIN t.sd \in SUBSET Addr /\ f \in [DOMAIN t.sd -> ServerDescriptions]
  BY DEF IsDescription
<1>2. /\ DOMAIN f = DOMAIN t.sd
      /\ \A x \in DOMAIN t.sd : f[x] = IF x = a THEN d ELSE t.sd[x]
  BY DEF IsDescription
<1>3. u = [t EXCEPT !.sd = f]
  BY DEF IsDescription
<1> HIDE DEF f, u
<1>4. /\ IsDescription(u) /\ SameHead(t, u)
      /\ DOMAIN u.sd = DOMAIN t.sd
      /\ \A x \in DOMAIN t.sd : u.sd[x] = IF x = a THEN d ELSE t.sd[x]
  BY <1>1, <1>2, <1>3, WithServers
<1> QED
  BY <1>4 DEF u

\* Removing a server leaves the others alone.
LEMMA RemoveServerOK ==
    ASSUME NEW t, IsDescription(t), NEW a
    PROVE  LET u == RemoveServer(t, a)
           IN  /\ IsDescription(u) /\ SameHead(t, u)
               /\ DOMAIN u.sd = DOMAIN t.sd \ {a}
               /\ \A x \in DOMAIN u.sd : u.sd[x] = t.sd[x]
<1> DEFINE D == DOMAIN t.sd \ {a}
           f == [x \in D |-> t.sd[x]]
<1>1. D \in SUBSET Addr /\ f \in [D -> ServerDescriptions]
  BY DEF IsDescription
<1>2. DOMAIN f = D /\ \A x \in D : f[x] = t.sd[x]
  OBVIOUS
<1>3. RemoveServer(t, a) = [t EXCEPT !.sd = f]
  BY DEF RemoveServer
<1> HIDE DEF D, f
<1> QED
  BY <1>1, <1>2, <1>3, WithServers DEF D

\* Servers that are added are unknown.
LEMMA AddNewServersOK ==
    ASSUME NEW t, IsDescription(t), NEW h \in Hellos
    PROVE  LET u == AddNewServers(t, h)
           IN  /\ IsDescription(u) /\ SameHead(t, u)
               /\ DOMAIN u.sd = DOMAIN t.sd \cup h.hosts
               /\ \A x \in DOMAIN u.sd :
                    u.sd[x] = IF x \in DOMAIN t.sd THEN t.sd[x] ELSE Reset
<1> DEFINE D == DOMAIN t.sd \cup h.hosts
           f == [x \in D |-> IF x \in DOMAIN t.sd THEN t.sd[x] ELSE Reset]
<1>1. D \in SUBSET Addr /\ f \in [D -> ServerDescriptions]
  BY ResetType DEF IsDescription, Hellos
<1>2. \A x \in D : f[x] = IF x \in DOMAIN t.sd THEN t.sd[x] ELSE Reset
  OBVIOUS
<1>3. AddNewServers(t, h) = [t EXCEPT !.sd = f]
  BY DEF AddNewServers
<1> HIDE DEF D, f
<1>4. DOMAIN f = D
  BY <1>1
<1> QED
  BY <1>1, <1>2, <1>3, <1>4, WithServers DEF D

\* Servers that are not reported go, the others stay as they are.
LEMMA RemoveUnreportedOK ==
    ASSUME NEW t, IsDescription(t), NEW h
    PROVE  LET u == RemoveUnreported(t, h)
           IN  /\ IsDescription(u) /\ SameHead(t, u)
               /\ DOMAIN u.sd = DOMAIN t.sd \cap h.hosts
               /\ \A x \in DOMAIN u.sd : u.sd[x] = t.sd[x]
<1> DEFINE D == DOMAIN t.sd \cap h.hosts
           f == [x \in D |-> t.sd[x]]
<1>1. D \in SUBSET Addr /\ f \in [D -> ServerDescriptions]
  BY DEF IsDescription
<1>2. DOMAIN f = D /\ \A x \in D : f[x] = t.sd[x]
  OBVIOUS
<1>3. RemoveUnreported(t, h) = [t EXCEPT !.sd = f]
  BY DEF RemoveUnreported
<1> HIDE DEF D, f
<1> QED
  BY <1>1, <1>2, <1>3, WithServers DEF D

\* Other primaries are reset.
LEMMA InvalidatePrimariesOK ==
    ASSUME NEW t, IsDescription(t), NEW a
    PROVE  LET u == InvalidatePrimaries(t, a)
           IN  /\ IsDescription(u) /\ SameHead(t, u)
               /\ DOMAIN u.sd = DOMAIN t.sd
               /\ \A x \in DOMAIN u.sd :
                    u.sd[x] = IF x # a /\ t.sd[x].type = "RSPrimary"
                              THEN Forget(t.sd[x]) ELSE t.sd[x]
<1> DEFINE f == [x \in DOMAIN t.sd |->
                   IF x # a /\ t.sd[x].type = "RSPrimary"
                   THEN Forget(t.sd[x]) ELSE t.sd[x]]
<1>0. \A x \in DOMAIN t.sd : /\ t.sd[x] \in ServerDescriptions
                             /\ Forget(t.sd[x]) \in ServerDescriptions
  BY ForgetType DEF IsDescription
<1>1. DOMAIN t.sd \in SUBSET Addr /\ f \in [DOMAIN t.sd -> ServerDescriptions]
  BY <1>0 DEF IsDescription
<1>2. /\ DOMAIN f = DOMAIN t.sd
      /\ \A x \in DOMAIN t.sd :
           f[x] = IF x # a /\ t.sd[x].type = "RSPrimary"
                  THEN Forget(t.sd[x]) ELSE t.sd[x]
  OBVIOUS
<1>3. InvalidatePrimaries(t, a) = [t EXCEPT !.sd = f]
  BY DEF InvalidatePrimaries
<1> HIDE DEF f
<1> QED
  BY <1>1, <1>2, <1>3, WithServers

\* A server that another calls primary is only labelled.
LEMMA LabelUnknownMemberOK ==
    ASSUME NEW t, IsDescription(t), NEW p
    PROVE  LET u == LabelUnknownMember(t, p)
           IN  /\ IsDescription(u) /\ SameHead(t, u)
               /\ DOMAIN u.sd = DOMAIN t.sd
               /\ \A x \in DOMAIN u.sd :
                    \/ u.sd[x] = t.sd[x]
                    \/ /\ t.sd[x].type = "Unknown"
                       /\ u.sd[x].type = "PossiblePrimary"
                       /\ u.sd[x].hello = t.sd[x].hello
<1> DEFINE g(x) == IF x = p /\ t.sd[x].type = "Unknown"
                   THEN [t.sd[x] EXCEPT !.type = "PossiblePrimary"]
                   ELSE t.sd[x]
           f == [x \in DOMAIN t.sd |-> g(x)]
<1>1. ASSUME NEW x \in DOMAIN t.sd
      PROVE  /\ g(x) \in ServerDescriptions
             /\ \/ g(x) = t.sd[x]
                \/ /\ t.sd[x].type = "Unknown"
                   /\ g(x).type = "PossiblePrimary"
                   /\ g(x).hello = t.sd[x].hello
  <2>1. t.sd[x] \in ServerDescriptions
    BY DEF IsDescription
  <2> QED
    BY <2>1 DEF ServerDescriptions, ServerTypes
<1>2. LabelUnknownMember(t, p) = [t EXCEPT !.sd = f]
  BY DEF LabelUnknownMember
<1> HIDE DEF g
<1>3. DOMAIN t.sd \in SUBSET Addr /\ f \in [DOMAIN t.sd -> ServerDescriptions]
  BY <1>1 DEF IsDescription
<1>4. DOMAIN f = DOMAIN t.sd /\ \A x \in DOMAIN t.sd : f[x] = g(x)
  OBVIOUS
<1> HIDE DEF f
<1> QED
  BY <1>1, <1>2, <1>3, <1>4, WithServers

-----------------------------------------------------------------------------
(***************************************************************************)
(* What a hello does to the description as a whole.                         *)
(***************************************************************************)

\* A description in which what is known of a has just been replaced.
Pre(p, a) ==
    /\ IsDescription(p) /\ a \in DOMAIN p.sd
    /\ p.type \in {"Unknown", "RSNoPrimary", "Sharded"} =>
         Primaries(p) \subseteq {a}
    /\ \A x, y \in Primaries(p) \ {a} : x = y
    /\ p.type = "RSWithPrimary" => p.set # NoSet
    /\ p.type = "Single" => \E x \in Addr : DOMAIN p.sd = {x}
    /\ p.type # "Single" => \A x \in Primaries(p) \ {a} :
         p.sd[x].election = p.maxe /\ p.sd[x].setv = p.maxv

\* Of the other servers nothing new is known, and of new ones nothing at all.
Others(t, a, u) ==
    \A x \in DOMAIN u.sd \ {a} :
        x \notin DOMAIN t.sd \/ Quiet(t.sd[x]) => Quiet(u.sd[x])

\* u may follow t when a has answered.
Follows(t, a, u, new) ==
    /\ DescOK(u) /\ Others(t, a, u)
    /\ NotBefore(new, u.maxe, u.maxv, t.maxe, t.maxv)
    /\ u.type = "Single" => u.maxe = t.maxe /\ u.maxv = t.maxv

\* An election is not before itself.
LEMMA NotBeforeSame ==
    ASSUME NEW new, NEW e \in Int, NEW v \in Int
    PROVE  NotBefore(new, e, v, e, v)
  BY DEF NotBefore, AtLeast

\* The fields of a description.
LEMMA HeadTypes ==
    ASSUME NEW t, IsDescription(t)
    PROVE  /\ t.maxe \in Int /\ t.maxv \in Int /\ t.type \in TopTypes
           /\ t.set \in SetNames /\ DOMAIN t.sd \subseteq Addr
           /\ \A x \in DOMAIN t.sd : t.sd[x] \in ServerDescriptions
  BY DEF IsDescription, TopTypes

\* The type of a set's description follows from whether it has a primary.
LEMMA UpdateRsTypeOK ==
    ASSUME NEW t, IsDescription(t), \A x, y \in Primaries(t) : x = y,
           Primaries(t) # {} => t.set # NoSet,
           \A x \in Primaries(t) :
             t.sd[x].election = t.maxe /\ t.sd[x].setv = t.maxv
    PROVE  LET u == UpdateRsType(t)
           IN  /\ DescOK(u) /\ u.sd = t.sd /\ u.set = t.set
               /\ u.maxe = t.maxe /\ u.maxv = t.maxv
               /\ u.type \in {"RSNoPrimary", "RSWithPrimary"}
<1> DEFINE k == IF HasPrimary(t) THEN "RSWithPrimary" ELSE "RSNoPrimary"
           u == UpdateRsType(t)
<1>1. u = [t EXCEPT !.type = k]
  BY DEF UpdateRsType
<1>2. k \in TopTypes /\ (k = "RSWithPrimary" <=> Primaries(t) # {})
      /\ k \in {"RSNoPrimary", "RSWithPrimary"}
  BY DEF HasPrimary, Primaries, TopTypes
<1> HIDE DEF k, u
<1>3. /\ IsDescription(u) /\ u.sd = t.sd /\ u.set = t.set
      /\ u.maxe = t.maxe /\ u.maxv = t.maxv /\ u.type = k
  BY <1>1, <1>2, WithType
<1>4. Primaries(u) = Primaries(t)
  BY <1>3 DEF Primaries
<1>5. DescOK(u)
  BY <1>2, <1>3, <1>4 DEF DescOK
<1> QED
  BY <1>2, <1>3, <1>5 DEF u

\* Two changes with nothing new of the other servers.
LEMMA OthersTrans ==
    ASSUME NEW t, NEW a, NEW v, NEW u, Others(t, a, v), Others(v, a, u)
    PROVE  Others(t, a, u)
  BY DEF Others

\* A hello that was put in and says nothing about primaries.
LEMMA PreOK ==
    ASSUME NEW p, NEW a, Pre(p, a), p.sd[a].type # "RSPrimary"
    PROVE  DescOK(p)
<1>1. a \notin Primaries(p)
  BY DEF Primaries
<1> QED
  BY <1>1 DEF Pre, DescOK

\* A server is taken out of the description.
LEMMA RemoveOK ==
    ASSUME NEW p, NEW a, Pre(p, a), p.type # "Single"
    PROVE  LET u == RemoveServer(p, a)
           IN  /\ DescOK(u) /\ Others(p, a, u) /\ SameHead(p, u)
<1> DEFINE u == RemoveServer(p, a)
<1>1. /\ IsDescription(u) /\ SameHead(p, u)
      /\ DOMAIN u.sd = DOMAIN p.sd \ {a}
      /\ \A x \in DOMAIN u.sd : u.sd[x] = p.sd[x]
  BY RemoveServerOK DEF Pre
<1> HIDE DEF u
<1>2. Primaries(u) = Primaries(p) \ {a}
  BY <1>1 DEF Primaries
<1>3. \A x \in Primaries(u) : u.sd[x] = p.sd[x]
  BY <1>1 DEF Primaries
<1>4. DescOK(u)
  BY <1>1, <1>2, <1>3 DEF Pre, DescOK, SameHead
<1>5. Others(p, a, u)
  BY <1>1 DEF Others
<1> QED
  BY <1>1, <1>4, <1>5 DEF u

\* The type is brought up to date after that.
LEMMA UpdateOK ==
    ASSUME NEW t, DescOK(t), t.type # "Single", t.set # NoSet
    PROVE  LET u == UpdateRsType(t)
           IN  /\ DescOK(u) /\ u.sd = t.sd /\ u.set = t.set
               /\ u.maxe = t.maxe /\ u.maxv = t.maxv
               /\ u.type \in {"RSNoPrimary", "RSWithPrimary"}
  BY UpdateRsTypeOK DEF DescOK

\* A server becomes Unknown.
LEMMA InvalidateOK ==
    ASSUME NEW p, NEW a, Pre(p, a)
    PROVE  LET u == InvalidateServer(p, a)
           IN  /\ DescOK(u) /\ u.set = p.set
               /\ u.maxe = p.maxe /\ u.maxv = p.maxv
               /\ DOMAIN u.sd = DOMAIN p.sd
               /\ \A x \in DOMAIN p.sd :
                    u.sd[x] = IF x = a THEN Forget(p.sd[a]) ELSE p.sd[x]
               /\ p.type # "Single" => u.type # "Single"
<1> DEFINE d == Forget(p.sd[a])
           v == [p EXCEPT !.sd[a] = d]
           u == InvalidateServer(p, a)
<1>0. d \in ServerDescriptions /\ d.type = "Unknown"
  BY ForgetType, HeadTypes DEF Pre
<1>2. u = IF v.type = "RSWithPrimary" THEN UpdateRsType(v) ELSE v
  BY DEF InvalidateServer
<1> HIDE DEF d
<1>1. /\ IsDescription(v) /\ SameHead(p, v) /\ DOMAIN v.sd = DOMAIN p.sd
      /\ \A x \in DOMAIN p.sd : v.sd[x] = IF x = a THEN d ELSE p.sd[x]
  BY <1>0, PutServer DEF Pre
<1> HIDE DEF u, v
<1>3. Primaries(v) = Primaries(p) \ {a}
  BY <1>0, <1>1 DEF Primaries
<1>4. \A x \in Primaries(v) : v.sd[x] = p.sd[x]
  BY <1>0, <1>1 DEF Primaries
<1>5. DescOK(v)
  BY <1>1, <1>3, <1>4 DEF Pre, DescOK, SameHead
<1>6. CASE v.type = "RSWithPrimary"
  <2>1. v.set # NoSet
    BY <1>5, <1>6 DEF DescOK
  <2>2. /\ DescOK(u) /\ u.sd = v.sd /\ u.set = v.set
        /\ u.maxe = v.maxe /\ u.maxv = v.maxv /\ u.type # "Single"
    BY <1>2, <1>5, <1>6, <2>1, UpdateOK
  <2> QED
    BY <1>1, <2>2 DEF u, d, SameHead
<1>7. CASE v.type # "RSWithPrimary"
  BY <1>1, <1>2, <1>5, <1>7 DEF u, d, SameHead
<1> QED
  BY <1>6, <1>7

\* A sound description may have an answer written into it.
LEMMA DescPre ==
    ASSUME NEW t, NEW a, DescOK(t), a \in DOMAIN t.sd
    PROVE  Pre(t, a)
  BY DEF DescOK, Pre

\* A description with the same servers and the same newest primary.
LEMMA FollowsSame ==
    ASSUME NEW p, NEW a, NEW u, NEW new, IsDescription(p), DescOK(u),
           Others(p, a, u), u.maxe = p.maxe, u.maxv = p.maxv
    PROVE  Follows(p, a, u, new)
<1>1. NotBefore(new, p.maxe, p.maxv, p.maxe, p.maxv)
  BY HeadTypes, NotBeforeSame
<1> QED
  BY <1>1 DEF Follows

\* Servers that stay as they are.
LEMMA OthersSame ==
    ASSUME NEW p, NEW a, NEW u, \A x \in DOMAIN u.sd \ {a} :
             x \in DOMAIN p.sd /\ u.sd[x] = p.sd[x]
    PROVE  Others(p, a, u)
  BY DEF Others

\* A server is taken out of a set's description, and the type follows.
LEMMA RemoveUpdateOK ==
    ASSUME NEW p, NEW a, NEW new, Pre(p, a), p.type # "Single", p.set # NoSet
    PROVE  Follows(p, a, UpdateRsType(RemoveServer(p, a)), new)
<1> DEFINE v == RemoveServer(p, a)
           u == UpdateRsType(v)
<1>1. DescOK(v) /\ Others(p, a, v) /\ SameHead(p, v)
  BY RemoveOK
<1> HIDE DEF v
<1>2. /\ DescOK(u) /\ u.sd = v.sd /\ u.maxe = v.maxe /\ u.maxv = v.maxv
  BY <1>1, UpdateOK DEF SameHead
<1> HIDE DEF u
<1>3. Others(p, a, u)
  BY <1>1, <1>2 DEF Others
<1>4. Follows(p, a, u, new)
  BY <1>1, <1>2, <1>3, FollowsSame DEF SameHead, Pre
<1> QED
  BY <1>4 DEF u, v

\* A primary answers.
LEMMA FromPrimaryOK ==
    ASSUME NEW p, NEW a, NEW h \in Hellos, Pre(p, a),
           p.type \notin {"Single", "Sharded"}, p.sd[a] = Describe(h),
           p.sd[a].type = "RSPrimary"
    PROVE  Follows(p, a, UpdateRsFromPrimary(p, a, h), ElectionFirst(h.rel))
<1> DEFINE q == [p EXCEPT !.set = h.set]
           r == RememberElection(q, h)
           v == InvalidatePrimaries(r, a)
           w == AddNewServers(v, h)
           z == RemoveUnreported(w, h)
           i == InvalidateServer(q, a)
           k == UpdateRsType(i)
           u == UpdateRsType(z)
           res == UpdateRsFromPrimary(p, a, h)
           new == ElectionFirst(h.rel)
<1>0. res = IF p.set \notin {NoSet, h.set}
            THEN UpdateRsType(RemoveServer(p, a))
            ELSE IF IsStale(q, h) THEN k ELSE u
  BY DEF UpdateRsFromPrimary
<1>n. IsStale(q, h) = IF new THEN ~AtLeast(h.election, h.setv, q.maxe, q.maxv)
                      ELSE ~AtLeast(h.setv, h.election, q.maxv, q.maxe)
  BY DEF IsStale
<1> HIDE DEF new
<1>h. h.set \in SetNames /\ h.set # NoSet /\ h.election \in Int /\ h.setv \in Int
  BY DescribeType DEF Hellos
<1>d. Describe(h).election = h.election /\ Describe(h).setv = h.setv
  BY DescribeType
<1>p. IsDescription(p) /\ a \in DOMAIN p.sd
  BY DEF Pre
<1>q. /\ IsDescription(q) /\ q.type = p.type /\ q.set = h.set /\ q.sd = p.sd
      /\ q.maxe = p.maxe /\ q.maxv = p.maxv
  BY <1>h, <1>p, WithSet
<1> HIDE DEF q
<1>r. /\ IsDescription(r) /\ r.set = h.set /\ r.sd = p.sd
      /\ r.maxe = h.election /\ r.maxv = h.setv
  BY <1>q, WithElection
<1> HIDE DEF r
<1>v. /\ IsDescription(v) /\ SameHead(r, v) /\ DOMAIN v.sd = DOMAIN p.sd
      /\ \A x \in DOMAIN v.sd :
           v.sd[x] = IF x # a /\ p.sd[x].type = "RSPrimary"
                     THEN Forget(p.sd[x]) ELSE p.sd[x]
  BY <1>r, InvalidatePrimariesOK
<1> HIDE DEF v
<1>w. /\ IsDescription(w) /\ SameHead(v, w)
      /\ DOMAIN w.sd = DOMAIN v.sd \cup h.hosts
      /\ \A x \in DOMAIN w.sd :
           w.sd[x] = IF x \in DOMAIN v.sd THEN v.sd[x] ELSE Reset
  BY <1>v, AddNewServersOK
<1> HIDE DEF w
<1>z. /\ IsDescription(z) /\ SameHead(w, z)
      /\ DOMAIN z.sd = DOMAIN w.sd \cap h.hosts
      /\ \A x \in DOMAIN z.sd : z.sd[x] = w.sd[x]
  BY <1>w, RemoveUnreportedOK
<1> HIDE DEF z
<1>1. CASE p.set \notin {NoSet, h.set}
  BY <1>0, <1>1, RemoveUpdateOK DEF res, new
<1>2. CASE p.set \in {NoSet, h.set} /\ IsStale(q, h)
  <2>1. Pre(q, a)
    <3>1. Primaries(q) = Primaries(p)
      BY <1>q DEF Primaries
    <3> QED
      BY <1>h, <1>q, <3>1 DEF Pre
  <2>2. /\ DescOK(i) /\ i.set = q.set /\ i.maxe = q.maxe /\ i.maxv = q.maxv
        /\ DOMAIN i.sd = DOMAIN q.sd
        /\ \A x \in DOMAIN q.sd :
             i.sd[x] = IF x = a THEN Forget(q.sd[a]) ELSE q.sd[x]
        /\ i.type # "Single"
    BY <1>q, <2>1, InvalidateOK
  <2> HIDE DEF i
  <2>3. /\ DescOK(k) /\ k.sd = i.sd /\ k.maxe = i.maxe /\ k.maxv = i.maxv
    BY <1>h, <1>q, <2>2, UpdateOK
  <2> HIDE DEF k
  <2>4. Others(p, a, k)
    BY <1>q, <2>2, <2>3, OthersSame
  <2>5. Follows(p, a, k, new)
    BY <1>p, <1>q, <2>2, <2>3, <2>4, FollowsSame
  <2>6. res = k
    BY <1>0, <1>2
  <2> QED
    BY <2>5, <2>6 DEF res, new
<1>3. CASE p.set \in {NoSet, h.set} /\ ~IsStale(q, h)
  <2>0. ASSUME NEW x \in DOMAIN p.sd
        PROVE  Quiet(Forget(p.sd[x])) /\ Forget(p.sd[x]).type = "Unknown"
    BY <1>p, ForgetType, HeadTypes
  <2>1. \A x \in DOMAIN z.sd :
          IF x \in DOMAIN p.sd /\ ~(x # a /\ p.sd[x].type = "RSPrimary")
          THEN z.sd[x] = p.sd[x]
          ELSE Quiet(z.sd[x]) /\ z.sd[x].type = "Unknown"
    BY <1>v, <1>w, <1>z, <2>0, ResetType
  <2>2. Primaries(z) \subseteq {a}
    BY <2>1 DEF Primaries
  <2>3. \A x \in Primaries(z) : z.sd[x] = Describe(h)
    BY <1>p, <2>1, <2>2 DEF Primaries
  <2>4. z.set = h.set /\ z.maxe = h.election /\ z.maxv = h.setv
    BY <1>r, <1>v, <1>w, <1>z DEF SameHead
  <2>5. /\ DescOK(u) /\ u.sd = z.sd /\ u.maxe = z.maxe /\ u.maxv = z.maxv
        /\ u.type # "Single"
    BY <1>h, <1>d, <1>z, <2>2, <2>3, <2>4, UpdateRsTypeOK
  <2> HIDE DEF u
  <2>6. Others(p, a, u)
    BY <2>1, <2>5 DEF Others
  <2>7. NotBefore(new, u.maxe, u.maxv, p.maxe, p.maxv)
    BY <1>3, <1>n, <1>q, <2>4, <2>5 DEF NotBefore
  <2>8. res = u
    BY <1>0, <1>3
  <2> QED
    BY <2>5, <2>6, <2>7, <2>8 DEF Follows, res, new
<1> QED
  BY <1>1, <1>2, <1>3

\* A member answers while no primary is known.
LEMMA WithoutPrimaryOK ==
    ASSUME NEW p, NEW a, NEW h \in Hellos, NEW new, Pre(p, a),
           p.type = "RSNoPrimary", p.sd[a].type # "RSPrimary"
    PROVE  Follows(p, a, UpdateRsWithoutPrimary(p, a, h), new)
<1> DEFINE q == [p EXCEPT !.set = h.set]
           w == AddNewServers(q, h)
           l == LabelUnknownMember(w, h.primary)
           v == IF h.primary # Nobody THEN l ELSE w
           o == RemoveServer(v, a)
           res == UpdateRsWithoutPrimary(p, a, h)
<1>0. res = IF p.set \notin {NoSet, h.set} THEN RemoveServer(p, a)
            ELSE IF MatchesMe(a, h) THEN v ELSE o
  BY DEF UpdateRsWithoutPrimary
<1>p. IsDescription(p) /\ a \in DOMAIN p.sd /\ DescOK(p) /\ Primaries(p) = {}
  BY PreOK DEF Pre, DescOK
<1>q. /\ IsDescription(q) /\ q.type = p.type /\ q.sd = p.sd
      /\ q.maxe = p.maxe /\ q.maxv = p.maxv
  BY <1>p, WithSet DEF Hellos
<1> HIDE DEF q
<1>w. /\ IsDescription(w) /\ SameHead(q, w)
      /\ DOMAIN w.sd = DOMAIN p.sd \cup h.hosts
      /\ \A x \in DOMAIN w.sd :
           w.sd[x] = IF x \in DOMAIN p.sd THEN p.sd[x] ELSE Reset
  BY <1>q, AddNewServersOK
<1> HIDE DEF w
<1>l. /\ IsDescription(l) /\ SameHead(w, l) /\ DOMAIN l.sd = DOMAIN w.sd
      /\ \A x \in DOMAIN l.sd :
           \/ l.sd[x] = w.sd[x]
           \/ /\ w.sd[x].type = "Unknown"
              /\ l.sd[x].type = "PossiblePrimary"
              /\ l.sd[x].hello = w.sd[x].hello
  BY <1>w, LabelUnknownMemberOK
<1> HIDE DEF l
<1>v. /\ IsDescription(v) /\ SameHead(w, v) /\ DOMAIN v.sd = DOMAIN w.sd
      /\ \A x \in DOMAIN v.sd :
           \/ v.sd[x] = w.sd[x]
           \/ /\ w.sd[x].type = "Unknown"
              /\ v.sd[x].type = "PossiblePrimary"
              /\ v.sd[x].hello = w.sd[x].hello
  BY <1>l, <1>w DEF SameHead
<1> HIDE DEF v
<1>1. Primaries(v) = {}
  <2>1. \A x \in DOMAIN w.sd : w.sd[x].type # "RSPrimary"
    BY <1>p, <1>w, ResetType DEF Primaries
  <2> QED
    BY <1>v, <2>1 DEF Primaries
<1>2. Others(p, a, v)
  <2>1. \A x \in DOMAIN w.sd :
          x \notin DOMAIN p.sd \/ Quiet(p.sd[x]) => Quiet(w.sd[x])
    BY <1>w, ResetType
  <2>2. \A x \in DOMAIN v.sd : Quiet(w.sd[x]) => Quiet(v.sd[x])
    BY <1>v DEF Quiet
  <2> QED
    BY <1>v, <2>1, <2>2 DEF Others
<1>3. v.type = "RSNoPrimary" /\ v.maxe = p.maxe /\ v.maxv = p.maxv
  BY <1>q, <1>w, <1>v DEF SameHead
<1>4. DescOK(v)
  BY <1>v, <1>1, <1>3 DEF DescOK
<1>5. CASE p.set \notin {NoSet, h.set}
  <2>1. /\ DescOK(RemoveServer(p, a)) /\ Others(p, a, RemoveServer(p, a))
        /\ SameHead(p, RemoveServer(p, a))
    BY RemoveOK
  <2>2. Follows(p, a, RemoveServer(p, a), new)
    BY <1>p, <2>1, FollowsSame DEF SameHead
  <2> QED
    BY <1>0, <1>5, <2>2 DEF res
<1>6. CASE p.set \in {NoSet, h.set} /\ MatchesMe(a, h)
  BY <1>0, <1>2, <1>3, <1>4, <1>6, <1>p, FollowsSame DEF res
<1>7. CASE p.set \in {NoSet, h.set} /\ ~MatchesMe(a, h)
  <2>1. Pre(v, a)
    BY <1>4, <1>p, <1>v, <1>w, DescPre
  <2>2. DescOK(o) /\ Others(v, a, o) /\ SameHead(v, o)
    BY <1>3, <2>1, RemoveOK
  <2> HIDE DEF o
  <2>3. Others(p, a, o)
    BY <1>2, <2>2, OthersTrans
  <2>4. Follows(p, a, o, new)
    BY <1>3, <1>p, <2>2, <2>3, FollowsSame DEF SameHead
  <2> QED
    BY <1>0, <1>7, <2>4 DEF res
<1> QED
  BY <1>5, <1>6, <1>7

\* A member answers while a primary is known.
LEMMA FromMemberOK ==
    ASSUME NEW p, NEW a, NEW h \in Hellos, NEW new, Pre(p, a),
           p.type = "RSWithPrimary", p.sd[a].type # "RSPrimary"
    PROVE  Follows(p, a, UpdateRsWithPrimaryFromMember(p, a, h), new)
<1> DEFINE q == [p EXCEPT !.type = "RSNoPrimary"]
           l == LabelUnknownMember(q, h.primary)
           o == RemoveServer(p, a)
           res == UpdateRsWithPrimaryFromMember(p, a, h)
<1>0. res = IF p.set # h.set THEN UpdateRsType(o)
            ELSE IF ~MatchesMe(a, h) THEN o
            ELSE IF ~HasPrimary(p) /\ h.primary # Nobody THEN l ELSE p
  BY DEF UpdateRsWithPrimaryFromMember
<1>p. IsDescription(p) /\ a \in DOMAIN p.sd /\ DescOK(p) /\ p.set # NoSet
  BY PreOK DEF Pre
<1>1. CASE p.set # h.set
  BY <1>0, <1>1, <1>p, RemoveUpdateOK DEF res
<1>2. CASE p.set = h.set /\ ~MatchesMe(a, h)
  <2>1. DescOK(o) /\ Others(p, a, o) /\ SameHead(p, o)
    BY RemoveOK
  <2>2. Follows(p, a, o, new)
    BY <1>p, <2>1, FollowsSame DEF SameHead
  <2> QED
    BY <1>0, <1>2, <2>2 DEF res
<1>3. CASE p.set = h.set /\ MatchesMe(a, h) /\ ~HasPrimary(p)
           /\ h.primary # Nobody
  <2>1. /\ IsDescription(q) /\ q.type = "RSNoPrimary" /\ q.sd = p.sd
        /\ q.maxe = p.maxe /\ q.maxv = p.maxv
    BY <1>p, WithType DEF TopTypes
  <2> HIDE DEF q
  <2>2. /\ IsDescription(l) /\ SameHead(q, l) /\ DOMAIN l.sd = DOMAIN p.sd
        /\ \A x \in DOMAIN l.sd :
             \/ l.sd[x] = p.sd[x]
             \/ /\ p.sd[x].type = "Unknown"
                /\ l.sd[x].type = "PossiblePrimary"
                /\ l.sd[x].hello = p.sd[x].hello
    BY <2>1, LabelUnknownMemberOK
  <2> HIDE DEF l
  <2>3. Primaries(l) = {}
    BY <1>3, <2>2 DEF Primaries, HasPrimary
  <2>4. DescOK(l)
    BY <2>1, <2>2, <2>3 DEF DescOK, SameHead
  <2>5. Others(p, a, l)
    BY <2>2 DEF Others, Quiet
  <2>6. Follows(p, a, l, new)
    BY <1>p, <2>1, <2>2, <2>4, <2>5, FollowsSame DEF SameHead
  <2> QED
    BY <1>0, <1>3, <2>6 DEF res
<1>4. CASE p.set = h.set /\ MatchesMe(a, h)
           /\ ~(~HasPrimary(p) /\ h.primary # Nobody)
  <2>1. Others(p, a, p)
    BY DEF Others
  <2> QED
    BY <1>0, <1>4, <1>p, <2>1, FollowsSame DEF res
<1> QED
  BY <1>1, <1>2, <1>3, <1>4

\* A server that answers as no member of a set would leaves the description,
\* or becomes what the description is about.
LEMMA StandaloneOK ==
    ASSUME NEW p, NEW a, NEW new, Pre(p, a), p.type = "Unknown",
           p.sd[a].type # "RSPrimary"
    PROVE  Follows(p, a, UpdateUnknownWithStandalone(p, a), new)
<1> DEFINE o == RemoveServer(p, a)
           q == [p EXCEPT !.type = "Single"]
           res == UpdateUnknownWithStandalone(p, a)
<1>0. res = IF DOMAIN p.sd # {a} THEN o ELSE q
  BY DEF UpdateUnknownWithStandalone
<1>p. IsDescription(p) /\ a \in DOMAIN p.sd /\ DescOK(p)
  BY PreOK DEF Pre
<1>1. Follows(p, a, o, new)
  <2>1. DescOK(o) /\ Others(p, a, o) /\ SameHead(p, o)
    BY RemoveOK
  <2> QED
    BY <1>p, <2>1, FollowsSame DEF SameHead
<1>2. CASE DOMAIN p.sd = {a}
  <2>1. /\ IsDescription(q) /\ q.type = "Single" /\ q.sd = p.sd
        /\ q.maxe = p.maxe /\ q.maxv = p.maxv
    BY <1>p, WithType DEF TopTypes
  <2> HIDE DEF q
  <2>2. Primaries(q) = Primaries(p) /\ a \in Addr
    BY <1>p, <2>1, HeadTypes DEF Primaries
  <2>3. DescOK(q)
    BY <1>2, <1>p, <2>1, <2>2 DEF DescOK
  <2>4. Others(p, a, q)
    BY <2>1 DEF Others
  <2>5. Follows(p, a, q, new)
    BY <1>p, <2>1, <2>3, <2>4, FollowsSame
  <2> QED
    BY <1>0, <1>2, <2>5 DEF res
<1> QED
  BY <1>0, <1>1, <1>2 DEF res

\* A description of an unknown deployment gets its type.
LEMMA TypeKnownOK ==
    ASSUME NEW p, NEW a, NEW new, NEW k \in {"Sharded", "RSNoPrimary"},
           Pre(p, a), p.type = "Unknown", p.sd[a].type # "RSPrimary"
    PROVE  /\ Pre([p EXCEPT !.type = k], a)
           /\ [p EXCEPT !.type = k].type = k
           /\ [p EXCEPT !.type = k].sd = p.sd
           /\ [p EXCEPT !.type = k].maxe = p.maxe
           /\ [p EXCEPT !.type = k].maxv = p.maxv
           /\ Follows(p, a, [p EXCEPT !.type = k], new)
<1> DEFINE q == [p EXCEPT !.type = k]
<1>p. IsDescription(p) /\ a \in DOMAIN p.sd /\ DescOK(p)
  BY PreOK DEF Pre
<1>1. /\ IsDescription(q) /\ q.type = k /\ q.sd = p.sd
      /\ q.maxe = p.maxe /\ q.maxv = p.maxv
  BY <1>p, WithType DEF TopTypes
<1> HIDE DEF q
<1>2. Primaries(q) = {}
  BY <1>p, <1>1 DEF Primaries, DescOK
<1>3. DescOK(q)
  BY <1>1, <1>2 DEF DescOK
<1>4. Others(p, a, q)
  BY <1>1 DEF Others
<1>5. Follows(p, a, q, new) /\ Pre(q, a)
  BY <1>p, <1>1, <1>3, <1>4, FollowsSame, DescPre
<1> QED
  BY <1>1, <1>5 DEF q

\* A change after one that leaves the newest primary alone.
LEMMA FollowsTrans ==
    ASSUME NEW t, NEW a, NEW p, NEW u, NEW new, Others(t, a, p),
           p.maxe = t.maxe, p.maxv = t.maxv, Follows(p, a, u, new)
    PROVE  Follows(t, a, u, new)
<1>1. Others(t, a, u)
  BY OthersTrans DEF Follows
<1> QED
  BY <1>1 DEF Follows

\* The table of transitions, for a server whose hello has just been put in.
LEMMA TransitionOK ==
    ASSUME NEW p, NEW a, NEW h \in Hellos, Pre(p, a),
           p.type # "Single", p.sd[a] = Describe(h)
    PROVE  Follows(p, a, Transition(p, a, h), ElectionFirst(h.rel))
<1> DEFINE k == p.sd[a].type
           res == Transition(p, a, h)
           new == ElectionFirst(h.rel)
           member == {"RSSecondary", "RSArbiter", "RSOther"}
           silent == {"RSGhost", "Unknown"}
<1>k. k \in {"Standalone", "Mongos", "RSPrimary"} \cup member \cup silent
  BY DescribeType
<1>p. IsDescription(p) /\ a \in DOMAIN p.sd /\ p.type \in TopTypes
  BY HeadTypes DEF Pre
<1>s. k # "RSPrimary" => DescOK(p)
  BY PreOK
<1>o. Others(p, a, p)
  BY DEF Others
<1>f. k # "RSPrimary" => Follows(p, a, p, new)
  BY <1>p, <1>s, <1>o, FollowsSame
<1>r. Follows(p, a, RemoveServer(p, a), new)
  <2>1. /\ DescOK(RemoveServer(p, a)) /\ Others(p, a, RemoveServer(p, a))
        /\ SameHead(p, RemoveServer(p, a))
    BY RemoveOK
  <2> QED
    BY <1>p, <2>1, FollowsSame DEF SameHead
<1>1. CASE p.type = "Unknown" /\ k # "RSPrimary"
  <2>1. CASE k = "Standalone"
    <3>1. res = UpdateUnknownWithStandalone(p, a)
      BY <1>1, <2>1 DEF Transition
    <3> QED
      BY <1>1, <3>1, StandaloneOK
  <2>2. CASE k = "Mongos"
    <3>1. res = [p EXCEPT !.type = "Sharded"]
      BY <1>1, <2>2 DEF Transition
    <3>2. Follows(p, a, [p EXCEPT !.type = "Sharded"], new)
      BY <1>1, TypeKnownOK
    <3> QED
      BY <3>1, <3>2
  <2>3. CASE k \in member
    <3> DEFINE q == [p EXCEPT !.type = "RSNoPrimary"]
    <3>1. res = UpdateRsWithoutPrimary(q, a, h)
      BY <1>1, <2>3 DEF Transition
    <3>2. /\ Pre(q, a) /\ q.type = "RSNoPrimary" /\ q.sd = p.sd
          /\ q.maxe = p.maxe /\ q.maxv = p.maxv /\ Others(p, a, q)
      BY <1>1, TypeKnownOK DEF Follows
    <3> HIDE DEF q
    <3>3. Follows(q, a, res, new)
      BY <1>1, <3>1, <3>2, WithoutPrimaryOK
    <3> QED
      BY <3>2, <3>3, FollowsTrans
  <2>4. CASE k \in silent
    <3>1. res = p
      BY <1>1, <2>4 DEF Transition
    <3> QED
      BY <1>1, <1>f, <3>1
  <2> QED
    BY <1>k, <1>1, <2>1, <2>2, <2>3, <2>4
<1>2. CASE p.type # "Sharded" /\ k = "RSPrimary"
  <2>1. res = UpdateRsFromPrimary(p, a, h)
    BY <1>2 DEF Transition
  <2> QED
    BY <1>2, <1>k, <2>1, FromPrimaryOK
<1>3. CASE p.type = "Sharded"
  <2>1. CASE k \in {"Mongos", "Unknown"}
    <3>1. res = p
      BY <1>3, <2>1 DEF Transition
    <3> QED
      BY <1>f, <2>1, <3>1
  <2>2. CASE k \notin {"Mongos", "Unknown"}
    <3>1. res = RemoveServer(p, a)
      BY <1>3, <2>2 DEF Transition
    <3> QED
      BY <1>r, <3>1
  <2> QED
    BY <2>1, <2>2
<1>4. CASE p.type = "RSNoPrimary" /\ k # "RSPrimary"
  <2>1. CASE k \in {"Standalone", "Mongos"}
    <3>1. res = RemoveServer(p, a)
      BY <1>4, <2>1 DEF Transition
    <3> QED
      BY <1>r, <3>1
  <2>2. CASE k \in member
    <3>1. res = UpdateRsWithoutPrimary(p, a, h)
      BY <1>4, <2>2 DEF Transition
    <3> QED
      BY <1>4, <3>1, WithoutPrimaryOK
  <2>3. CASE k \in silent
    <3>1. res = p
      BY <1>4, <2>3 DEF Transition
    <3> QED
      BY <1>4, <1>f, <3>1
  <2> QED
    BY <1>k, <1>4, <2>1, <2>2, <2>3
<1>5. CASE p.type = "RSWithPrimary" /\ k # "RSPrimary"
  <2>0. p.set # NoSet
    BY <1>5 DEF Pre
  <2>1. CASE k \in {"Standalone", "Mongos"}
    <3>1. res = UpdateRsType(RemoveServer(p, a))
      BY <1>5, <2>1 DEF Transition
    <3> QED
      BY <2>0, <3>1, RemoveUpdateOK
  <2>2. CASE k \in member
    <3>1. res = UpdateRsWithPrimaryFromMember(p, a, h)
      BY <1>5, <2>2 DEF Transition
    <3> QED
      BY <1>5, <3>1, FromMemberOK
  <2>3. CASE k \in silent
    <3>1. res = UpdateRsType(p)
      BY <1>5, <2>3 DEF Transition
    <3>2. DescOK(p)
      BY <1>5, <1>s
    <3>3. /\ DescOK(res) /\ res.sd = p.sd
          /\ res.maxe = p.maxe /\ res.maxv = p.maxv
      BY <2>0, <3>1, <3>2, UpdateOK
    <3> HIDE DEF res
    <3>4. Others(p, a, res)
      BY <3>3 DEF Others
    <3> QED
      BY <1>p, <3>3, <3>4, FollowsSame DEF res
  <2> QED
    BY <1>k, <1>5, <2>1, <2>2, <2>3
<1>t. p.type \in {"Unknown", "Sharded", "RSNoPrimary", "RSWithPrimary"}
  BY <1>p DEF TopTypes
<1> QED
  BY <1>t, <1>1, <1>2, <1>3, <1>4, <1>5, Zenon

\* A hello was answered.
LEMMA HandleHelloOK ==
    ASSUME NEW t, NEW a, NEW h \in Hellos, DescOK(t), a \in DOMAIN t.sd
    PROVE  Follows(t, a, HandleHello(t, a, h), ElectionFirst(h.rel))
<1> DEFINE wrong == t.type = "Single" /\ t.set \notin {NoSet, h.set}
           d == IF wrong THEN Forget(Describe(h)) ELSE Describe(h)
           p == [t EXCEPT !.sd[a] = d]
           res == Transition(p, a, h)
           new == ElectionFirst(h.rel)
<1>0. HandleHello(t, a, h) \in {t, res}
  BY DEF HandleHello
<1>1. d \in ServerDescriptions /\ (t.type # "Single" => d = Describe(h))
  BY DescribeType, ForgetType
<1> HIDE DEF d
<1>t. IsDescription(t)
  BY DEF DescOK
<1>i. Follows(t, a, t, new)
  BY <1>t, FollowsSame DEF Others
<1>2. /\ IsDescription(p) /\ SameHead(t, p) /\ DOMAIN p.sd = DOMAIN t.sd
      /\ \A x \in DOMAIN t.sd : p.sd[x] = IF x = a THEN d ELSE t.sd[x]
  BY <1>1, <1>t, PutServer
<1> HIDE DEF p, res
<1>3. Others(t, a, p)
  BY <1>2, OthersSame
<1>4. Primaries(p) \ {a} = Primaries(t) \ {a}
  BY <1>2 DEF Primaries
<1>5. \A x \in Primaries(p) \ {a} : p.sd[x] = t.sd[x]
  BY <1>2 DEF Primaries
<1>6. Pre(p, a)
  BY <1>2, <1>4, <1>5 DEF DescOK, Pre, SameHead
<1>7. ASSUME t.type = "Single"
      PROVE  Follows(t, a, res, new)
  <2>1. p.type = "Single" /\ \E x \in Addr : DOMAIN p.sd = {x}
    BY <1>2, <1>7 DEF DescOK, SameHead
  <2>2. res = p
    BY <2>1 DEF Transition, res
  <2>3. \A x, y \in Primaries(p) : x = y
    BY <2>1 DEF Primaries
  <2>4. DescOK(p)
    BY <1>2, <2>1, <2>3 DEF DescOK
  <2>5. Follows(t, a, p, new)
    BY <1>2, <1>3, <1>t, <2>4, FollowsSame DEF SameHead
  <2> QED
    BY <2>2, <2>5
<1>8. ASSUME t.type # "Single"
      PROVE  Follows(t, a, res, new)
  <2>1. p.type # "Single" /\ p.sd[a] = Describe(h)
    BY <1>1, <1>2, <1>8 DEF SameHead
  <2>2. Follows(p, a, res, new)
    BY <1>6, <2>1, TransitionOK DEF res
  <2> QED
    BY <1>2, <1>3, <2>2, FollowsTrans DEF SameHead
<1>9. Follows(t, a, res, new)
  BY <1>7, <1>8
<1> QED
  BY <1>0, <1>9, <1>i DEF p, res

-----------------------------------------------------------------------------
(***************************************************************************)
(* What every step keeps.                                                   *)
(***************************************************************************)

\* A step that accepts no primary and leaves servers described; and the answer
\* of a, which may accept one by the rule for its release.
Steady == best' = best /\ DOMAIN td.sd \subseteq DOMAIN td'.sd
Accepts(a) == NotBefore(ElectionFirst(truth[Me[a]].rel),
                        best'.e, best'.v, best.e, best.v)

\* A server is known by one of its addresses.
LEMMA ServersAreAddresses == Servers \subseteq Addr
<1>1. Me \in [Addr -> Addr]
  BY TopologyAssumption
<1> QED
  BY <1>1 DEF Servers

\* The addresses of servers and of the members of a set.
LEMMA Addresses ==
    ASSUME TypeOK
    PROVE  /\ Servers \subseteq Addr
           /\ Members \in SUBSET Servers
           /\ Len(Configs) \in Nat
           /\ \A i \in 1 .. Len(Configs) : Configs[i] \in SUBSET Addr
<1>1. Servers \subseteq Addr
  BY ServersAreAddresses
<1>2. /\ Len(Configs) \in Nat
      /\ \A i \in 1 .. Len(Configs) : Configs[i] \in SUBSET Servers
  BY TopologyAssumption
<1>3. Members \in SUBSET Servers
  BY <1>2 DEF Members, TypeOK
<1> QED
  BY <1>1, <1>2, <1>3

\* What a server answers is an answer.
LEMMA HelloOK ==
    ASSUME TypeOK, NEW a \in Addr
    PROVE  Hello(a) \in Hellos /\ Hello(a).rel = truth[Me[a]].rel
<1> DEFINE s == truth[Me[a]]
           rs == s.kind \in {"primary", "secondary", "arbiter", "other"}
           ok == s.kind # "closing"
           tv == IF s.kind # "closing" THEN s.tv ELSE 0
           role == IF s.kind = "alien" THEN "primary" ELSE s.kind
           set == IF rs THEN "rs"
                  ELSE IF s.kind = "alien" THEN "other" ELSE NoSet
           hosts == IF rs THEN Configs[s.setv]
                    ELSE IF s.kind = "alien" THEN {Me[a]} ELSE {}
<1>1. Me[a] \in Servers /\ Me[a] \in Addr
  BY TopologyAssumption DEF Servers
<1>2. s \in ServerStates
  BY <1>1 DEF TypeOK
<1>3. /\ s.kind \in Kinds /\ s.election \in Int /\ s.setv \in Int
      /\ s.setv \in 1 .. Len(Configs) /\ s.primary \in Addr \cup {Nobody}
      /\ s.rel \in Releases /\ s.tv \in Nat
  BY <1>2, Addresses DEF ServerStates
<1>4. hosts \in SUBSET Addr
  BY <1>1, <1>3, Addresses
<1>5. Hello(a) = [ok |-> ok, rel |-> s.rel, tv |-> tv, role |-> role,
                  set |-> set, me |-> Me[a], primary |-> s.primary,
                  hosts |-> hosts, election |-> s.election, setv |-> s.setv]
  BY DEF Hello
<1>6. role \in Kinds /\ set \in SetNames /\ ok \in BOOLEAN /\ tv \in Nat
  BY <1>3 DEF Kinds, SetNames
<1> HIDE DEF ok, tv, role, set, hosts
<1> QED
  BY <1>1, <1>3, <1>4, <1>5, <1>6 DEF Hellos

\* A step that leaves the client's beliefs, nodes and operation alone.
LEMMA SameClient ==
    ASSUME IInv, TypeOK',
           UNCHANGED <<td, best, nodes, retired, conn, trying, sent, pc, phase,
                       chosen, suspect>>
    PROVE  IInv' /\ Steady
<1>1. DescOK(td') /\ BestOK' /\ Steady
  BY DEF IInv, BestOK, Steady
<1>2. NodesOK' /\ CommandsOK' /\ SuspectsOK' /\ PhaseOK'
  BY DEF IInv, NodesOK, CommandsOK, SuspectsOK, PhaseOK, Pending
<1>3. OneStreamPerNode' /\ ChosenHasNode' /\ NoSuspectReused'
  BY DEF IInv, OneStreamPerNode, ChosenHasNode, NoSuspectReused, Pending
<1> QED
  BY <1>1, <1>2, <1>3 DEF IInv

\* A step of the operation that leaves beliefs and nodes alone.
LEMMA SameNodes ==
    ASSUME IInv, TypeOK', pc # "scan", PhaseOK', ChosenHasNode',
           NoSuspectReused',
           UNCHANGED <<td, best, nodes, retired, conn, trying, sent, suspect>>
    PROVE  IInv' /\ Steady
<1>1. DescOK(td') /\ BestOK' /\ Steady
  BY DEF IInv, BestOK, Steady
<1>2. NodesOK' /\ CommandsOK' /\ SuspectsOK'
  BY DEF IInv, NodesOK, CommandsOK, SuspectsOK, Pending
<1>3. OneStreamPerNode'
  BY DEF IInv, OneStreamPerNode, Pending
<1> QED
  BY <1>1, <1>2, <1>3 DEF IInv

\* A step that gives the description t.
LEMMA DescribesOK ==
    ASSUME IInv, NEW t, DescOK(t), Describes(t),
           t.type = "Single" => t.maxe = td.maxe /\ t.maxv = td.maxv
    PROVE  td' = t /\ BestOK' /\ best' = [e |-> t.maxe, v |-> t.maxv]
<1> DEFINE P == CHOOSE x \in DOMAIN t.sd : t.sd[x].type = "RSPrimary"
<1>1. td' = t
  BY DEF Describes
<1>2. CASE t.type = "Single"
  BY <1>1, <1>2 DEF Describes, IInv, BestOK
<1>3. CASE t.type # "Single" /\ ~HasPrimary(t)
  BY <1>1, <1>3 DEF Describes, BestOK
<1>4. CASE t.type # "Single" /\ HasPrimary(t)
  <2>1. best' = [e |-> t.sd[P].election, v |-> t.sd[P].setv]
    BY <1>4 DEF Describes
  <2>2. P \in Primaries(t)
    BY <1>4 DEF HasPrimary, Primaries
  <2> HIDE DEF P
  <2>3. best' = [e |-> t.maxe, v |-> t.maxv]
    BY <1>4, <2>1, <2>2 DEF DescOK
  <2> QED
    BY <1>1, <2>3 DEF BestOK
<1> QED
  BY <1>2, <1>3, <1>4

\* The servers change on their own.
LEMMA ChangeStep ==
    ASSUME IInv, NEW s \in Servers, NEW k \in Kinds, NEW e \in Nat,
           NEW v \in 1 .. Len(Configs), NEW p \in Addr \cup {Nobody},
           Change(s, k, e, v, p), elections' \in Nat,
           config' \in 1 .. Len(Configs), dead' \in SUBSET Addr
    PROVE  IInv' /\ Steady
<1> DEFINE w == NextVersion(truth[s].rel, truth[s].tv)
           new == [kind |-> k, election |-> e, setv |-> v, primary |-> p,
                   rel |-> truth[s].rel, tv |-> w]
<1>1. truth[s].rel \in Releases /\ truth[s].tv \in Nat
  BY DEF IInv, TypeOK, ServerStates
<1>2. w \in Nat
  BY <1>1 DEF NextVersion
<1>3. truth' = [truth EXCEPT ![s] = new]
  BY DEF Change
<1> HIDE DEF w
<1>4. new \in ServerStates
  BY <1>1, <1>2 DEF ServerStates
<1> HIDE DEF new
<1>5. truth' \in [Servers -> ServerStates]
  BY <1>3, <1>4 DEF IInv, TypeOK
<1>6. TypeOK'
  BY <1>5 DEF IInv, TypeOK, Change, scanVars, cmdVars, opVars
<1> QED
  BY <1>6, SameClient DEF Change, scanVars, cmdVars, opVars

\* The servers change; the client does not notice.
LEMMA EnvironmentStep ==
    ASSUME IInv, Environment
    PROVE  IInv' /\ Steady
<1>t. TypeOK
  BY DEF IInv
<1>a. /\ Servers \subseteq Addr /\ Members \in SUBSET Servers
      /\ Len(Configs) \in Nat
  BY <1>t, Addresses
<1>e. /\ elections \in Nat /\ config \in 1 .. Len(Configs)
      /\ dead \in SUBSET Addr /\ conn \in SUBSET Addr
      /\ changes \in Nat
  BY <1>t DEF TypeOK
<1>k. /\ "primary" \in Kinds /\ "secondary" \in Kinds /\ "down" \in Kinds
      /\ "closing" \in Kinds /\ Strays \subseteq Kinds
  BY TopologyAssumption DEF Kinds
<1> SUFFICES ASSUME NEW s \in Servers,
                    \/ Elect(s) \/ ShutDown(s) \/ Fail(s) \/ Upgrade(s)
                    \/ Reconfig(s)
                    \/ \E p \in Members \cup {Nobody} : Follow(s, p)
                    \/ \E k \in Strays : Stray(s, k)
             PROVE  IInv' /\ Steady
  BY DEF Environment
<1>s. /\ truth[s].setv \in 1 .. Len(Configs) /\ truth[s].election \in Nat
      /\ s \in Addr /\ truth[s] \in ServerStates
  BY <1>a, <1>t DEF TypeOK, ServerStates
<1>1. CASE Elect(s)
  <2>1. PICK v \in {config, truth[s].setv} :
          Change(s, "primary", elections + 1, v, s)
    BY <1>1 DEF Elect
  <2>2. /\ elections' = elections + 1 /\ config' = config /\ dead' = dead
        /\ elections + 1 \in Nat /\ v \in 1 .. Len(Configs)
    BY <1>1, <1>e, <1>s DEF Elect
  <2> QED
    BY <1>e, <1>k, <1>s, <2>1, <2>2, ChangeStep
<1>2. CASE ShutDown(s)
  <2>1. /\ Change(s, "closing", 0, config, Nobody)
        /\ elections' = elections /\ config' = config /\ dead' = dead
    BY <1>2 DEF ShutDown
  <2> QED
    BY <1>e, <1>k, <2>1, ChangeStep
<1>3. CASE Fail(s)
  <2>1. /\ Change(s, "down", 0, config, Nobody)
        /\ elections' = elections /\ config' = config
        /\ dead' = dead \cup {a \in conn \cup Asked : Me[a] = s}
    BY <1>3 DEF Fail
  <2>2. dead' \in SUBSET Addr
    BY <1>e, <2>1 DEF Asked
  <2> QED
    BY <1>e, <1>k, <2>1, <2>2, ChangeStep
<1>4. CASE Upgrade(s)
  <2>1. /\ truth' = [truth EXCEPT ![s] =
                       [truth[s] EXCEPT !.rel = truth[s].rel + 1]]
        /\ truth[s].rel + 1 \in Releases
    BY <1>4 DEF Upgrade
  <2>2. [truth[s] EXCEPT !.rel = truth[s].rel + 1] \in ServerStates
    BY <1>s, <2>1 DEF ServerStates
  <2>3. truth' \in [Servers -> ServerStates]
    BY <1>t, <2>1, <2>2 DEF TypeOK
  <2>4. TypeOK'
    BY <1>4, <1>e, <1>t, <2>3
       DEF TypeOK, Upgrade, scanVars, cmdVars, opVars
  <2> QED
    BY <1>4, <2>4, SameClient DEF Upgrade, scanVars, cmdVars, opVars
<1>5. CASE Reconfig(s)
  <2>1. /\ Change(s, "primary", truth[s].election, config + 1, s)
        /\ config < Len(Configs) /\ config' = config + 1
        /\ elections' = elections /\ dead' = dead
    BY <1>5 DEF Reconfig
  <2>2. config + 1 \in 1 .. Len(Configs)
    BY <1>a, <1>e, <2>1
  <2> QED
    BY <1>e, <1>k, <1>s, <2>1, <2>2, ChangeStep
<1>6. ASSUME NEW p \in Members \cup {Nobody}, Follow(s, p)
      PROVE  IInv' /\ Steady
  <2>1. /\ Change(s, "secondary", 0, config, p)
        /\ elections' = elections /\ config' = config /\ dead' = dead
    BY <1>6 DEF Follow
  <2>2. p \in Addr \cup {Nobody}
    BY <1>a
  <2> QED
    BY <1>e, <1>k, <2>1, <2>2, ChangeStep
<1>7. ASSUME NEW k \in Strays, Stray(s, k)
      PROVE  IInv' /\ Steady
  <2> DEFINE e == IF k = "alien" THEN 1 ELSE 0
  <2>1. /\ Change(s, k, e, config, Nobody) /\ e \in Nat
        /\ elections' = elections /\ config' = config /\ dead' = dead
    BY <1>7 DEF Stray
  <2> HIDE DEF e
  <2> QED
    BY <1>e, <1>k, <2>1, ChangeStep
<1> QED
  BY <1>1, <1>2, <1>3, <1>4, <1>5, <1>6, <1>7

\* What a failed hello or operation leaves of a description.
LEMMA InvalidatedOK ==
    ASSUME IInv, NEW t, DescOK(t), t.maxe = td.maxe, t.maxv = td.maxv,
           DOMAIN t.sd = DOMAIN td.sd, NEW a \in DOMAIN td.sd,
           \A x \in DOMAIN td.sd : Quiet(td.sd[x]) => Quiet(t.sd[x]) \/ x = a,
           Describes(InvalidateServer(t, a))
    PROVE  /\ DescOK(td') /\ BestOK' /\ Steady
           /\ DOMAIN td'.sd = DOMAIN td.sd
           /\ Quiet(td'.sd[a])
           /\ \A x \in DOMAIN td.sd : Quiet(td.sd[x]) => Quiet(td'.sd[x])
<1> DEFINE u == InvalidateServer(t, a)
<1>1. Pre(t, a)
  BY DescPre
<1>2. /\ DescOK(u) /\ u.maxe = t.maxe /\ u.maxv = t.maxv
      /\ DOMAIN u.sd = DOMAIN t.sd
      /\ \A x \in DOMAIN t.sd :
           u.sd[x] = IF x = a THEN Forget(t.sd[a]) ELSE t.sd[x]
  BY <1>1, InvalidateOK
<1>3. Quiet(Forget(t.sd[a]))
  BY ForgetType, HeadTypes DEF DescOK
<1> HIDE DEF u
<1>4. td' = u /\ BestOK' /\ best' = [e |-> u.maxe, v |-> u.maxv]
  BY <1>2, DescribesOK DEF u
<1>5. best' = best
  BY <1>2, <1>4 DEF IInv, BestOK
<1> QED
  BY <1>2, <1>3, <1>4, <1>5 DEF Steady

\* What a failed hello leaves of the description.
LEMMA Invalidated ==
    ASSUME IInv, NEW a \in DOMAIN td.sd, Describes(InvalidateServer(td, a))
    PROVE  /\ DescOK(td') /\ BestOK' /\ Steady
           /\ DOMAIN td'.sd = DOMAIN td.sd
           /\ Quiet(td'.sd[a])
           /\ \A x \in DOMAIN td.sd : Quiet(td.sd[x]) => Quiet(td'.sd[x])
<1>1. DescOK(td)
  BY DEF IInv
<1> QED
  BY <1>1, InvalidatedOK

\* Nodes and their commands after a hello was handled.
LEMMA ReconcileOK ==
    ASSUME IInv, NEW t, IsDescription(t), NEW left \in [Addr -> Nat],
           \A x \in Addr : left[x] > 0 => x \in nodes \cup retired,
           Reconcile(t, left)
    PROVE  /\ nodes' \subseteq DOMAIN t.sd /\ nodes' \cap retired' = {}
           /\ nodes' \subseteq Addr /\ retired' \subseteq Addr
           /\ trying' \in [Addr -> Nat]
           /\ nodes \cup retired \subseteq nodes' \cup retired'
           /\ \A x \in nodes \cup retired : trying'[x] = left[x]
           /\ \A x \in Addr : trying'[x] > 0 => x \in nodes' \cup retired'
           /\ \A x \in DOMAIN t.sd \ nodes' : x \notin nodes
<1> DEFINE new == DOMAIN t.sd \ (nodes \cup retired)
           gone == nodes \ DOMAIN t.sd
<1>1. /\ nodes' = (nodes \ gone) \cup new /\ retired' = retired \cup gone
      /\ trying' = [x \in Addr |-> IF x \in new THEN Records[x] ELSE left[x]]
  BY DEF Reconcile
<1>2. /\ DOMAIN t.sd \subseteq Addr /\ nodes \subseteq Addr
      /\ retired \subseteq Addr /\ nodes \cap retired = {}
  BY HeadTypes DEF IInv, TypeOK, NodesOK
<1>3. trying' \in [Addr -> Nat]
  BY <1>1, TopologyAssumption
<1>4. \A x \in nodes \cup retired : trying'[x] = left[x]
  BY <1>1, <1>2
<1>5. \A x \in Addr : trying'[x] > 0 => x \in new \/ x \in nodes \cup retired
  BY <1>1
<1> QED
  BY <1>1, <1>2, <1>3, <1>4, <1>5

\* A node that is asked or connects, and is not retired, is described.
LEMMA PendingOK ==
    ASSUME IInv, NEW a \in Addr, a \notin retired, sent[a] # "no" \/ trying[a] > 0
    PROVE  /\ a \in Pending /\ a \in nodes /\ a \in DOMAIN td.sd /\ pc = "scan"
           /\ a \notin conn
  BY DEF IInv, NodesOK, OneStreamPerNode, Pending

\* A hello is answered: description, nodes and streams change together.
LEMMA ReplyOkStep ==
    ASSUME IInv, NEW a \in Addr, ReplyOk(a)
    PROVE  IInv' /\ Accepts(a)
<1> DEFINE h == Hello(a)
           t == HandleHello(td, a, h)
<1>0. /\ sent[a] # "no" /\ a \notin retired
      /\ Describes(t) /\ Reconcile(t, trying)
      /\ sent' = [sent EXCEPT ![a] = "no"]
      /\ conn' = conn \cup {a} /\ cool' = cool \ {a}
      /\ suspect' = suspect \ {a}
      /\ UNCHANGED <<setVars, dead, stale, lasterr, opVars>>
  BY DEF ReplyOk, Asked
<1>s. snubbed' \in {snubbed, snubbed \ {a}, snubbed \cup {a}}
  <2>1. sent[a] \in {"kept", "fresh"} /\ h.ok \in BOOLEAN
    BY <1>0, HelloOK DEF IInv, TypeOK, Hellos
  <2>2. snubbed' = CASE sent[a] = "kept"              -> snubbed
                     [] sent[a] = "fresh" /\ h.ok     -> snubbed \ {a}
                     [] sent[a] = "fresh" /\ ~h.ok    -> snubbed \cup {a}
    BY DEF ReplyOk
  <2> HIDE DEF h
  <2> QED
    BY <2>1, <2>2
<1>1. a \in nodes /\ a \in DOMAIN td.sd /\ pc = "scan" /\ a \notin conn
  BY <1>0, PendingOK
<1>2. h \in Hellos /\ h.rel = truth[Me[a]].rel
  BY HelloOK DEF IInv
<1>3. Follows(td, a, t, ElectionFirst(h.rel))
  BY <1>1, <1>2, HandleHelloOK DEF IInv
<1> HIDE DEF t, h
<1>4. /\ DescOK(t) /\ IsDescription(t) /\ Others(td, a, t)
      /\ t.type = "Single" => t.maxe = td.maxe /\ t.maxv = td.maxv
      /\ NotBefore(ElectionFirst(h.rel), t.maxe, t.maxv, td.maxe, td.maxv)
  BY <1>3 DEF Follows, DescOK
<1>5. td' = t /\ BestOK' /\ best' = [e |-> t.maxe, v |-> t.maxv]
  BY <1>0, <1>4, DescribesOK
<1>6. Accepts(a)
  BY <1>2, <1>4, <1>5 DEF Accepts, IInv, BestOK
<1>c. /\ trying \in [Addr -> Nat] /\ trying[a] = 0
      /\ sent \in [Addr -> {"no", "kept", "fresh"}]
      /\ \A x \in Addr : sent[x] # "no" => trying[x] = 0
      /\ \A x \in Addr : sent[x] # "no" \/ trying[x] > 0 =>
           x \in nodes \cup retired /\ x \notin conn
      /\ conn \subseteq nodes \cup retired
  BY <1>0 DEF IInv, TypeOK, NodesOK, CommandsOK, OneStreamPerNode, Pending
<1>7. /\ nodes' \subseteq DOMAIN t.sd /\ nodes' \cap retired' = {}
      /\ nodes' \subseteq Addr /\ retired' \subseteq Addr
      /\ trying' \in [Addr -> Nat]
      /\ nodes \cup retired \subseteq nodes' \cup retired'
      /\ \A x \in nodes \cup retired : trying'[x] = trying[x]
      /\ \A x \in Addr : trying'[x] > 0 => x \in nodes' \cup retired'
      /\ \A x \in DOMAIN t.sd \ nodes' : x \notin nodes
  BY <1>0, <1>4, <1>c, ReconcileOK
<1>8. \A x \in Addr : sent'[x] = IF x = a THEN "no" ELSE sent[x]
  BY <1>0, <1>c
<1>9. TypeOK'
  <2>1. sent' \in [Addr -> {"no", "kept", "fresh"}] /\ snubbed' \subseteq Addr
    BY <1>0, <1>c, <1>s DEF IInv, TypeOK
  <2> QED
    BY <1>0, <1>1, <1>4, <1>5, <1>7, <2>1 DEF IInv, TypeOK, setVars, opVars
<1>10. NodesOK'
  <2>1. pc' = "scan"
    BY <1>0, <1>1 DEF opVars
  <2>2. conn' \subseteq nodes' \cup retired'
    BY <1>0, <1>1, <1>7, <1>c
  <2>3. ASSUME NEW x \in DOMAIN t.sd \ nodes'
        PROVE  Quiet(t.sd[x])
    <3>1. x # a /\ (x \notin DOMAIN td.sd \/ Quiet(td.sd[x]))
      BY <1>1, <1>7 DEF IInv, NodesOK
    <3> QED
      BY <1>4, <3>1 DEF Others
  <2>4. Pending' \subseteq nodes' \cup retired'
    BY <1>7, <1>8, <1>c DEF Pending
  <2> QED
    BY <1>5, <1>7, <2>1, <2>2, <2>3, <2>4 DEF NodesOK
<1>11. CommandsOK'
  BY <1>7, <1>8, <1>c DEF CommandsOK
<1>12. SuspectsOK'
  <2>1. ASSUME NEW x \in suspect', x \in conn', x \in DOMAIN t.sd
        PROVE  Quiet(t.sd[x])
    <3>1. x # a /\ (x \notin DOMAIN td.sd \/ Quiet(td.sd[x]))
      BY <1>0, <2>1 DEF IInv, SuspectsOK
    <3> QED
      BY <1>4, <2>1, <3>1 DEF Others
  <2> QED
    BY <1>5, <2>1 DEF SuspectsOK
<1>13. PhaseOK' /\ ChosenHasNode' /\ NoSuspectReused'
  BY <1>0, <1>1 DEF IInv, PhaseOK, ChosenHasNode, NoSuspectReused, opVars
<1>14. OneStreamPerNode'
  <2>1. ASSUME NEW x \in Addr, sent'[x] # "no" \/ trying'[x] > 0
        PROVE  x \notin conn'
    <3>1. x # a
      BY <1>1, <1>7, <1>8, <1>c, <2>1
    <3>2. x \notin conn
      <4>1. CASE x \in nodes \cup retired
        BY <1>7, <1>8, <1>c, <2>1, <3>1, <4>1
      <4>2. CASE x \notin nodes \cup retired
        BY <1>c, <4>2
      <4> QED
        BY <4>1, <4>2
    <3> QED
      BY <1>0, <3>1, <3>2
  <2> QED
    BY <2>1 DEF OneStreamPerNode, Pending
<1> QED
  BY <1>4, <1>5, <1>6, <1>9, <1>10, <1>11, <1>12, <1>13, <1>14 DEF IInv

\* A hello fails: its server is unknown, and no other.
LEMMA ReplyFailStep ==
    ASSUME IInv, NEW a \in Addr, ReplyFail(a)
    PROVE  IInv' /\ Steady
<1> DEFINE t == InvalidateServer(td, a)
           left == [trying EXCEPT ![a] = 0]
           again == /\ trying' = [trying EXCEPT ![a] = Records[a]]
                    /\ UNCHANGED <<nodes, retired>>
<1>0. /\ a \notin retired /\ (trying[a] = 1 \/ sent[a] # "no")
      /\ Describes(t) /\ (again \/ Reconcile(t, left))
      /\ cool' = cool \cup {a} /\ lasterr' = lasterr \cup {a}
      /\ dead' = dead \ {a} /\ snubbed' = snubbed \ {a}
      /\ sent' = [sent EXCEPT ![a] = "no"]
      /\ UNCHANGED <<setVars, stale, conn, opVars, suspect>>
  BY DEF ReplyFail, Asked
<1>1. a \in nodes /\ a \in DOMAIN td.sd /\ pc = "scan" /\ a \notin conn
  <2>1. sent[a] # "no" \/ trying[a] > 0
    BY <1>0
  <2> QED
    BY <1>0, <2>1, PendingOK
<1>2. /\ DescOK(td') /\ BestOK' /\ Steady /\ DOMAIN td'.sd = DOMAIN td.sd
      /\ \A x \in DOMAIN td.sd : Quiet(td.sd[x]) => Quiet(td'.sd[x])
  BY <1>0, <1>1, Invalidated
<1>3. td' = t
  BY <1>0 DEF Describes
<1> HIDE DEF t
<1>c. /\ trying \in [Addr -> Nat]
      /\ sent \in [Addr -> {"no", "kept", "fresh"}]
      /\ \A x \in Addr : sent[x] # "no" => trying[x] = 0
      /\ \A x \in Addr : sent[x] # "no" \/ trying[x] > 0 =>
           x \in nodes \cup retired /\ x \notin conn
      /\ conn \subseteq nodes \cup retired
      /\ nodes \subseteq Addr /\ retired \subseteq Addr
      /\ nodes \subseteq DOMAIN td.sd /\ nodes \cap retired = {}
  BY DEF IInv, TypeOK, NodesOK, CommandsOK, OneStreamPerNode, Pending
<1>4. /\ nodes' \subseteq DOMAIN td.sd /\ nodes' \cap retired' = {}
      /\ nodes' \subseteq Addr /\ retired' \subseteq Addr
      /\ trying' \in [Addr -> Nat]
      /\ nodes \cup retired \subseteq nodes' \cup retired'
      /\ \A x \in nodes \cup retired : x # a => trying'[x] = trying[x]
      /\ \A x \in Addr : trying'[x] > 0 => x \in nodes' \cup retired'
      /\ \A x \in DOMAIN td.sd \ nodes' : x \notin nodes
  <2>1. CASE again
    <3>1. /\ trying' \in [Addr -> Nat]
          /\ \A x \in Addr : x # a => trying'[x] = trying[x]
      BY <1>c, <2>1, TopologyAssumption
    <3>2. \A x \in Addr : trying'[x] > 0 => x \in nodes \cup retired
      BY <1>1, <1>c, <3>1
    <3> QED
      BY <1>c, <2>1, <3>1, <3>2
  <2>2. CASE Reconcile(t, left)
    <3>1. IsDescription(t)
      BY <1>2, <1>3 DEF DescOK
    <3>2. /\ left \in [Addr -> Nat]
          /\ \A x \in Addr : x # a => left[x] = trying[x]
          /\ \A x \in Addr : left[x] > 0 => x \in nodes \cup retired
      BY <1>1, <1>c
    <3> HIDE DEF left
    <3> QED
      BY <1>2, <1>3, <1>c, <2>2, <3>1, <3>2, ReconcileOK
  <2> QED
    BY <1>0, <2>1, <2>2
<1> HIDE DEF again, left
<1>5. /\ \A x \in Addr : sent'[x] = IF x = a THEN "no" ELSE sent[x]
      /\ sent' \in [Addr -> {"no", "kept", "fresh"}]
  BY <1>0, <1>c
<1>6. TypeOK'
  <2>1. IsDescription(td')
    BY <1>2 DEF DescOK
  <2> QED
    BY <1>0, <1>1, <1>4, <1>5, <2>1 DEF IInv, TypeOK, setVars, opVars
<1>7. NodesOK'
  <2>1. pc' = "scan" /\ conn' \subseteq nodes' \cup retired'
    BY <1>0, <1>1, <1>4, <1>c DEF opVars
  <2>2. \A x \in DOMAIN td.sd \ nodes' : Quiet(td'.sd[x])
    BY <1>2, <1>4 DEF IInv, NodesOK
  <2>3. Pending' \subseteq nodes' \cup retired'
    BY <1>4, <1>5, <1>c DEF Pending
  <2> QED
    BY <1>2, <1>4, <2>1, <2>2, <2>3 DEF NodesOK
<1>8. CommandsOK'
  BY <1>4, <1>5, <1>c DEF CommandsOK
<1>9. SuspectsOK'
  BY <1>0, <1>2 DEF IInv, SuspectsOK
<1>10. PhaseOK' /\ ChosenHasNode' /\ NoSuspectReused'
  BY <1>0, <1>1 DEF IInv, PhaseOK, ChosenHasNode, NoSuspectReused, opVars
<1>11. OneStreamPerNode'
  <2>1. ASSUME NEW x \in Addr, sent'[x] # "no" \/ trying'[x] > 0
        PROVE  x \notin conn
    <3>1. CASE x = a
      BY <1>1, <3>1
    <3>2. CASE x # a /\ x \in nodes \cup retired
      BY <1>4, <1>5, <1>c, <2>1, <3>2
    <3>3. CASE x \notin nodes \cup retired
      BY <1>c, <3>3
    <3> QED
      BY <3>1, <3>2, <3>3
  <2> QED
    BY <1>0, <2>1 DEF OneStreamPerNode, Pending
<1> QED
  BY <1>2, <1>6, <1>7, <1>8, <1>9, <1>10, <1>11 DEF IInv

\* Commands that connect, fail or end, while everything else stays: none of a
\* node that had none, and one that is sent is the last of its node.
LEMMA CommandStep ==
    ASSUME IInv, trying' \in [Addr -> Nat],
           sent' \in [Addr -> {"no", "kept", "fresh"}],
           Pending' \subseteq Pending, CommandsOK', dead' \subseteq dead,
           UNCHANGED <<setVars, td, stale, nodes, retired, conn, cool, lasterr,
                       snubbed, opVars, best, suspect>>
    PROVE  IInv' /\ Steady
<1>1. DescOK(td') /\ BestOK' /\ Steady
  BY DEF IInv, BestOK, Steady
<1>2. TypeOK'
  BY DEF IInv, TypeOK, setVars, opVars
<1>3. NodesOK' /\ SuspectsOK' /\ PhaseOK'
  BY DEF IInv, NodesOK, SuspectsOK, PhaseOK, opVars
<1>4. OneStreamPerNode' /\ ChosenHasNode' /\ NoSuspectReused'
  BY DEF IInv, OneStreamPerNode, ChosenHasNode, NoSuspectReused, opVars
<1> QED
  BY <1>1, <1>2, <1>3, <1>4 DEF IInv

\* Steps of the scanner that leave the description alone.
LEMMA QuietScanStep ==
    ASSUME IInv, \/ \E a \in Addr : \/ Connected(a) \/ AttemptFails(a)
                                    \/ ReplyRetired(a) \/ CooldownEnds(a)
                 \/ EndScan
    PROVE  IInv' /\ Steady
<1>c. /\ trying \in [Addr -> Nat]
      /\ sent \in [Addr -> {"no", "kept", "fresh"}]
      /\ \A x \in Addr : sent[x] # "no" => trying[x] = 0
  BY DEF IInv, TypeOK, CommandsOK
<1>1. ASSUME NEW a \in Addr, Connected(a)
      PROVE  IInv' /\ Steady
  <2>1. /\ trying[a] > 0 /\ trying' = [trying EXCEPT ![a] = 0]
        /\ sent' = [sent EXCEPT ![a] = "fresh"]
        /\ UNCHANGED <<setVars, dead, td, stale, nodes, retired, conn, cool,
                       lasterr, snubbed, opVars, best, suspect>>
    BY <1>1 DEF Connected, CancelSiblings
  <2>2. /\ trying' \in [Addr -> Nat]
        /\ sent' \in [Addr -> {"no", "kept", "fresh"}]
        /\ \A x \in Addr : x # a => trying'[x] = trying[x] /\ sent'[x] = sent[x]
        /\ trying'[a] = 0
    BY <1>c, <2>1
  <2>3. Pending' \subseteq Pending /\ CommandsOK'
    BY <1>c, <2>1, <2>2 DEF Pending, CommandsOK
  <2> QED
    BY <2>1, <2>2, <2>3, CommandStep
<1>2. ASSUME NEW a \in Addr, AttemptFails(a)
      PROVE  IInv' /\ Steady
  <2>1. /\ trying[a] > 1 /\ trying' = [trying EXCEPT ![a] = trying[a] - 1]
        /\ sent' = sent
        /\ UNCHANGED <<setVars, dead, td, stale, nodes, retired, conn, cool,
                       lasterr, snubbed, opVars, best, suspect>>
    BY <1>2 DEF AttemptFails
  <2>2. /\ trying' \in [Addr -> Nat]
        /\ \A x \in Addr : x # a => trying'[x] = trying[x]
    BY <1>c, <2>1
  <2>3. Pending' \subseteq Pending /\ CommandsOK'
    BY <1>c, <2>1, <2>2 DEF Pending, CommandsOK
  <2> QED
    BY <1>c, <2>1, <2>2, <2>3, CommandStep
<1>3. ASSUME NEW a \in Addr, ReplyRetired(a)
      PROVE  IInv' /\ Steady
  <2>1. /\ trying' = [trying EXCEPT ![a] = 0] /\ dead' \subseteq dead
        /\ sent' = [sent EXCEPT ![a] = "no"]
        /\ UNCHANGED <<setVars, td, stale, nodes, retired, conn, cool,
                       lasterr, snubbed, opVars, best, suspect>>
    BY <1>3 DEF ReplyRetired
  <2>2. /\ trying' \in [Addr -> Nat]
        /\ sent' \in [Addr -> {"no", "kept", "fresh"}]
        /\ \A x \in Addr : x # a => trying'[x] = trying[x] /\ sent'[x] = sent[x]
        /\ trying'[a] = 0 /\ sent'[a] = "no"
    BY <1>c, <2>1
  <2>3. Pending' \subseteq Pending /\ CommandsOK'
    BY <1>c, <2>2 DEF Pending, CommandsOK
  <2> QED
    BY <2>1, <2>2, <2>3, CommandStep
<1>4. ASSUME NEW a \in Addr, CooldownEnds(a)
      PROVE  IInv' /\ Steady
  <2>1. TypeOK'
    BY <1>4 DEF CooldownEnds, IInv, TypeOK, setVars, opVars, cmdVars
  <2> QED
    BY <1>4, <2>1, SameClient DEF CooldownEnds, opVars, cmdVars
<1>5. ASSUME EndScan
      PROVE  IInv' /\ Steady
  <2>1. DescOK(td') /\ BestOK' /\ Steady
    BY <1>5 DEF EndScan, IInv, BestOK, Steady
  <2>2. /\ pc = "scan" /\ Pending = {} /\ pc' \in {"idle", "fetched", "select"}
        /\ pc' = "fetched" <=> phase = "fetch" /\ pc' # "idle"
        /\ retired' = {} /\ conn' = conn \cap nodes
        /\ dead' = dead \cap conn' /\ stale' = FALSE
        /\ cool' = cool \cap nodes /\ lasterr' = lasterr \cap nodes
        /\ snubbed' = snubbed \cap nodes
        /\ UNCHANGED <<truth, elections, config, changes, timeouts, td, nodes,
                       trying, sent, phase, tried, chosen, best, suspect>>
    BY <1>5 DEF EndScan, Done, setVars, cmdVars
  <2>3. TypeOK'
    BY <2>2 DEF IInv, TypeOK, PhaseOK
  <2>4. Pending' = {} /\ CommandsOK'
    BY <2>2 DEF Pending, IInv, CommandsOK
  <2>5. NodesOK' /\ SuspectsOK' /\ PhaseOK'
    BY <2>2, <2>4 DEF IInv, NodesOK, SuspectsOK, PhaseOK
  <2>6. OneStreamPerNode' /\ ChosenHasNode' /\ NoSuspectReused'
    BY <2>2, <2>4 DEF OneStreamPerNode, ChosenHasNode, NoSuspectReused
  <2> QED
    BY <2>1, <2>3, <2>4, <2>5, <2>6 DEF IInv
<1> QED
  BY <1>1, <1>2, <1>3, <1>4, <1>5

\* A server a selection may take has a node, and has no stream if it has failed
\* an operation.
LEMMA SuitableOK ==
    ASSUME IInv, pc = "select", NEW a \in Suitable(td)
    PROVE  /\ a \in Addr /\ a \in nodes /\ a \notin retired
           /\ a \notin suspect \cap conn
<1>1. td.type \in TopTypes /\ DOMAIN td.sd \subseteq Addr
  BY HeadTypes DEF IInv, DescOK
<1>2. a \in DOMAIN td.sd /\ ~Quiet(td.sd[a])
  <2>1. CASE td.type = "Single"
    BY <2>1 DEF Suitable, Quiet
  <2>2. CASE td.type = "RSWithPrimary"
    BY <2>2 DEF Suitable, Quiet
  <2>3. CASE td.type = "Sharded"
    BY <2>3 DEF Suitable, Quiet
  <2>4. CASE td.type \in {"Unknown", "RSNoPrimary"}
    BY <2>4 DEF Suitable
  <2> QED
    BY <1>1, <2>1, <2>2, <2>3, <2>4 DEF TopTypes
<1> QED
  BY <1>1, <1>2 DEF IInv, NodesOK, SuspectsOK

\* A scan begins.
LEMMA StartScanOK ==
    ASSUME IInv, StartScan, pc # "scan",
           UNCHANGED <<setVars, dead, td, stale, best, suspect>>,
           phase' \in {"first", "second", "fetch"}, tried' \in BOOLEAN,
           chosen' = chosen,
           phase' = "fetch" => chosen \in Addr /\ chosen \notin suspect \cap conn
    PROVE  IInv' /\ Steady
<1> DEFINE all == DOMAIN td.sd
           ask == all \ cool
           n(a) == IF a \in nodes THEN Records[a] ELSE Records[a] + Records[a]
<1>0. /\ nodes' = all /\ conn' = (conn \ ask) \cap all
      /\ cool' = cool \cap all /\ lasterr' = lasterr \cap all
      /\ snubbed' = snubbed \cap all /\ retired' = {} /\ pc' = "scan"
      /\ trying' = [a \in Addr |-> IF a \notin ask \ conn THEN 0 ELSE n(a)]
      /\ sent' = [a \in Addr |-> IF a \in ask \cap conn THEN "kept" ELSE "no"]
  BY DEF StartScan
<1>n. \A a \in Addr : n(a) \in Nat
  BY TopologyAssumption
<1> HIDE DEF n
<1>a. all \subseteq Addr
  BY HeadTypes DEF IInv, DescOK
<1>1. DescOK(td') /\ BestOK' /\ Steady
  BY DEF IInv, BestOK, Steady
<1>2. /\ trying' \in [Addr -> Nat]
      /\ sent' \in [Addr -> {"no", "kept", "fresh"}]
      /\ \A a \in Addr : a \notin ask \ conn => trying'[a] = 0
      /\ \A a \in Addr : sent'[a] # "no" <=> a \in ask \cap conn
  BY <1>0, <1>n
<1>3. Pending' \subseteq ask /\ CommandsOK'
  BY <1>2 DEF Pending, CommandsOK
<1>4. TypeOK'
  BY <1>0, <1>2, <1>a DEF IInv, TypeOK, setVars
<1>5. NodesOK'
  BY <1>0, <1>3 DEF IInv, NodesOK
<1>6. SuspectsOK' /\ PhaseOK'
  BY <1>0 DEF IInv, SuspectsOK, PhaseOK
<1>7. OneStreamPerNode' /\ ChosenHasNode' /\ NoSuspectReused'
  BY <1>0, <1>3 DEF OneStreamPerNode, ChosenHasNode, NoSuspectReused
<1> QED
  BY <1>1, <1>3, <1>4, <1>5, <1>6, <1>7 DEF IInv

\* Steps of an operation that leave the description and the nodes alone.
LEMMA QuietOperationStep ==
    ASSUME IInv, Begin \/ Enter \/ TooEarly \/ Pick \/ Fetched \/ UseOk
    PROVE  IInv' /\ Steady
<1>1. ASSUME Begin
      PROVE  IInv' /\ Steady
  <2>1. TypeOK'
    BY <1>1 DEF Begin, Done, IInv, TypeOK, setVars, scanVars,
       cmdVars
  <2>2. PhaseOK'
    BY <1>1 DEF Begin, Done, IInv, PhaseOK, scanVars
  <2>3. ChosenHasNode' /\ NoSuspectReused'
    BY <1>1 DEF Begin, Done, IInv, PhaseOK, ChosenHasNode,
       NoSuspectReused, scanVars
  <2>4. /\ UNCHANGED <<td, best, nodes, retired, conn, trying, sent, suspect>>
        /\ pc # "scan"
    BY <1>1 DEF Begin, scanVars, cmdVars
  <2> QED
    BY <2>1, <2>2, <2>3, <2>4, SameNodes
<1>2. ASSUME Enter
      PROVE  IInv' /\ Steady
  <2>1. TypeOK'
    BY <1>2 DEF Enter, Done, IInv, TypeOK, setVars, scanVars,
       cmdVars
  <2>2. PhaseOK'
    BY <1>2 DEF Enter, Done, IInv, PhaseOK, scanVars
  <2>3. ChosenHasNode' /\ NoSuspectReused'
    BY <1>2 DEF Enter, Done, IInv, PhaseOK, ChosenHasNode,
       NoSuspectReused, scanVars
  <2>4. /\ UNCHANGED <<td, best, nodes, retired, conn, trying, sent, suspect>>
        /\ pc # "scan"
    BY <1>2 DEF Enter, scanVars, cmdVars
  <2> QED
    BY <2>1, <2>2, <2>3, <2>4, SameNodes
<1>3. ASSUME TooEarly
      PROVE  IInv' /\ Steady
  <2>1. TypeOK'
    BY <1>3 DEF TooEarly, Done, IInv, TypeOK, setVars, scanVars,
       cmdVars
  <2>2. PhaseOK'
    BY <1>3 DEF TooEarly, Done, IInv, PhaseOK, scanVars
  <2>3. ChosenHasNode' /\ NoSuspectReused'
    BY <1>3 DEF TooEarly, Done, IInv, PhaseOK, ChosenHasNode,
       NoSuspectReused, scanVars
  <2>4. /\ UNCHANGED <<td, best, nodes, retired, conn, trying, sent, suspect>>
        /\ pc # "scan"
    BY <1>3 DEF TooEarly, scanVars, cmdVars
  <2> QED
    BY <2>1, <2>2, <2>3, <2>4, SameNodes
<1>4. ASSUME Pick
      PROVE  IInv' /\ Steady
  <2>1. TypeOK'
    BY <1>4, SuitableOK DEF Pick, Done, IInv, TypeOK, setVars, scanVars,
       cmdVars, StaleWhenNone
  <2>2. PhaseOK'
    BY <1>4, SuitableOK DEF Pick, Done, IInv, PhaseOK, scanVars, StaleWhenNone
  <2>3. ChosenHasNode' /\ NoSuspectReused'
    BY <1>4, SuitableOK DEF Pick, Done, IInv, PhaseOK, ChosenHasNode,
       NoSuspectReused, scanVars, StaleWhenNone
  <2>4. /\ UNCHANGED <<td, best, nodes, retired, conn, trying, sent, suspect>>
        /\ pc # "scan"
    BY <1>4 DEF Pick, scanVars, cmdVars
  <2> QED
    BY <2>1, <2>2, <2>3, <2>4, SameNodes
<1>5. ASSUME Fetched
      PROVE  IInv' /\ Steady
  <2>1. TypeOK'
    BY <1>5 DEF Fetched, Done, IInv, TypeOK, setVars, scanVars,
       cmdVars, WithStream
  <2>2. PhaseOK'
    BY <1>5 DEF Fetched, Done, IInv, PhaseOK, scanVars, WithStream
  <2>3. ChosenHasNode' /\ NoSuspectReused'
    BY <1>5 DEF Fetched, Done, IInv, PhaseOK, ChosenHasNode,
       NoSuspectReused, scanVars, WithStream
  <2>4. /\ UNCHANGED <<td, best, nodes, retired, conn, trying, sent, suspect>>
        /\ pc # "scan"
    BY <1>5 DEF Fetched, scanVars, cmdVars
  <2> QED
    BY <2>1, <2>2, <2>3, <2>4, SameNodes
<1>6. ASSUME UseOk
      PROVE  IInv' /\ Steady
  <2>1. TypeOK'
    BY <1>6 DEF UseOk, Done, IInv, TypeOK, setVars, scanVars,
       cmdVars
  <2>2. PhaseOK'
    BY <1>6 DEF UseOk, Done, IInv, PhaseOK, scanVars
  <2>3. ChosenHasNode' /\ NoSuspectReused'
    BY <1>6 DEF UseOk, Done, IInv, PhaseOK, ChosenHasNode,
       NoSuspectReused, scanVars
  <2>4. /\ UNCHANGED <<td, best, nodes, retired, conn, trying, sent, suspect>>
        /\ pc # "scan"
    BY <1>6 DEF UseOk, scanVars, cmdVars
  <2> QED
    BY <2>1, <2>2, <2>3, <2>4, SameNodes
<1> QED
  BY <1>1, <1>2, <1>3, <1>4, <1>5, <1>6

\* The operation scans again.
LEMMA RescanStep ==
    ASSUME IInv, Rescan
    PROVE  IInv' /\ Steady
<1>1. phase \in {"first", "second"}
  BY DEF Rescan, IInv, PhaseOK, TypeOK
<1> QED
  BY <1>1, StartScanOK DEF Rescan

\* The stream of the chosen server is fetched.
LEMMA FetchStep ==
    ASSUME IInv, Fetch
    PROVE  IInv' /\ Steady
<1>1. /\ pc = "fetch" /\ chosen \in Addr /\ chosen \in nodes
      /\ tried \in BOOLEAN /\ chosen \notin suspect \cap conn
  BY DEF Fetch, IInv, TypeOK, ChosenHasNode, PhaseOK
<1>2. CASE /\ chosen \in conn /\ WithStream(TRUE)
           /\ UNCHANGED <<scanVars, phase>>
  <2>1. TypeOK'
    BY <1>1, <1>2
       DEF Fetch, WithStream, Done, IInv, TypeOK, setVars, scanVars, cmdVars
  <2>2. PhaseOK' /\ ChosenHasNode' /\ NoSuspectReused'
    BY <1>1, <1>2 DEF Fetch, WithStream, Done, IInv, PhaseOK, ChosenHasNode,
       NoSuspectReused, scanVars
  <2>3. UNCHANGED <<td, best, nodes, retired, conn, trying, sent, suspect>>
    BY <1>2 DEF Fetch, scanVars, cmdVars
  <2> QED
    BY <1>1, <2>1, <2>2, <2>3, SameNodes
<1>3. CASE StartScan /\ phase' = "fetch"
  BY <1>1, <1>3, StartScanOK DEF Fetch
<1> QED
  BY <1>2, <1>3 DEF Fetch

\* An operation ends, or selects again; a stream may be given up.
GivesUp ==
    /\ pc # "scan" /\ pc' \in {"idle", "enter"}
    /\ phase' \in {"first", "second", "fetch"}
    /\ pc' = "enter" => phase' = "second"
    /\ nodes' = nodes /\ conn' \subseteq conn /\ dead' \subseteq dead
    /\ snubbed' \subseteq snubbed
    /\ stale' \in BOOLEAN /\ timeouts' \in Nat
    /\ UNCHANGED <<truth, elections, config, changes, retired, cool, lasterr,
                   trying, sent, tried, chosen>>

\* An operation that fails: a server that becomes suspect has no stream or is
\* not believed.
LEMMA GaveUp ==
    ASSUME IInv, GivesUp, DescOK(td'), BestOK', DOMAIN td'.sd = DOMAIN td.sd,
           \A x \in DOMAIN td.sd : Quiet(td.sd[x]) => Quiet(td'.sd[x]),
           suspect' \subseteq Addr,
           \A x \in suspect' : x \in suspect \/ x \notin conn' \/ Quiet(td'.sd[x])
    PROVE  IInv'
<1>1. IsDescription(td')
  BY DEF DescOK
<1>2. TypeOK'
  BY <1>1 DEF IInv, TypeOK, GivesUp
<1>3. NodesOK' /\ CommandsOK' /\ PhaseOK'
  BY DEF IInv, NodesOK, CommandsOK, PhaseOK, GivesUp, Pending
<1>4. SuspectsOK'
  BY DEF IInv, SuspectsOK, GivesUp
<1>5. OneStreamPerNode' /\ ChosenHasNode' /\ NoSuspectReused'
  BY DEF IInv, OneStreamPerNode, ChosenHasNode, NoSuspectReused, GivesUp,
         Pending
<1> QED
  BY <1>2, <1>3, <1>4, <1>5 DEF IInv

\* A stream that was idle is checked.
LEMMA CheckIntervalStep ==
    ASSUME IInv, CheckInterval
    PROVE  IInv' /\ Steady
<1>0. /\ pc = "check" /\ chosen \in nodes /\ chosen \in DOMAIN td.sd
      /\ chosen \notin suspect \cap conn /\ suspect \subseteq Addr
      /\ stale \in BOOLEAN /\ timeouts \in Nat /\ chosen \in Addr
      /\ suspect' = suspect
  BY DEF CheckInterval, IInv, NodesOK, ChosenHasNode, TypeOK, PhaseOK
<1>1. CASE /\ pc' = "enter" /\ phase' = "second"
           /\ UNCHANGED <<nodes, conn, dead, snubbed, td, best>>
  <2>1. DescOK(td') /\ BestOK' /\ Steady
    BY <1>1 DEF IInv, BestOK, Steady
  <2>2. GivesUp
    BY <1>0, <1>1 DEF GivesUp, CheckInterval, setVars, cmdVars
  <2> QED
    BY <1>0, <1>1, <2>1, <2>2, GaveUp
<1>2. CASE /\ pc' = "enter" /\ phase' = "second" /\ Disconnect(chosen)
           /\ Describes(InvalidateServer(td, chosen))
  <2>1. /\ DescOK(td') /\ BestOK' /\ Steady
        /\ DOMAIN td'.sd = DOMAIN td.sd
        /\ \A x \in DOMAIN td.sd : Quiet(td.sd[x]) => Quiet(td'.sd[x])
    BY <1>0, <1>2, Invalidated
  <2>2. GivesUp
    BY <1>0, <1>2 DEF GivesUp, CheckInterval, setVars, cmdVars, Disconnect
  <2> QED
    BY <1>0, <2>1, <2>2, GaveUp
<1>3. CASE /\ pc' = "fetch"
           /\ UNCHANGED <<nodes, conn, dead, snubbed, phase, td, best>>
  <2>1. TypeOK'
    BY <1>0, <1>3 DEF CheckInterval, IInv, TypeOK, setVars, cmdVars
  <2>2. PhaseOK' /\ ChosenHasNode' /\ NoSuspectReused'
    BY <1>0, <1>3 DEF CheckInterval, IInv, PhaseOK, ChosenHasNode,
       NoSuspectReused
  <2>3. UNCHANGED <<td, best, nodes, retired, conn, trying, sent, suspect>>
    BY <1>3 DEF CheckInterval, cmdVars
  <2> QED
    BY <1>0, <2>1, <2>2, <2>3, SameNodes
<1> QED
  BY <1>1, <1>2, <1>3 DEF CheckInterval

\* The server refuses the command with news of itself.
LEMMA AppErrorOK ==
    ASSUME IInv, NEW a \in DOMAIN td.sd, NEW v \in Nat,
           Describes(HandleAppError(td, a, v))
    PROVE  /\ DescOK(td') /\ BestOK' /\ Steady
           /\ DOMAIN td'.sd = DOMAIN td.sd
           /\ Quiet(td'.sd[a])
           /\ \A x \in DOMAIN td.sd : Quiet(td.sd[x]) => Quiet(td'.sd[x])
<1> DEFINE d == [td.sd[a] EXCEPT !.tv = v]
           t == [td EXCEPT !.sd[a].tv = v]
<1>1. DescOK(td) /\ IsDescription(td) /\ td.sd[a] \in ServerDescriptions
  BY HeadTypes DEF IInv, DescOK
<1>2. /\ d \in ServerDescriptions /\ d.type = td.sd[a].type
      /\ d.election = td.sd[a].election /\ d.setv = td.sd[a].setv
      /\ d.hello = td.sd[a].hello
  BY <1>1 DEF ServerDescriptions
<1>3. t = [td EXCEPT !.sd[a] = d]
  OBVIOUS
<1> HIDE DEF d, t
<1>4. /\ IsDescription(t) /\ SameHead(td, t) /\ DOMAIN t.sd = DOMAIN td.sd
      /\ \A x \in DOMAIN td.sd : t.sd[x] = IF x = a THEN d ELSE td.sd[x]
  BY <1>1, <1>2, <1>3, PutServer
<1>5. \A x \in DOMAIN td.sd : /\ t.sd[x].type = td.sd[x].type
                              /\ t.sd[x].election = td.sd[x].election
                              /\ t.sd[x].setv = td.sd[x].setv
                              /\ t.sd[x].hello = td.sd[x].hello
  BY <1>2, <1>4
<1>6. Primaries(t) = Primaries(td)
  BY <1>4, <1>5 DEF Primaries
<1>7. \A x \in Primaries(td) : /\ t.sd[x].election = td.sd[x].election
                               /\ t.sd[x].setv = td.sd[x].setv
  BY <1>5 DEF Primaries
<1>8. DescOK(t)
  BY <1>1, <1>4, <1>6, <1>7 DEF DescOK, SameHead
<1>9. \A x \in DOMAIN td.sd : Quiet(td.sd[x]) => Quiet(t.sd[x])
  BY <1>5 DEF Quiet
<1>10. Describes(InvalidateServer(t, a))
  BY DEF HandleAppError, t
<1> QED
  BY <1>4, <1>8, <1>9, <1>10, InvalidatedOK DEF SameHead

\* The command failed.
LEMMA FailureStep ==
    ASSUME IInv, NetworkError \/ Timeout \/ NotPrimary
    PROVE  IInv' /\ Steady
<1>0. /\ pc = "use" /\ chosen \in nodes /\ chosen \in DOMAIN td.sd
      /\ stale \in BOOLEAN /\ timeouts \in Nat /\ chosen \in Addr
      /\ phase \in {"first", "second", "fetch"} /\ suspect \subseteq Addr
      /\ DescOK(td) /\ BestOK
  BY DEF NetworkError, Timeout, NotPrimary, IInv, NodesOK, PhaseOK, TypeOK
<1>1. CASE NetworkError
  <2>1. /\ DescOK(td') /\ BestOK' /\ Steady
        /\ DOMAIN td'.sd = DOMAIN td.sd
        /\ \A x \in DOMAIN td.sd : Quiet(td.sd[x]) => Quiet(td'.sd[x])
    BY <1>0, <1>1, Invalidated DEF NetworkError
  <2>2. GivesUp
    BY <1>0, <1>1
       DEF GivesUp, NetworkError, setVars, cmdVars, Disconnect, Done
  <2>3. suspect' = suspect \cup {chosen} /\ chosen \notin conn'
    BY <1>1 DEF NetworkError, Disconnect
  <2> QED
    BY <1>0, <2>1, <2>2, <2>3, GaveUp
<1>2. CASE Timeout
  <2>1. /\ DescOK(td') /\ BestOK' /\ Steady /\ td' = td
    BY <1>0, <1>2 DEF Timeout, BestOK, Steady
  <2>2. GivesUp
    BY <1>0, <1>2 DEF GivesUp, Timeout, cmdVars, Disconnect, Done
  <2>3. suspect' = suspect \cup {chosen} /\ chosen \notin conn'
    BY <1>2 DEF Timeout, Disconnect
  <2> QED
    BY <1>0, <2>1, <2>2, <2>3, GaveUp
<1>3. CASE NotPrimary
  <2> DEFINE refusal == Refusal(truth[Me[chosen]].kind)
             v == truth[Me[chosen]].tv
             old == NotNewer(td.sd[chosen].tv, v)
  <2>1. /\ pc' = "idle"
        /\ IF old THEN UNCHANGED <<dead, td, stale, nodes, conn, snubbed, best,
                                   suspect>>
           ELSE /\ Describes(HandleAppError(td, chosen, v))
                /\ stale' = (stale \/ refusal = "notprimary")
                /\ suspect' = suspect \cup {chosen}
                /\ IF refusal = "shutdown" THEN Disconnect(chosen)
                   ELSE UNCHANGED <<dead, nodes, conn, snubbed>>
        /\ UNCHANGED <<truth, elections, config, changes, timeouts, retired,
                       cool, lasterr, trying, sent, phase, tried, chosen>>
    BY <1>3 DEF NotPrimary, Done, setVars, cmdVars
  <2>2. v \in Nat
    BY <1>0, TopologyAssumption DEF IInv, TypeOK, ServerStates, Servers
  <2> HIDE DEF refusal, v, old
  <2>3. CASE old
    <3>1. GivesUp
      BY <1>0, <2>1, <2>3 DEF GivesUp
    <3>2. DescOK(td') /\ BestOK' /\ Steady /\ td' = td /\ suspect' = suspect
      BY <1>0, <2>1, <2>3 DEF BestOK, Steady
    <3> QED
      BY <1>0, <3>1, <3>2, GaveUp
  <2>4. CASE ~old
    <3>1. GivesUp
      BY <1>0, <2>1, <2>4 DEF GivesUp, Disconnect
    <3>2. /\ DescOK(td') /\ BestOK' /\ Steady /\ Quiet(td'.sd[chosen])
          /\ DOMAIN td'.sd = DOMAIN td.sd
          /\ \A x \in DOMAIN td.sd : Quiet(td.sd[x]) => Quiet(td'.sd[x])
      BY <1>0, <2>1, <2>2, <2>4, AppErrorOK
    <3>3. suspect' = suspect \cup {chosen}
      BY <2>1, <2>4
    <3> QED
      BY <1>0, <3>1, <3>2, <3>3, GaveUp
  <2> QED
    BY <2>3, <2>4
<1> QED
  BY <1>1, <1>2, <1>3

-----------------------------------------------------------------------------
(***************************************************************************)
(* The invariant and the properties that follow from it.                    *)
(***************************************************************************)

\* The servers begin with a configuration of the set.
LEMMA InitServers ==
    ASSUME Init
    PROVE  truth \in [Servers -> ServerStates] /\ config \in 1 .. Len(Configs)
<1>0. config = 1 /\ 1 \in 1 .. Len(Configs)
  BY TopologyAssumption DEF Init
<1>1. Servers \subseteq Addr
  BY ServersAreAddresses
<1>2. PICK f \in Starts :
        LET primaries == {s \in Servers : f[s].kind = "primary"}
            p == IF primaries = {} THEN Nobody
                                   ELSE CHOOSE s \in primaries : TRUE
        IN  truth = [s \in Servers |->
                       [kind |-> f[s].kind, setv |-> 1, rel |-> f[s].rel,
                        tv |-> NextVersion(f[s].rel, 0),
                        election |-> IF f[s].kind = "primary" THEN 1 ELSE 0,
                        primary |-> IF f[s].kind \in {"primary", "secondary"}
                                    THEN p ELSE Nobody]]
  BY DEF Init
<1> DEFINE primaries == {s \in Servers : f[s].kind = "primary"}
           p == IF primaries = {} THEN Nobody
                                  ELSE CHOOSE s \in primaries : TRUE
           start(s) == [kind |-> f[s].kind, setv |-> 1, rel |-> f[s].rel,
                        tv |-> NextVersion(f[s].rel, 0),
                        election |-> IF f[s].kind = "primary" THEN 1 ELSE 0,
                        primary |-> IF f[s].kind \in {"primary", "secondary"}
                                    THEN p ELSE Nobody]
<1>3. p \in Addr \cup {Nobody}
  BY <1>1
<1>4. truth = [s \in Servers |-> start(s)]
  BY <1>2
<1> HIDE DEF p
<1>5. ASSUME NEW s \in Servers
      PROVE  start(s) \in ServerStates
  <2>1. f[s].kind \in Kinds /\ f[s].rel \in Releases
    BY TopologyAssumption
  <2>2. NextVersion(f[s].rel, 0) \in Nat
    BY DEF NextVersion
  <2> QED
    BY <1>0, <1>3, <2>1, <2>2 DEF ServerStates
<1> QED
  BY <1>0, <1>4, <1>5

\* The description a connection string gives.
LEMMA InitDescription ==
    ASSUME Init
    PROVE  /\ DescOK(td) /\ nodes = DOMAIN td.sd
           /\ td.maxe = 0 /\ td.maxv = -1
<1>1. PICK u \in Uris :
        /\ td = [type |-> InitType(u), set |-> u.set, maxe |-> 0,
                 maxv |-> -1, sd |-> [a \in u.seeds |-> Reset]]
        /\ nodes = u.seeds
  BY DEF Init
<1>2. /\ u.seeds \in SUBSET Addr /\ u.set \in {NoSet, "rs"}
      /\ u.direct = "yes" => \E a \in Addr : u.seeds = {a}
      /\ u.direct \in {"unset", "yes", "no"}
  BY TopologyAssumption
<1>3. /\ InitType(u) \in {"Single", "RSNoPrimary", "Unknown"}
      /\ InitType(u) = "Single" => \E a \in Addr : u.seeds = {a}
  BY <1>2 DEF InitType
<1> DEFINE f == [a \in u.seeds |-> Reset]
<1>4. f \in [u.seeds -> ServerDescriptions] /\ DOMAIN f = u.seeds
      /\ \A x \in u.seeds : f[x] = Reset
  BY ResetType
<1>5. td.sd = f /\ td.type = InitType(u) /\ td.maxe = 0 /\ td.maxv = -1
  BY <1>1
<1>6. IsDescription(td)
  <2> HIDE DEF f
  <2>1. td = [type |-> InitType(u), set |-> u.set, maxe |-> 0,
              maxv |-> -1, sd |-> f]
    BY <1>1 DEF f
  <2>2. DOMAIN td.sd = u.seeds
    BY <1>4, <1>5
  <2> QED
    BY <1>2, <1>3, <1>4, <2>1, <2>2 DEF IsDescription, SetNames
<1> HIDE DEF f
<1>7. Primaries(td) = {}
  BY <1>4, <1>5, ResetType DEF Primaries
<1>8. DescOK(td)
  BY <1>3, <1>4, <1>5, <1>6, <1>7 DEF DescOK
<1> QED
  BY <1>1, <1>4, <1>5, <1>8

\* A client begins with the servers of its connection string.
LEMMA InitOK == Init => IInv
<1> SUFFICES ASSUME Init PROVE IInv
  OBVIOUS
<1>1. truth \in [Servers -> ServerStates] /\ config \in 1 .. Len(Configs)
  BY InitServers
<1>2. /\ DescOK(td) /\ IsDescription(td) /\ nodes = DOMAIN td.sd
      /\ td.maxe = 0 /\ td.maxv = -1
  BY InitDescription DEF DescOK
<1>3. TypeOK
  BY <1>1, <1>2, HeadTypes DEF Init, TypeOK
<1>p. Pending = {} /\ CommandsOK
  BY DEF Init, Pending, CommandsOK
<1>4. NodesOK /\ SuspectsOK /\ PhaseOK
  BY <1>2, <1>p DEF Init, NodesOK, SuspectsOK, PhaseOK
<1>5. BestOK
  BY <1>2 DEF Init, BestOK
<1>6. OneStreamPerNode /\ ChosenHasNode /\ NoSuspectReused
  BY <1>p DEF Init, OneStreamPerNode, ChosenHasNode, NoSuspectReused
<1> QED
  BY <1>2, <1>3, <1>4, <1>5, <1>6, <1>p DEF IInv

\* Every step keeps the invariant, and accepts no primary and removes no server
\* unless it is an answer.
LEMMA NextOK ==
    ASSUME IInv, [Next]_vars
    PROVE  IInv' /\ (Steady \/ \E a \in Addr : ReplyOk(a) /\ Accepts(a))
<1>1. CASE Environment
  BY <1>1, EnvironmentStep
<1>2. CASE Scan
  <2>1. ASSUME NEW a \in Addr, ReplyOk(a)
        PROVE  IInv' /\ Accepts(a)
    BY <2>1, ReplyOkStep
  <2>2. ASSUME NEW a \in Addr, ReplyFail(a) PROVE IInv' /\ Steady
    BY <2>2, ReplyFailStep
  <2>3. ASSUME NEW a \in Addr,
               Connected(a) \/ AttemptFails(a) \/ ReplyRetired(a)
        PROVE  IInv' /\ Steady
    BY <2>3, QuietScanStep
  <2>4. CASE EndScan
    BY <2>4, QuietScanStep
  <2> QED
    BY <1>2, <2>1, <2>2, <2>3, <2>4 DEF Scan
<1>3. CASE Operation
  BY <1>3, QuietOperationStep, RescanStep, FetchStep, CheckIntervalStep,
     FailureStep DEF Operation
<1>4. CASE \E a \in Addr : CooldownEnds(a)
  BY <1>4, QuietScanStep
<1>5. CASE UNCHANGED vars
  <2>1. TypeOK'
    BY <1>5 DEF vars, IInv, TypeOK, setVars, scanVars, cmdVars, opVars
  <2> QED
    BY <1>5, <2>1, SameClient DEF vars, scanVars, cmdVars, opVars
<1> QED
  BY <1>1, <1>2, <1>3, <1>4, <1>5 DEF Next

\* The invariant holds throughout: a hello, whoever sends it and whenever it is
\* handled, leaves a description that the next one can be applied to.
THEOREM Invariance == Spec => []IInv
<1>1. IInv /\ [Next]_vars => IInv'
  BY NextOK
<1> QED
  BY <1>1, InitOK, PTL DEF Spec

\* Every part of the client's and of the servers' state keeps its type, and an
\* operation that has got past the selection has a server.
THEOREM TypeCorrect == Spec => []TypeOK
<1>1. IInv => TypeOK
  BY DEF IInv
<1> QED
  BY <1>1, Invariance, PTL

\* A client believes in one primary at most, whatever the servers claim.
THEOREM OneIsBelieved == Spec => []OnePrimary
<1>1. IInv => OnePrimary
  BY DEF IInv, DescOK, OnePrimary, Primaries
<1> QED
  BY <1>1, Invariance, PTL

\* A description with a primary has the name of its set: the handlers compare
\* it with a member's without looking whether there is one.
THEOREM NameIsKnown == Spec => []SetNameKnown
<1>1. IInv => SetNameKnown
  BY DEF IInv, DescOK, SetNameKnown
<1> QED
  BY <1>1, Invariance, PTL

\* A description of a single server has exactly one, which the selection takes
\* without looking.
THEOREM SingleIsThere == Spec => []SingleHasServer
<1>1. IInv => SingleHasServer
  BY DEF IInv, DescOK, SingleHasServer
<1> QED
  BY <1>1, Invariance, PTL

\* A node has a stream or commands under way, never both, with any number of
\* DNS records and of set-ups: the assertion of _async_success.
THEOREM StreamsAreHandedOver == Spec => []OneStreamPerNode
<1>1. IInv => OneStreamPerNode
  BY DEF IInv
<1> QED
  BY <1>1, Invariance, PTL

\* The server an operation checks or fetches has a node that is not retired:
\* the assertion of mongoc_cluster_check_interval.
THEOREM SelectedHasNode == Spec => []ChosenHasNode
<1>1. IInv => ChosenHasNode
  BY DEF IInv
<1> QED
  BY <1>1, Invariance, PTL

\* A server that closed a stream, let it time out, or refused a command with
\* news of itself is not used again before it has answered a hello.
THEOREM SuspectsAreAsked == Spec => []NoSuspectReused
<1>1. IInv => NoSuspectReused
  BY DEF IInv
<1> QED
  BY <1>1, Invariance, PTL

\* A primary is accepted only by an answer, and only if it is not older, by the
\* rule for the release that answers, than the one accepted before it.
THEOREM PrimariesGetNewer == Spec => NewestPrimary
<1>1. IInv /\ [Next]_vars =>
        [best' # best =>
           \E a \in Addr :
             /\ ReplyOk(a)
             /\ IF ElectionFirst(truth[Me[a]].rel)
                THEN AtLeast(best'.e, best'.v, best.e, best.v)
                ELSE AtLeast(best'.v, best'.e, best.v, best.e)]_vars
  BY NextOK DEF Steady, Accepts, NotBefore
<1> QED
  BY <1>1, Invariance, PTL DEF Spec, NewestPrimary

\* Nothing but an answer takes a server out of the description; a failed hello
\* or operation leaves it in.
THEOREM FailuresRemoveNothing == Spec => OnlyAnswersRemove
<1>1. IInv /\ [Next]_vars =>
        [\/ DOMAIN td.sd \subseteq DOMAIN td'.sd
         \/ \E a \in Addr : ReplyOk(a)]_vars
  BY NextOK DEF Steady
<1> QED
  BY <1>1, Invariance, PTL DEF Spec, OnlyAnswersRemove
=============================================================================
