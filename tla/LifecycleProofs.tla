--------------------------- MODULE LifecycleProofs ---------------------------
(***************************************************************************)
(* Proofs about Lifecycle, for any number of user objects, urls, external  *)
(* pointers and PEM files.                                                 *)
(***************************************************************************)
EXTENDS Lifecycle, TLAPS

\* The heap when the natives lv exist, the Protected fields are pr and the
\* children orph have lost their parent.
ObjectOK(o, lv, pr, orph) ==
    /\ kind[o] = "none" <=> o > n
    /\ o > n => o \notin lv /\ pr[o] = 0
    /\ kind[o] = "client" => pr[o] = 0 /\ dep[o] = 0 /\ conn[o] \in Params
    /\ kind[o] \in {"collection", "gridfs"} =>
          /\ dep[o] \in Ids /\ dep[o] < o /\ kind[dep[o]] = "client"
          /\ pr[o] \in {0, dep[o]}
          /\ o \in lv => pr[o] = dep[o] /\ dep[o] \in lv
    /\ kind[o] = "cursor" =>
          /\ dep[o] \in Ids /\ dep[o] < o /\ kind[dep[o]] = "client"
          /\ o \in lv => pr[o] # 0
          /\ pr[o] # 0 => /\ pr[o] < o
                          /\ kind[pr[o]] = "collection"
                          /\ dep[pr[o]] = dep[o]
    /\ kind[o] = "filestream" =>
          /\ dep[o] \in Ids /\ dep[o] < o /\ kind[dep[o]] = "gridfs"
          /\ pr[o] \in {0, dep[o]}
          /\ o \in lv => pr[o] = dep[o]
    /\ o \in lv \ orph /\ kind[o] \in {"cursor", "filestream"} => pr[o] \in lv
    /\ pr[o] \in lv => o \in lv

HeapOK(lv, pr, orph) ==
    /\ lv \in SUBSET Ids
    /\ pr \in [Ids -> Refs]
    /\ \A o \in Ids : ObjectOK(o, lv, pr, orph)

\* The pool pl refers to nothing but clients, and a client it does not know
\* protects nothing.
PoolOK(lv, pr, pl) ==
    /\ pl \in [Params -> Refs]
    /\ \A p \in Params : pl[p] # 0 => Client(pl[p]) /\ conn[pl[p]] = p
    /\ \A c \in lv : Client(c) /\ pl[conn[c]] # c => \A o \in Ids : pr[o] # c

\* What the user's variables and the call on the stack refer to.
RootKinds ==
    /\ \A h \in Handles : /\ held[h] = 0
                          /\ ptr[h] # 0 => kind[ptr[h]] = Wrapper(h)
                          /\ ptr[h] # 0 => orig[h] \in Origs
    /\ \A i \in Iters : iter[i] # 0 => kind[iter[i]] = "cursor"
    /\ frame.pc = "idle" => frame.obj = 0
    /\ frame.pc \in {"opening", "resetting"} =>
          /\ frame.h \in Handles /\ frame.params \in Params
          /\ frame.obj \in live /\ kind[frame.obj] = "client"
          /\ frame.pc = "resetting" => orig[frame.h] \in Origs
    /\ frame.pc = "stream" =>
          frame.obj \in live /\ kind[frame.obj] = "filestream"

\* What the pool says of the client of the call on the stack.
FrameOK ==
    frame.pc \in {"opening", "resetting"} =>
        /\ conn[frame.obj] = frame.params
        /\ frame.reg => pool[frame.params] = frame.obj
        /\ ~frame.reg => pool[frame.params] \notin live

\* What is scheduled for finalization exists, and is out of everyone's reach.
ReadyApart ==
    /\ ready \subseteq live
    /\ \A o \in Ids : prot[o] \in ready => o \in ready
    /\ Roots \cap ready = {}

IInv ==
    /\ TypeOK
    /\ HeapOK(live, prot, orphans)
    /\ PoolOK(live, prot, pool)
    /\ RootKinds
    /\ FrameOK
    /\ ReadyApart
    /\ FaultsNeedDisconnect
-----------------------------------------------------------------------------
(***************************************************************************)
(* Facts about the operators of the model.                                 *)
(***************************************************************************)

\* The collector follows every Protected field of what it has reached: two hops
\* are enough for the wrappers mongolite makes.
LEMMA ReachClosed ==
    ASSUME TypeOK, HeapOK(live, prot, orphans),
           NEW pr, pr \in [Ids -> Refs], \A x \in Ids : pr[x] \in {0, prot[x]},
           NEW o, o \in Reach(pr), pr[o] # 0
    PROVE  pr[o] \in Reach(pr)
<1>1. o \in Ids /\ pr[o] \in Ids
  BY DEF Reach, Ids, Refs
<1>2. CASE o \in Via(pr, Roots)
  BY <1>1, <1>2 DEF Reach, Via
<1>3. CASE o \notin Via(pr, Roots)
  <2>1. PICK x \in Ids : x \in Via(pr, Roots) /\ o = pr[x]
    BY <1>3 DEF Reach, Via
  <2>2. PICK y \in Ids : x = pr[y]
    BY <1>3, <2>1 DEF Via
  <2>3. /\ ObjectOK(y, live, prot, orphans)
        /\ ObjectOK(x, live, prot, orphans)
        /\ ObjectOK(o, live, prot, orphans)
    BY <1>1 DEF HeapOK
  <2>4. prot[y] = x /\ prot[x] = o /\ prot[o] # 0
    BY <1>1, <2>1, <2>2 DEF Ids
  <2>5. o > n \/ kind[o] = "client"
    BY <2>3, <2>4, <1>1 DEF ObjectOK, Ids, TypeOK, Kinds
  <2> QED
    BY <2>3, <2>4, <2>5 DEF ObjectOK
<1> QED
  BY <1>2, <1>3

\* What R can reach, now or with fewer Protected fields, is not scheduled for
\* finalization.
LEMMA ReachNotReady ==
    ASSUME IInv, NEW pr, pr \in [Ids -> Refs],
           \A x \in Ids : pr[x] \in {0, prot[x]}
    PROVE  Reach(pr) \cap ready = {}
<1>1. \A x \in Ids : pr[x] \in ready => x \in ready
  BY DEF IInv, ReadyApart, TypeOK, Ids
<1>2. Roots \cap ready = {}
  BY DEF IInv, ReadyApart
<1>3. Via(pr, Roots) \cap ready = {}
  BY <1>1, <1>2 DEF Via
<1> QED
  BY <1>1, <1>3 DEF Via, Reach

\* Destroying a set of natives leaves the heap in order, if it takes along what
\* protects them, or makes those cursors and streams orphans.
LEMMA FinalizeHeap ==
    ASSUME TypeOK, HeapOK(live, prot, orphans),
           NEW S \in SUBSET Ids, NEW orph, orphans \subseteq orph,
           \A o \in live : prot[o] \in S =>
               o \in S \/ (kind[o] \in {"cursor", "filestream"} /\ o \in orph)
    PROVE  HeapOK(LiveAfter(S), ProtAfter(S), orph)
<1>1. LiveAfter(S) \in SUBSET Ids /\ ProtAfter(S) \in [Ids -> Refs]
  BY BoundsAssumption DEF LiveAfter, ProtAfter, TypeOK, Refs
<1>2. ASSUME NEW o \in Ids
      PROVE  ObjectOK(o, LiveAfter(S), ProtAfter(S), orph)
  <2>1. ObjectOK(o, live, prot, orphans)
    BY DEF HeapOK
  <2>2. ProtAfter(S)[o] = IF o \in S \cap live THEN 0 ELSE prot[o]
    BY DEF ProtAfter
  <2>3. 0 \notin live /\ prot[o] \in Refs /\ dep[o] \in Refs
    BY DEF TypeOK, Ids
  <2>4. CASE o \in S
    BY <2>1, <2>2, <2>3, <2>4 DEF ObjectOK, LiveAfter
  <2>5. CASE o \notin S
    BY <2>1, <2>2, <2>3, <2>5 DEF ObjectOK, LiveAfter
  <2> QED
    BY <2>4, <2>5
<1> QED
  BY <1>1, <1>2 DEF HeapOK

\* R clears a weak reference in the pass that destroys its client.
LEMMA FinalizePool ==
    ASSUME TypeOK, HeapOK(live, prot, orphans), PoolOK(live, prot, pool),
           NEW S \in SUBSET Ids
    PROVE  PoolOK(LiveAfter(S), ProtAfter(S), PoolAfter(S))
<1>1. PoolAfter(S) \in [Params -> Refs]
  BY BoundsAssumption DEF PoolAfter, TypeOK, Refs
<1>2. \A c \in live : Client(c) => conn[c] \in Params
  BY DEF HeapOK, ObjectOK, Client, TypeOK
<1>3. \A p \in Params : PoolAfter(S)[p] # 0 =>
          Client(PoolAfter(S)[p]) /\ conn[PoolAfter(S)[p]] = p
  BY DEF PoolOK, PoolAfter
<1>4. ASSUME NEW c \in LiveAfter(S), Client(c), PoolAfter(S)[conn[c]] # c,
             NEW o \in Ids
      PROVE  ProtAfter(S)[o] # c
  <2>1. c \in live /\ c \notin S /\ c # 0
    BY DEF LiveAfter, TypeOK, Ids
  <2>2. pool[conn[c]] # c
    BY <2>1, <1>2, <1>4 DEF PoolAfter
  <2> QED
    BY <2>1, <2>2, <1>4 DEF PoolOK, ProtAfter
<1> QED
  BY <1>1, <1>3, <1>4 DEF PoolOK

\* Only an orphan's use, or its finalizer in whatever pass, touches a native that
\* is gone: parents are older than their children and are finalized after them.
LEMMA TouchesAlive ==
    ASSUME TypeOK, HeapOK(live, prot, orphans),
           NEW o \in live, o \notin orphans, NEW d \in Touches(o)
    PROVE  d \in live /\ d < o /\ (kind[d] = "client" \/ d = prot[o])
<1>1. o \in Ids /\ ObjectOK(o, live, prot, orphans)
  BY DEF TypeOK, HeapOK
<1>2. kind[o] \in {"cursor", "filestream"}
  BY DEF Touches
<1>3. prot[o] \in live /\ prot[o] \in Ids /\ prot[o] < o
  BY <1>1, <1>2 DEF ObjectOK, TypeOK
<1>4. ObjectOK(prot[o], live, prot, orphans)
  BY <1>3 DEF HeapOK
<1>5. CASE kind[o] = "cursor"
  <2>1. d = dep[o] /\ dep[o] = dep[prot[o]] /\ kind[prot[o]] = "collection"
    BY <1>1, <1>3, <1>5 DEF Touches, ObjectOK, Ids
  <2> QED
    BY <2>1, <1>1, <1>3, <1>4, <1>5 DEF ObjectOK
<1>6. CASE kind[o] = "filestream"
  <2>1. d \in {dep[o], dep[dep[o]]} /\ prot[o] = dep[o]
    BY <1>1, <1>3, <1>6 DEF Touches, ObjectOK, Ids
  <2>2. kind[dep[o]] = "gridfs" /\ dep[o] < o
    BY <1>1, <1>6 DEF ObjectOK
  <2>3. dep[dep[o]] \in live /\ dep[dep[o]] < dep[o] /\ kind[dep[dep[o]]] = "client"
    BY <2>1, <2>2, <1>3, <1>4 DEF ObjectOK
  <2>4. dep[o] \in Ids /\ dep[dep[o]] \in Ids /\ o \in Ids
    BY <2>1, <2>3, <1>1, <1>3 DEF TypeOK
  <2> QED
    BY <2>1, <2>2, <2>3, <2>4, <1>3 DEF Ids
<1> QED
  BY <1>2, <1>5, <1>6

LEMMA FaultsOrphaned ==
    ASSUME TypeOK, HeapOK(live, prot, orphans), NEW S \in SUBSET Ids
    PROVE  Faults(live, S) \subseteq orphans
<1> SUFFICES ASSUME NEW o \in Faults(live, S), o \notin orphans
             PROVE  FALSE
  OBVIOUS
<1>1. PICK d \in Touches(o) : d \notin live \/ (d \in S /\ d > o)
  BY DEF Faults, FinalizedBefore
<1>2. o \in live /\ o \in Ids
  BY DEF Faults, TypeOK
<1>3. d \in live /\ d < o
  BY <1>2, TouchesAlive
<1> QED
  BY <1>1, <1>2, <1>3 DEF TypeOK, Ids

\* What a wrapper must be given when it is made, in a heap (lv, pr).
Fits(k, lv, parent, native, p) ==
    \/ k = "client" /\ parent = 0 /\ native = 0 /\ p \in Params
    \/ /\ k \in {"collection", "gridfs"} /\ p = None
       /\ native \in lv /\ kind[native] = "client" /\ parent = native
    \/ /\ k = "cursor" /\ p = None
       /\ parent \in lv /\ kind[parent] = "collection" /\ native = dep[parent]
    \/ /\ k = "filestream" /\ p = None
       /\ native \in lv /\ kind[native] = "gridfs" /\ parent = native

\* Nothing refers to the number the next external pointer gets.
LEMMA NextIsFresh ==
    ASSUME TypeOK, NEW lv, NEW pr, HeapOK(lv, pr, orphans), n < MaxObj
    PROVE  /\ n + 1 \in Ids /\ n + 1 \notin lv /\ kind[n + 1] = "none"
           /\ \A o \in Ids : pr[o] # n + 1 /\ (kind[o] # "none" => dep[o] # n + 1)
<1>1. n \in Nat /\ n + 1 \in Ids /\ kind \in [Ids -> Kinds]
  BY BoundsAssumption DEF TypeOK, Ids
<1>2. ASSUME NEW o \in Ids
      PROVE  pr[o] # n + 1 /\ (kind[o] # "none" => dep[o] # n + 1)
  <2>1. ObjectOK(o, lv, pr, orphans)
    BY DEF HeapOK
  <2>2. kind[o] \in Kinds /\ pr[o] \in Refs /\ dep[o] \in Refs
    BY DEF TypeOK, HeapOK
  <2>3. kind[o] # "none" => o <= n
    BY <2>1, <1>1 DEF ObjectOK, Ids
  <2>4. kind[o] \notin {"none", "client"} => dep[o] < o
    BY <2>1, <2>2 DEF ObjectOK, Kinds
  <2>5. pr[o] # 0 => pr[o] < o /\ o <= n
    BY <2>1, <2>2, <2>3, <2>4 DEF ObjectOK, Kinds
  <2> QED
    BY <2>1, <2>2, <2>3, <2>4, <2>5, <1>1 DEF ObjectOK, Ids, Refs, Kinds
<1>3. ObjectOK(n + 1, lv, pr, orphans)
  BY <1>1 DEF HeapOK
<1> QED
  BY <1>1, <1>2, <1>3 DEF ObjectOK

\* Making a wrapper that fits leaves the heap in order.
LEMMA MakeHeap ==
    ASSUME TypeOK, NEW lv, NEW pr, HeapOK(lv, pr, orphans),
           NEW k, NEW parent, NEW native, NEW p,
           NEW u \in {"idle", "dirty"},
           Make(k, lv, pr, parent, native, p, u), Fits(k, lv, parent, native, p),
           UNCHANGED orphans
    PROVE  /\ n' \in 0 .. MaxObj /\ kind' \in [Ids -> Kinds]
           /\ live' \in SUBSET Ids /\ prot' \in [Ids -> Refs]
           /\ dep' \in [Ids -> Refs] /\ conn' \in [Ids -> Params \cup {None}]
           /\ use' \in [Ids -> {"idle", "dirty", "reading", "saved"}]
           /\ HeapOK(live, prot, orphans)'
<1>1. /\ n \in Nat /\ n < MaxObj /\ n' = n + 1
      /\ kind' = [kind EXCEPT ![n + 1] = k] /\ live' = lv \cup {n + 1}
      /\ prot' = [pr EXCEPT ![n + 1] = parent]
      /\ dep' = [dep EXCEPT ![n + 1] = native]
      /\ conn' = [conn EXCEPT ![n + 1] = p] /\ use' = [use EXCEPT ![n + 1] = u]
  BY BoundsAssumption DEF Make, Put, TypeOK
<1>2. /\ n + 1 \in Ids /\ n + 1 \notin lv /\ kind[n + 1] = "none"
      /\ \A o \in Ids : pr[o] # n + 1 /\ (kind[o] # "none" => dep[o] # n + 1)
  BY <1>1, NextIsFresh
<1>3. /\ kind \in [Ids -> Kinds] /\ lv \in SUBSET Ids /\ pr \in [Ids -> Refs]
      /\ dep \in [Ids -> Refs] /\ conn \in [Ids -> Params \cup {None}]
      /\ use \in [Ids -> {"idle", "dirty", "reading", "saved"}]
  BY DEF TypeOK, HeapOK
<1>4. /\ k \in Kinds /\ k # "none" /\ parent \in Refs /\ native \in Refs
      /\ p \in Params \cup {None}
  <2>1. 0 \in Refs /\ Ids \subseteq Refs
    BY BoundsAssumption DEF Refs, Ids
  <2> QED
    BY <2>1, <1>3 DEF Fits, Kinds
<1>5. /\ n' \in 0 .. MaxObj /\ kind' \in [Ids -> Kinds]
      /\ live' \in SUBSET Ids /\ prot' \in [Ids -> Refs]
      /\ dep' \in [Ids -> Refs] /\ conn' \in [Ids -> Params \cup {None}]
      /\ use' \in [Ids -> {"idle", "dirty", "reading", "saved"}]
  BY <1>1, <1>2, <1>3, <1>4, BoundsAssumption
<1>6. ASSUME NEW o \in Ids, o # n + 1
      PROVE  ObjectOK(o, live, prot, orphans)'
  <2>1. ObjectOK(o, lv, pr, orphans)
    BY DEF HeapOK
  <2>2. /\ kind'[o] = kind[o] /\ prot'[o] = pr[o] /\ dep'[o] = dep[o]
        /\ conn'[o] = conn[o] /\ (o \in live' <=> o \in lv)
        /\ (o > n' <=> o > n)
    BY <1>1, <1>2, <1>3, <1>6 DEF Ids
  <2>3. /\ pr[o] # n + 1 /\ kind'[pr[o]] = kind[pr[o]]
        /\ dep'[pr[o]] = dep[pr[o]] /\ (pr[o] \in live' <=> pr[o] \in lv)
    BY <1>1, <1>2, <1>3
  <2>4. kind[o] # "none" =>
            dep[o] # n + 1 /\ kind'[dep[o]] = kind[dep[o]]
              /\ (dep[o] \in live' <=> dep[o] \in lv)
    BY <1>1, <1>2, <1>3
  <2> QED
    BY <2>1, <2>2, <2>3, <2>4 DEF ObjectOK
<1>7. ASSUME NEW o \in Ids, o = n + 1
      PROVE  ObjectOK(o, live, prot, orphans)'
  <2>1. /\ kind'[o] = k /\ prot'[o] = parent /\ dep'[o] = native
        /\ conn'[o] = p /\ o \in live' /\ ~(o > n')
    BY <1>1, <1>2, <1>3, <1>7
  <2>2. \A x \in lv : x \in Ids /\ x # n + 1 /\ kind'[x] = kind[x]
                        /\ dep'[x] = dep[x] /\ x \in live'
    BY <1>1, <1>2, <1>3
  <2>3. \A x \in lv : x <= n /\ x # 0
    <3> SUFFICES ASSUME NEW x \in lv PROVE x <= n /\ x # 0
      OBVIOUS
    <3>1. x \in Ids /\ ObjectOK(x, lv, pr, orphans)
      BY <1>3 DEF HeapOK
    <3> QED
      BY <3>1, <1>1 DEF ObjectOK, Ids
  <2>4. k = "cursor" => /\ native \in lv /\ kind[native] = "client"
    <3> SUFFICES ASSUME k = "cursor"
                 PROVE  native \in lv /\ kind[native] = "client"
      OBVIOUS
    <3>1. parent \in lv /\ kind[parent] = "collection" /\ native = dep[parent]
      BY DEF Fits
    <3>2. ObjectOK(parent, lv, pr, orphans)
      BY <3>1, <1>3 DEF HeapOK
    <3> QED
      BY <3>1, <3>2 DEF ObjectOK
  <2>5. \A x \in lv : x < n + 1
    BY <2>3, <1>1, <1>3 DEF Ids
  <2> QED
    BY <2>1, <2>2, <2>3, <2>4, <2>5, <1>3, <1>4, <1>7 DEF ObjectOK, Fits
<1> QED
  BY <1>5, <1>6, <1>7, <1>2 DEF HeapOK

\* A wrapper other than a client leaves the pool as it is.
LEMMA MakePool ==
    ASSUME TypeOK, HeapOK(live, prot, orphans), PoolOK(live, prot, pool),
           NEW k, k # "client", NEW parent, NEW native, NEW p, NEW u,
           Make(k, live, prot, parent, native, p, u), UNCHANGED pool,
           parent \in live, Client(parent) => pool[conn[parent]] = parent
    PROVE  PoolOK(live, prot, pool)'
<1>1. /\ n + 1 \in Ids /\ n + 1 \notin live /\ kind[n + 1] = "none"
  BY NextIsFresh DEF Make
<1>2. /\ kind' = [kind EXCEPT ![n + 1] = k] /\ live' = live \cup {n + 1}
      /\ conn' = [conn EXCEPT ![n + 1] = p]
      /\ prot' = [prot EXCEPT ![n + 1] = parent]
  BY DEF Make, Put
<1>3. kind \in [Ids -> Kinds] /\ conn \in [Ids -> Params \cup {None}]
        /\ live \in SUBSET Ids /\ prot \in [Ids -> Refs]
  BY DEF TypeOK
<1>4. \A q \in Params : pool[q] # 0 =>
          kind'[pool[q]] = "client" /\ conn'[pool[q]] = q
  BY <1>1, <1>2, <1>3 DEF PoolOK, Client
<1>5. ASSUME NEW c \in live', kind'[c] = "client", pool[conn'[c]] # c,
             NEW o \in Ids
      PROVE  prot'[o] # c
  <2>1. c \in live /\ Client(c) /\ pool[conn[c]] # c
    BY <1>1, <1>2, <1>3, <1>5 DEF Client
  <2>2. prot[o] # c /\ parent # c
    BY <2>1 DEF PoolOK
  <2> QED
    BY <2>2, <1>1, <1>2, <1>3
<1> QED
  BY <1>4, <1>5 DEF PoolOK, Client

\* The same when nothing but the user's side of the state changes.
LEMMA SameHeap ==
    ASSUME HeapOK(live, prot, orphans), PoolOK(live, prot, pool),
           UNCHANGED <<heapVars, pool, orphans>>
    PROVE  HeapOK(live, prot, orphans)' /\ PoolOK(live, prot, pool)'
  BY DEF HeapOK, ObjectOK, PoolOK, Client, heapVars
-----------------------------------------------------------------------------
(***************************************************************************)
(* The invariant is inductive: one lemma per action.                       *)
(***************************************************************************)
LEMMA InitIInv == Init => IInv
<1> SUFFICES ASSUME Init PROVE IInv
  OBVIOUS
<1>1. TypeOK
  BY BoundsAssumption DEF Init, TypeOK, Ids, Refs, Kinds, Frames, NoFrame
<1>2. HeapOK(live, prot, orphans)
  BY BoundsAssumption DEF Init, HeapOK, ObjectOK, Ids, Refs
<1>3. PoolOK(live, prot, pool)
  BY BoundsAssumption DEF Init, PoolOK, Refs
<1>4. RootKinds /\ FrameOK
  BY DEF Init, RootKinds, FrameOK, NoFrame
<1>5. ReadyApart
  BY DEF Init, ReadyApart
<1>6. FaultsNeedDisconnect
  BY DEF Init, FaultsNeedDisconnect
<1> QED
  BY <1>1, <1>2, <1>3, <1>4, <1>5, <1>6 DEF IInv

LEMMA GCStep == IInv /\ GC => IInv'
<1> SUFFICES ASSUME IInv, GC PROVE IInv'
  OBVIOUS
<1>1. TypeOK'
  BY DEF IInv, GC, TypeOK, Garbage, heapVars, userVars
<1>2. HeapOK(live, prot, orphans)' /\ PoolOK(live, prot, pool)'
  BY SameHeap DEF IInv, GC
<1>3. RootKinds' /\ FrameOK'
  BY DEF IInv, RootKinds, FrameOK, GC, heapVars, userVars, Wrapper
<1>4. ReadyApart'
  <2>1. Roots' = Roots
    BY DEF GC, Roots, UserRoots, PoolRoots, userVars
  <2>2. Roots \cap Garbage(live, prot) = {}
    BY DEF Garbage, Reach, Via, IInv, TypeOK
  <2>3. \A o \in Ids : prot[o] \in Garbage(live, prot) =>
            o \in Garbage(live, prot)
    <3> SUFFICES ASSUME NEW o \in Ids, prot[o] \in live \ Reach(prot)
                 PROVE  o \in live \ Reach(prot)
      BY DEF Garbage
    <3>1. o \in live /\ prot[o] # 0
      BY DEF IInv, HeapOK, ObjectOK, TypeOK, Ids
    <3>2. prot \in [Ids -> Refs]
      BY DEF IInv, TypeOK
    <3> QED
      BY <3>1, <3>2, ReachClosed DEF IInv
  <2> QED
    BY <2>1, <2>2, <2>3 DEF IInv, ReadyApart, GC, Garbage, heapVars
<1>5. FaultsNeedDisconnect'
  BY DEF IInv, GC, FaultsNeedDisconnect
<1> QED
  BY <1>1, <1>2, <1>3, <1>4, <1>5 DEF IInv

\* Finalizing everything that is scheduled, or nothing: what is left is in order.
LEMMA Settle ==
    ASSUME IInv, NEW S, S \in {{}, ready}
    PROVE  /\ HeapOK(LiveAfter(S), ProtAfter(S), orphans)
           /\ PoolOK(LiveAfter(S), ProtAfter(S), PoolAfter(S))
           /\ Faults(live, S) \subseteq orphans
           /\ Roots \cap live \subseteq LiveAfter(S)
<1>1. S \in SUBSET Ids /\ TypeOK /\ HeapOK(live, prot, orphans)
        /\ PoolOK(live, prot, pool)
  BY DEF IInv, TypeOK
<1>2. \A o \in live : prot[o] \in S => o \in S
  BY DEF IInv, ReadyApart, TypeOK
<1>3. HeapOK(LiveAfter(S), ProtAfter(S), orphans)
  BY <1>1, <1>2, FinalizeHeap
<1>4. PoolOK(LiveAfter(S), ProtAfter(S), PoolAfter(S))
  BY <1>1, FinalizePool
<1>5. Faults(live, S) \subseteq orphans
  BY <1>1, FaultsOrphaned
<1>6. Roots \cap live \subseteq LiveAfter(S)
  BY DEF IInv, ReadyApart, LiveAfter
<1> QED
  BY <1>3, <1>4, <1>5, <1>6

LEMMA RunFinalizersStep == IInv /\ RunFinalizers => IInv'
<1> SUFFICES ASSUME IInv, RunFinalizers PROVE IInv'
  OBVIOUS
<1>1. /\ HeapOK(LiveAfter(ready), ProtAfter(ready), orphans)
      /\ PoolOK(LiveAfter(ready), ProtAfter(ready), PoolAfter(ready))
      /\ Faults(live, ready) \subseteq orphans
      /\ Roots \cap live \subseteq LiveAfter(ready)
  BY Settle
<1>2. HeapOK(live, prot, orphans)' /\ PoolOK(live, prot, pool)'
  BY <1>1 DEF RunFinalizers, HeapOK, ObjectOK, PoolOK, Client
<1>3. TypeOK'
  BY <1>1, <1>2 DEF IInv, TypeOK, RunFinalizers, userVars, HeapOK, PoolOK
<1>4. RootKinds'
  <2>1. frame.obj \in live => frame.obj \in live'
    BY <1>1 DEF RunFinalizers, Roots, UserRoots, PoolRoots
  <2> QED
    BY <2>1 DEF IInv, RootKinds, RunFinalizers, userVars, Wrapper
<1>7. FrameOK'
  <2>1. frame.obj \in live => frame.obj \notin ready
    BY <1>1 DEF LiveAfter, Roots, UserRoots, PoolRoots
  <2> QED
    BY <2>1 DEF IInv, FrameOK, RootKinds, RunFinalizers, PoolAfter, LiveAfter,
       TypeOK, Ids
<1>5. ReadyApart'
  BY <1>2 DEF RunFinalizers, ReadyApart, HeapOK
<1>6. FaultsNeedDisconnect'
  BY <1>1 DEF IInv, FaultsNeedDisconnect, RunFinalizers
<1> QED
  BY <1>2, <1>3, <1>4, <1>5, <1>6, <1>7 DEF IInv

\* new_client: the pool's answer is a client that exists and will go on to.
LEMMA NewClientStep ==
    ASSUME IInv, NEW p \in Params, NEW pc \in {"opening", "resetting"},
           NEW h \in Handles, NewClient(p, pc, h),
           pc = "resetting" => orig[h] \in Origs,
           UNCHANGED <<userVars, orphans>>,
           pemfiles' \in SUBSET (1 .. MaxPem), npem' \in 1 .. MaxPem
    PROVE  IInv'
<1> DEFINE S  == Settled(p)
           lv == LiveAfter(S)
           pr == ProtAfter(S)
           pl == PoolAfter(S)
<1>0. S \in {{}, ready}
  BY DEF Settled
<1>1. /\ HeapOK(lv, pr, orphans) /\ PoolOK(lv, pr, pl)
      /\ Faults(live, S) \subseteq orphans
  BY <1>0, Settle
<1>2. ready' = ready \ S /\ fault' = fault \cup Faults(live, S)
  BY DEF NewClient
<1>3. TypeOK /\ RootKinds /\ fault \subseteq orphans
  BY DEF IInv, FaultsNeedDisconnect
<1>4. CASE pl[p] \in lv
  <2>1. /\ live' = lv /\ prot' = pr /\ pool' = pl
        /\ frame' = [pc |-> pc, h |-> h, params |-> p, obj |-> pl[p],
                     reg |-> TRUE]
        /\ UNCHANGED <<n, kind, dep, conn, use>>
    BY <1>4 DEF NewClient
  <2>2. HeapOK(live, prot, orphans)' /\ PoolOK(live, prot, pool)'
    BY <1>1, <2>1 DEF HeapOK, ObjectOK, PoolOK, Client
  <2>3. pl[p] \in Refs /\ pl[p] # 0 /\ kind[pl[p]] = "client"
    BY <1>1, <1>4 DEF PoolOK, Client, HeapOK, Ids
  <2>4. TypeOK'
    BY <1>1, <1>2, <1>3, <2>1, <2>2, <2>3 DEF TypeOK, userVars, HeapOK, PoolOK,
       FaultsNeedDisconnect, Frames
  <2>5. RootKinds' /\ FrameOK'
    BY <1>1, <1>3, <1>4, <2>1, <2>3 DEF RootKinds, userVars, Wrapper, FrameOK,
       PoolOK
  <2>6. ReadyApart'
    <3>1. S = {} \/ S = ready
      BY <1>0
    <3>2. pl[p] = IF pool[p] \in S THEN 0 ELSE pool[p]
      BY DEF PoolAfter
    <3>3. pool[p] # 0
      BY <2>3, <3>2
    <3>4. ready' = {}
      BY <3>3, <1>2 DEF Settled
    <3> QED
      BY <3>4, <2>2 DEF ReadyApart, HeapOK
  <2> QED
    BY <1>1, <1>2, <1>3, <2>2, <2>4, <2>5, <2>6 DEF IInv, FaultsNeedDisconnect
<1>5. CASE pl[p] \notin lv
  <2>1. /\ Make("client", lv, pr, 0, 0, p, "idle")
        /\ pool' = pl
        /\ frame' = [pc |-> pc, h |-> h, params |-> p, obj |-> n + 1,
                     reg |-> FALSE]
    <3>1. (pl[p] \in lv) = FALSE
      BY <1>5
    <3>2. frame' = [pc |-> pc, h |-> h, params |-> p,
                    obj |-> IF pl[p] \in lv THEN pl[p] ELSE n + 1,
                    reg |-> pl[p] \in lv]
      BY Zenon DEF NewClient
    <3> QED
      BY <1>5, <3>1, <3>2 DEF NewClient
  <2>2. Fits("client", lv, 0, 0, p)
    BY DEF Fits
  <2>3. /\ n' \in 0 .. MaxObj /\ kind' \in [Ids -> Kinds]
        /\ live' \in SUBSET Ids /\ prot' \in [Ids -> Refs]
        /\ dep' \in [Ids -> Refs] /\ conn' \in [Ids -> Params \cup {None}]
        /\ use' \in [Ids -> {"idle", "dirty", "reading", "saved"}]
        /\ HeapOK(live, prot, orphans)'
    BY <1>1, <1>3, <2>1, <2>2, MakeHeap
  <2>4. /\ n + 1 \in Ids /\ n + 1 \notin lv /\ kind[n + 1] = "none"
        /\ \A o \in Ids : pr[o] # n + 1
    BY <1>1, <1>3, <2>1, NextIsFresh DEF Make
  <2>5. /\ kind' = [kind EXCEPT ![n + 1] = "client"]
        /\ live' = lv \cup {n + 1}
        /\ conn' = [conn EXCEPT ![n + 1] = p]
        /\ prot' = [pr EXCEPT ![n + 1] = 0]
    BY <2>1 DEF Make, Put
  <2>6. PoolOK(live, prot, pool)'
    <3>1. pool' \in [Params -> Refs]
      BY <2>1, <2>4, <1>1, BoundsAssumption DEF PoolOK, Refs, Ids
    <3>2. \A q \in Params : pool'[q] # 0 =>
              kind'[pool'[q]] = "client" /\ conn'[pool'[q]] = q
      BY <2>1, <2>4, <2>5, <1>1, <1>3 DEF PoolOK, Client, TypeOK
    <3>3. ASSUME NEW c \in live', kind'[c] = "client", pool'[conn'[c]] # c,
                 NEW o \in Ids
          PROVE  prot'[o] # c
      <4>1. prot'[o] \in {0, pr[o]} /\ c \in Ids /\ c # 0
        BY <2>3, <2>5, <1>1 DEF HeapOK, Ids
      <4>2. CASE c = n + 1
        BY <4>1, <4>2, <2>4
      <4>3. CASE c # n + 1
        <5>1. c \in lv /\ kind[c] = "client" /\ conn'[c] = conn[c]
          BY <4>1, <4>3, <3>3, <2>4, <2>5, <1>3 DEF TypeOK
        <5> QED
          BY <5>1, <4>1, <3>3, <2>1, <1>1 DEF PoolOK, Client
      <4> QED
        BY <4>2, <4>3
    <3> QED
      BY <3>1, <3>2, <3>3 DEF PoolOK, Client
  <2>7. TypeOK'
    <3>1. n + 1 \in Refs
      BY <2>4, BoundsAssumption DEF Ids, Refs
    <3>2. frame' \in Frames
      BY <2>1, <3>1 DEF Frames
    <3>3. fault' \in SUBSET Ids /\ pool' \in [Params -> Refs]
      BY <1>1, <1>2, <1>3, <2>6 DEF TypeOK, PoolOK
    <3> QED
      BY <1>2, <1>3, <2>3, <3>2, <3>3 DEF TypeOK, userVars
  <2>10. FrameOK'
    BY <1>1, <1>3, <1>5, <2>1, <2>4, <2>5 DEF FrameOK, TypeOK, PoolOK, Client
  <2>8. RootKinds'
    <3>1. \A o \in Refs : kind[o] \notin {"none"} => kind'[o] = kind[o]
      BY <2>4, <2>5, <1>3 DEF TypeOK
    <3>2. kind'[n + 1] = "client" /\ n + 1 \in live'
      BY <2>4, <2>5, <1>3 DEF TypeOK
    <3> QED
      BY <3>1, <3>2, <1>3, <2>1 DEF RootKinds, userVars, Wrapper, TypeOK
  <2>9. ReadyApart'
    <3>1. CASE S = ready
      BY <3>1, <1>2, <2>3 DEF ReadyApart
    <3>2. CASE S = {}
      <4>1. ready' = ready /\ ready \subseteq live /\ lv = live
        BY <3>2, <1>2 DEF IInv, ReadyApart, LiveAfter
      <4>2. /\ \A o \in Ids : pr[o] = prot[o]
            /\ prot' = [pr EXCEPT ![n + 1] = 0]
        BY <3>2, <2>1 DEF ProtAfter, Make, Put
      <4>3. \A o \in Ids : prot'[o] \in ready => o \in ready
        <5> SUFFICES ASSUME NEW o \in Ids, prot'[o] \in ready
                     PROVE  o \in ready
          OBVIOUS
        <5>1. 0 \notin ready
          BY <1>3 DEF TypeOK, Ids
        <5>2. o # n + 1
          BY <5>1, <4>2, <2>4, <1>1 DEF HeapOK
        <5>3. prot'[o] = prot[o]
          BY <5>2, <4>2, <1>1 DEF HeapOK
        <5> QED
          BY <5>3 DEF IInv, ReadyApart
      <4>4. Roots' \cap ready = {}
        <5>1. Roots' \subseteq Roots \cup {n + 1}
          BY <2>1 DEF Roots, UserRoots, PoolRoots, userVars
        <5>2. n + 1 \notin ready /\ Roots \cap ready = {}
          BY <4>1, <2>4 DEF IInv, ReadyApart
        <5> QED
          BY <5>1, <5>2
      <4> QED
        BY <4>1, <4>3, <4>4, <2>5 DEF ReadyApart
    <3> QED
      BY <1>0, <3>1, <3>2
  <2> QED
    BY <1>1, <1>2, <1>3, <2>3, <2>6, <2>7, <2>8, <2>9, <2>10
       DEF IInv, FaultsNeedDisconnect
<1> QED
  BY <1>4, <1>5

\* The new client becomes the one the pool knows; nobody uses the one it replaces.
LEMMA RegisterStep == IInv /\ Register => IInv'
<1> SUFFICES ASSUME IInv, Register PROVE IInv'
  OBVIOUS
<1> DEFINE c == frame.obj
           p == frame.params
<1>1. /\ TypeOK /\ HeapOK(live, prot, orphans) /\ PoolOK(live, prot, pool)
      /\ RootKinds /\ ReadyApart /\ FaultsNeedDisconnect
  BY DEF IInv
<1>2. /\ p \in Params /\ c \in live /\ c \in Refs /\ Client(c)
      /\ conn[c] = p /\ pool[p] \notin live
  BY DEF IInv, TypeOK, Frames, RootKinds, FrameOK, Register, Client
<1>3. /\ pool' = [pool EXCEPT ![p] = c] /\ frame' = [frame EXCEPT !.reg = TRUE]
      /\ UNCHANGED <<heapVars, ready, userVars, pemfiles, npem, fault, orphans>>
  BY DEF Register, Registered
<1>4. frame' \in Frames
  BY <1>1, <1>3 DEF TypeOK, Frames
<1>5. HeapOK(live, prot, orphans)'
  BY <1>1, <1>3 DEF HeapOK, ObjectOK, heapVars
<1>6. PoolOK(live, prot, pool)'
  <2>1. pool' \in [Params -> Refs]
    BY <1>1, <1>2, <1>3 DEF PoolOK
  <2>2. \A q \in Params : pool'[q] # 0 => Client(pool'[q]) /\ conn[pool'[q]] = q
    BY <1>1, <1>2, <1>3 DEF PoolOK
  <2>3. ASSUME NEW d \in live, Client(d), pool'[conn[d]] # d
        PROVE  pool[conn[d]] # d
    BY <2>3, <1>1, <1>2, <1>3 DEF PoolOK
  <2> QED
    BY <2>1, <2>2, <2>3, <1>1, <1>3 DEF PoolOK, Client, heapVars
<1>7. TypeOK'
  BY <1>1, <1>3, <1>4, <1>6 DEF TypeOK, PoolOK, heapVars, userVars
<1>8. RootKinds' /\ FrameOK' /\ ReadyApart'
  <2>1. /\ frame'.pc = frame.pc /\ frame'.h = frame.h /\ frame'.obj = frame.obj
        /\ frame'.params = p /\ frame'.reg
    BY <1>1, <1>3 DEF TypeOK, Frames
  <2>2. RootKinds'
    BY <2>1, <1>1, <1>3 DEF RootKinds, heapVars, userVars, Wrapper
  <2>3. FrameOK'
    BY <2>1, <1>1, <1>2, <1>3 DEF FrameOK, PoolOK, heapVars
  <2> QED
    BY <2>1, <2>2, <2>3, <1>1, <1>3 DEF ReadyApart, Roots, UserRoots,
       PoolRoots, heapVars, userVars
<1> QED
  BY <1>1, <1>3, <1>5, <1>6, <1>7, <1>8 DEF IInv, FaultsNeedDisconnect

LEMMA ConstructStep ==
    ASSUME IInv, NEW h \in Handles, NEW p \in Params, Construct(h, p)
    PROVE  IInv'
  BY NewClientStep DEF Construct, IInv, TypeOK

LEMMA ResetStep == ASSUME IInv, NEW h \in Handles, Reset(h) PROVE IInv'
<1>1. orig[h] \in Origs
  BY DEF IInv, RootKinds, Reset, NullPtr
<1>2. /\ npem \in 1 .. MaxPem /\ pemfiles \in SUBSET (1 .. MaxPem)
      /\ orig[h].params \in Params
  BY <1>1 DEF IInv, TypeOK, Origs
<1>3. ResetParams(orig[h]) # orig[h].params => npem + 1 \in 1 .. MaxPem
  BY <1>2, BoundsAssumption DEF Reset
<1>4. ResetParams(orig[h]) \in Params
  <2>1. CASE ResetParams(orig[h]) = orig[h].params
    BY <2>1, <1>2
  <2>2. CASE ResetParams(orig[h]) # orig[h].params
    <3>1. ResetParams(orig[h]) = [orig[h].params EXCEPT !.pem = npem + 1]
      BY <2>2 DEF ResetParams
    <3>2. npem + 1 \in 0 .. MaxPem
      BY <2>2, <1>3, <1>2
    <3> QED
      BY <3>1, <3>2, <1>2 DEF Params
  <2> QED
    BY <2>1, <2>2
<1>5. npem' \in 1 .. MaxPem /\ pemfiles' \in SUBSET (1 .. MaxPem)
  BY <1>2, <1>3 DEF Reset
<1> QED
  BY <1>1, <1>4, <1>5, NewClientStep DEF Reset

\* The parts of the invariant that do not depend on where a new object of kind k
\* is stored.
Made(k) ==
    /\ n' \in 0 .. MaxObj /\ kind' \in [Ids -> Kinds]
    /\ live' \in SUBSET Ids /\ prot' \in [Ids -> Refs]
    /\ dep' \in [Ids -> Refs] /\ conn' \in [Ids -> Params \cup {None}]
    /\ use' \in [Ids -> {"idle", "dirty", "reading", "saved"}]
    /\ HeapOK(live, prot, orphans)' /\ PoolOK(live, prot, pool)'
    /\ ready' \subseteq live'
    /\ \A o \in Ids : prot'[o] \in ready' => o \in ready'
    /\ n + 1 \in Ids /\ n + 1 \in Refs /\ n + 1 \notin ready
    /\ kind'[n + 1] = k /\ n + 1 \in live'
    /\ live \subseteq live'
    /\ \A o \in Refs : kind[o] # "none" => kind'[o] = kind[o]

\* Making a wrapper for a client, collection or gridfs that is in use.
LEMMA MakeStep ==
    ASSUME IInv, NEW k, k # "client", NEW parent, NEW native,
           NEW u \in {"idle", "dirty"},
           Make(k, live, prot, parent, native, None, u),
           Fits(k, live, parent, native, None), parent \notin ready,
           Client(parent) => pool[conn[parent]] = parent,
           UNCHANGED <<pool, ready, fault, orphans>>
    PROVE  Made(k)
<1>1. TypeOK /\ HeapOK(live, prot, orphans) /\ PoolOK(live, prot, pool)
  BY DEF IInv
<1>2. /\ n' \in 0 .. MaxObj /\ kind' \in [Ids -> Kinds]
      /\ live' \in SUBSET Ids /\ prot' \in [Ids -> Refs]
      /\ dep' \in [Ids -> Refs] /\ conn' \in [Ids -> Params \cup {None}]
      /\ use' \in [Ids -> {"idle", "dirty", "reading", "saved"}]
      /\ HeapOK(live, prot, orphans)'
  BY <1>1, MakeHeap
<1>3. PoolOK(live, prot, pool)'
  <2>1. parent \in live
    BY DEF Fits
  <2> QED
    BY <1>1, <2>1, MakePool
<1>4. /\ n + 1 \in Ids /\ n + 1 \notin live /\ kind[n + 1] = "none"
  BY <1>1, NextIsFresh DEF Make
<1>5. /\ kind' = [kind EXCEPT ![n + 1] = k] /\ live' = live \cup {n + 1}
      /\ prot' = [prot EXCEPT ![n + 1] = parent]
  BY DEF Make, Put
<1>6. ready \subseteq live /\ (\A o \in Ids : prot[o] \in ready => o \in ready)
  BY DEF IInv, ReadyApart
<1>7. kind \in [Ids -> Kinds] /\ prot \in [Ids -> Refs]
  BY <1>1 DEF TypeOK
<1>8. \A o \in Ids : prot'[o] \in ready' => o \in ready'
  BY <1>4, <1>5, <1>6, <1>7
<1>9. n + 1 \in Refs
  BY <1>4, BoundsAssumption DEF Ids, Refs
<1> QED
  BY <1>2, <1>3, <1>4, <1>5, <1>6, <1>7, <1>8, <1>9 DEF Made

LEMMA ConnectedStep == IInv /\ Connected => IInv'
<1> SUFFICES ASSUME IInv, Connected PROVE IInv'
  OBVIOUS
<1> DEFINE h == frame.h
           c == frame.obj
<1>1. /\ h \in Handles /\ frame.params \in Params
      /\ c \in live /\ kind[c] = "client" /\ c \notin ready
      /\ pool[conn[c]] = c
  BY DEF IInv, RootKinds, FrameOK, Connected, ReadyApart, Roots, UserRoots, PoolRoots
<1>2. /\ Make(Wrapper(h), live, prot, c, c, None, "idle")
      /\ Fits(Wrapper(h), live, c, c, None) /\ Wrapper(h) # "client"
      /\ UNCHANGED <<pool, ready, fault, orphans>>
  BY <1>1 DEF Connected, ColProt, Fits, Wrapper
<1>3. Made(Wrapper(h))
  BY <1>2, <1>1, MakeStep
<1>4. /\ ptr' = [ptr EXCEPT ![h] = n + 1] /\ frame' = NoFrame
      /\ UNCHANGED <<iter, pemfiles, npem>>
  BY DEF Connected, Put
<1>5. /\ orig' \in [Handles -> Origs \cup {None}]
      /\ held' \in [Handles -> Refs]
      /\ \A g \in Handles : held'[g] = 0
      /\ \A g \in Handles : g = h \/ ptr[g] # 0 => orig'[g] \in Origs
  <2>1. TypeOK /\ \A g \in Handles : held[g] = 0 /\ (ptr[g] # 0 => orig[g] \in Origs)
    BY DEF IInv, RootKinds
  <2>2. [params |-> frame.params, pemdata |-> frame.params.pem \in pemfiles]
            \in Origs
    BY <1>1 DEF Origs
  <2>3. CASE frame.pc = "opening"
    <3>1. /\ orig' = [orig EXCEPT ![h] = [params |-> frame.params,
                          pemdata |-> frame.params.pem \in pemfiles]]
          /\ held' = [held EXCEPT ![h] = 0]
      BY <2>3 DEF Connected, Put, HeldAfterConstruct
    <3> QED
      BY <3>1, <2>1, <2>2, <1>1, BoundsAssumption DEF TypeOK, Refs
  <2>4. CASE frame.pc = "resetting"
    <3>1. orig[h] \in Origs
      BY <2>4 DEF IInv, RootKinds
    <3> QED
      BY <2>4, <2>1, <3>1 DEF Connected, TypeOK
  <2> QED
    BY <2>3, <2>4 DEF Connected
<1>6. TypeOK'
  <2>1. frame' \in Frames
    BY <1>4, BoundsAssumption DEF Frames, NoFrame, Refs
  <2>2. ptr' \in [Handles -> Refs]
    BY <1>3, <1>4 DEF IInv, TypeOK, Made
  <2> QED
    BY <1>2, <1>3, <1>4, <1>5, <2>1, <2>2 DEF IInv, TypeOK, Made
<1>7. RootKinds'
  <2>1. \A g \in Handles : ptr'[g] # 0 =>
            kind'[ptr'[g]] = Wrapper(g) /\ orig'[g] \in Origs
    <3> SUFFICES ASSUME NEW g \in Handles, ptr'[g] # 0
                 PROVE  kind'[ptr'[g]] = Wrapper(g) /\ orig'[g] \in Origs
      OBVIOUS
    <3>1. CASE g = h
      BY <3>1, <1>3, <1>4, <1>5 DEF IInv, TypeOK, Made
    <3>2. CASE g # h
      <4>1. ptr'[g] = ptr[g] /\ ptr[g] \in Refs
        BY <3>2, <1>1, <1>4 DEF IInv, TypeOK
      <4>2. kind[ptr[g]] = Wrapper(g) /\ Wrapper(g) # "none"
        BY <4>1 DEF IInv, RootKinds, Wrapper
      <4> QED
        BY <4>1, <4>2, <1>3, <1>5 DEF Made
    <3> QED
      BY <3>1, <3>2
  <2>2. \A i \in Iters : iter'[i] # 0 => kind'[iter'[i]] = "cursor"
    BY <1>3, <1>4 DEF IInv, RootKinds, TypeOK, Made
  <2> QED
    BY <2>1, <2>2, <1>4, <1>5 DEF RootKinds, NoFrame, Wrapper
<1>8. ReadyApart'
  <2>1. 0 \notin ready /\ Roots \cap ready = {}
    BY DEF IInv, ReadyApart, TypeOK, Ids
  <2>2. Roots' \subseteq Roots \cup {0, n + 1}
    <3>1. \A g \in Handles : ptr'[g] \in {ptr[g], n + 1}
      BY <1>1, <1>4 DEF IInv, TypeOK
    <3> QED
      BY <3>1, <1>4, <1>5 DEF Roots, UserRoots, PoolRoots, NoFrame
  <2> QED
    BY <2>1, <2>2, <1>2, <1>3 DEF ReadyApart, Made
<1>9. FrameOK'
  BY <1>4 DEF FrameOK, NoFrame
<1> QED
  BY <1>2, <1>3, <1>6, <1>7, <1>8, <1>9 DEF IInv, FaultsNeedDisconnect, Made

\* An error in mongo(), gridfs(), check_col() or check_fs().
LEMMA ConnectFailedStep == IInv /\ ConnectFailed => IInv'
<1> SUFFICES ASSUME IInv, ConnectFailed PROVE IInv'
  OBVIOUS
<1> DEFINE h == frame.h
           c == frame.obj
<1>1. /\ h \in Handles
      /\ c \in live /\ kind[c] = "client" /\ c \notin ready
      /\ pool[conn[c]] = c
  BY DEF IInv, RootKinds, FrameOK, ConnectFailed, ReadyApart, Roots, UserRoots,
     PoolRoots
<1>2. /\ UNCHANGED <<pool, ready, userVars, pemfiles, npem, fault, orphans>>
      /\ frame' = NoFrame
  BY DEF ConnectFailed
<1>3. Roots' \subseteq Roots \cup {0}
  BY <1>2 DEF Roots, UserRoots, PoolRoots, userVars, NoFrame
<1>4. frame' \in Frames
  BY <1>2, BoundsAssumption DEF Frames, NoFrame, Refs
<1>5. 0 \notin ready /\ Roots \cap ready = {}
  BY DEF IInv, ReadyApart, TypeOK, Ids
<1>8. FrameOK'
  BY <1>2 DEF FrameOK, NoFrame
<1>6. CASE h \in Mongos
  <2>1. /\ Make("collection", live, prot, c, c, None, "idle")
        /\ Fits("collection", live, c, c, None)
    BY <1>1, <1>6 DEF ConnectFailed, ColProt, Fits
  <2>2. Made("collection")
    BY <1>1, <1>2, <2>1, MakeStep
  <2>3. TypeOK'
    BY <1>2, <1>4, <2>2 DEF IInv, TypeOK, userVars, Made
  <2>4. RootKinds'
    BY <1>2, <2>2 DEF IInv, TypeOK, RootKinds, userVars, NoFrame, Wrapper, Made
  <2>5. ReadyApart'
    BY <1>2, <1>3, <1>5, <2>2 DEF ReadyApart, Made
  <2> QED
    BY <1>2, <1>8, <2>2, <2>3, <2>4, <2>5 DEF IInv, FaultsNeedDisconnect, Made
<1>7. CASE h \notin Mongos
  <2>1. UNCHANGED heapVars
    BY <1>7 DEF ConnectFailed
  <2>2. HeapOK(live, prot, orphans)' /\ PoolOK(live, prot, pool)'
    BY <1>2, <2>1, SameHeap DEF IInv
  <2>3. TypeOK'
    BY <1>2, <1>4, <2>1 DEF IInv, TypeOK, userVars, heapVars
  <2>4. RootKinds'
    BY <1>2, <2>1 DEF IInv, RootKinds, userVars, heapVars, NoFrame, Wrapper
  <2>5. ReadyApart'
    BY <1>2, <1>3, <1>5, <2>1 DEF IInv, ReadyApart, heapVars
  <2> QED
    BY <1>2, <1>8, <2>2, <2>3, <2>4, <2>5 DEF IInv, FaultsNeedDisconnect
<1> QED
  BY <1>6, <1>7

LEMMA IterateStep ==
    ASSUME IInv, NEW h \in Handles, NEW i \in Iters, Iterate(h, i)
    PROVE  IInv'
<1> DEFINE c == ptr[h]
<1>1. c \in live /\ c # 0 /\ kind[c] = "collection" /\ c \notin ready
        /\ ~Client(c)
  BY DEF IInv, TypeOK, RootKinds, Wrapper, Iterate, Connects, ReadyApart, Client,
     Roots, UserRoots, PoolRoots, Ids
<1>2. /\ Make("cursor", live, prot, c, dep[c], None, "idle")
      /\ Fits("cursor", live, c, dep[c], None)
      /\ UNCHANGED <<pool, ready, fault, orphans>>
  BY <1>1 DEF Iterate, CursorProt, Fits
<1>3. Made("cursor")
  BY <1>1, <1>2, MakeStep
<1>4. /\ iter' = [iter EXCEPT ![i] = n + 1]
      /\ UNCHANGED <<ptr, orig, held, frame, pemfiles, npem>>
      /\ frame.pc = "idle"
  BY DEF Iterate, Put, Connects, Idle
<1>5. TypeOK'
  <2>1. iter' \in [Iters -> Refs]
    BY <1>3, <1>4 DEF IInv, TypeOK, Made
  <2> QED
    BY <2>1, <1>2, <1>3, <1>4 DEF IInv, TypeOK, Made
<1>6. RootKinds'
  <2>1. \A j \in Iters : iter'[j] # 0 => kind'[iter'[j]] = "cursor"
    BY <1>3, <1>4 DEF IInv, TypeOK, RootKinds, Made
  <2> QED
    BY <2>1, <1>3, <1>4 DEF IInv, TypeOK, RootKinds, Wrapper, Made
<1>7. ReadyApart'
  <2>1. \A j \in Iters : iter'[j] \in {iter[j], n + 1}
    BY <1>4 DEF IInv, TypeOK
  <2>2. Roots' \subseteq Roots \cup {n + 1}
    BY <2>1, <1>4 DEF Roots, UserRoots, PoolRoots
  <2> QED
    BY <2>2, <1>2, <1>3 DEF IInv, ReadyApart, Made
<1>8. FrameOK'
  BY <1>4 DEF FrameOK
<1> QED
  BY <1>2, <1>3, <1>5, <1>6, <1>7, <1>8 DEF IInv, FaultsNeedDisconnect, Made

LEMMA OpenStreamStep ==
    ASSUME IInv, NEW h \in Handles, NEW u \in {"idle", "dirty"}, OpenStream(h, u)
    PROVE  IInv'
<1> DEFINE c == ptr[h]
<1>1. c \in live /\ c # 0 /\ kind[c] = "gridfs" /\ c \notin ready
        /\ ~Client(c)
  BY HandlesAssumption DEF IInv, TypeOK, RootKinds, Wrapper, OpenStream,
     Connects, ReadyApart, Client, Roots, UserRoots, PoolRoots, Ids
<1>2. /\ Make("filestream", live, prot, c, c, None, u)
      /\ Fits("filestream", live, c, c, None)
      /\ UNCHANGED <<pool, ready, fault, orphans, userVars, pemfiles, npem>>
  BY <1>1 DEF OpenStream, StreamProt, Fits
<1>3. Made("filestream")
  BY <1>1, <1>2, MakeStep
<1>4. frame' = [NoFrame EXCEPT !.pc = "stream", !.obj = n + 1]
  BY DEF OpenStream
<1>5. TypeOK'
  <2>1. frame' \in Frames
    BY <1>3, <1>4 DEF Frames, NoFrame, Made
  <2> QED
    BY <2>1, <1>2, <1>3 DEF IInv, TypeOK, userVars, Made
<1>6. RootKinds'
  BY <1>2, <1>3, <1>4 DEF IInv, TypeOK, RootKinds, userVars, Wrapper, NoFrame,
     Made
<1>7. ReadyApart'
  <2>1. Roots' \subseteq Roots \cup {n + 1}
    BY <1>2, <1>4 DEF Roots, UserRoots, PoolRoots, userVars, NoFrame
  <2> QED
    BY <2>1, <1>2, <1>3 DEF IInv, ReadyApart, Made
<1>8. FrameOK'
  BY <1>4 DEF FrameOK, NoFrame
<1> QED
  BY <1>2, <1>3, <1>5, <1>6, <1>7, <1>8 DEF IInv, FaultsNeedDisconnect, Made

\* The actions that change neither the heap nor what is scheduled.
LEMMA UserStep ==
    ASSUME IInv,
           \/ Unwind
           \/ \E i \in Iters : DropIter(i)
           \/ \E h \in Handles : DropHandle(h) \/ Rename(h)
    PROVE  IInv'
<1>1. UNCHANGED <<heapVars, pool, ready, pemfiles, npem, fault, orphans>>
  BY DEF Unwind, DropIter, DropHandle, Rename
<1>2. HeapOK(live, prot, orphans)' /\ PoolOK(live, prot, pool)'
  BY <1>1, SameHeap DEF IInv
<1>3. 0 \in Refs /\ 0 \notin ready
  BY BoundsAssumption DEF IInv, TypeOK, Refs, Ids
<1>4. TypeOK' /\ RootKinds' /\ Roots' \subseteq Roots \cup {0}
  <2>1. CASE Unwind
    BY <2>1, <1>1, <1>3 DEF Unwind, IInv, TypeOK, RootKinds, Roots,
       UserRoots, PoolRoots, heapVars, userVars, Frames, NoFrame, Wrapper
  <2>2. ASSUME NEW i \in Iters, DropIter(i)
        PROVE  TypeOK' /\ RootKinds' /\ Roots' \subseteq Roots \cup {0}
    <3>1. /\ iter' = [iter EXCEPT ![i] = 0]
          /\ UNCHANGED <<ptr, orig, held, frame>>
      BY <2>2 DEF DropIter, Put
    <3> QED
      BY <3>1, <1>1, <1>3 DEF IInv, TypeOK, RootKinds, Roots, UserRoots,
         PoolRoots, heapVars, Wrapper
  <2>3. ASSUME NEW h \in Handles, DropHandle(h)
        PROVE  TypeOK' /\ RootKinds' /\ Roots' \subseteq Roots \cup {0}
    <3>1. /\ ptr' = [ptr EXCEPT ![h] = 0] /\ held' = [held EXCEPT ![h] = 0]
          /\ orig' = [orig EXCEPT ![h] = None]
          /\ UNCHANGED <<iter, frame>> /\ frame.pc = "idle"
      BY <2>3 DEF DropHandle, Put, Idle
    <3>2. TypeOK'
      BY <3>1, <1>1, <1>3 DEF IInv, TypeOK, heapVars
    <3>3. RootKinds'
      BY <3>1, <1>1 DEF IInv, TypeOK, RootKinds, heapVars, Wrapper
    <3>4. Roots' \subseteq Roots \cup {0}
      BY <3>1 DEF Roots, UserRoots, PoolRoots, IInv, TypeOK
    <3> QED
      BY <3>2, <3>3, <3>4
  <2>4. ASSUME NEW h \in Handles, Rename(h)
        PROVE  TypeOK' /\ RootKinds' /\ Roots' \subseteq Roots \cup {0}
    <3>1. /\ orig' = [orig EXCEPT ![h] = RenamedOrig(orig[h])]
          /\ UNCHANGED <<ptr, held, iter, frame>>
          /\ ptr[h] \in live /\ frame.pc = "idle"
      BY <2>4 DEF Rename, Put, Connects, Idle
    <3>2. orig[h] \in Origs
      BY <3>1 DEF IInv, TypeOK, RootKinds, Ids
    <3>3. RenamedOrig(orig[h]) \in Origs
      BY <3>2, BoundsAssumption DEF RenamedOrig, Origs, Params
    <3>4. TypeOK'
      BY <3>1, <3>3, <1>1 DEF IInv, TypeOK, heapVars
    <3>5. RootKinds'
      BY <3>1, <3>3, <1>1 DEF IInv, TypeOK, RootKinds, heapVars, Wrapper
    <3> QED
      BY <3>1, <3>4, <3>5 DEF Roots, UserRoots, PoolRoots
  <2> QED
    BY <2>1, <2>2, <2>3, <2>4
<1>5. ReadyApart'
  BY <1>1, <1>3, <1>4 DEF IInv, ReadyApart, heapVars
<1>6. FrameOK'
  BY DEF FrameOK, NoFrame, Unwind, DropIter, DropHandle, Rename, Connects, Idle
<1> QED
  BY <1>1, <1>2, <1>4, <1>5, <1>6 DEF IInv, FaultsNeedDisconnect

LEMMA IterNextStep == ASSUME IInv, NEW i \in Iters, IterNext(i) PROVE IInv'
<1>1. UNCHANGED <<heapVars, pool, ready, userVars, frame, pemfiles, npem, orphans>>
  BY DEF IterNext
<1>2. fault' \subseteq orphans /\ fault' \in SUBSET Ids
  <2> SUFFICES ASSUME iter[i] \notin orphans
               PROVE  Touches(iter[i]) \subseteq live
    BY DEF IterNext, IInv, TypeOK, FaultsNeedDisconnect
  <2> QED
    BY TouchesAlive DEF IterNext, IInv
<1>3. HeapOK(live, prot, orphans)' /\ PoolOK(live, prot, pool)'
  BY <1>1, SameHeap DEF IInv
<1>4. TypeOK'
  BY <1>1, <1>2 DEF IInv, TypeOK, heapVars, userVars
<1>5. RootKinds' /\ FrameOK' /\ ReadyApart'
  BY <1>1 DEF IInv, RootKinds, FrameOK, ReadyApart, Roots, UserRoots, PoolRoots,
     heapVars, userVars, Wrapper
<1> QED
  BY <1>1, <1>2, <1>3, <1>4, <1>5 DEF IInv, FaultsNeedDisconnect

\* The collection or gridfs of a handle.
LEMMA HandleObject ==
    ASSUME IInv, NEW h \in Handles, ptr[h] \in live
    PROVE  /\ ptr[h] \in Ids /\ kind[ptr[h]] \in {"collection", "gridfs"}
           /\ ptr[h] \notin ready
<1>1. live \subseteq Ids
  BY DEF IInv, TypeOK
<1>2. ptr[h] \in Ids
  BY <1>1
<1>3. ptr[h] \in Ids /\ ptr[h] # 0
  BY <1>2 DEF Ids
<1>4. kind[ptr[h]] \in {"collection", "gridfs"}
  BY <1>3 DEF IInv, RootKinds, Wrapper
<1>5. ptr[h] \in Roots
  BY DEF Roots, UserRoots
<1>6. ptr[h] \notin ready
  BY <1>5 DEF IInv, ReadyApart
<1> QED
  BY <1>3, <1>4, <1>6

\* What an object protects is of a kind that is made before it.
LEMMA ProtectsParent ==
    ASSUME IInv, NEW o \in Ids, prot[o] \in Ids,
           kind[prot[o]] \in {"collection", "gridfs", "filestream"}
    PROVE  kind[o] \in {"cursor", "filestream"} /\ kind[prot[o]] # "filestream"
<1>1. ObjectOK(o, live, prot, orphans) /\ kind[o] \in Kinds /\ prot[o] # 0
  BY DEF IInv, HeapOK, TypeOK, Ids
<1> QED
  BY <1>1 DEF ObjectOK, Kinds

LEMMA DisconnectStep == ASSUME IInv, NEW h \in Handles, Disconnect(h) PROVE IInv'
<1> DEFINE p == ptr[h]
<1>1. p \in live /\ p \in Ids /\ kind[p] \in {"collection", "gridfs"} /\ p \notin ready
  BY HandleObject DEF Disconnect, Connects
<1>2. /\ live' = LiveAfter({p}) /\ prot' = ProtAfter({p})
      /\ orphans' = orphans \cup Children(p) /\ frame.pc = "idle"
      /\ UNCHANGED <<n, kind, dep, conn, use, pool, ready, userVars, frame,
                     pemfiles, npem, fault>>
  BY DEF Disconnect, Connects, Idle
<1>3. HeapOK(LiveAfter({p}), ProtAfter({p}), orphans \cup Children(p))
  <2>1. \A o \in live : prot[o] \in {p} =>
            o \in {p} \/ (kind[o] \in {"cursor", "filestream"}
                            /\ o \in orphans \cup Children(p))
    BY <1>1, ProtectsParent DEF Children, IInv, TypeOK
  <2> QED
    BY <2>1, <1>1, FinalizeHeap DEF IInv
<1>4. HeapOK(live, prot, orphans)'
  BY <1>2, <1>3 DEF HeapOK, ObjectOK
<1>5. PoolOK(live, prot, pool)'
  <2>1. PoolOK(LiveAfter({p}), ProtAfter({p}), PoolAfter({p}))
    BY <1>1, FinalizePool DEF IInv
  <2>2. PoolAfter({p}) = pool
    BY <1>1 DEF PoolAfter, IInv, TypeOK, PoolOK, Client, Ids
  <2> QED
    BY <2>1, <2>2, <1>2 DEF PoolOK, Client
<1>6. TypeOK'
  <2>1. orphans' \in SUBSET Ids
    BY <1>2 DEF IInv, TypeOK, Children
  <2> QED
    BY <2>1, <1>2, <1>4 DEF IInv, TypeOK, HeapOK, userVars
<1>7. RootKinds'
  BY <1>2 DEF IInv, RootKinds, userVars, Wrapper
<1>8. ReadyApart'
  <2>1. \A o \in Ids : prot'[o] \in {0, prot[o]}
    BY <1>2 DEF ProtAfter
  <2>2. 0 \notin ready
    BY DEF IInv, TypeOK, Ids
  <2>3. Roots' = Roots
    BY <1>2 DEF Roots, UserRoots, PoolRoots, userVars
  <2> QED
    BY <2>1, <2>2, <2>3, <1>1, <1>2 DEF IInv, ReadyApart, LiveAfter
<1>9. FrameOK'
  BY <1>2 DEF FrameOK
<1> QED
  BY <1>2, <1>4, <1>5, <1>6, <1>7, <1>8, <1>9 DEF IInv, FaultsNeedDisconnect

LEMMA StreamChunkStep == IInv /\ StreamChunk => IInv'
<1> SUFFICES ASSUME IInv, StreamChunk PROVE IInv'
  OBVIOUS
<1>1. UNCHANGED <<n, kind, live, prot, dep, conn, pool, ready, userVars, frame,
                  pemfiles, npem, fault, orphans>>
  BY DEF StreamChunk
<1>2. HeapOK(live, prot, orphans)' /\ PoolOK(live, prot, pool)'
  BY <1>1 DEF IInv, HeapOK, ObjectOK, PoolOK, Client
<1>3. use' \in [Ids -> {"idle", "dirty", "reading", "saved"}]
  BY DEF IInv, TypeOK, StreamChunk, Put
<1>4. TypeOK'
  BY <1>1, <1>3 DEF IInv, TypeOK, userVars
<1>5. RootKinds' /\ FrameOK' /\ ReadyApart'
  BY <1>1 DEF IInv, RootKinds, FrameOK, ReadyApart, Roots, UserRoots, PoolRoots,
     userVars, Wrapper
<1> QED
  BY <1>1, <1>2, <1>4, <1>5 DEF IInv, FaultsNeedDisconnect

LEMMA StreamCloseStep == IInv /\ StreamClose => IInv'
<1> SUFFICES ASSUME IInv, StreamClose PROVE IInv'
  OBVIOUS
<1> DEFINE s == frame.obj
<1>1. s \in live /\ s \in Ids /\ kind[s] = "filestream" /\ s \notin ready
  BY DEF IInv, TypeOK, RootKinds, ReadyApart, Roots, UserRoots, PoolRoots,
     StreamClose
<1>2. /\ live' = LiveAfter({s}) /\ prot' = ProtAfter({s})
      /\ fault' = fault \cup Faults(live, {s}) /\ frame' = NoFrame
      /\ UNCHANGED <<n, kind, dep, conn, use, pool, ready, userVars, pemfiles,
                     npem, orphans>>
  BY DEF StreamClose
<1>3. HeapOK(LiveAfter({s}), ProtAfter({s}), orphans)
  <2>1. \A o \in live : prot[o] \in {s} => o \in {s}
    BY <1>1, ProtectsParent DEF IInv, TypeOK
  <2> QED
    BY <2>1, <1>1, FinalizeHeap DEF IInv
<1>4. HeapOK(live, prot, orphans)'
  BY <1>2, <1>3 DEF HeapOK, ObjectOK
<1>5. PoolOK(live, prot, pool)'
  <2>1. PoolOK(LiveAfter({s}), ProtAfter({s}), PoolAfter({s}))
    BY <1>1, FinalizePool DEF IInv
  <2>2. PoolAfter({s}) = pool
    BY <1>1 DEF PoolAfter, IInv, TypeOK, PoolOK, Client, Ids
  <2> QED
    BY <2>1, <2>2, <1>2 DEF PoolOK, Client
<1>6. Faults(live, {s}) \subseteq orphans
  BY <1>1, FaultsOrphaned DEF IInv
<1>7. TypeOK'
  <2>1. frame' \in Frames
    BY <1>2, BoundsAssumption DEF Frames, NoFrame, Refs
  <2> QED
    BY <2>1, <1>2, <1>4, <1>6 DEF IInv, TypeOK, HeapOK, userVars
<1>8. RootKinds'
  BY <1>2 DEF IInv, RootKinds, userVars, Wrapper, NoFrame
<1>9. ReadyApart'
  <2>1. \A o \in Ids : prot'[o] \in {0, prot[o]}
    BY <1>2 DEF ProtAfter
  <2>2. 0 \notin ready
    BY DEF IInv, TypeOK, Ids
  <2>3. Roots' \subseteq Roots \cup {0}
    BY <1>2 DEF Roots, UserRoots, PoolRoots, userVars, NoFrame
  <2> QED
    BY <2>1, <2>2, <2>3, <1>1, <1>2 DEF IInv, ReadyApart, LiveAfter
<1>10. FrameOK'
  BY <1>2 DEF FrameOK, NoFrame
<1> QED
  BY <1>2, <1>4, <1>5, <1>6, <1>7, <1>8, <1>9, <1>10 DEF IInv, FaultsNeedDisconnect

LEMMA DisconnectGCStep ==
    ASSUME IInv, NEW h \in Handles, DisconnectGC(h)
    PROVE  IInv'
<1> DEFINE p    == ptr[h]
           pr   == ProtAfter({p})
           G    == Garbage(LiveAfter({p}), pr)
           dead == ready \cup G
           S    == dead \cup {p}
           orph == orphans \cup Children(p)
<1>1. p \in live /\ p \in Ids /\ kind[p] \in {"collection", "gridfs"} /\ p \notin ready
  BY HandleObject DEF DisconnectGC, Connects
<1>2. /\ live' = LiveAfter(S) /\ prot' = ProtAfter(S) /\ pool' = PoolAfter(dead)
      /\ fault' = fault \cup Faults(LiveAfter({p}), dead)
      /\ ready' = {} /\ orphans' = orph /\ frame.pc = "idle"
      /\ UNCHANGED <<n, kind, dep, conn, use, userVars, frame, pemfiles, npem>>
  BY DEF DisconnectGC, Connects, Idle
<1>3. TypeOK /\ HeapOK(live, prot, orphans) /\ PoolOK(live, prot, pool) /\ RootKinds
  BY DEF IInv
<1>4. G \in SUBSET Ids /\ S \in SUBSET Ids /\ orph \in SUBSET Ids
  BY <1>1, <1>3 DEF Garbage, LiveAfter, TypeOK, Children
<1>5. \A o \in live : prot[o] \in S =>
          o \in S \/ (kind[o] \in {"cursor", "filestream"} /\ o \in orph)
  <2> SUFFICES ASSUME NEW o \in live, prot[o] \in S, o \notin S
               PROVE  kind[o] \in {"cursor", "filestream"} /\ o \in orph
    OBVIOUS
  <2>1. o \in Ids /\ prot[o] \in Ids
    BY <1>3, <1>4 DEF TypeOK
  <2>2. prot[o] \notin ready
    BY <2>1 DEF IInv, ReadyApart
  <2>3. prot[o] \notin G
    <3>1. pr \in [Ids -> Refs] /\ \A x \in Ids : pr[x] \in {0, prot[x]}
      BY <1>3, BoundsAssumption DEF ProtAfter, TypeOK, Refs
    <3>2. pr[o] = prot[o] /\ prot[o] # 0
      BY <2>1 DEF ProtAfter, Ids
    <3>3. o \in Reach(pr)
      BY DEF Garbage, LiveAfter
    <3>4. pr[o] \in Reach(pr)
      BY <1>3, <3>1, <3>2, <3>3, ReachClosed
    <3> QED
      BY <3>2, <3>4 DEF Garbage
  <2>4. prot[o] = p
    BY <2>2, <2>3
  <2> QED
    BY <2>1, <2>4, <1>1, ProtectsParent DEF Children
<1>6. HeapOK(LiveAfter(S), ProtAfter(S), orph)
  BY <1>3, <1>4, <1>5, FinalizeHeap
<1>7. HeapOK(live, prot, orphans)'
  BY <1>2, <1>6 DEF HeapOK, ObjectOK
<1>8. PoolOK(live, prot, pool)'
  <2>1. PoolOK(LiveAfter(S), ProtAfter(S), PoolAfter(S))
    BY <1>3, <1>4, FinalizePool
  <2>2. \A q \in Params : pool[q] # p
    BY <1>1, <1>3 DEF PoolOK, Client, Ids
  <2>3. PoolAfter(S) = PoolAfter(dead)
    BY <2>2 DEF PoolAfter
  <2> QED
    BY <2>1, <2>3, <1>2 DEF PoolOK, Client
<1>9. Faults(LiveAfter({p}), dead) \subseteq orph
  <2> SUFFICES ASSUME NEW o \in Faults(LiveAfter({p}), dead), o \notin orph
               PROVE  FALSE
    OBVIOUS
  <2>1. o \in live /\ o \in Ids /\ prot[o] # p
    BY <1>3 DEF Faults, LiveAfter, Children, TypeOK
  <2>2. PICK d \in Touches(o) :
            d \notin LiveAfter({p}) \/ (d \in dead /\ d > o)
    BY DEF Faults, FinalizedBefore
  <2>3. d \in live /\ d < o /\ (kind[d] = "client" \/ d = prot[o])
    BY <2>1, <1>3, TouchesAlive
  <2>4. d \in Ids /\ d # p
    BY <2>1, <2>3, <1>1, <1>3 DEF TypeOK
  <2> QED
    BY <2>1, <2>2, <2>3, <2>4 DEF LiveAfter, Ids
<1>10. TypeOK'
  BY <1>2, <1>3, <1>4, <1>7, <1>8, <1>9 DEF TypeOK, HeapOK, PoolOK, userVars
<1>11. RootKinds'
  BY <1>2, <1>3 DEF RootKinds, userVars, Wrapper
<1>12. ReadyApart' /\ FrameOK'
  BY <1>2 DEF ReadyApart, FrameOK
<1> QED
  BY <1>2, <1>7, <1>8, <1>9, <1>10, <1>11, <1>12 DEF IInv, FaultsNeedDisconnect

LEMMA SessionStep == IInv /\ (Quit \/ Crash) => IInv'
<1> SUFFICES ASSUME IInv, Quit \/ Crash PROVE IInv'
  OBVIOUS
<1>1. /\ live' = {} /\ pool' = [p \in Params |-> 0] /\ ready' = {}
      /\ frame' = NoFrame /\ pemfiles' = {}
      /\ UNCHANGED <<n, kind, prot, dep, conn, use, userVars, npem, orphans>>
  BY DEF Quit, Crash, NewSession
<1>2. fault' \subseteq orphans
  <2>1. Faults(live, live) \subseteq orphans
    BY FaultsOrphaned DEF IInv, TypeOK
  <2> QED
    BY <2>1 DEF Quit, Crash, IInv, FaultsNeedDisconnect
<1>3. HeapOK(live, prot, orphans)'
  <2>1. TypeOK /\ HeapOK(live, prot, orphans)
    BY DEF IInv
  <2> QED
    BY <2>1, <1>1 DEF HeapOK, ObjectOK, Ids
<1>4. PoolOK(live, prot, pool)'
  BY <1>1, BoundsAssumption DEF PoolOK, Refs
<1>5. TypeOK'
  <2>1. frame' \in Frames
    BY <1>1, BoundsAssumption DEF Frames, NoFrame, Refs
  <2> QED
    BY <2>1, <1>1, <1>2, <1>4 DEF IInv, TypeOK, userVars, PoolOK
<1>6. RootKinds'
  BY <1>1 DEF IInv, RootKinds, userVars, Wrapper, NoFrame
<1>7. ReadyApart' /\ FrameOK'
  BY <1>1 DEF ReadyApart, FrameOK, NoFrame
<1> QED
  BY <1>1, <1>2, <1>3, <1>4, <1>5, <1>6, <1>7 DEF IInv, FaultsNeedDisconnect
-----------------------------------------------------------------------------
(***************************************************************************)
(* The theorems.                                                           *)
(***************************************************************************)

\* The inductive invariant holds in every state, for all values of the constants.
THEOREM Invariance == Spec => []IInv
<1>1. ASSUME IInv, [Next]_vars
      PROVE  IInv'
  <2>1. CASE UNCHANGED vars
    <3>1. /\ UNCHANGED <<heapVars, pool, orphans>>
          /\ UNCHANGED <<ready, userVars, frame, pemfiles, npem, fault>>
      BY <2>1 DEF vars, heapVars, userVars
    <3>2. HeapOK(live, prot, orphans)' /\ PoolOK(live, prot, pool)'
      BY <1>1, <3>1, SameHeap DEF IInv
    <3>3. TypeOK'
      BY <1>1, <3>1 DEF IInv, TypeOK, heapVars, userVars
    <3>4. RootKinds' /\ FrameOK' /\ ReadyApart' /\ FaultsNeedDisconnect'
      BY <1>1, <3>1 DEF IInv, RootKinds, FrameOK, ReadyApart, FaultsNeedDisconnect,
         Roots, UserRoots, PoolRoots, heapVars, userVars, Wrapper
    <3> QED
      BY <3>2, <3>3, <3>4 DEF IInv
  <2>2. CASE GC \/ RunFinalizers \/ Register \/ Connected \/ ConnectFailed
    BY <1>1, <2>2, GCStep, RunFinalizersStep, RegisterStep, ConnectedStep,
       ConnectFailedStep
  <2>3. ASSUME NEW h \in Handles, NEW p \in Params, Construct(h, p) PROVE IInv'
    BY <1>1, <2>3, ConstructStep
  <2>4. ASSUME NEW h \in Handles, Reset(h) \/ Disconnect(h) \/ DisconnectGC(h)
        PROVE  IInv'
    BY <1>1, <2>4, ResetStep, DisconnectStep, DisconnectGCStep
  <2>5. ASSUME NEW h \in Handles, DropHandle(h) \/ Rename(h) PROVE IInv'
    BY <1>1, <2>5, UserStep
  <2>6. ASSUME NEW h \in Handles, NEW i \in Iters, Iterate(h, i) PROVE IInv'
    BY <1>1, <2>6, IterateStep
  <2>7. ASSUME NEW h \in Handles, NEW u \in {"idle", "dirty"}, OpenStream(h, u)
        PROVE  IInv'
    BY <1>1, <2>7, OpenStreamStep
  <2>8. ASSUME NEW i \in Iters, IterNext(i) \/ DropIter(i) PROVE IInv'
    BY <1>1, <2>8, IterNextStep, UserStep
  <2>9. CASE StreamChunk \/ StreamClose \/ Unwind
    BY <1>1, <2>9, StreamChunkStep, StreamCloseStep, UserStep
  <2>10. CASE Quit \/ Crash
    BY <1>1, <2>10, SessionStep
  <2> QED
    BY <1>1, <2>1, <2>2, <2>3, <2>4, <2>5, <2>6, <2>7, <2>8, <2>9, <2>10 DEF
       Next
<1> QED
  BY <1>1, InitIInv, PTL DEF Spec

\* Type correctness of the model of the wrappers, the pool and the user's objects.
THEOREM TypeCorrect == Spec => []TypeOK
<1>1. IInv => TypeOK
  BY DEF IInv
<1> QED
  BY <1>1, Invariance, PTL

\* The objects of the user and the call on the stack never lead to two native
\* clients with the same parameters, though new_client() may be cut short between
\* the creation of a client and its registration.
THEOREM PoolUnique == Spec => []OneClientPerParams
<1>1. ASSUME IInv, NEW c \in live \cap Used, Client(c)
      PROVE  \/ pool[conn[c]] = c
             \/ /\ c = frame.obj /\ frame.pc \in {"opening", "resetting"}
                /\ pool[conn[c]] \notin live
  <2>1. c \in Ids /\ c # 0 /\ kind[c] = "client"
    BY <1>1 DEF IInv, TypeOK, Client, Ids
  <2>2. CASE \E o \in Ids : prot[o] = c
    BY <2>2, <1>1 DEF IInv, PoolOK
  <2>3. CASE \A o \in Ids : prot[o] # c
    <3>1. c \in UserRoots
      BY <2>3, <1>1 DEF Used, Via
    <3>2. c = frame.obj /\ frame.pc \in {"opening", "resetting"}
      BY <3>1, <2>1, <1>1 DEF UserRoots, IInv, TypeOK, Frames, RootKinds, Wrapper
    <3> QED
      BY <3>2, <1>1 DEF IInv, FrameOK
  <2> QED
    BY <2>2, <2>3
<1>2. IInv => OneClientPerParams
  <2> SUFFICES ASSUME IInv, NEW c \in live \cap Used, NEW d \in live \cap Used,
                      Client(c), Client(d), conn[c] = conn[d]
               PROVE  c = d
    BY DEF OneClientPerParams
  <2> QED
    BY <1>1
<1> QED
  BY <1>2, Invariance, PTL

\* The pool never hands out a client that is about to be destroyed, and a client
\* outlives the collections and gridfs that point to it.
THEOREM CollectionsAnchored == Spec => []ParentOutlivesCollection
<1>1. IInv => ParentOutlivesCollection
  <2> SUFFICES ASSUME IInv PROVE ParentOutlivesCollection
    OBVIOUS
  <2>1. Reach(prot) \cap ready = {}
    BY ReachNotReady DEF IInv, TypeOK
  <2> QED
    BY <2>1 DEF IInv, ParentOutlivesCollection, HeapOK, ObjectOK
<1> QED
  BY <1>1, Invariance, PTL

\* Freed memory is touched only after an explicit disconnect under a live cursor
\* or stream.
THEOREM FaultFree == Spec => []FaultsNeedDisconnect
<1>1. IInv => FaultsNeedDisconnect
  BY DEF IInv
<1> QED
  BY <1>1, Invariance, PTL

\* disconnect(gc = TRUE) leaves no native client behind that nobody uses.
THEOREM ReleasesOnDisconnect == Spec => DisconnectReleases
<1>1. ASSUME IInv, NEW h \in Handles, DisconnectGC(h), NEW c \in live', Client(c)
      PROVE  \E o \in live' \cap Reach(prot)' : prot'[o] = c
  <2> DEFINE p    == ptr[h]
             pr   == ProtAfter({p})
             dead == ready \cup Garbage(LiveAfter({p}), pr)
  <2>1. /\ live' = LiveAfter(dead \cup {p}) /\ prot' = ProtAfter(dead \cup {p})
        /\ Roots' = Roots
    BY <1>1 DEF DisconnectGC, Roots, UserRoots, PoolRoots, userVars
  <2>2. c \in Reach(pr)
    BY <1>1, <2>1 DEF LiveAfter, Garbage
  <2>3. pr \in [Ids -> Refs] /\ \A x \in Ids : pr[x] \in {0, prot[x]}
    BY <1>1, BoundsAssumption DEF IInv, ProtAfter, TypeOK, Refs
  <2>4. Reach(pr) \cap dead = {}
    BY <1>1, <2>3, ReachNotReady DEF Garbage
  <2>5. \A x \in Reach(pr) : x \in Ids /\ prot'[x] = pr[x]
    BY <2>1, <2>4 DEF ProtAfter, Reach
  <2>6. Via(pr, Roots) \cap Ids \subseteq Reach(pr) /\ Roots \subseteq Via(pr, Roots)
    BY DEF Reach, Via
  <2>7. Via(pr, Roots) \cap Ids \subseteq Via(prot', Roots)
    BY <2>5, <2>6 DEF Via
  <2>8. c \in Via(prot', Via(prot', Roots)) /\ c \in Ids
    BY <2>2, <2>5, <2>6, <2>7 DEF Via, Reach
  <2>9. IInv'
    BY <1>1, DisconnectGCStep
  <2>10. c \notin Roots
    <3>1. c # 0 /\ kind[c] = "client"
      BY <1>1, <2>8 DEF Client, Ids
    <3>2. frame.obj = 0 /\ RootKinds
      BY <1>1 DEF IInv, RootKinds, DisconnectGC, Connects, Idle
    <3> QED
      BY <3>1, <3>2 DEF RootKinds, Wrapper, Roots, UserRoots, PoolRoots
  <2>11. PICK o \in Via(prot', Roots) \cap Ids : prot'[o] = c
    BY <2>8, <2>10 DEF Via
  <2>12. o \in Reach(prot)'
    BY <2>1, <2>11 DEF Reach, Via
  <2>13. o \in live'
    BY <1>1, <2>9, <2>11 DEF IInv, HeapOK, ObjectOK
  <2> QED
    BY <2>11, <2>12, <2>13
<1>2. ASSUME IInv, [Next]_vars
      PROVE  [(\E h \in Handles : DisconnectGC(h)) =>
                  \A c \in live' : Client(c) =>
                      \E o \in live' \cap Reach(prot)' : prot'[o] = c]_vars
  BY <1>1, <1>2
<1> QED
  BY <1>2, Invariance, PTL DEF Spec, DisconnectReleases
=============================================================================
