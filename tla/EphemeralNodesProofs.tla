-------------------------- MODULE EphemeralNodesProofs --------------------------
(***************************************************************************)
(* Proofs about EphemeralNodes, for any NodeSets, programs and bounds.     *)
(***************************************************************************)
EXTENDS EphemeralNodes, FiniteSetTheorems, WellFoundedInduction, TLAPS

\* The sets of ordinals that have a bound, as all of the code's lists do.
OrdinalSet == UNION {SUBSET (0 .. n) : n \in Nat}

Object == [exists : BOOLEAN, activeNodes : OrdinalSet, activeCount : Int]

ProgramRun == [pc : {"idle", "get", "create", "update", "wait"},
               op : {"none", "resume", "suspend"},
               want : [NodeSets -> OrdinalSet],
               todo : SUBSET NodeSets,
               ns : NodeSets \cup {"none"},
               copy : OrdinalSet,
               fresh : BOOLEAN,
               tries : 0 .. (Attempts - 1)]

\* A run r of the program and the objects ps: a run that is to update an
\* object has found it, and as long as its copy is fresh it holds the list.
RunOK(r, ps) ==
    /\ r.pc = "idle" => r = Idle
    /\ r.pc \in {"create", "update"} => r.ns \in r.todo
    /\ r.pc = "update" => ps[r.ns].exists
    /\ r.pc = "update" /\ r.fresh => r.copy = ps[r.ns].activeNodes
    /\ CreatedFirst /\ r.pc # "idle" => \A ns \in NodeSets : ps[ns].exists

\* The inductive invariant of the objects and the runs.
PowerInv ==
    /\ powerState \in [NodeSets -> Object]
    /\ prog \in [Programs -> ProgramRun]
    /\ \A ns \in NodeSets : powerState[ns].exists \/ powerState[ns].activeNodes = {}
    /\ \A p \in Programs : RunOK(prog[p], powerState)

\* What PoweredNodes sees of the objects and the runs.
Active(ps) == [ns \in NodeSets |-> ps[ns].activeNodes]
Known(ps) == {ns \in NodeSets : ps[ns].exists}
Asks(r) == [op |-> r.op, nodes |-> r.want, todo |-> r.todo]
Requests(runs) == [p \in Programs |-> Asks(runs[p])]

Unseen ==
    /\ Active(powerState') = Active(powerState)
    /\ Known(powerState') = Known(powerState)
    /\ Requests(prog') = Requests(prog)

\* A step keeps the invariant, and is a step of PoweredNodes or nothing.
PowerEffect == PowerInv' /\ (CreatedFirst => PN!Next \/ Unseen)

-----------------------------------------------------------------------------
LEMMA OrdinalSets ==
    /\ {} \in OrdinalSet
    /\ \A n \in Int : 0 .. n \in OrdinalSet
    /\ \A S \in OrdinalSet : S \subseteq Nat /\ IsFiniteSet(S) /\ Cardinality(S) \in Nat
    /\ \A S, T \in OrdinalSet : S \cup T \in OrdinalSet
    /\ \A S \in OrdinalSet : \A T : S \ T \in OrdinalSet
<1>1. {} \in OrdinalSet
  BY DEF OrdinalSet
<1>2. ASSUME NEW n \in Int PROVE 0 .. n \in OrdinalSet
  <2>1. CASE n \in Nat
    <3>1. 0 .. n \in SUBSET (0 .. n)
      OBVIOUS
    <3> QED
      BY <2>1, <3>1, Zenon DEF OrdinalSet
  <2>2. CASE n \notin Nat
    <3>1. 0 .. n = {}
      BY <2>2
    <3> QED
      BY <3>1, <1>1
  <2> QED
    BY <2>1, <2>2
<1>3. ASSUME NEW S \in OrdinalSet
      PROVE  S \subseteq Nat /\ IsFiniteSet(S) /\ Cardinality(S) \in Nat
  <2>1. PICK n \in Nat : S \subseteq 0 .. n
    BY DEF OrdinalSet
  <2>2. IsFiniteSet(0 .. n)
    BY FS_Interval
  <2>3. IsFiniteSet(S)
    BY <2>1, <2>2, FS_Subset, Zenon
  <2> QED
    BY <2>1, <2>3, FS_CardinalityType
<1>4. ASSUME NEW S \in OrdinalSet, NEW T \in OrdinalSet PROVE S \cup T \in OrdinalSet
  <2>1. PICK m \in Nat : S \subseteq 0 .. m
    BY DEF OrdinalSet
  <2>2. PICK n \in Nat : T \subseteq 0 .. n
    BY DEF OrdinalSet
  <2>3. m + n \in Nat /\ S \cup T \subseteq 0 .. (m + n)
    BY <2>1, <2>2
  <2> QED
    BY <2>3 DEF OrdinalSet
<1>5. ASSUME NEW S \in OrdinalSet, NEW T PROVE S \ T \in OrdinalSet
  BY DEF OrdinalSet
<1> QED
  BY <1>1, <1>2, <1>3, <1>4, <1>5, Zenon

LEMMA HasMax ==
    ASSUME NEW S \in OrdinalSet, S # {}
    PROVE  /\ Max(S) \in S
           /\ \A x \in S : x <= Max(S)
<1>0. PICK n \in Nat : S \subseteq 0 .. n
  BY DEF OrdinalSet
<1> DEFINE D == {n - x : x \in S}
           R == OpToRel(<, Nat)
<1>1. IsWellFoundedOn(R, Nat)
  BY NatLessThanWellFounded
<1>2. D \subseteq Nat /\ D # {}
  BY <1>0
<1> HIDE DEF R
<1>3. PICK d \in D : \A e \in D : <<e, d>> \notin R
  BY <1>1, <1>2, WFMin, Zenon
<1>4. \A e \in D : ~(e < d)
  BY <1>2, <1>3, Zenon DEF R, OpToRel
<1>5. PICK m \in S : d = n - m
  OBVIOUS
<1>6. ASSUME NEW x \in S PROVE m >= x
  <2>1. n - x \in D
    OBVIOUS
  <2>2. ~(n - x < n - m)
    BY <1>4, <1>5, <2>1
  <2> QED
    BY <1>0, <2>2
<1>7. \E x \in S : \A y \in S : x >= y
  BY <1>6
<1>8. Max(S) \in S /\ \A y \in S : Max(S) >= y
  BY <1>7 DEF Max
<1>9. S \subseteq Nat
  BY OrdinalSets
<1> QED
  BY <1>8, <1>9

\* The replicas and reserved ordinals that calculateReplicasAndReserveOrdinals
\* computes make OpenKruise run the active ordinals, whatever they are.
THEOREM SizeSelectsActive ==
    ASSUME NEW S \in OrdinalSet
    PROVE  Selected(calculateReplicasAndReserveOrdinals(S)) = S
<1>1. CASE S = {}
  <2>1. \A o : ~(Cardinality((0 .. (o - 1)) \ {}) < 0) \/ o # 0
    BY FS_Interval
  <2> QED
    BY <1>1, <2>1, FS_EmptySet DEF calculateReplicasAndReserveOrdinals, Selected
<1>2. CASE S # {}
  <2> DEFINE m == Max(S)
             R == (0 .. m) \ S
  <2>1. m \in S /\ \A x \in S : x <= m
    BY <1>2, HasMax
  <2>2. S \subseteq Nat /\ IsFiniteSet(S) /\ Cardinality(S) \in Nat
    BY OrdinalSets
  <2> HIDE DEF m
  <2>3. m \in Nat /\ S \subseteq 0 .. m
    BY <2>1, <2>2
  <2>4. IsFiniteSet(0 .. m) /\ Cardinality(0 .. m) = m + 1
    BY <2>3, FS_Interval
  <2>5. IsFiniteSet(R) /\ Cardinality(R) = m + 1 - Cardinality(S)
    <3>1. (0 .. m) \cap S = S
      BY <2>3, Zenon
    <3>2. IsFiniteSet(R) /\ Cardinality(R) = Cardinality(0 .. m) - Cardinality((0 .. m) \cap S)
      BY <2>4, FS_Difference, Zenon
    <3>3. Cardinality((0 .. m) \cap S) = Cardinality(S)
      BY <3>1, Zenon
    <3> QED
      BY <2>2, <2>3, <2>4, <3>2, <3>3
  <2>6. Cardinality(S) + Cardinality(R) = m + 1
    BY <2>2, <2>3, <2>5
  <2>7. ASSUME NEW o \in S
        PROVE  o \in 0 .. (m + 1) /\ o \notin R
               /\ Cardinality((0 .. (o - 1)) \ R) < Cardinality(S)
    <3>1. (0 .. (o - 1)) \ R \subseteq S \ {o}
      BY <2>3
    <3>2. IsFiniteSet(S \ {o}) /\ Cardinality(S \ {o}) = Cardinality(S) - 1
      BY <2>2, FS_RemoveElement
    <3>3. Cardinality((0 .. (o - 1)) \ R) <= Cardinality(S \ {o})
          /\ Cardinality((0 .. (o - 1)) \ R) \in Nat
      BY <3>1, <3>2, FS_Subset, FS_CardinalityType
    <3> QED
      BY <2>2, <2>3, <3>2, <3>3
  <2>8. ASSUME NEW o \in 0 .. (m + 1), o \notin R,
               Cardinality((0 .. (o - 1)) \ R) < Cardinality(S)
        PROVE  o \in S
    <3>1. CASE o = m + 1
      <4>1. 0 .. (o - 1) = 0 .. m
        BY <2>3, <3>1
      <4>2. (0 .. (o - 1)) \ R = S
        BY <2>3, <4>1, Zenon
      <4>3. Cardinality(S) < Cardinality(S)
        BY <2>8, <4>2
      <4> QED
        BY <2>2, <4>3
    <3>2. CASE o # m + 1
      BY <2>3, <2>8, <3>2
    <3> QED
      BY <3>1, <3>2
  <2> DEFINE size == [replicas |-> Cardinality(S), reserve |-> R]
  <2>9. Selected(size) = S
    BY <2>6, <2>7, <2>8 DEF Selected
  <2> QED
    BY <1>2, <2>9 DEF calculateReplicasAndReserveOrdinals, m
<1> QED
  BY <1>1, <1>2

LEMMA IdleIsRun == Idle \in ProgramRun
<1>1. 0 \in 0 .. (Attempts - 1)
  BY PowerAssumption
<1> QED
  BY <1>1, OrdinalSets DEF Idle, ProgramRun

\* What the program reads from slurmctld's list are ordinals of the NodeSets.
LEMMA WantType ==
    ASSUME NEW S
    PROVE  groupNodesByNodeSet(parseNodeList(Hostlist(S)))
             \in [NodeSets -> OrdinalSet]
<1> DEFINE refs == parseNodeList(Hostlist(S))
<1>1. ASSUME NEW ref \in refs, ref[1] \in NodeSets PROVE ref[2] \in Ordinals(ref[1])
  <2>1. PICK item \in Hostlist(S) : ref \in {item.name} \X parseRangeSpec(item.spec)
    BY <1>1 DEF parseNodeList
  <2>2. PICK q \in item.spec : ref[2] \in q[1] .. q[2]
    BY <2>1 DEF parseRangeSpec
  <2>3. PICK ns \in {n[1] : n \in S} :
           item = [name |-> ns,
                   spec |-> {r \in Ordinals(ns) \X Ordinals(ns) :
                               /\ \A o \in r[1] .. r[2] : <<ns, o>> \in S
                               /\ r[1] <= r[2]
                               /\ <<ns, r[1] - 1>> \notin S
                               /\ <<ns, r[2] + 1>> \notin S}]
    BY <2>1 DEF Hostlist
  <2>4. item.name = ns /\ item.spec \subseteq Ordinals(ns) \X Ordinals(ns)
    BY <2>3
  <2>5. q[1] \in Ordinals(ns) /\ q[2] \in Ordinals(ns) /\ ref[1] = ns
    BY <2>1, <2>2, <2>4
  <2>6. Replicas[ns] \in Nat
    BY <1>1, <2>5, PowerAssumption
  <2> QED
    BY <2>2, <2>5, <2>6 DEF Ordinals
<1>2. ASSUME NEW ns \in NodeSets
      PROVE  {r[2] : r \in {s \in refs : s[1] = ns}} \in OrdinalSet
  <2>1. {r[2] : r \in {s \in refs : s[1] = ns}} \subseteq Ordinals(ns)
    BY <1>1
  <2>2. Replicas[ns] \in Nat /\ Ordinals(ns) \subseteq 0 .. Replicas[ns]
    BY PowerAssumption DEF Ordinals
  <2> QED
    BY <2>1, <2>2 DEF OrdinalSet
<1> QED
  BY <1>2 DEF groupNodesByNodeSet

\* A run that ends leaves nothing behind: PoweredNodes sees it return.
LEMMA EndsEffect ==
    ASSUME PowerInv, NEW p \in Programs,
           prog' = [prog EXCEPT ![p] = Idle], UNCHANGED powerState
    PROVE  PowerEffect
<1>1. PowerInv'
  <2>1. prog' \in [Programs -> ProgramRun]
    BY IdleIsRun DEF PowerInv
  <2>2. ASSUME NEW q \in Programs PROVE RunOK(prog'[q], powerState')
    <3>1. RunOK(Idle, powerState)
      BY DEF RunOK, Idle
    <3>2. prog'[q] = IF q = p THEN Idle ELSE prog[q]
      BY DEF PowerInv
    <3> QED
      BY <3>1, <3>2, SMTT(30) DEF PowerInv
  <2> QED
    BY <2>1, <2>2 DEF PowerInv
<1>2. PN!Return(p)
  <2>1. Asks(Idle) = PN!Idle
    BY DEF Asks, Idle, PN!Idle
  <2>2. Requests(prog') = [Requests(prog) EXCEPT ![p] = PN!Idle]
    BY <2>1, Zenon DEF Requests, PowerInv
  <2> QED
    BY <2>2 DEF PN!Return, Requests, Asks
<1> QED
  BY <1>1, <1>2 DEF PowerEffect, PN!Next

LEMMA RunEffect ==
    ASSUME PowerInv, NEW op \in {"resume", "suspend"}, NEW S, NEW st,
           Run(op, S, st)
    PROVE  PowerEffect
<1> DEFINE want == groupNodesByNodeSet(parseNodeList(Hostlist(S)))
           todo == {ns \in NodeSets : want[ns] # {}}
<1>1. PICK p \in Programs : runPowerAction(p, op, S)
  BY DEF Run
<1> DEFINE new == [Idle EXCEPT !.op = op, !.want = want, !.todo = todo,
                               !.pc = IF todo = {} THEN "wait" ELSE "get"]
<1>2. prog[p].pc = "idle" /\ prog' = [prog EXCEPT ![p] = new] /\ UNCHANGED powerState
  BY <1>1, Zenon DEF runPowerAction, Run
<1>3. prog[p] = Idle
  BY <1>2 DEF PowerInv, RunOK
<1>4. want \in [NodeSets -> OrdinalSet] /\ todo \subseteq NodeSets
  BY WantType
<1> HIDE DEF want, todo
<1>5. new \in ProgramRun
  BY <1>4, IdleIsRun, ZenonT(40) DEF Idle, ProgramRun
<1>6. Asks(new) = [op |-> op, nodes |-> want, todo |-> todo]
  BY DEF Idle, Asks
<1>7. CreatedFirst => \A ns \in NodeSets : powerState[ns].exists
  BY DEF Run
<1>8. RunOK(new, powerState)
  BY <1>7 DEF RunOK, Idle
<1> HIDE DEF new
<1>9. PowerInv'
  BY <1>2, <1>5, <1>8 DEF PowerInv
<1>10. PN!Call(p)
  <2>1. Requests(prog)[p] = PN!Idle
    <3>1. Requests(prog)[p] = Asks(prog[p])
      BY Zenon DEF Requests
    <3>2. Asks(Idle) = PN!Idle
      BY DEF Asks, Idle, PN!Idle
    <3> QED
      BY <1>3, <3>1, <3>2, Zenon
  <2>2. Requests(prog') = [Requests(prog) EXCEPT ![p] = Asks(new)]
    BY <1>2, Zenon DEF Requests, PowerInv
  <2>3. Requests(prog')[p] = Asks(new)
    BY <2>2 DEF Requests
  <2>4. Requests(prog')[p] \in [op : {"resume", "suspend"},
                                nodes : [NodeSets -> SUBSET Nat],
                                todo : SUBSET NodeSets]
    BY <2>3, <1>4, <1>6, OrdinalSets
  <2> QED
    BY <1>2, <2>1, <2>2, <2>3, <2>4, ZenonT(40) DEF PN!Call, Requests, Asks
<1> QED
  BY <1>9, <1>10 DEF PowerEffect, PN!Next

LEMMA GetEffect ==
    ASSUME PowerInv, NEW p \in Programs, NEW ns \in NodeSets, Get(p, ns)
    PROVE  PowerEffect
<1> DEFINE new == [prog[p] EXCEPT !.ns = ns,
                                  !.pc = IF powerState[ns].exists THEN "update"
                                         ELSE "create",
                                  !.copy = powerState[ns].activeNodes,
                                  !.fresh = TRUE]
<1>1. prog' = [prog EXCEPT ![p] = new] /\ UNCHANGED powerState
  BY Zenon DEF Get, PowerInv
<1>2. prog[p] \in ProgramRun /\ powerState[ns] \in Object
  BY DEF PowerInv
<1>3. new \in ProgramRun /\ Asks(new) = Asks(prog[p])
  BY <1>2, ZenonT(40) DEF ProgramRun, Object, Asks
<1>4. RunOK(new, powerState)
  BY <1>2 DEF Get, PowerInv, RunOK, ProgramRun
<1> HIDE DEF new
<1>5. PowerInv'
  BY <1>1, <1>3, <1>4 DEF PowerInv
<1>6. Unseen
  BY <1>1, <1>3 DEF Unseen, Requests, PowerInv
<1> QED
  BY <1>5, <1>6 DEF PowerEffect

-----------------------------------------------------------------------------
(* The steps of the program that write, and those of the controller.       *)

StaleRun(ns, r) == IF r.pc = "update" /\ r.ns = ns THEN [r EXCEPT !.fresh = FALSE] ELSE r

DoneRun(r) == [r EXCEPT !.pc = IF r.todo \ {r.ns} = {} THEN "wait" ELSE "get",
                        !.todo = r.todo \ {r.ns}, !.ns = "none", !.copy = {},
                        !.fresh = FALSE, !.tries = 0]

\* The objects ps2 are those of ps after a write of the one of ns.
Written(ns, ps, ps2) ==
    /\ \A m \in NodeSets : ps[m].exists => ps2[m].exists
    /\ \A m \in NodeSets \ {ns} : ps2[m].activeNodes = ps[m].activeNodes

\* A write that all copies of the object lose their freshness to.
LEMMA StaleRunOK ==
    ASSUME NEW ns \in NodeSets, NEW r \in ProgramRun, NEW ps, NEW ps2,
           RunOK(r, ps), Written(ns, ps, ps2)
    PROVE  /\ StaleRun(ns, r) \in ProgramRun
           /\ Asks(StaleRun(ns, r)) = Asks(r)
           /\ RunOK(StaleRun(ns, r), ps2)
<1> DEFINE stale == [r EXCEPT !.fresh = FALSE]
<1>0. stale \in ProgramRun /\ stale.op = r.op /\ stale.want = r.want /\ stale.todo = r.todo
  BY Zenon DEF ProgramRun
<1>1. StaleRun(ns, r) \in ProgramRun /\ Asks(StaleRun(ns, r)) = Asks(r)
  BY <1>0 DEF StaleRun, Asks
<1>2. CASE r.pc = "update" /\ r.ns = ns
  <2>1. /\ StaleRun(ns, r) = stale
        /\ stale.pc = "update" /\ stale.ns = ns /\ ~stale.fresh
    BY <1>2 DEF StaleRun, ProgramRun
  <2>2. RunOK(stale, ps2)
    BY <1>0, <1>2, <2>1 DEF RunOK, Written
  <2> QED
    BY <1>1, <2>1, <2>2
<1>3. CASE ~(r.pc = "update" /\ r.ns = ns)
  <2>1. StaleRun(ns, r) = r
    BY <1>3 DEF StaleRun
  <2>2. r.todo \subseteq NodeSets
    BY DEF ProgramRun
  <2>3. RunOK(r, ps2)
    BY <1>3, <2>2 DEF RunOK, Written
  <2> QED
    BY <1>1, <2>1, <2>3
<1> QED
  BY <1>2, <1>3

LEMMA DoneRunOK ==
    ASSUME NEW r \in ProgramRun, NEW ps, NEW ns, NEW ps2,
           r.pc # "idle", RunOK(r, ps), Written(ns, ps, ps2)
    PROVE  /\ DoneRun(r) \in ProgramRun
           /\ Asks(DoneRun(r)) = [Asks(r) EXCEPT !.todo = @ \ {r.ns}]
           /\ RunOK(DoneRun(r), ps2)
<1>1. 0 \in 0 .. (Attempts - 1)
  BY PowerAssumption
<1>2. DoneRun(r) \in ProgramRun
  BY <1>1, OrdinalSets, ZenonT(40) DEF DoneRun, ProgramRun
<1>3. Asks(DoneRun(r)) = [Asks(r) EXCEPT !.todo = @ \ {r.ns}]
  <2>1. /\ DoneRun(r).op = r.op /\ DoneRun(r).want = r.want
        /\ DoneRun(r).todo = r.todo \ {r.ns}
    BY DEF DoneRun, ProgramRun
  <2> QED
    BY <2>1 DEF Asks
<1>4. DoneRun(r).pc \in {"wait", "get"}
  BY DEF DoneRun, ProgramRun
<1>5. RunOK(DoneRun(r), ps2)
  BY <1>4 DEF RunOK, Written
<1> QED
  BY <1>2, <1>3, <1>5

\* Creating the object loses the request; with CreatedFirst it cannot happen.
LEMMA CreateEffect ==
    ASSUME PowerInv, NEW p \in Programs, Create(p)
    PROVE  PowerEffect
<1>1. PICK ns \in NodeSets : prog[p].ns = ns
  BY DEF PowerInv, RunOK, Create, ProgramRun
<1>2. CASE powerState[ns].exists
  BY <1>1, <1>2, EndsEffect DEF Create
<1>3. CASE ~powerState[ns].exists
  <2> DEFINE r == prog[p]
             next == [powerState[ns] EXCEPT !.exists = TRUE]
  <2>1. r \in ProgramRun /\ RunOK(r, powerState) /\ r.pc = "create"
    BY DEF PowerInv, Create
  <2>2. ~CreatedFirst
    BY <1>3, <2>1 DEF RunOK
  <2>3. powerState' = [powerState EXCEPT ![ns] = next] /\ prog' = Done(p, prog)
    BY <1>1, <1>3 DEF Create, PowerInv
  <2>4. next \in Object /\ next.exists /\ next.activeNodes = powerState[ns].activeNodes
    BY Zenon DEF PowerInv, Object
  <2> HIDE DEF next
  <2>5. powerState' \in [NodeSets -> Object]
    BY <2>3, <2>4 DEF PowerInv
  <2>6. \A m \in NodeSets : /\ powerState[m].exists => powerState'[m].exists
                            /\ powerState'[m].activeNodes = powerState[m].activeNodes
                            /\ m # ns => powerState'[m] = powerState[m]
    BY <2>3, <2>4 DEF PowerInv
  <2>7. prog' = [prog EXCEPT ![p] = DoneRun(r)]
    BY <2>3 DEF Done, DoneRun, PowerInv
  <2>8. Written(ns, powerState, powerState')
    BY <2>6 DEF Written
  <2>9. DoneRun(r) \in ProgramRun /\ RunOK(DoneRun(r), powerState')
    BY <2>1, <2>8, DoneRunOK, SMTT(30)
  <2>10. ASSUME NEW q \in Programs PROVE RunOK(prog[q], powerState')
    <3>1. RunOK(prog[q], powerState) /\ prog[q].todo \subseteq NodeSets
      BY DEF PowerInv, ProgramRun
    <3> QED
      BY <2>2, <2>6, <3>1 DEF RunOK
  <2>11. prog' \in [Programs -> ProgramRun]
    BY <2>7, <2>9 DEF PowerInv
  <2>12. \A q \in Programs : RunOK(prog'[q], powerState')
    BY <2>7, <2>9, <2>10, SMTT(30) DEF PowerInv
  <2>13. \A m \in NodeSets : powerState'[m].exists \/ powerState'[m].activeNodes = {}
    BY <2>6 DEF PowerInv
  <2> QED
    BY <2>2, <2>5, <2>11, <2>12, <2>13 DEF PowerEffect, PowerInv
<1> QED
  BY <1>2, <1>3

LEMMA ConflictEffect ==
    ASSUME PowerInv, NEW p \in Programs, prog[p].pc = "update",
           prog' = [prog EXCEPT ![p] = Conflict(prog[p])], UNCHANGED powerState
    PROVE  PowerEffect
<1> DEFINE r == prog[p]
           new == [r EXCEPT !.pc = "get", !.copy = {}, !.tries = @ + 1]
<1>1. r \in ProgramRun /\ RunOK(r, powerState)
  BY DEF PowerInv
<1>2. CASE r.tries + 1 < Attempts
  <2>1. prog' = [prog EXCEPT ![p] = new]
    BY <1>2 DEF Conflict
  <2>2. r.tries + 1 \in 0 .. (Attempts - 1)
    BY <1>1, <1>2, PowerAssumption DEF ProgramRun
  <2>3. new \in ProgramRun /\ Asks(new) = Asks(r)
    BY <1>1, <2>2, OrdinalSets, Zenon DEF ProgramRun, Asks
  <2>4. RunOK(new, powerState)
    BY <1>1 DEF RunOK, ProgramRun
  <2> HIDE DEF new
  <2>5. PowerInv'
    BY <2>1, <2>3, <2>4 DEF PowerInv
  <2>6. Unseen
    BY <2>1, <2>3 DEF Unseen, Requests, PowerInv
  <2> QED
    BY <2>5, <2>6 DEF PowerEffect
<1>3. CASE ~(r.tries + 1 < Attempts)
  BY <1>3, EndsEffect, Zenon DEF Conflict
<1> QED
  BY <1>2, <1>3

\* The update of a run whose copy is fresh is the request of PoweredNodes.
LEMMA FreshEffect ==
    ASSUME PowerInv, NEW p \in Programs, prog[p].pc = "update", prog[p].fresh, Update(p)
    PROVE  PowerEffect
<1> DEFINE r == prog[p]
           new == newActiveNodes(r)
<1>1. r \in ProgramRun /\ RunOK(r, powerState)
  BY SMTT(30) DEF PowerInv
<1>2. PICK ns \in NodeSets :
         /\ r.ns = ns /\ ns \in r.todo /\ powerState[ns].exists
         /\ r.copy = powerState[ns].activeNodes /\ powerState[ns] \in Object
  BY <1>1 DEF RunOK, ProgramRun, PowerInv
<1> DEFINE next == [powerState[ns] EXCEPT !.activeNodes = new]
<1>3. new \in OrdinalSet
  BY <1>1, <1>2, OrdinalSets, Zenon DEF newActiveNodes, ProgramRun
<1>4. powerState' = [powerState EXCEPT ![ns] = next]
  BY <1>2 DEF Update, PowerInv
<1>5. next \in Object /\ next.exists /\ next.activeNodes = new
  BY <1>2, <1>3 DEF Object
<1>6. powerState' \in [NodeSets -> Object]
  BY <1>4, <1>5 DEF PowerInv
<1>7. /\ powerState'[ns].exists /\ powerState'[ns].activeNodes = new
      /\ \A m \in NodeSets \ {ns} : powerState'[m] = powerState[m]
  BY <1>2, <1>4, <1>5 DEF PowerInv
<1>8. Written(ns, powerState, powerState')
  BY <1>7, ZenonT(40) DEF Written
<1> DEFINE mark(q) == IF new = r.copy THEN prog[q] ELSE StaleRun(ns, prog[q])
<1>9. ASSUME NEW q \in Programs
      PROVE  mark(q) \in ProgramRun /\ Asks(mark(q)) = Asks(prog[q])
             /\ RunOK(mark(q), powerState')
  <2>1. prog[q] \in ProgramRun /\ RunOK(prog[q], powerState)
    BY DEF PowerInv
  <2>2. CASE new = r.copy
    <3>1. next = powerState[ns]
      BY <1>2, <2>2 DEF Object
    <3>2. powerState' = powerState
      BY <1>2, <1>4, <3>1, ZenonT(40) DEF PowerInv
    <3> QED
      BY <2>1, <2>2, <3>2
  <2>3. CASE new # r.copy
    BY <1>2, <1>8, <2>1, <2>3, StaleRunOK, SMTT(30)
  <2> QED
    BY <2>2, <2>3, SMTT(30)
<1>10. /\ mark(p).ns = ns /\ mark(p).pc = "update"
       /\ prog' = [q \in Programs |-> IF q = p THEN DoneRun(mark(p)) ELSE mark(q)]
  <2>1. StaleRun(ns, r) = [r EXCEPT !.fresh = FALSE]
    BY <1>2 DEF StaleRun
  <2>2. mark(p).ns = ns /\ mark(p).pc = "update"
    BY <1>1, <1>2, <2>1, Zenon DEF ProgramRun
  <2>3. CASE new = r.copy
    <3>1. prog' = Done(p, prog)
      BY <2>3, Zenon DEF Update
    <3> QED
      BY <2>2, <2>3, <3>1, Zenon DEF Done, DoneRun, PowerInv
  <2>4. CASE new # r.copy
    <3>1. prog' = Done(p, Stale(ns, prog))
      BY <1>2, <2>4 DEF Update
    <3>2. Stale(ns, prog) = [q \in Programs |-> mark(q)]
      BY <2>4, SMTT(30) DEF Stale, StaleRun
    <3> HIDE DEF mark
    <3> QED
      BY <2>2, <3>1, <3>2, Zenon DEF Done, DoneRun
  <2> QED
    BY <2>2, <2>3, <2>4
<1> HIDE DEF mark, next, new
<1>11. Written(ns, powerState', powerState')
  BY DEF Written
<1>12. /\ DoneRun(mark(p)) \in ProgramRun
       /\ Asks(DoneRun(mark(p))) = [Asks(mark(p)) EXCEPT !.todo = @ \ {mark(p).ns}]
       /\ RunOK(DoneRun(mark(p)), powerState')
  BY <1>9, <1>10, <1>11, DoneRunOK, ZenonT(40)
<1>13. PowerInv'
  <2>1. prog' \in [Programs -> ProgramRun]
    BY <1>9, <1>10, <1>12
  <2>2. \A q \in Programs : RunOK(prog'[q], powerState')
    BY <1>9, <1>10, <1>12, SMTT(30)
  <2>3. \A m \in NodeSets : powerState'[m].exists \/ powerState'[m].activeNodes = {}
    BY <1>7, SMTT(30) DEF PowerInv
  <2> QED
    BY <1>6, <2>1, <2>2, <2>3 DEF PowerInv
<1>14. PN!Apply(p, ns)
  <2>1. ns \in Requests(prog)[p].todo /\ ns \in Known(powerState)
    BY <1>2, Zenon DEF Requests, Asks, Known
  <2>2. Active(powerState') = [Active(powerState) EXCEPT ![ns] =
                                 IF Requests(prog)[p].op = "resume"
                                 THEN @ \cup Requests(prog)[p].nodes[ns]
                                 ELSE @ \ Requests(prog)[p].nodes[ns]]
    BY <1>2, <1>7, ZenonT(40) DEF Active, Requests, Asks, new, newActiveNodes
  <2>3. Requests(prog') = [Requests(prog) EXCEPT ![p].todo = @ \ {ns}]
    BY <1>9, <1>10, <1>12, Zenon DEF Requests
  <2>4. Known(powerState') = Known(powerState)
    BY <1>2, <1>7 DEF Known
  <2> QED
    BY <2>1, <2>2, <2>3, <2>4 DEF PN!Apply, Active, Known, Requests, Asks
<1> QED
  BY <1>2, <1>13, <1>14, SMTT(30) DEF PowerEffect, PN!Next

LEMMA ProgramEffect ==
    ASSUME PowerInv, NEW p \in Programs, ProgramStep(p) \/ ProgramFault(p)
    PROVE  PowerEffect
<1>1. CASE \E ns \in NodeSets : Get(p, ns)
  BY <1>1, GetEffect
<1>2. CASE Create(p)
  BY <1>2, CreateEffect
<1>3. CASE Update(p)
  <2>1. CASE prog[p].fresh
    BY <1>3, <2>1, FreshEffect DEF Update
  <2>2. CASE ~prog[p].fresh
    BY <1>3, <2>2, ConflictEffect DEF Update
  <2> QED
    BY <2>1, <2>2
<1>4. CASE waitForNodes(p) \/ ProgramFails(p)
  BY <1>4, EndsEffect DEF waitForNodes, ProgramFails
<1> QED
  BY <1>1, <1>2, <1>3, <1>4 DEF ProgramStep, ProgramFault

LEMMA SameEffect ==
    ASSUME PowerInv, UNCHANGED <<powerState, prog>>
    PROVE  PowerEffect
<1>1. PowerInv'
  BY DEF PowerInv
<1>2. Unseen
  BY DEF Unseen
<1> QED
  BY <1>1, <1>2 DEF PowerEffect

\* The controller's write of the status only costs copies their freshness.
LEMMA ReadEffect ==
    ASSUME PowerInv, psCache \in [NodeSets -> Object], NEW ns \in NodeSets,
           ReadPowerState(ns)
    PROVE  PowerEffect
<1> DEFINE count == Cardinality(psCache[ns].activeNodes)
           next == [powerState[ns] EXCEPT !.activeCount = count]
<1>1. CASE UNCHANGED <<powerState, prog>>
  BY <1>1, SameEffect
<1>2. CASE /\ powerState' = [powerState EXCEPT ![ns].activeCount = count]
           /\ prog' = Stale(ns, prog)
  <2>1. count \in Int
    BY OrdinalSets DEF Object
  <2>2. powerState' = [powerState EXCEPT ![ns] = next] /\ powerState[ns] \in Object
    BY <1>2 DEF PowerInv
  <2> HIDE DEF count
  <2>3. next \in Object /\ next.exists = powerState[ns].exists
        /\ next.activeNodes = powerState[ns].activeNodes
    BY <2>1, <2>2 DEF Object
  <2> HIDE DEF next
  <2>4. powerState' \in [NodeSets -> Object]
    BY <2>2, <2>3, SMTT(30) DEF PowerInv
  <2>5. \A m \in NodeSets : /\ powerState'[m].exists = powerState[m].exists
                            /\ powerState'[m].activeNodes = powerState[m].activeNodes
    BY <2>2, <2>3 DEF PowerInv
  <2>6. Written(ns, powerState, powerState')
    BY <2>5 DEF Written
  <2>7. prog' = [q \in Programs |-> StaleRun(ns, prog[q])]
    BY <1>2, SMTT(30) DEF Stale, StaleRun
  <2>8. ASSUME NEW q \in Programs
        PROVE  /\ StaleRun(ns, prog[q]) \in ProgramRun
               /\ Asks(StaleRun(ns, prog[q])) = Asks(prog[q])
               /\ RunOK(StaleRun(ns, prog[q]), powerState')
    BY <2>6, StaleRunOK, ZenonT(40) DEF PowerInv
  <2>9. PowerInv'
    BY <2>4, <2>5, <2>7, <2>8, SMTT(30) DEF PowerInv
  <2>10. Unseen
    BY <2>5, <2>7, <2>8 DEF Unseen, Active, Known, Requests
  <2> QED
    BY <2>9, <2>10 DEF PowerEffect
<1> QED
  BY <1>1, <1>2 DEF ReadPowerState

LEMMA SeedEffect ==
    ASSUME PowerInv, NEW ns \in NodeSets, ~powerState[ns].exists, UNCHANGED prog,
           powerState' = [powerState EXCEPT ![ns].exists = TRUE,
                                            ![ns].activeNodes = Seeds[ns]]
    PROVE  PowerEffect
<1> DEFINE next == [powerState[ns] EXCEPT !.exists = TRUE, !.activeNodes = Seeds[ns]]
<1>1. powerState' = [powerState EXCEPT ![ns] = next] /\ powerState[ns] \in Object
  BY Zenon DEF PowerInv
<1>2. Seeds[ns] \in OrdinalSet
  BY OrdinalSets, InitialAssumption DEF Seeds
<1>3. next \in Object /\ next.exists /\ next.activeNodes = Seeds[ns]
  BY <1>1, <1>2, Zenon DEF Object
<1> HIDE DEF next
<1>4. powerState' \in [NodeSets -> Object]
  BY <1>1, <1>3, Zenon DEF PowerInv
<1>5. /\ powerState'[ns].exists /\ powerState'[ns].activeNodes = Seeds[ns]
      /\ \A m \in NodeSets : m # ns => powerState'[m] = powerState[m]
  BY <1>1, <1>3 DEF PowerInv
<1>6. ASSUME NEW q \in Programs PROVE RunOK(prog[q], powerState')
  <2>1. RunOK(prog[q], powerState) /\ prog[q].todo \subseteq NodeSets
    BY DEF PowerInv, ProgramRun
  <2>2. prog[q].pc = "update" => prog[q].ns \in NodeSets \ {ns}
    BY <2>1 DEF RunOK
  <2> QED
    BY <1>5, <2>1, <2>2, Zenon DEF RunOK
<1>7. PowerInv'
  BY <1>4, <1>5, <1>6, Zenon DEF PowerInv
<1>8. PN!Seed(ns)
  <2>0. ASSUME NEW m \in NodeSets
        PROVE  powerState'[m].activeNodes = IF m = ns THEN Seeds[ns]
                                            ELSE powerState[m].activeNodes
    <3>1. CASE m = ns
      BY <1>5, <3>1, Zenon
    <3>2. CASE m # ns
      <4>1. powerState'[m] = powerState[m]
        BY <1>5, <3>2, Zenon
      <4> QED
        BY <3>2, <4>1
    <3> QED
      BY <3>1, <3>2
  <2>1. Active(powerState') = [Active(powerState) EXCEPT ![ns] = Seeds[ns]]
    BY <2>0, Zenon DEF Active
  <2>2. ns \notin Known(powerState) /\ Known(powerState') = Known(powerState) \cup {ns}
    BY <1>5, ZenonT(40) DEF Known
  <2> QED
    BY <2>1, <2>2, Zenon DEF PN!Seed, Active, Known
<1> QED
  BY <1>7, <1>8 DEF PowerEffect, PN!Next

-----------------------------------------------------------------------------
(* The types of the controller's variables.                                *)

SizedSet == [exists : BOOLEAN, replicas : Nat, reserve : OrdinalSet, available : Nat]

Pass == [pc : {"idle", "created", "workers", "status"}, active : OrdinalSet]

Status == [terminated : {"Unknown", "True", "False"},
           podsReady : {"Unknown", "True", "False"},
           replicas : Nat,
           phase : {"", "Pending", "Provisioning", "Ready", "Terminating"}]

NodeSetInv ==
    /\ psCache \in [NodeSets -> Object]
    /\ sts \in [NodeSets -> SizedSet] /\ stsCache \in [NodeSets -> SizedSet]
    /\ pass \in [NodeSets -> Pass]
    /\ queue \subseteq NodeSets
    /\ status \in [NodeSets -> Status]
    /\ pods \in [NodeSets -> OrdinalSet]
    /\ maintenance \in BOOLEAN

LEMMA NoPassType == NoPass \in Pass
  BY OrdinalSets DEF NoPass, Pass

LEMMA RenderedType ==
    ASSUME NEW S \in OrdinalSet
    PROVE  RenderedSize(S).replicas \in Nat /\ RenderedSize(S).reserve \in OrdinalSet
<1>1. CASE maintenance \/ S = {}
  <2>1. RenderedSize(S) = [replicas |-> 0, reserve |-> {}]
    BY <1>1 DEF RenderedSize, calculateReplicasAndReserveOrdinals
  <2> QED
    BY <2>1, OrdinalSets
<1>2. CASE ~maintenance /\ S # {}
  <2>1. RenderedSize(S) = [replicas |-> Cardinality(S), reserve |-> (0 .. Max(S)) \ S]
    BY <1>2 DEF RenderedSize, calculateReplicasAndReserveOrdinals
  <2>2. Max(S) \in Int /\ Cardinality(S) \in Nat
    BY <1>2, HasMax, OrdinalSets
  <2>3. (0 .. Max(S)) \ S \in OrdinalSet
    BY <2>2, OrdinalSets, Zenon
  <2> QED
    BY <2>1, <2>2, <2>3
<1> QED
  BY <1>1, <1>2

LEMMA FailType ==
    ASSUME NodeSetInv, NEW ns \in NodeSets, Fail(ns),
           UNCHANGED <<psCache, stsCache, status, pods, maintenance>>,
           sts' \in [NodeSets -> SizedSet]
    PROVE  NodeSetInv'
  BY NoPassType, Zenon DEF NodeSetInv, Fail

LEMMA ReadType ==
    ASSUME NodeSetInv, NEW ns \in NodeSets, ReadPowerState(ns), queue' \subseteq NodeSets,
           UNCHANGED <<psCache, sts, stsCache, status, pods, maintenance>>
    PROVE  NodeSetInv'
<1> DEFINE new == [pc |-> "workers", active |-> psCache[ns].activeNodes]
<1>1. new \in Pass
  BY DEF NodeSetInv, Object, Pass
<1>2. pass' = [pass EXCEPT ![ns] = new]
  BY DEF ReadPowerState
<1> HIDE DEF new
<1>3. pass' \in [NodeSets -> Pass]
  BY <1>1, <1>2 DEF NodeSetInv
<1> QED
  BY <1>3 DEF NodeSetInv

LEMMA PatchType ==
    ASSUME NodeSetInv, NEW ns \in NodeSets, NEW S \in OrdinalSet
    PROVE  Patch(sts[ns], stsCache[ns], RenderedSize(S)) \in SizedSet
<1>1. sts[ns] \in SizedSet
  BY DEF NodeSetInv
<1>2. RenderedSize(S).replicas \in Nat /\ RenderedSize(S).reserve \in OrdinalSet
  BY RenderedType
<1> QED
  BY <1>1, <1>2, ZenonT(40) DEF Patch, SizedSet

LEMMA WorkersType ==
    ASSUME NodeSetInv, NEW ns \in NodeSets, executeReconciliation(ns)
    PROVE  NodeSetInv'
<1> DEFINE size == RenderedSize(pass[ns].active)
           first == [exists |-> TRUE, available |-> 0, replicas |-> size.replicas,
                     reserve |-> size.reserve]
           goesOn == pass' = [pass EXCEPT ![ns].pc = "status"] /\ UNCHANGED queue
<1>1. pass[ns] \in Pass /\ pass[ns].active \in OrdinalSet
  BY DEF NodeSetInv, Pass
<1>2. size.replicas \in Nat /\ size.reserve \in OrdinalSet
  BY <1>1, RenderedType
<1>3. Patch(sts[ns], stsCache[ns], size) \in SizedSet
  BY <1>1, PatchType
<1>4. first \in SizedSet
  BY <1>2 DEF SizedSet
<1>5. sts' \in {sts, [sts EXCEPT ![ns] = Patch(sts[ns], stsCache[ns], size)],
                [sts EXCEPT ![ns] = first]}
  BY DEF executeReconciliation, NodeSetInv
<1>6. /\ UNCHANGED <<psCache, stsCache, status, pods, maintenance>>
      /\ goesOn \/ Fail(ns)
  BY DEF executeReconciliation
<1> HIDE DEF size, first
<1>7. sts' \in [NodeSets -> SizedSet]
  BY <1>3, <1>4, <1>5 DEF NodeSetInv
<1>8. CASE goesOn
  <2>1. [pass[ns] EXCEPT !.pc = "status"] \in Pass
    BY <1>1 DEF Pass
  <2>2. pass' \in [NodeSets -> Pass]
    BY <1>8, <2>1 DEF NodeSetInv
  <2> QED
    BY <1>6, <1>7, <1>8, <2>2 DEF NodeSetInv
<1>9. CASE Fail(ns)
  BY <1>6, <1>7, <1>9, FailType
<1> QED
  BY <1>6, <1>8, <1>9

LEMMA ReportType ==
    ASSUME NodeSetInv, NEW ns \in NodeSets, ReportStatus(ns)
    PROVE  NodeSetInv'
<1> DEFINE old == [status[ns] EXCEPT !.terminated = IF maintenance THEN "True" ELSE "False"]
           st == validateResources(ns, old)
<1>1. old \in Status
  BY ZenonT(40) DEF NodeSetInv, Status
<1> HIDE DEF old
<1>2. stsCache[ns].available \in Nat
  BY DEF NodeSetInv, SizedSet
<1>3. st \in Status
  BY <1>1, <1>2 DEF validateResources, Status
<1> HIDE DEF st
<1>4. computePhase(st) \in {"Pending", "Provisioning", "Ready", "Terminating"}
  BY DEF computePhase
<1>5. [st EXCEPT !.phase = computePhase(st)] \in Status
  BY <1>3, <1>4 DEF Status
<1>6. status' = [status EXCEPT ![ns] = [st EXCEPT !.phase = computePhase(st)]]
  BY DEF ReportStatus, st, old
<1>7. status' \in [NodeSets -> Status]
  BY <1>5, <1>6 DEF NodeSetInv
<1>8. /\ queue' \subseteq NodeSets /\ pass' = [pass EXCEPT ![ns] = NoPass]
      /\ UNCHANGED <<psCache, sts, stsCache, pods, maintenance>>
  BY DEF ReportStatus, NodeSetInv
<1> QED
  BY <1>7, <1>8, NoPassType DEF NodeSetInv

LEMMA PodsType ==
    ASSUME NodeSetInv, NEW ns \in NodeSets, NEW o \in Int,
           CreatePod(ns, o) \/ DeletePod(ns, o)
    PROVE  NodeSetInv' /\ \A m \in NodeSets : Selected(sts'[m]) = Selected(sts[m])
<1>1. PICK new : /\ new \in {pods[ns] \cup {o}, pods[ns] \ {o}}
                 /\ o \in Selected(sts[ns]) \/ o \in pods[ns]
                 /\ StatefulSetPods(ns, new)
  BY DEF CreatePod, DeletePod
<1>2. o \in Nat
  <2>1. pods[ns] \subseteq Nat
    BY OrdinalSets DEF NodeSetInv
  <2>2. sts[ns].replicas \in Nat /\ Cardinality(sts[ns].reserve) \in Nat
    BY OrdinalSets, Zenon DEF NodeSetInv, SizedSet
  <2>3. Selected(sts[ns]) \subseteq Nat
    BY <2>2 DEF Selected
  <2> QED
    BY <1>1, <2>1, <2>3
<1>3. {o} \in OrdinalSet
  <2>1. {o} \in SUBSET (0 .. o)
    BY <1>2
  <2> QED
    BY <1>2, <2>1 DEF OrdinalSet
<1>4. new \in OrdinalSet /\ Cardinality(new) \in Nat
  <2>1. pods[ns] \in OrdinalSet
    BY DEF NodeSetInv
  <2>2. pods[ns] \cup {o} \in OrdinalSet /\ pods[ns] \ {o} \in OrdinalSet
    BY <1>3, <2>1, OrdinalSets, ZenonT(40)
  <2>3. new \in OrdinalSet
    BY <1>1, <2>2, ZenonT(40)
  <2> QED
    BY <2>3, OrdinalSets
<1> DEFINE next == [sts[ns] EXCEPT !.available = Cardinality(new)]
<1>5. /\ sts' = [sts EXCEPT ![ns] = next] /\ pods' = [pods EXCEPT ![ns] = new]
      /\ UNCHANGED <<psCache, stsCache, pass, queue, status, maintenance>>
  BY <1>1 DEF StatefulSetPods, NodeSetInv
<1>6. next \in SizedSet /\ next.replicas = sts[ns].replicas /\ next.reserve = sts[ns].reserve
  BY <1>4 DEF NodeSetInv, SizedSet
<1> HIDE DEF next
<1>7. NodeSetInv'
  BY <1>4, <1>5, <1>6 DEF NodeSetInv
<1>8. ASSUME NEW m \in NodeSets PROVE Selected(sts'[m]) = Selected(sts[m])
  <2>1. sts'[m].replicas = sts[m].replicas /\ sts'[m].reserve = sts[m].reserve
    BY <1>5, <1>6 DEF NodeSetInv
  <2> QED
    BY <2>1 DEF Selected
<1> QED
  BY <1>7, <1>8, SMTT(30)

-----------------------------------------------------------------------------
(* The invariant, and every step.                                          *)

IInv ==
    /\ PowerInv
    /\ NodeSetInv
    /\ slurm \in [Nodes -> {"seeded", "down", "resuming", "idle", "busy", "lost",
                            "suspending"}]
    /\ unfinished \subseteq Nodes
    /\ left \in [Bounds -> Nat]

LEMMA SpendType ==
    ASSUME left \in [Bounds -> Nat], NEW b \in Bounds, Spend(b)
    PROVE  left' \in [Bounds -> Nat] /\ \A c \in Bounds : left'[c] <= left[c]
  BY DEF Spend

\* What slurmctld and the programs do leaves the controller's state alone.
LEMMA SlurmStep ==
    ASSUME IInv,
           \/ ResumeProgram \/ SuspendProgram \/ ResumeFailProgram
           \/ \E n \in Nodes : \/ Register(n) \/ SuspendTimeout(n)
                               \/ StartJob(n) \/ EndJob(n) \/ LoseNode(n)
    PROVE  IInv' /\ PowerEffect /\ UNCHANGED nsVars
           /\ \A b \in Bounds : left'[b] <= left[b]
<1>1. ASSUME NEW op \in {"resume", "suspend"}, NEW S,
             NEW st \in {"resuming", "suspending"}, Run(op, S, st)
      PROVE  IInv' /\ PowerEffect /\ UNCHANGED nsVars
             /\ \A b \in Bounds : left'[b] <= left[b]
  <2>1. PowerEffect
    BY <1>1, RunEffect, SMTT(30) DEF IInv
  <2>2. left' \in [Bounds -> Nat] /\ \A b \in Bounds : left'[b] <= left[b]
    BY <1>1, SpendType DEF Run, IInv, Bounds
  <2>3. slurm' \in [Nodes -> {"seeded", "down", "resuming", "idle", "busy", "lost",
                              "suspending"}]
    BY <1>1 DEF Run, IInv
  <2>4. UNCHANGED nsVars /\ UNCHANGED unfinished
    BY <1>1 DEF Run
  <2>5. NodeSetInv'
    BY <2>4 DEF IInv, NodeSetInv, nsVars
  <2> QED
    BY <2>1, <2>2, <2>3, <2>4, <2>5 DEF IInv, PowerEffect
<1>2. ASSUME NEW n \in Nodes, NEW st \in {"idle", "down", "busy", "lost"}, Set(n, st)
      PROVE  IInv' /\ PowerEffect /\ UNCHANGED nsVars
             /\ \A b \in Bounds : left'[b] <= left[b]
  <2>1. UNCHANGED <<powerState, prog, nsVars, unfinished, left>>
    BY <1>2 DEF Set
  <2>2. PowerEffect
    BY <2>1, SameEffect DEF IInv
  <2>3. slurm' \in [Nodes -> {"seeded", "down", "resuming", "idle", "busy", "lost",
                              "suspending"}]
    BY <1>2, SMTT(30) DEF Set, IInv
  <2>4. NodeSetInv'
    BY <2>1 DEF IInv, NodeSetInv, nsVars
  <2>5. \A b \in Bounds : left'[b] <= left[b]
    BY <2>1 DEF IInv
  <2> QED
    BY <2>1, <2>2, <2>3, <2>4, <2>5, SMTT(30) DEF IInv, PowerEffect
<1> QED
  BY <1>1, <1>2, ZenonT(40) DEF ResumeProgram, SuspendProgram, ResumeFailProgram,
                    Register, SuspendTimeout, StartJob, EndJob, LoseNode

LEMMA ProgramsStep ==
    ASSUME IInv, NEW p \in Programs, ProgramStep(p) \/ ProgramFault(p)
    PROVE  IInv' /\ PowerEffect /\ UNCHANGED nsVars
           /\ \A b \in Bounds : left'[b] <= left[b]
<1>1. PowerEffect
  BY ProgramEffect, SMTT(30) DEF IInv
<1>2. UNCHANGED nsVars /\ UNCHANGED slurm /\ unfinished' \subseteq Nodes
  BY DEF ProgramStep, ProgramFault, Programmed, Wanted, IInv
<1>3. left' \in [Bounds -> Nat] /\ \A b \in Bounds : left'[b] <= left[b]
  BY SpendType DEF ProgramStep, ProgramFault, IInv, Bounds
<1>4. NodeSetInv'
  BY <1>2 DEF IInv, NodeSetInv, nsVars
<1> QED
  BY <1>1, <1>2, <1>3, <1>4, SMTT(30) DEF IInv, PowerEffect

\* The steps of the controller's passes.
LEMMA ControllerKeeps ==
    ASSUME IInv, NEW ns \in NodeSets, ControllerStep(ns)
    PROVE  IInv' /\ PowerEffect /\ \A b \in Bounds : left'[b] <= left[b]
<1>1. /\ UNCHANGED <<slurm, unfinished>>
      /\ left' \in [Bounds -> Nat] /\ \A b \in Bounds : left'[b] <= left[b]
  BY SpendType DEF ControllerStep, ReconcileWorkers, IInv, Bounds
<1>2. CASE reconcileNodeSetPowerState(ns) \/ GetCreated(ns)
  <2>0. UNCHANGED <<psCache, sts, stsCache, status, pods, maintenance>>
    BY <1>2 DEF reconcileNodeSetPowerState, GetCreated
  <2>1. CASE ReadPowerState(ns) /\ queue' \subseteq NodeSets
    <3>1. NodeSetInv'
      BY <2>0, <2>1, ReadType DEF IInv
    <3>2. PowerEffect
      BY <2>1, ReadEffect, SMTT(30) DEF IInv, NodeSetInv
    <3> QED
      BY <1>1, <3>1, <3>2, SMTT(30) DEF IInv, PowerEffect
  <2>2. CASE /\ ~powerState[ns].exists /\ UNCHANGED prog
             /\ powerState' = [powerState EXCEPT ![ns].exists = TRUE,
                                                 ![ns].activeNodes = Seeds[ns]]
             /\ pass' = [pass EXCEPT ![ns].pc = "created"]
             /\ queue' \subseteq NodeSets
    <3>1. [pass[ns] EXCEPT !.pc = "created"] \in Pass
      BY DEF IInv, NodeSetInv, Pass
    <3>2. pass' \in [NodeSets -> Pass]
      BY <2>2, <3>1 DEF IInv, NodeSetInv
    <3>3. NodeSetInv'
      BY <2>0, <2>2, <3>2 DEF IInv, NodeSetInv
    <3>4. PowerEffect
      BY <2>2, SeedEffect, ZenonT(40) DEF IInv
    <3> QED
      BY <1>1, <3>3, <3>4 DEF IInv, PowerEffect
  <2>3. CASE Fail(ns) /\ UNCHANGED <<powerState, prog>>
    <3>1. NodeSetInv'
      BY <2>0, <2>3, FailType DEF IInv, NodeSetInv
    <3>2. PowerEffect
      BY <2>3, SameEffect DEF IInv
    <3> QED
      BY <1>1, <3>1, <3>2 DEF IInv, PowerEffect
  <2>4. CASE reconcileNodeSetPowerState(ns)
    BY <2>1, <2>2, <2>3, <2>4, ZenonT(40) DEF reconcileNodeSetPowerState, IInv, NodeSetInv
  <2>5. CASE GetCreated(ns)
    BY <2>1, <2>3, <2>5, ZenonT(40) DEF GetCreated, IInv, NodeSetInv
  <2> QED
    BY <1>2, <2>4, <2>5
<1>3. CASE ReportStatus(ns) \/ executeReconciliation(ns)
  <2>1. NodeSetInv'
    BY <1>3, ReportType, WorkersType, SMTT(30) DEF IInv
  <2>2. UNCHANGED <<powerState, prog>>
    BY <1>3 DEF ReportStatus, executeReconciliation
  <2>3. PowerEffect
    BY <2>2, SameEffect DEF IInv
  <2> QED
    BY <1>1, <2>1, <2>3 DEF IInv, PowerEffect
<1> QED
  BY <1>2, <1>3 DEF ControllerStep, ReconcileWorkers

\* Faults, informers, OpenKruise and maintenance.
LEMMA OthersKeep ==
    ASSUME IInv, \/ ControllerFault \/ Maintain
                 \/ \E ns \in NodeSets : Sync(ns) \/ Kruise(ns)
    PROVE  IInv' /\ PowerEffect /\ \A b \in Bounds : left'[b] <= left[b]
<1>1. /\ UNCHANGED <<slurm, unfinished>>
      /\ left' \in [Bounds -> Nat] /\ \A b \in Bounds : left'[b] <= left[b]
  BY SpendType DEF ControllerFault, Maintain, Sync, Kruise, IInv, Bounds
<1>2. UNCHANGED <<powerState, prog>>
  BY Zenon DEF ControllerFault, OperatorRestarts, PassFails, Maintain, SetMaintenance, Sync,
         SyncPowerState, SyncStatefulSet, Kruise, CreatePod, DeletePod, StatefulSetPods
<1>3. PowerEffect
  BY <1>2, SameEffect DEF IInv
<1>4. NodeSetInv'
  <2>1. CASE OperatorRestarts
    BY <2>1, NoPassType, Zenon DEF OperatorRestarts, IInv, PowerInv, NodeSetInv
  <2>2. ASSUME NEW ns \in NodeSets, PassFails(ns) PROVE NodeSetInv'
    <3>1. /\ NodeSetInv /\ Fail(ns)
          /\ UNCHANGED <<psCache, sts, stsCache, status, pods, maintenance>>
      BY <2>2, Zenon DEF PassFails, IInv
    <3>2. sts' \in [NodeSets -> SizedSet]
      BY <3>1, Zenon DEF NodeSetInv
    <3> QED
      BY <3>1, <3>2, FailType, Zenon
  <2>3. CASE SetMaintenance
    BY <2>3, ZenonT(40) DEF SetMaintenance, IInv, NodeSetInv
  <2>4. ASSUME NEW ns \in NodeSets, SyncPowerState(ns) PROVE NodeSetInv'
    BY <2>4 DEF SyncPowerState, IInv, PowerInv, NodeSetInv
  <2>5. ASSUME NEW ns \in NodeSets, SyncStatefulSet(ns) PROVE NodeSetInv'
    BY <2>5 DEF SyncStatefulSet, IInv, NodeSetInv
  <2>6. ASSUME NEW ns \in NodeSets, Kruise(ns) PROVE NodeSetInv'
    <3>1. PICK o \in 0 .. Replicas[ns] : CreatePod(ns, o) \/ DeletePod(ns, o)
      BY <2>6 DEF Kruise
    <3>2. o \in Int
      BY PowerAssumption
    <3> QED
      BY <3>1, <3>2, PodsType DEF IInv
  <2> QED
    BY <2>1, <2>2, <2>3, <2>4, <2>5, <2>6 DEF ControllerFault, Maintain, Sync
<1> QED
  BY <1>1, <1>3, <1>4, SMTT(30) DEF IInv, PowerEffect

LEMMA NextKeeps ==
    ASSUME IInv, [Next]_vars
    PROVE  IInv' /\ PowerEffect /\ \A b \in Bounds : left'[b] <= left[b]
<1>1. CASE Next
  BY <1>1, SlurmStep, ProgramsStep, ControllerKeeps, OthersKeep, SMTT(30) DEF Next
<1>2. CASE UNCHANGED vars
  <2>1. UNCHANGED <<powerState, prog>>
    BY <1>2 DEF vars
  <2>2. PowerEffect
    BY <2>1, SameEffect, SMTT(30) DEF IInv
  <2>3. IInv'
    BY <1>2, <2>2 DEF vars, nsVars, IInv, NodeSetInv, PowerEffect
  <2>4. \A b \in Bounds : left'[b] <= left[b]
    BY <1>2 DEF vars, IInv
  <2> QED
    BY <2>2, <2>3, <2>4
<1> QED
  BY <1>1, <1>2, ZenonT(40)

LEMMA InitIInv == Init => IInv
<1> SUFFICES ASSUME Init PROVE IInv
  BY SMTT(30)
<1>1. Absent \in Object
  BY OrdinalSets DEF Absent, Object
<1>2. NoSts \in SizedSet /\ setUpConditions \in Status
  BY OrdinalSets, ZenonT(40) DEF NoSts, SizedSet, setUpConditions, Status
<1>3. PowerInv
  <2>1. Absent.activeNodes = {}
    BY Zenon DEF Absent
  <2>2. \A ps : RunOK(Idle, ps)
    BY Zenon DEF RunOK, Idle
  <2> QED
    BY <1>1, <2>1, <2>2, IdleIsRun DEF Init, PowerInit, PowerInv
<1>4. NodeSetInv
  BY <1>1, <1>2, NoPassType, OrdinalSets, ZenonT(40) DEF Init, NodeSetInit, NodeSetInv
<1>5. slurm \in [Nodes -> {"seeded", "down", "resuming", "idle", "busy", "lost",
                            "suspending"}]
  BY DEF Init
<1>6. left \in [Bounds -> Nat]
  BY EphemeralAssumption DEF Init
<1> QED
  BY <1>3, <1>4, <1>5, <1>6 DEF IInv, Init

-----------------------------------------------------------------------------
(* The theorems.                                                           *)

LEMMA Invariance == Spec => []IInv
<1>1. IInv /\ [Next]_vars => IInv'
  BY NextKeeps
<1> QED
  BY InitIInv, <1>1, PTL DEF Spec

\* The variables of the program, the controller, OpenKruise and slurmctld keep
\* their types, for any NodeSets, replicas and numbers of programs.
THEOREM TypeCorrect == Spec => []TypeOK
<1>1. OrdinalSet \subseteq SUBSET Nat
  BY OrdinalSets
<1>2. Object \subseteq [exists : BOOLEAN, activeNodes : SUBSET Nat, activeCount : Int]
  BY <1>1, Zenon DEF Object
<1>3. IInv => TypeOK
  <2> SUFFICES ASSUME IInv PROVE TypeOK
    OBVIOUS
  <2>1. powerState \in [NodeSets -> [exists : BOOLEAN, activeNodes : SUBSET Nat,
                                     activeCount : Int]]
    BY <1>2 DEF IInv, PowerInv
  <2>2. ProgramRun \subseteq [pc : {"idle", "get", "create", "update", "wait"},
                              op : {"none", "resume", "suspend"},
                              want : [NodeSets -> SUBSET Nat],
                              todo : SUBSET NodeSets,
                              ns : NodeSets \cup {"none"},
                              copy : SUBSET Nat,
                              fresh : BOOLEAN,
                              tries : 0 .. (Attempts - 1)]
    <3> DEFINE Bounded == [NodeSets -> OrdinalSet]
               All == [NodeSets -> SUBSET Nat]
    <3>1. Bounded \subseteq All
      BY <1>1, Zenon
    <3>2. ProgramRun = [pc : {"idle", "get", "create", "update", "wait"},
                        op : {"none", "resume", "suspend"}, want : Bounded,
                        todo : SUBSET NodeSets, ns : NodeSets \cup {"none"},
                        copy : OrdinalSet, fresh : BOOLEAN,
                        tries : 0 .. (Attempts - 1)]
      BY DEF ProgramRun
    <3> HIDE DEF Bounded, All
    <3>3. ProgramRun \subseteq [pc : {"idle", "get", "create", "update", "wait"},
                               op : {"none", "resume", "suspend"}, want : All,
                               todo : SUBSET NodeSets, ns : NodeSets \cup {"none"},
                               copy : SUBSET Nat, fresh : BOOLEAN,
                               tries : 0 .. (Attempts - 1)]
      BY <1>1, <3>1, <3>2, ZenonT(40)
    <3> QED
      BY <3>3 DEF All
  <2>3. PowerTypeOK
    BY <2>1, <2>2 DEF PowerTypeOK, IInv, PowerInv
  <2>4. SizedSet \subseteq [exists : BOOLEAN, replicas : Nat, reserve : SUBSET Nat,
                            available : Nat]
    BY <1>1, Zenon DEF SizedSet
  <2>5. Pass \subseteq [pc : {"idle", "created", "workers", "status"},
                        active : SUBSET Nat]
    BY <1>1, Zenon DEF Pass
  <2>6. NodeSetTypeOK
    <3> DEFINE Sized == [exists : BOOLEAN, replicas : Nat, reserve : SUBSET Nat,
                         available : Nat]
               Passes == [pc : {"idle", "created", "workers", "status"},
                          active : SUBSET Nat]
               Objects == [exists : BOOLEAN, activeNodes : SUBSET Nat, activeCount : Int]
               NatSets == SUBSET Nat
    <3>1. /\ SizedSet \subseteq Sized /\ Pass \subseteq Passes
          /\ Object \subseteq Objects /\ OrdinalSet \subseteq NatSets
      BY <1>1, <1>2, <2>4, <2>5
    <3> HIDE DEF Sized, Passes, Objects, NatSets
    <3>2. /\ psCache \in [NodeSets -> Objects]
          /\ sts \in [NodeSets -> Sized] /\ stsCache \in [NodeSets -> Sized]
          /\ pass \in [NodeSets -> Passes] /\ pods \in [NodeSets -> NatSets]
      BY <3>1 DEF IInv, NodeSetInv
    <3> QED
      BY <3>2 DEF NodeSetTypeOK, IInv, NodeSetInv, Status, Sized, Passes, Objects, NatSets
  <2> QED
    BY <2>3, <2>6 DEF TypeOK, IInv
<1> QED
  BY Invariance, <1>3, PTL

\* updateNodeSetPowerState and reconcileNodeSetPowerState implement PoweredNodes
\* when the controller has created the objects first: for any number of NodeSets,
\* programs, retries and failures, every request takes effect once.
THEOREM Implements ==
    ASSUME CreatedFirst
    PROVE  Spec => RequestsTakeEffectOnce
<1>1. Init => PN!Init
  <2> SUFFICES ASSUME Init PROVE PN!Init
    BY ZenonT(40)
  <2>1. powerState = [ns \in NodeSets |-> Absent] /\ prog = [p \in Programs |-> Idle]
    BY DEF Init, PowerInit
  <2>2. Active(powerState) = [ns \in NodeSets |-> {}] /\ Known(powerState) = {}
    BY <2>1 DEF Active, Known, Absent
  <2>3. Requests(prog) = [p \in Programs |-> PN!Idle]
    <3>1. Asks(Idle) = PN!Idle
      BY DEF Asks, Idle, PN!Idle
    <3>2. \A p \in Programs : prog[p] = Idle
      BY <2>1, Zenon
    <3> QED
      BY <3>1, <3>2, ZenonT(40) DEF Requests
  <2> QED
    BY <2>2, <2>3 DEF PN!Init, Active, Known, Requests, Asks
<1>2. IInv /\ [Next]_vars => [PN!Next]_<<Active(powerState), Known(powerState), Requests(prog)>>
  <2> SUFFICES ASSUME IInv, [Next]_vars PROVE PN!Next \/ Unseen
    BY DEF Unseen, Active, Known, Requests, Asks
  <2> QED
    BY NextKeeps, SMTT(30) DEF PowerEffect
<1> QED
  BY Invariance, <1>1, <1>2, PTL DEF Spec, RequestsTakeEffectOnce, PN!Spec, Active, Known, Requests, Asks

\* What holds while no patch is made from an old copy and maintenance is off.
Steady ==
    /\ left["stale"] = 0 /\ left["maintenance"] = 0 /\ ~maintenance
    /\ OnlyActiveOrdinals

\* A pass that does not patch from an old copy writes the size it has rendered.
LEMMA WorkersSelect ==
    ASSUME IInv, Steady, NEW ns \in NodeSets, ReconcileWorkers(ns)
    PROVE  OnlyActiveOrdinals'
<1> DEFINE S == pass[ns].active
           size == calculateReplicasAndReserveOrdinals(S)
<1>1. S \in OrdinalSet /\ Selected(size) = S
  BY SizeSelectsActive DEF IInv, NodeSetInv, Pass
<1>2. RenderedSize(S) = size
  BY DEF RenderedSize, Steady
<1>3. executeReconciliation(ns) /\ (stsCache[ns].exists => ~FromOldCopy(ns))
  BY DEF ReconcileWorkers, Spend, Steady
<1> HIDE DEF size
<1>4. ASSUME NEW m \in NodeSets, m # ns, pass'[m].pc = "status"
      PROVE  Selected(sts'[m]) = pass'[m].active
  <2>1. pass'[m] = pass[m] /\ sts'[m] = sts[m]
    BY <1>3, <1>4 DEF executeReconciliation, Fail, IInv, NodeSetInv
  <2> QED
    BY <1>4, <2>1 DEF Steady, OnlyActiveOrdinals
<1>5. ASSUME pass'[ns].pc = "status"
      PROVE  Selected(sts'[ns]) = pass'[ns].active
  <2>1. pass[ns] \in Pass /\ NoPass.pc = "idle"
    BY DEF IInv, NodeSetInv, NoPass
  <2>2. pass' = [pass EXCEPT ![ns].pc = "status"]
    BY <1>3, <1>5, <2>1 DEF executeReconciliation, Fail, IInv, NodeSetInv
  <2>3. pass'[ns].active = S
    BY <2>1, <2>2 DEF IInv, NodeSetInv, Pass
  <2>4. ~Fail(ns)
    BY <1>5, <2>1, SMTT(30) DEF Fail, IInv, NodeSetInv
  <2>5. sts'[ns].replicas = size.replicas /\ sts'[ns].reserve = size.reserve
    <3>0. sts[ns] \in SizedSet /\ stsCache[ns] \in SizedSet
      BY DEF IInv, NodeSetInv
    <3>1. CASE stsCache[ns].exists
      <4>1. sts'[ns] = Patch(sts[ns], stsCache[ns], size)
        BY <1>2, <1>3, <2>4, <3>1 DEF executeReconciliation, IInv, NodeSetInv
      <4>2. stsCache[ns].replicas = sts[ns].replicas /\ stsCache[ns].reserve = sts[ns].reserve
        BY <1>3, <3>0, <3>1, ZenonT(40) DEF FromOldCopy, SizedSet
      <4> QED
        BY <3>0, <4>1, <4>2 DEF Patch, SizedSet
    <3>2. CASE ~stsCache[ns].exists
      <4>1. sts'[ns] = [exists |-> TRUE, available |-> 0, replicas |-> size.replicas,
                        reserve |-> size.reserve]
        BY <1>2, <1>3, <2>4, <3>2, ZenonT(40) DEF executeReconciliation, IInv, NodeSetInv
      <4> QED
        BY <4>1
    <3> QED
      BY <3>1, <3>2
  <2>6. Selected(sts'[ns]) = Selected(size)
    BY <2>5, SMTT(30) DEF Selected
  <2> QED
    BY <1>1, <2>3, <2>6
<1> QED
  BY <1>4, <1>5 DEF OnlyActiveOrdinals

\* Steps that start no pass's status step, and leave the size alone.
LEMMA SameSelection ==
    ASSUME Steady,
           \A m \in NodeSets : Selected(sts'[m]) = Selected(sts[m]),
           \A m \in NodeSets : pass'[m] = pass[m] \/ pass'[m].pc # "status"
    PROVE  OnlyActiveOrdinals'
  BY DEF Steady, OnlyActiveOrdinals

LEMMA SteadyStep ==
    ASSUME IInv, Steady, [Next]_vars
    PROVE  Steady'
<1>1. left'["stale"] = 0 /\ left'["maintenance"] = 0
  <2>1. left' \in [Bounds -> Nat] /\ \A b \in Bounds : left'[b] <= left[b]
    BY NextKeeps DEF IInv
  <2>2. "stale" \in Bounds /\ "maintenance" \in Bounds
    BY DEF Bounds
  <2> QED
    BY <2>1, <2>2 DEF Steady
<1>2. ~Maintain
  BY DEF Maintain, Spend, Steady
<1>3. CASE UNCHANGED nsVars
  BY <1>1, <1>3 DEF nsVars, Steady, OnlyActiveOrdinals
<1>4. ASSUME NEW ns \in NodeSets, ReconcileWorkers(ns) PROVE Steady'
  <2>1. UNCHANGED maintenance
    BY <1>4, SMTT(30) DEF ReconcileWorkers, executeReconciliation
  <2> QED
    BY <1>1, <1>4, <2>1, WorkersSelect DEF Steady
<1>5. ASSUME NEW ns \in NodeSets, Kruise(ns) PROVE Steady'
  <2>1. PICK o \in 0 .. Replicas[ns] : CreatePod(ns, o) \/ DeletePod(ns, o)
    BY <1>5 DEF Kruise
  <2>2. o \in Int
    BY PowerAssumption, SMTT(30)
  <2>3. \A m \in NodeSets : Selected(sts'[m]) = Selected(sts[m])
    BY <2>1, <2>2, PodsType DEF IInv
  <2>4. UNCHANGED <<pass, maintenance>>
    BY <2>1 DEF CreatePod, DeletePod, StatefulSetPods
  <2> QED
    BY <1>1, <2>3, <2>4, SameSelection DEF Steady
<1>6. ASSUME \/ \E ns \in NodeSets : \/ reconcileNodeSetPowerState(ns) \/ GetCreated(ns)
                                     \/ ReportStatus(ns) \/ Sync(ns) \/ PassFails(ns)
             \/ OperatorRestarts
      PROVE  Steady'
  <2>1. UNCHANGED <<sts, maintenance>>
    BY <1>6, Zenon DEF reconcileNodeSetPowerState, GetCreated, ReportStatus, Sync, PassFails,
                OperatorRestarts, SyncPowerState, SyncStatefulSet
  <2>2. \A m \in NodeSets : pass'[m] = pass[m] \/ pass'[m].pc # "status"
    <3>1. NoPass.pc = "idle" /\ pass \in [NodeSets -> Pass]
      BY DEF NoPass, IInv, NodeSetInv
    <3>2. CASE OperatorRestarts
      BY <3>1, <3>2 DEF OperatorRestarts
    <3>3. ASSUME NEW ns \in NodeSets, Sync(ns)
          PROVE  UNCHANGED pass
      BY <3>3, SMTT(30) DEF Sync, SyncPowerState, SyncStatefulSet
    <3>4. ASSUME NEW ns \in NodeSets, \/ reconcileNodeSetPowerState(ns) \/ GetCreated(ns)
                                      \/ ReportStatus(ns) \/ PassFails(ns)
          PROVE  \/ pass' = [pass EXCEPT ![ns] = NoPass]
                 \/ pass' = [pass EXCEPT ![ns].pc = "created"]
                 \/ pass' = [pass EXCEPT ![ns] = [pc |-> "workers",
                                                  active |-> psCache[ns].activeNodes]]
      BY <3>4 DEF reconcileNodeSetPowerState, GetCreated, ReportStatus, PassFails, Fail,
                  ReadPowerState
    <3>5. ASSUME NEW ns \in NodeSets,
                 \/ pass' = [pass EXCEPT ![ns] = NoPass]
                 \/ pass' = [pass EXCEPT ![ns].pc = "created"]
                 \/ pass' = [pass EXCEPT ![ns] = [pc |-> "workers",
                                                  active |-> psCache[ns].activeNodes]]
          PROVE  \A m \in NodeSets : pass'[m] = pass[m] \/ pass'[m].pc # "status"
      BY <3>1, <3>5 DEF Pass
    <3> QED
      BY <1>6, <3>2, <3>3, <3>4, <3>5, SMTT(30)
  <2> QED
    BY <1>1, <2>1, <2>2, SameSelection, ZenonT(40) DEF Steady
<1>7. CASE UNCHANGED vars
  BY <1>3, <1>7, ZenonT(40) DEF vars
<1>8. CASE Next
  BY <1>2, <1>3, <1>4, <1>5, <1>6, <1>8, SlurmStep, ProgramsStep, SMTT(30)
     DEF Next, ControllerStep, ControllerFault
<1> QED
  BY <1>7, <1>8

\* When nothing is patched from an old copy and maintenance never starts, every
\* pass leaves a StatefulSet that runs the active ordinals the pass has read.
THEOREM ActiveOrdinals ==
    ASSUME \A s \in Scenarios : s["stale"] = 0 /\ s["maintenance"] = 0
    PROVE  Spec => []OnlyActiveOrdinals
<1>1. Init => Steady
  <2> SUFFICES ASSUME Init PROVE Steady
    OBVIOUS
  <2>1. left["stale"] = 0 /\ left["maintenance"] = 0
    BY DEF Init
  <2>2. maintenance = FALSE /\ pass = [ns \in NodeSets |-> NoPass]
    BY DEF Init, NodeSetInit
  <2>3. NoPass.pc = "idle"
    BY DEF NoPass
  <2>4. OnlyActiveOrdinals
    BY <2>2, <2>3 DEF OnlyActiveOrdinals
  <2> QED
    BY <2>1, <2>2, <2>4 DEF Steady
<1>2. IInv /\ Steady /\ [Next]_vars => Steady'
  BY SteadyStep
<1>3. Steady => OnlyActiveOrdinals
  BY DEF Steady
<1> QED
  BY Invariance, <1>1, <1>2, <1>3, PTL DEF Spec
=============================================================================
