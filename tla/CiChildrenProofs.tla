-------------------------- MODULE CiChildrenProofs --------------------------
(* The table of children is right for every number of processes, entries,  *)
(* rounds and threads that handle signals: no client runs without an entry.*)
EXTENDS CiChildren, FiniteSetTheorems, WellFoundedInduction, TLAPS

\* A process that a handler has collected has no successor with its number yet.
CollectedAreGone == \A h \in Handlers : handler[h] \in Pids => proc[handler[h]] = "none"

\* The loop holds a new process from fork to addChild only.
NewIsForked == pc # "dead" => IF pc = "forked" THEN new \in Pids ELSE new = 0

\* The inductive invariant.
IInv == TypeOK /\ NewIsForked /\ CollectedAreGone /\ RunningAreListed

-----------------------------------------------------------------------------
(* Lemmas                                                                  *)

\* A set of numbers that is not empty has a least element, as the first free entry and the
\* first entry with a number are found.
LEMMA Least ==
  ASSUME NEW S \in SUBSET Nat, S # {}
  PROVE  Min(S) \in S
<1> DEFINE Less == OpToRel(<, Nat)
<1>1. IsWellFoundedOn(Less, Nat)
  BY NatLessThanWellFounded
<1>2. \A x, y \in Nat : y < x => <<y, x>> \in Less
  BY DEF OpToRel
<1> HIDE DEF Less
<1>3. PICK x \in S : \A y \in S : ~ (<<y, x>> \in Less)
  BY <1>1, WFMin
<1>4. ASSUME NEW y \in S PROVE x <= y
  <2>1. x \in Nat /\ y \in Nat
    OBVIOUS
  <2>2. ~ (y < x)
    BY <1>2, <1>3, <2>1
  <2> QED
    BY <2>1, <2>2
<1> QED
  BY <1>4 DEF Min

LEMMA FirstFree == Free # {} => Min(Free) \in Free
<1>1. Free \in SUBSET Nat
  BY ChildrenAssumption DEF Free, Entries, ChildrenAssumption
<1> QED
  BY <1>1, Least

\* Numbers of processes are neither 0 nor what a handler does when it has none.
LEMMA Numbers == Pids \subseteq Nat /\ 0 \notin Pids /\ Idle \notin Pids /\ Run \notin Pids
BY ChildrenAssumption DEF Idle, Run, ChildrenAssumption

\* The end of some processes makes no other one run.
LEMMA EndKeeps ==
  ASSUME TypeOK, CollectedAreGone, RunningAreListed, NEW ps, End(ps),
         UNCHANGED <<children, handler>>
  PROVE  /\ proc' \in [Pids -> {"none", "running", "ended"}] /\ sigchld' \in BOOLEAN
         /\ Running' \subseteq Running \ ps
         /\ Listed' = Listed
         /\ CollectedAreGone'
<1>1. proc' = [p \in Pids |-> IF p \in ps /\ proc[p] = "running" THEN "ended" ELSE proc[p]]
  BY DEF End
<1>2. sigchld' \in BOOLEAN
  BY DEF End
<1>3. Running' \subseteq Running \ ps
  BY <1>1 DEF Running
<1>4. Listed' = Listed
  BY DEF Listed
<1>5. proc' \in [Pids -> {"none", "running", "ended"}]
  BY <1>1 DEF TypeOK
<1>6. CollectedAreGone'
  BY <1>1 DEF CollectedAreGone
<1> QED
  BY <1>2, <1>3, <1>4, <1>5, <1>6

-----------------------------------------------------------------------------
(* The invariant                                                           *)

LEMMA InitIInv == Init => IInv
<1> SUFFICES ASSUME Init PROVE IInv
  OBVIOUS
<1>1. TypeOK
  <2>1. cnt \in 0 .. Rounds
    BY ChildrenAssumption DEF Init, ChildrenAssumption
  <2>2. sigchld \in BOOLEAN
    BY DEF Init
  <2> QED
    BY <2>1, <2>2 DEF Init, TypeOK
<1>2. CollectedAreGone /\ RunningAreListed
  BY Numbers DEF Init, CollectedAreGone, RunningAreListed, Running
<1> QED
  BY <1>1, <1>2 DEF Init, IInv, NewIsForked

\* A step in which processes end, and perhaps the loop goes on.
LEMMA EndStep ==
  ASSUME IInv, NEW ps, End(ps), UNCHANGED <<children, cnt, handler>>,
         \/ pc' = pc /\ new' = new
         \/ pc' = "accept" /\ pc # "forked" /\ new' = new
         \/ pc' = "dead" /\ new' = new
         \/ pc' = "accept" /\ new' = 0 /\ new \in ps,
         pc # "dead"
  PROVE  IInv'
<1> USE DEF IInv
<1>1. /\ proc' \in [Pids -> {"none", "running", "ended"}] /\ sigchld' \in BOOLEAN
      /\ Running' \subseteq Running \ ps
      /\ Listed' = Listed
      /\ CollectedAreGone'
  BY EndKeeps
<1>2. TypeOK'
  BY <1>1 DEF TypeOK
<1>3. NewIsForked'
  BY DEF NewIsForked
<1>4. RunningAreListed'
  BY <1>1 DEF RunningAreListed
<1> QED
  BY <1>1, <1>2, <1>3, <1>4

LEMMA NextIInv == IInv /\ [Next]_vars => IInv'
<1> SUFFICES ASSUME IInv, [Next]_vars PROVE IInv'
  OBVIOUS
<1>1. CASE UNCHANGED vars
  BY <1>1 DEF vars, IInv, TypeOK, NewIsForked, CollectedAreGone, RunningAreListed, Running, Listed
<1>2. ASSUME NEW p \in Pids, Fork(p) PROVE IInv'
  <2>1. /\ proc' = [proc EXCEPT ![p] = "running"] /\ new' = p /\ pc' = "forked" /\ pc = "accept"
        /\ \A h \in Handlers : handler[h] # p
        /\ UNCHANGED <<children, sigchld, cnt, handler>>
    BY <1>2 DEF Fork, At, Goto
  <2>2. TypeOK'
    BY <2>1 DEF TypeOK, IInv
  <2>3. CollectedAreGone'
    BY <2>1 DEF CollectedAreGone, IInv, TypeOK
  <2>4. Running' \subseteq Running \cup {p} /\ Listed' = Listed
    BY <2>1 DEF Running, Listed, IInv, TypeOK
  <2>5. Running \subseteq Listed
    BY <2>1, Numbers DEF IInv, RunningAreListed, NewIsForked, Running
  <2> QED
    BY <2>1, <2>2, <2>3, <2>4, <2>5 DEF IInv, RunningAreListed, NewIsForked
<1>3. ASSUME NEW p \in Pids, ClientDone(p) PROVE IInv'
  BY <1>3, EndStep DEF ClientDone, main
<1>4. CASE AddChild
  <2> DEFINE i == Min(Free)
  <2>1. /\ children' = [children EXCEPT ![i] = new] /\ new' = 0 /\ pc' = "count" /\ pc = "forked"
        /\ UNCHANGED <<proc, sigchld, cnt, handler>>
    BY <1>4 DEF AddChild, Goto, At, kernel
  <2>2. i \in Entries /\ children[i] = 0
    BY <1>4, FirstFree DEF AddChild, Free
  <2> HIDE DEF i
  <2>3. new \in Pids
    BY <2>1 DEF IInv, NewIsForked
  <2>4. TypeOK'
    BY <2>1, <2>2, <2>3 DEF TypeOK, IInv
  <2>5. Listed \cup {new} \subseteq Listed'
    BY <2>1, <2>2, <2>3, Numbers DEF Listed, IInv, TypeOK
  <2>6. RunningAreListed'
    BY <2>1, <2>5 DEF RunningAreListed, Running, IInv
  <2>7. CollectedAreGone' /\ NewIsForked'
    BY <2>1 DEF CollectedAreGone, IInv, NewIsForked
  <2> QED
    BY <2>4, <2>6, <2>7 DEF IInv
<1>5. CASE Refuse
  BY <1>5, EndStep DEF Refuse, At, Goto
<1>6. CASE Count
  \* only the loop moves
  <2>1. TypeOK'
    BY <1>6, ChildrenAssumption DEF Count, At, Goto, kernel, TypeOK, IInv, ChildrenAssumption
  <2> QED
    BY <1>6, <2>1 DEF Count, At, Goto, kernel, IInv, NewIsForked, CollectedAreGone, RunningAreListed, Running, Listed
<1>7. CASE Wait
  <2>1. TypeOK'
    BY <1>7, ChildrenAssumption DEF Wait, At, Goto, kernel, TypeOK, IInv, ChildrenAssumption
  <2> QED
    BY <1>7, <2>1 DEF Wait, At, Goto, kernel, IInv, NewIsForked, CollectedAreGone, RunningAreListed, Running, Listed
<1>8. CASE KillOldest
  \* whoever is killed, the table and the numbers stay
  <2>1. pc = "kill"
    BY <1>8 DEF KillOldest, At
  <2>2. PICK ps : End(ps) /\ UNCHANGED <<children, cnt, new, handler>> /\ pc' \in {"accept", "dead"}
    BY <1>8 DEF KillOldest, KillGroup, Goto
  <2> QED
    BY <2>1, <2>2, EndStep
<1>9. CASE Quit
  BY <1>9, EndStep DEF Quit, KillGroup
<1>10. ASSUME NEW h \in Handlers, Signal(h) \/ HandlerDone(h) PROVE IInv'
  <2>1. /\ sigchld' \in BOOLEAN /\ UNCHANGED <<children, proc, pc, cnt, new>>
        /\ handler' = [handler EXCEPT ![h] = Run] \/ handler' = [handler EXCEPT ![h] = Idle]
    BY <1>10 DEF Signal, HandlerDone, Handle, main, kernel, IInv, TypeOK
  <2>2. TypeOK' /\ CollectedAreGone'
    BY <2>1, Numbers DEF IInv, TypeOK, CollectedAreGone
  <2> QED
    BY <2>1, <2>2 DEF IInv, NewIsForked, RunningAreListed, Running, Listed
<1>11. ASSUME NEW h \in Handlers, NEW p \in Pids, Collect(h, p) PROVE IInv'
  <2>1. /\ proc' = [proc EXCEPT ![p] = "none"] /\ handler' = [handler EXCEPT ![h] = p]
        /\ UNCHANGED <<children, sigchld, pc, cnt, new>>
    BY <1>11 DEF Collect, Handle, main
  <2>2. TypeOK' /\ CollectedAreGone'
    BY <2>1 DEF IInv, TypeOK, CollectedAreGone
  <2>3. Running' \subseteq Running /\ Listed' = Listed
    BY <2>1 DEF IInv, TypeOK, Running, Listed
  <2> QED
    BY <2>1, <2>2, <2>3 DEF IInv, NewIsForked, RunningAreListed
<1>12. ASSUME NEW h \in Handlers, Remove(h) PROVE IInv'
  <2> DEFINE p == handler[h]
  <2>1. /\ children' = Taken(p) /\ handler' = [handler EXCEPT ![h] = Run] /\ p \in Pids
        /\ UNCHANGED <<proc, sigchld, pc, cnt, new>>
    BY <1>12 DEF Remove, Handle, main, kernel
  <2>2. /\ children' \in [Entries -> Pids \cup {0}]
        /\ \A i \in Entries : children'[i] = children[i] \/ children[i] = p
    \* one entry becomes 0: the first with the number, if there is one
    <3> DEFINE at == {i \in Entries : children[i] = p}
    <3>1. CASE at = {}
      BY <2>1, <3>1 DEF Taken, IInv, TypeOK
    <3>2. CASE at # {}
      <4>1. at \in SUBSET Nat
        BY ChildrenAssumption DEF Entries, ChildrenAssumption
      <4>2. Min(at) \in at
        BY <3>2, <4>1, Least
      <4>3. children' = [children EXCEPT ![Min(at)] = 0]
        BY <2>1, <3>2 DEF Taken
      <4> QED
        BY <4>2, <4>3 DEF IInv, TypeOK
    <3> QED
      BY <3>1, <3>2
  <2>3. TypeOK'
    BY <2>1, <2>2 DEF IInv, TypeOK
  <2>4. CollectedAreGone'
    BY <2>1, Numbers DEF IInv, TypeOK, CollectedAreGone
  <2>5. p \notin Running
    BY <2>1 DEF IInv, CollectedAreGone, Running
  <2>6. Listed \ {p} \subseteq Listed'
    BY <2>2 DEF Listed
  <2> QED
    BY <2>1, <2>3, <2>4, <2>5, <2>6 DEF IInv, NewIsForked, RunningAreListed, Running
<1> QED
  BY <1>1, <1>2, <1>3, <1>4, <1>5, <1>6, <1>7, <1>8, <1>9, <1>10, <1>11, <1>12 DEF Next, Loop, Handler

-----------------------------------------------------------------------------
(* Entries that are left over                                              *)

Used == {i \in Entries : children[i] # 0}

\* The table is finite, and so are the processes in it.
Finite == /\ IsFiniteSet(Used) /\ IsFiniteSet(Owned)
          /\ Cardinality(Used) \in Nat /\ Cardinality(Owned) \in Nat

LEMMA TableIsFinite == TypeOK => Finite
<1> SUFFICES ASSUME TypeOK PROVE Finite
  OBVIOUS
<1>1. IsFiniteSet(Entries)
  BY ChildrenAssumption, FS_Interval DEF Entries, ChildrenAssumption
<1>2. IsFiniteSet(Used)
  BY <1>1, FS_Subset DEF Used
<1>3. IsFiniteSet(Owned)
  <2> DEFINE T == {children[i] : i \in Entries}
  <2>1. children \in Surjection(Entries, T)
    BY DEF Surjection, TypeOK
  <2>2. IsFiniteSet(T)
    BY <1>1, <2>1, FS_Surjection
  <2>3. Owned \subseteq T
    BY DEF Owned, Listed
  <2> QED
    BY <2>2, <2>3, FS_Subset
<1> QED
  BY <1>2, <1>3, FS_CardinalityType DEF Finite

LEMMA TableStaysFinite == TypeOK' => Finite'
BY TableIsFinite, PTL

\* While the table stays and everybody keeps a process behind its entry, no entry is left over.
LEMMA TableStays ==
  ASSUME TypeOK, TypeOK', UNCHANGED children, Owned \subseteq Owned'
  PROVE  ~ (LeftOver' > LeftOver)
<1>1. Used' = Used
  BY DEF Used
<1>2. Cardinality(Owned) <= Cardinality(Owned') /\ IsFiniteSet(Owned')
  BY TableIsFinite, TableStaysFinite, FS_Subset DEF Finite
<1>3. /\ LeftOver = Cardinality(Used) - Cardinality(Owned)
      /\ LeftOver' = Cardinality(Used') - Cardinality(Owned')
  BY DEF LeftOver, numChildren, Used
<1>4. /\ Cardinality(Used) \in Nat /\ Cardinality(Owned) \in Nat
      /\ Cardinality(Used') \in Nat /\ Cardinality(Owned') \in Nat
  BY TableIsFinite, TableStaysFinite DEF Finite
<1> QED
  BY <1>1, <1>2, <1>3, <1>4

\* remChild empties one entry, and one process loses its own.
LEMMA RemoveLeavesNone ==
  ASSUME IInv, IInv', NEW h \in Handlers, Remove(h)
  PROVE  ~ (LeftOver' > LeftOver)
<1> DEFINE p  == handler[h]
           at == {i \in Entries : children[i] = p}
<1>1. /\ children' = Taken(p) /\ handler' = [handler EXCEPT ![h] = Run] /\ p \in Pids
      /\ UNCHANGED <<proc, new>>
  BY DEF Remove, Handle, main, kernel
<1>2. TypeOK /\ TypeOK'
  BY DEF IInv
<1>3. \A q \in Owned : q # p => (proc[q] # "none" \/ \E g \in Handlers : handler'[g] = q) /\ q # new
  BY <1>1, Numbers DEF Owned, Listed, TypeOK, IInv
<1>4. CASE at = {}
  <2>1. UNCHANGED children /\ p \notin Owned
    BY <1>1, <1>4 DEF Taken, Owned, Listed
  <2>2. Owned \subseteq Owned'
    BY <1>1, <1>3, <2>1 DEF Owned, Listed
  <2> QED
    BY <1>2, <2>1, <2>2, TableStays
<1>5. CASE at # {}
  <2>1. PICK i \in at : children' = [children EXCEPT ![i] = 0]
    <3>1. at \in SUBSET Nat
      BY ChildrenAssumption DEF Entries, ChildrenAssumption
    <3>2. Min(at) \in at
      BY <1>5, <3>1, Least
    <3> QED
      BY <1>1, <1>5, <3>2 DEF Taken
  <2>2. Used' = Used \ {i} /\ i \in Used
    BY <1>1, <1>2, <2>1, Numbers DEF Used, TypeOK
  <2>3. Owned \ {p} \subseteq Owned'
    <3> SUFFICES ASSUME NEW q \in Owned, q # p PROVE q \in Owned'
      OBVIOUS
    <3>1. PICK k \in Entries : children[k] = q /\ q # 0 /\ q \in Pids
      BY <1>2 DEF Owned, Listed, TypeOK
    <3>2. children'[k] = q
      BY <1>2, <2>1, <3>1 DEF TypeOK
    <3> QED
      BY <1>1, <1>3, <3>1, <3>2 DEF Owned, Listed
  <2> HIDE DEF p, at
  <2>4. Cardinality(Used') = Cardinality(Used) - 1
    BY <1>2, <2>2, TableIsFinite, FS_RemoveElement DEF Finite
  <2>5. Cardinality(Owned) - 1 <= Cardinality(Owned')
    <3>1. IsFiniteSet(Owned \ {p}) /\ Cardinality(Owned \ {p}) >= Cardinality(Owned) - 1
      BY <1>2, TableIsFinite, FS_RemoveElement DEF Finite
    <3>2. IsFiniteSet(Owned') /\ Cardinality(Owned') \in Nat
      BY <1>2, TableStaysFinite DEF Finite
    <3>3. Cardinality(Owned \ {p}) <= Cardinality(Owned')
      BY <2>3, <3>2, FS_Subset
    <3>4. Cardinality(Owned \ {p}) \in Nat /\ Cardinality(Owned) \in Nat
      BY <1>2, <3>1, TableIsFinite, FS_CardinalityType DEF Finite
    <3> QED
      BY <3>1, <3>2, <3>3, <3>4
  <2>6. /\ LeftOver = Cardinality(Used) - Cardinality(Owned)
        /\ LeftOver' = Cardinality(Used') - Cardinality(Owned')
    BY DEF LeftOver, numChildren, Used
  <2>7. /\ Cardinality(Used) \in Nat /\ Cardinality(Owned) \in Nat
        /\ Cardinality(Used') \in Nat /\ Cardinality(Owned') \in Nat
    BY <1>2, TableIsFinite, TableStaysFinite DEF Finite
  <2> QED
    BY <2>4, <2>5, <2>6, <2>7
<1> QED
  BY <1>4, <1>5

\* addChild fills one entry, for a process that is still known or that a handler is about
\* to take out again.
LEMMA AddLeavesNone ==
  ASSUME IInv, IInv', AddChild, proc[new] # "none" \/ \E h \in Handlers : handler[h] = new
  PROVE  ~ (LeftOver' > LeftOver)
<1> DEFINE i == Min(Free)
<1>1. /\ children' = [children EXCEPT ![i] = new] /\ new' = 0 /\ new \in Pids
      /\ UNCHANGED <<proc, handler>> /\ i \in Entries /\ children[i] = 0
  BY FirstFree DEF AddChild, Goto, At, kernel, Free, IInv, NewIsForked
<1>2. TypeOK /\ TypeOK'
  BY DEF IInv
<1> HIDE DEF i
<1>3. Used' = Used \cup {i} /\ i \notin Used
  BY <1>1, <1>2, Numbers DEF Used, TypeOK
<1>4. new \notin Owned /\ Owned \cup {new} \subseteq Owned'
  <2>1. ASSUME NEW q \in Owned PROVE q \in Owned'
    <3>1. PICK k \in Entries : children[k] = q /\ q # 0 /\ q \in Pids
      BY <1>2 DEF Owned, Listed, TypeOK
    <3>2. children'[k] = q
      BY <1>1, <1>2, <3>1 DEF TypeOK
    <3> QED
      BY <1>1, <3>1, <3>2 DEF Owned, Listed
  <2>2. new \in Listed'
    BY <1>1, <1>2, Numbers DEF Listed, TypeOK
  <2> QED
    BY <1>1, <2>1, <2>2, Numbers DEF Owned
<1>5. Cardinality(Used') = Cardinality(Used) + 1
  BY <1>2, <1>3, TableIsFinite, FS_AddElement DEF Finite
<1>6. Cardinality(Owned) + 1 <= Cardinality(Owned')
  <2>1. IsFiniteSet(Owned \cup {new}) /\ Cardinality(Owned \cup {new}) = Cardinality(Owned) + 1
    BY <1>2, <1>4, TableIsFinite, FS_AddElement DEF Finite
  <2>2. Cardinality(Owned \cup {new}) <= Cardinality(Owned')
    BY <1>2, <1>4, TableStaysFinite, FS_Subset DEF Finite
  <2> QED
    BY <2>1, <2>2
<1>7. /\ LeftOver = Cardinality(Used) - Cardinality(Owned)
      /\ LeftOver' = Cardinality(Used') - Cardinality(Owned')
  BY DEF LeftOver, numChildren, Used
<1>8. /\ Cardinality(Used) \in Nat /\ Cardinality(Owned) \in Nat
      /\ Cardinality(Used') \in Nat /\ Cardinality(Owned') \in Nat
  BY <1>2, TableIsFinite, TableStaysFinite DEF Finite
<1> QED
  BY <1>5, <1>6, <1>7, <1>8

LEMMA OtherStepsLeaveNone ==
  ASSUME IInv, IInv', [Next]_vars, pc' # "dead", ~AddChild, \A h \in Handlers : ~Remove(h)
  PROVE  ~ (LeftOver' > LeftOver)
<1> USE DEF IInv
<1>1. UNCHANGED children /\ Owned \subseteq Owned'
  <2>1. CASE UNCHANGED vars
    BY <2>1 DEF vars, Owned, Listed
  <2>2. ASSUME NEW q \in Pids, Fork(q) PROVE UNCHANGED children /\ Owned \subseteq Owned'
    <3>1. /\ proc' = [proc EXCEPT ![q] = "running"] /\ new' = q /\ proc[q] = "none"
          /\ \A h \in Handlers : handler[h] # q
          /\ UNCHANGED <<children, handler>>
      BY <2>2 DEF Fork
    <3>2. q \notin Owned
      BY <3>1 DEF Owned
    <3> QED
      BY <3>1, <3>2 DEF Owned, Listed, TypeOK
  <2>3. ASSUME NEW ps, End(ps), UNCHANGED <<children, handler>>, new' \in {new, 0}
        PROVE  UNCHANGED children /\ Owned \subseteq Owned'
    <3>1. \A q \in Listed : proc[q] # "none" => proc'[q] # "none"
      BY <2>3 DEF End, Listed, TypeOK
    <3> QED
      BY <2>3, <3>1, Numbers DEF Owned, Listed, TypeOK
  <2>4. ASSUME NEW q \in Pids, ClientDone(q) PROVE UNCHANGED children /\ Owned \subseteq Owned'
    BY <2>3, <2>4 DEF ClientDone, main
  <2>5. CASE Refuse
    BY <2>3, <2>5 DEF Refuse
  <2>6. CASE KillOldest
    BY <2>3, <2>6 DEF KillOldest, KillGroup
  <2>7. CASE Count \/ Wait
    BY <2>7 DEF Count, Wait, kernel, Owned, Listed
  <2>8. ASSUME NEW h \in Handlers, Signal(h) \/ HandlerDone(h)
        PROVE  UNCHANGED children /\ Owned \subseteq Owned'
    <3>1. /\ UNCHANGED <<children, proc, new>> /\ handler[h] \in {Idle, Run}
          /\ \A g \in Handlers \ {h} : handler'[g] = handler[g]
      BY <2>8 DEF Signal, HandlerDone, Handle, main, kernel, TypeOK
    <3>2. Owned \subseteq Pids
      BY DEF Owned, Listed, TypeOK
    <3> QED
      BY <3>1, <3>2, Numbers DEF Owned, Listed
  <2>9. ASSUME NEW h \in Handlers, NEW q \in Pids, Collect(h, q)
        PROVE  UNCHANGED children /\ Owned \subseteq Owned'
    <3>1. /\ UNCHANGED <<children, new>> /\ handler[h] = Run
          /\ handler' = [handler EXCEPT ![h] = q] /\ proc' = [proc EXCEPT ![q] = "none"]
      BY <2>9 DEF Collect, Handle, main
    <3>2. Owned \subseteq Pids
      BY DEF Owned, Listed, TypeOK
    <3>3. \A r \in Owned : proc'[r] # "none" \/ \E g \in Handlers : handler'[g] = r
      BY <3>1, <3>2, Numbers DEF Owned, TypeOK
    <3> QED
      BY <3>1, <3>3 DEF Owned, Listed
  <2>10. CASE Quit
    BY <2>10 DEF Quit, KillGroup
  <2> QED
    BY <2>1, <2>2, <2>4, <2>5, <2>6, <2>7, <2>8, <2>9, <2>10 DEF Next, Loop, Handler
<1> QED
  BY <1>1, TableStays

-----------------------------------------------------------------------------
(* The theorems                                                            *)

\* The table holds process numbers and the loop's count of sleeps stays in its range.
THEOREM ChildrenTypeCorrect == Spec => []TypeOK
<1>1. IInv => TypeOK
  BY DEF IInv
<1> QED
  BY InitIInv, NextIInv, <1>1, PTL DEF Spec

\* For any number of process numbers and entries, signal handlers on any number of threads
\* and any order of ends and signals, every running client is in the table or about to be
\* entered: what killAllChildren and the limit of ten rest on.
THEOREM RunningChildrenAreListed == Spec => []RunningAreListed
<1>1. IInv => RunningAreListed
  BY DEF IInv
<1> QED
  BY InitIInv, NextIInv, <1>1, PTL DEF Spec

\* However many children end while however many threads collect them, an entry is left over
\* for good in one case only: the loop enters a child that ended and was collected before.
THEOREM OnlyMissedOnesStay == Spec => OnlyMissedEntriesStay
<1>1. IInv /\ IInv' /\ [Next]_vars =>
        [LeftOver' > LeftOver /\ pc' # "dead" =>
           AddChild /\ proc[new] = "none" /\ \A h \in Handlers : handler[h] # new]_vars
  BY AddLeavesNone, RemoveLeavesNone, OtherStepsLeaveNone
<1> QED
  BY <1>1, InitIInv, NextIInv, PTL DEF Spec, OnlyMissedEntriesStay
=============================================================================
