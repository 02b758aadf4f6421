----------------------------- MODULE CiChildren -----------------------------
(***************************************************************************)
(* daemons/ControlInterface/ci_main.c: the main loop forks a process per   *)
(* client and keeps its number in a table; the SIGCHLD handler, which may  *)
(* interrupt the loop anywhere or run on the other thread, collects the    *)
(* processes that have ended and takes them out of it.                     *)
(*                                                                         *)
(* pc: accept (in socketAccept), forked (about to enter the new process),  *)
(* count (about to count), wait (asleep, for the rounds left in cnt), kill *)
(* (about to kill the oldest), dead (everything was killed).               *)
(* handler[h]: Idle, Run (about to call waitpid), or the number of the     *)
(* process it has collected and is about to take out of the table.  The    *)
(* signal is blocked while a thread handles it, on that thread only.       *)
(***************************************************************************)
EXTENDS Integers, Sequences, FiniteSets, FiniteSetsExt

CONSTANTS Pids,         \* process numbers; the kernel uses them again
          MaxChildren,  \* MAXCHILDREN
          Rounds,       \* how often the loop sleeps before it kills: 50
          Handlers,     \* the threads that handle signals: the loop, dbSaveThread
          LoopThread    \* the one that runs the loop

ASSUME ChildrenAssumption ==
    /\ MaxChildren \in Nat \ {0} /\ Rounds \in Nat
    /\ Pids \subseteq Nat \ (0 .. MaxChildren)
    /\ LoopThread \in Handlers

VARIABLES children,  \* the table: a process number, or 0
          proc,      \* the children the kernel knows: none, running, ended (a zombie)
          byAge,     \* the running ones, oldest first
          sigchld,   \* SIGCHLD is pending
          pc, cnt, new,
          handler

vars == <<children, proc, byAge, sigchld, pc, cnt, new, handler>>

main   == <<pc, cnt, new>>
kernel == <<proc, byAge, sigchld>>

Entries  == 0 .. MaxChildren - 1
Running  == {p \in Pids : proc[p] = "running"}
Listed   == {children[i] : i \in Entries} \ {0}
Nobody   == -1                                    \* a number that no process has
Idle     == -2                                    \* or else what a handler is about
Run      == -3
Fault    == -4                                    \* the read fails
numChildren == Cardinality({i \in Entries : children[i] # 0})

\* The entries that no process, and no handler that has collected one, stands behind.
Owned    == {p \in Listed : p # new /\ (proc[p] # "none" \/ \E h \in Handlers : handler[h] = p)}
LeftOver == numChildren - Cardinality(Owned)

Init ==
    /\ children = [i \in Entries |-> 0]
    /\ proc = [p \in Pids |-> "none"]
    /\ byAge = <<>>
    /\ sigchld = FALSE
    /\ pc = "accept" /\ cnt = 0 /\ new = 0
    /\ handler = [h \in Handlers |-> Idle]

-----------------------------------------------------------------------------
(* Processes                                                               *)

\* Processes end; the parent is told by a signal, one however many they are.
End(ps) ==
    /\ proc' = [p \in Pids |-> IF p \in ps /\ proc[p] = "running" THEN "ended" ELSE proc[p]]
    /\ byAge' = SelectSeq(byAge, LAMBDA p : p \notin ps)
    /\ sigchld' = (sigchld \/ ps \cap Running # {})

\* A client leaves, or is silent for ten seconds.
ClientDone(p) ==
    /\ pc # "dead" /\ p \in Running
    /\ End({p})
    /\ UNCHANGED <<children, main, handler>>

\* kill with the number 0 kills the process group: the server with all its children.
KillGroup ==
    /\ End(Pids)
    /\ pc' = "dead"
    /\ UNCHANGED <<children, cnt, new, handler>>

Free == {i \in Entries : children[i] = 0}

\* SIGTERM, SIGINT: an empty entry of the table does that, too.
Quit ==
    /\ pc # "dead"
    /\ IF Free # {}
          THEN KillGroup
          ELSE End(Listed) /\ pc' = "dead" /\ UNCHANGED <<children, cnt, new, handler>>

-----------------------------------------------------------------------------
(* The main loop                                                           *)

Goto(place) == pc' = place

\* The loop stands still while its thread handles a signal.
At(place) == pc = place /\ handler[LoopThread] = Idle

\* socketAccept and fork.  Numbers are not used again so soon that a handler still
\* works on the last process that had it.
Fork(p) ==
    /\ At("accept") /\ proc[p] = "none" /\ \A h \in Handlers : handler[h] # p
    /\ proc' = [proc EXCEPT ![p] = "running"]
    /\ byAge' = Append(byAge, p)
    /\ new' = p
    /\ Goto("forked")
    /\ UNCHANGED <<children, sigchld, cnt, handler>>

\* addChild
AddChild ==
    /\ At("forked") /\ Free # {}
    /\ children' = [children EXCEPT ![Min(Free)] = new]
    /\ new' = 0
    /\ Goto("count")
    /\ UNCHANGED <<kernel, cnt, handler>>

\* Faulty variant: the result of addChild is not looked at.
LetGo ==
    /\ At("forked") /\ Free = {}
    /\ new' = 0
    /\ Goto("accept")
    /\ UNCHANGED <<children, kernel, cnt, handler>>

\* Too many children: the new one is killed.
Refuse ==
    /\ At("forked") /\ Free = {}
    /\ End({new})
    /\ new' = 0
    /\ Goto("accept")
    /\ UNCHANGED <<children, cnt, handler>>

\* Nothing but a short sleep follows when there is room.
Count ==
    /\ At("count")
    /\ IF numChildren >= MaxChildren
          THEN Goto("wait") /\ cnt' = Rounds
          ELSE Goto("accept") /\ UNCHANGED cnt
    /\ UNCHANGED <<children, kernel, new, handler>>

\* Faulty variants: the number of sleeps is not looked at; it is not counted.
WaitPast0 ==
    /\ At("wait")
    /\ IF numChildren >= MaxChildren
          THEN Goto("wait") /\ cnt' = cnt - 1
          ELSE Goto("accept") /\ cnt' = 0
    /\ UNCHANGED <<children, kernel, new, handler>>

WaitForRoom ==
    /\ At("wait")
    /\ Goto(IF numChildren >= MaxChildren THEN "wait" ELSE "accept")
    /\ UNCHANGED <<children, kernel, cnt, new, handler>>

\* The end of a sleep: cnt-- > 0 && numChildren() >= MAXCHILDREN; cnt < 0
Wait ==
    /\ At("wait")
    /\ IF cnt = 0 THEN Goto("kill") /\ UNCHANGED cnt
       ELSE IF numChildren >= MaxChildren THEN Goto("wait") /\ cnt' = cnt - 1
       ELSE Goto("accept") /\ cnt' = 0
    /\ UNCHANGED <<children, kernel, new, handler>>

\* killOldest takes the smallest number in the table for an index.  It is no index unless
\* an entry has become free: what is read behind the table may name no process, be 0, or
\* stop the server.
KillOldest ==
    /\ At("kill")
    /\ LET oldest == Min({children[i] : i \in Entries})
           found  == IF oldest \in Entries THEN {children[oldest]} ELSE {0, Nobody, Fault}
       IN  \E victim \in found :
              IF victim = 0
                 THEN KillGroup
                 ELSE /\ End({victim})
                      /\ Goto(IF victim = Fault THEN "dead" ELSE "accept")
                      /\ UNCHANGED <<children, cnt, new, handler>>

-----------------------------------------------------------------------------
(* The SIGCHLD handler                                                     *)

Handle(h, next) == handler' = [handler EXCEPT ![h] = next]

Signal(h) ==
    /\ pc # "dead" /\ sigchld /\ handler[h] = Idle
    /\ sigchld' = FALSE
    /\ Handle(h, Run)
    /\ UNCHANGED <<children, proc, byAge, main>>

\* waitpid collects a process that has ended ...
Collect(h, p) ==
    /\ pc # "dead" /\ handler[h] = Run /\ proc[p] = "ended"
    /\ proc' = [proc EXCEPT ![p] = "none"]
    /\ Handle(h, p)
    /\ UNCHANGED <<children, byAge, sigchld, main>>

\* ... until there is none.
HandlerDone(h) ==
    /\ pc # "dead" /\ handler[h] = Run /\ \A p \in Pids : proc[p] # "ended"
    /\ Handle(h, Idle)
    /\ UNCHANGED <<children, kernel, main>>

Taken(p) == LET at == {i \in Entries : children[i] = p}
            IN  IF at = {} THEN children ELSE [children EXCEPT ![Min(at)] = 0]

\* Faulty variant: one process per signal.
RemoveOne(h) ==
    /\ pc # "dead" /\ handler[h] \in Pids
    /\ children' = Taken(handler[h])
    /\ Handle(h, Idle)
    /\ UNCHANGED <<kernel, main>>

\* Faulty variant: nothing is taken out of the table.
RemoveNothing(h) ==
    /\ pc # "dead" /\ handler[h] \in Pids
    /\ Handle(h, Run)
    /\ UNCHANGED <<children, kernel, main>>

\* remChild: the first entry with the number, if there is one.
Remove(h) ==
    /\ pc # "dead" /\ handler[h] \in Pids
    /\ children' = Taken(handler[h])
    /\ Handle(h, Run)
    /\ UNCHANGED <<kernel, main>>

-----------------------------------------------------------------------------

Loop       == AddChild \/ Refuse \/ Count \/ Wait \/ KillOldest
Handler(h) == Signal(h) \/ HandlerDone(h) \/ Remove(h) \/ \E p \in Pids : Collect(h, p)

Next ==
    \/ \E p \in Pids : Fork(p) \/ ClientDone(p)
    \/ Loop
    \/ \E h \in Handlers : Handler(h)
    \/ Quit

Spec == Init /\ [][Next]_vars

(* The loop and the handlers run on; waitpid does not pass over a process for ever, because the *)
(* kernel looks through the children of a process in the order of their births.    *)
Fairness == /\ WF_vars(Loop)
            /\ \A h \in Handlers : WF_vars(Handler(h)) /\ \A p \in Pids : SF_vars(Collect(h, p))

FairSpec == Spec /\ Fairness

-----------------------------------------------------------------------------
(* Properties                                                              *)

TypeOK ==
    /\ children \in [Entries -> Pids \cup {0}]
    /\ proc \in [Pids -> {"none", "running", "ended"}]
    /\ sigchld \in BOOLEAN
    /\ pc \in {"accept", "forked", "count", "wait", "kill", "dead"}
    /\ cnt \in 0 .. Rounds /\ new \in Pids \cup {0}
    /\ handler \in [Handlers -> Pids \cup {Idle, Run}]

\* A running child is in the table or about to be entered, so that there are never more
\* clients than the table has entries and one.
RunningAreListed == pc # "dead" => Running \subseteq Listed \cup {new}

\* The table fills up in one way only: with a child that ended and was collected before
\* the loop had entered it.
OnlyMissedEntriesStay ==
    [][LeftOver' > LeftOver /\ pc' # "dead" =>
          AddChild /\ proc[new] = "none" /\ \A h \in Handlers : handler[h] # new]_vars

\* Every process that has ended is collected, although one signal may stand for several.
ChildrenAreCollected ==
    \A p \in Pids : proc[p] = "ended" ~> proc[p] = "none" \/ pc = "dead"

\* Whatever the children do, the loop comes back for the next client.
ClientsAreAccepted == pc # "accept" ~> pc \in {"accept", "dead"}

\* When no child has gone within ten seconds the oldest one is killed, and nobody else.
OldestIsKilled ==
    [][KillOldest /\ byAge # <<>> =>
          {p \in Running : proc'[p] # "running"} = {Head(byAge)}]_vars
=============================================================================
