--------------------------- MODULE ThreadExample ---------------------------
(***************************************************************************)
(* src/examples/thread_example.cpp: main() starts two threads that print   *)
(* some lines, joins them one after the other and prints its last line.    *)
(* The three threads share std::cout.  A line is several insertions, the   *)
(* last of them std::endl, and the insertions of different threads may     *)
(* alternate: here a line is its text and its end, two steps.              *)
(***************************************************************************)
EXTENDS Naturals, Sequences

VARIABLES started,   \* the threads that run or have run
          at,        \* the statement at which every thread is
          begun,     \* has the thread inserted the text of the line it prints?
          cursor     \* "start" of a line or "within" one

threadVars == <<started, at, begun, cursor>>

dummyFunction(sleep) ==
    <<"print", "print">> \o (IF sleep THEN <<"print", "sleep">> ELSE << >>) \o <<"print">>

\* The statements of each thread.  Those of main() start t1 and t2, announce
\* that it waits, join t1 and t2, and say goodbye.
Code == [t1 |-> dummyFunction(FALSE), t2 |-> dummyFunction(TRUE),
         main |-> <<"start", "start", "print", "join", "join", "print">>]

Threads == DOMAIN Code
Ended(t) == at[t] > Len(Code[t])

ThreadInit ==
    /\ started = {"main"}
    /\ at = [t \in Threads |-> 1]
    /\ begun = [t \in Threads |-> FALSE]
    /\ cursor = "start"

\* Thread t is at a statement of this kind.
IsAt(t, kind) == t \in started /\ ~Ended(t) /\ Code[t][at[t]] = kind
Done(t) == at' = [at EXCEPT ![t] = @ + 1]

\* The thread that main() starts or joins at its statement.
Started == IF at["main"] = 1 THEN "t1" ELSE "t2"
Joined == IF at["main"] = 4 THEN "t1" ELSE "t2"

InsertText(t) ==
    /\ IsAt(t, "print") /\ ~begun[t]
    /\ begun' = [begun EXCEPT ![t] = TRUE]
    /\ cursor' = "within"
    /\ UNCHANGED <<started, at>>

InsertEndl(t) ==
    /\ IsAt(t, "print") /\ begun[t]
    /\ begun' = [begun EXCEPT ![t] = FALSE]
    /\ cursor' = "start"
    /\ Done(t)
    /\ UNCHANGED started

SleepFor(t) ==
    /\ IsAt(t, "sleep")
    /\ Done(t)
    /\ UNCHANGED <<started, begun, cursor>>

\* Mutant: the thread is created and not launched.
StartNothing(t) ==
    /\ IsAt(t, "start")
    /\ Done(t)
    /\ UNCHANGED <<started, begun, cursor>>

Start(t) ==
    /\ IsAt(t, "start")
    /\ started' = started \cup {Started}
    /\ Done(t)
    /\ UNCHANGED <<begun, cursor>>

\* Mutant: detaches the thread instead of waiting for it.
Detach(t) ==
    /\ IsAt(t, "join")
    /\ Done(t)
    /\ UNCHANGED <<started, begun, cursor>>

\* join() blocks until the thread has returned.
Join(t) ==
    /\ IsAt(t, "join")
    /\ Ended(Joined)
    /\ Done(t)
    /\ UNCHANGED <<started, begun, cursor>>

Statement(t) == InsertText(t) \/ InsertEndl(t) \/ SleepFor(t) \/ Start(t) \/ Join(t)

Exited == Ended("main") /\ UNCHANGED threadVars

ThreadNext == (\E t \in Threads : Statement(t)) \/ Exited

\* The system schedules every thread that is not blocked, and wakes sleepers.
ThreadSpec == ThreadInit /\ [][ThreadNext]_threadVars /\ \A t \in Threads : WF_threadVars(Statement(t))

----------------------------------------------------------------------------
(***************************************************************************)
(* However the lines of the threads are mixed up, "main exiting." is a     *)
(* line of its own and the last one: it begins after all of the others     *)
(* have ended (thread_example.cpp:22-25).                                  *)
(***************************************************************************)
ExitsOnALineOfItsOwn ==
    [][at["main"] = Len(Code["main"]) /\ InsertText("main") =>
          cursor = "start" /\ \A t \in Threads \ {"main"} : Ended(t)]_threadVars

(***************************************************************************)
(* main() gets past both joins, in whatever order the threads end, and     *)
(* exits (thread_example.cpp:23-26).                                       *)
(***************************************************************************)
MainExits == <>Ended("main")
=============================================================================
