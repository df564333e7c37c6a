---------------------------- MODULE AtomicStore ----------------------------
(***************************************************************************)
(* What clients of a store of objects may rely on, as far as the NPU shows  *)
(* it: an object appears, changes or disappears at once, and a transaction  *)
(* that failed ends only when everything it did is undone, unless somebody  *)
(* else changed an object meanwhile or the NPU refused to go back.          *)
(***************************************************************************)
CONSTANTS
    Ids,     \* ids of the objects
    Vals,    \* their values
    Clients, \* processes that run transactions
    None     \* no object; a transaction that nothing is promised any more

VARIABLES
    objects, \* the value of each object, or None
    phase,   \* the phase of each client's transaction
    began    \* the objects when it began, or None
vars == <<objects, phase, began>>

Init ==
    /\ objects = [i \in Ids |-> None]
    /\ phase = [c \in Clients |-> "idle"]
    /\ began = [c \in Clients |-> None]

Start(c) == IF phase[c] = "idle" THEN objects ELSE began[c]

\* The transactions of the others can no more be undone as if nothing had happened.
Only(c, start) == [d \in Clients |-> IF d = c THEN start ELSE None]

\* At most one object is another one afterwards.
OneChange == \E i \in Ids, v \in Vals \cup {None} : objects' = [objects EXCEPT ![i] = v]

\* An operation that succeeds.
Operate(c) ==
    /\ phase[c] \in {"idle", "open"}
    /\ OneChange
    /\ phase' = [phase EXCEPT ![c] = "open"]
    /\ began' = Only(c, Start(c))

\* One that fails leaves no trace of its own.
Fail(c) ==
    /\ phase[c] \in {"idle", "open"}
    /\ phase' = [phase EXCEPT ![c] = "undo"]
    /\ began' = [began EXCEPT ![c] = Start(c)]
    /\ UNCHANGED objects

Restore(c) ==
    /\ phase[c] = "undo"
    /\ OneChange
    /\ began' = Only(c, began[c])
    /\ UNCHANGED phase

\* The NPU refuses to go back.
GiveUp(c) ==
    /\ phase[c] = "undo"
    /\ began' = [d \in Clients |-> None]
    /\ UNCHANGED <<objects, phase>>

End(c) ==
    /\ \/ phase[c] = "open"
       \/ phase[c] = "undo" /\ began[c] \in {None, objects}
    /\ phase' = [phase EXCEPT ![c] = "idle"]
    /\ began' = [began EXCEPT ![c] = None]
    /\ UNCHANGED objects

Next == \E c \in Clients : Operate(c) \/ Fail(c) \/ Restore(c) \/ GiveUp(c) \/ End(c)

Spec == Init /\ [][Next]_vars
=============================================================================
