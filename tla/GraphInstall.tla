---------------------------- MODULE GraphInstall ----------------------------
(***************************************************************************)
(* What graph.rs promises of ensure_graph, whoever calls it and however    *)
(* the calls overlap: the objects of the security graph (the extension,    *)
(* the graph, one backing table per label) come into existence once each   *)
(* and in order, nothing is ever taken back, and a call answers "ok" only  *)
(* when every object is there.  A call may answer "error", or be cut short *)
(* by the death of its process ("gone").                                   *)
(***************************************************************************)
EXTENDS Naturals

CONSTANTS Callers,  \* calls of ensure_graph, over all processes and time
          Last      \* number of objects; object Last is the last one created

VARIABLES installed,  \* set of objects that exist
          answer      \* per call: "pending", "ok", "error" or "gone"

Objects == 1..Last

Init == /\ installed = {}
        /\ answer = [c \in Callers |-> "pending"]

\* One more object, after all its predecessors.
Install(o) == /\ o \in Objects \ installed
              /\ 1..(o-1) \subseteq installed
              /\ installed' = installed \cup {o}

AnswerOk(c) == /\ installed' = Objects
               /\ answer' = [answer EXCEPT ![c] = "ok"]

AnswerError(c) == answer' = [answer EXCEPT ![c] = "error"]

Vanish(c) == answer' = [answer EXCEPT ![c] = "gone"]

\* The statement that creates the last object and the answer to its caller
\* may be one step, so Install and an answer may coincide.
Grow == UNCHANGED installed \/ \E o \in Objects : Install(o)

Next == \/ Grow /\ UNCHANGED answer
        \/ \E c \in Callers :
             /\ answer[c] = "pending"
             /\ \/ Grow /\ AnswerOk(c)
                \/ /\ UNCHANGED installed
                   /\ AnswerError(c) \/ Vanish(c)

vars == <<installed, answer>>

Spec == Init /\ [][Next]_vars
=============================================================================
