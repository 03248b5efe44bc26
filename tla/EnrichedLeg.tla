----------------------------- MODULE EnrichedLeg -----------------------------
(***************************************************************************)
(* What the enrichment of a leg promises: once every chunk of the leg has  *)
(* its reply, in whatever order the replies came, the leg becomes in one   *)
(* step the whole of the matched chunks, in the order of the road; or, if  *)
(* any chunk is unusable, it stays exactly as it was.  A leg of a single   *)
(* point has nothing to match from the start.                              *)
(***************************************************************************)
EXTENDS Integers, Functions

CONSTANTS
    Chunks,     \* 1..N, in the order of the road
    MaxPoints   \* the most shape points of one chunk

VARIABLES
    reply,      \* per chunk, the number of points matched; 0 for a failure
    leg,        \* the leg, as its users see it
    result      \* what enrichLeg returned

legVars == <<reply, leg, result>>

NoReply == -1
Coarse  == [edges |-> "maneuvers"]

Usable(i) == reply[i] >= 2

\* The matched shape has the points of every chunk, the point two chunks
\* share once.  Point j of chunk i is the j-th of its own points, counted from
\* zero, behind those of the chunks before it.
Before(i) == SumFunctionOnSet([h \in Chunks |-> reply[h] - 1], 1..(i - 1))

Points(i) == {j \in 0..(reply[i] - 1) : i > 1 => j > 0}

Shape == UNION {{[at |-> Before(i) + j, chunk |-> i, point |-> j] : j \in Points(i)} :
                    i \in Chunks}

\* Every edge of a chunk joins two neighbouring points of that chunk.
Edges == UNION {{[from |-> Before(i) + j, to |-> Before(i) + j + 1, chunk |-> i, edge |-> j] :
                    j \in 0..(reply[i] - 2)} : i \in Chunks}

Init ==
    /\ \E n \in {NoReply, 0} : reply = [i \in Chunks |-> n]
    /\ leg = Coarse
    /\ result = "none"

Reply(i, n) ==
    /\ reply[i] = NoReply
    /\ result = "none"
    /\ reply' = [reply EXCEPT ![i] = n]
    /\ UNCHANGED <<leg, result>>

Enrich ==
    /\ result = "none"
    /\ \A i \in Chunks : Usable(i)
    /\ leg' = [edges |-> Edges, shape |-> Shape]
    /\ result' = "true"
    /\ UNCHANGED reply

GiveUp ==
    /\ result = "none"
    /\ \A i \in Chunks : reply[i] # NoReply
    /\ \E i \in Chunks : ~Usable(i)
    /\ result' = "false"
    /\ UNCHANGED <<reply, leg>>

Next ==
    \/ \E i \in Chunks, n \in 0..MaxPoints : Reply(i, n)
    \/ Enrich
    \/ GiveUp

Spec == Init /\ [][Next]_legVars /\ WF_legVars(Next)

=============================================================================
