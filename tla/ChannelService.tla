--------------------------- MODULE ChannelService ---------------------------
(***************************************************************************)
(* What the connection actor promises to the calls of the client, without   *)
(* its mailbox, its discovery or its caches: at any time there is at most   *)
(* one connection to hand out; a connection is replaced only once a call    *)
(* that ran on it was told that its node is not the leader; a call is given *)
(* the connection of the moment, but never one that was rejected before the *)
(* call asked; and when the service closes it leaves no call waiting.       *)
(***************************************************************************)
EXTENDS Naturals

CONSTANTS Calls, Nodes, None

VARIABLES
    conn,      \* the connection to hand out, or None
    open,      \* the service still answers
    rejected,  \* ids of the connections whose node is not the leader
    call,      \* per call: its progress
    held,      \* per call: the connection it runs on
    avoid      \* per call: the ids rejected before it asked

vars == <<conn, open, rejected, call, held, avoid>>

Conn == [id : Nat \ {0}, endpoint : Nodes]

Init ==
    /\ conn = None
    /\ open = TRUE
    /\ rejected = {}
    /\ call = [c \in Calls |-> "idle"]
    /\ held = [c \in Calls |-> None]
    /\ avoid = [c \in Calls |-> {}]

Ask(c) ==
    /\ call[c] = "idle"
    /\ call' = [call EXCEPT ![c] = IF open THEN "waiting" ELSE "closed"]
    /\ avoid' = [avoid EXCEPT ![c] = rejected]
    /\ UNCHANGED <<conn, open, rejected, held>>

\* The call ends without consequence for the connection.
End(c, outcome) ==
    /\ \/ call[c] = "waiting" /\ outcome = "cancelled"
       \/ call[c] = "running" /\ outcome \in {"cancelled", "ok", "error"}
    /\ call' = [call EXCEPT ![c] = outcome]
    /\ UNCHANGED <<conn, open, rejected, held, avoid>>

\* The call ends because its connection is not one to the leader.
Reject(c) ==
    /\ call[c] = "running"
    /\ call' = [call EXCEPT ![c] = "error"]
    /\ rejected' = rejected \cup {held[c].id}
    /\ UNCHANGED <<conn, open, held, avoid>>

Give(c, h) ==
    /\ call[c] = "waiting"
    /\ h.id \notin avoid[c]
    /\ call' = [call EXCEPT ![c] = "running"]
    /\ held' = [held EXCEPT ![c] = h]

Grant(c) ==
    /\ open
    /\ conn # None
    /\ Give(c, conn)
    /\ UNCHANGED <<conn, open, rejected, avoid>>

\* A new connection, in place of none or of a rejected one.  The call for which
\* it was made, if any, is given it in the same step.
Connect ==
    /\ open
    /\ conn' \in Conn
    /\ conn # None => conn.id \in rejected /\ conn.id < conn'.id
    /\ (\E c \in Calls : Give(c, conn')) \/ UNCHANGED <<call, held>>
    /\ UNCHANGED <<open, rejected, avoid>>

\* At most one of the waiting calls learns the reason.
Close ==
    /\ open
    /\ open' = FALSE
    /\ \E told \in SUBSET Calls :
        /\ \A c, d \in told : c = d
        /\ \A c \in told : call[c] = "waiting"
        /\ call' = [c \in Calls |-> IF call[c] # "waiting" THEN call[c]
                                    ELSE IF c \in told THEN "refused" ELSE "closed"]
    /\ UNCHANGED <<conn, rejected, held, avoid>>

Next ==
    \/ \E c \in Calls : Ask(c) \/ Reject(c) \/ Grant(c)
    \/ \E c \in Calls, outcome \in {"cancelled", "ok", "error"} : End(c, outcome)
    \/ Connect
    \/ Close

Spec == Init /\ [][Next]_vars
=============================================================================
