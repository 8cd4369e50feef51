-------------------------- MODULE SessionAuthority --------------------------
(***************************************************************************)
(* What a backend session is to those who use it, without the two stores   *)
(* it is kept in.  A session is opened, becomes live when its registration *)
(* is written, and ends once, for whatever reason; nothing brings an ended *)
(* session back.  A client that asks is granted access only if the session *)
(* was live when it asked.                                                 *)
(***************************************************************************)
CONSTANTS
    Request,      \* those who ask
    SessionId,    \* sessions, past and to come
    None

VARIABLES
    status,   \* the life of each session
    asked,    \* the session each request is asking about, None if it is not
    seen,     \* the session was live when the request asked
    granted   \* the request was given access, and still has it

vars == <<status, asked, seen, granted>>

Init ==
    /\ status = [s \in SessionId |-> "unborn"]
    /\ asked = [r \in Request |-> None]
    /\ seen = [r \in Request |-> FALSE]
    /\ granted = [r \in Request |-> FALSE]

Open(s) ==
    /\ status[s] = "unborn"
    /\ status' = [status EXCEPT ![s] = "opening"]
    /\ UNCHANGED <<asked, seen, granted>>

Admit(s) ==
    /\ status[s] = "opening"
    /\ status' = [status EXCEPT ![s] = "live"]
    /\ UNCHANGED <<asked, seen, granted>>

Ended(S) == status' = [s \in SessionId |-> IF s \in S THEN "ended" ELSE status[s]]

Begun == {s \in SessionId : status[s] # "unborn"}

(* Logout, revocation, expiry: one session or, with the clock, several. *)
End ==
    /\ \E S \in SUBSET Begun : Ended(S)
    /\ UNCHANGED <<asked, seen, granted>>

(* The server loses everything it holds in memory. *)
Crash ==
    /\ Ended(Begun)
    /\ asked' = [r \in Request |-> None]
    /\ granted' = [r \in Request |-> FALSE]
    /\ seen' = [r \in Request |-> FALSE]

Ask(r, s) ==
    /\ asked[r] = None
    /\ asked' = [asked EXCEPT ![r] = s]
    /\ seen' = [seen EXCEPT ![r] = status[s] = "live"]
    /\ granted' = [granted EXCEPT ![r] = FALSE]
    /\ UNCHANGED status

Grant(r) ==
    /\ asked[r] # None
    /\ seen[r]
    /\ asked' = [asked EXCEPT ![r] = None]
    /\ granted' = [granted EXCEPT ![r] = TRUE]
    /\ UNCHANGED <<status, seen>>

Deny(r) ==
    /\ asked[r] # None
    /\ asked' = [asked EXCEPT ![r] = None]
    /\ seen' = [seen EXCEPT ![r] = FALSE]
    /\ UNCHANGED <<status, granted>>

(* The request that was granted access is over. *)
Leave(r) ==
    /\ granted[r]
    /\ granted' = [granted EXCEPT ![r] = FALSE]
    /\ seen' = [seen EXCEPT ![r] = FALSE]
    /\ UNCHANGED <<status, asked>>

Next ==
    \/ \E s \in SessionId : Open(s) \/ Admit(s)
    \/ End
    \/ Crash
    \/ \E r \in Request : (\E s \in SessionId : Ask(r, s)) \/ Grant(r) \/ Deny(r) \/ Leave(r)

Spec == Init /\ [][Next]_vars
=============================================================================
