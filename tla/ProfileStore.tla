----------------------------- MODULE ProfileStore -----------------------------
(***************************************************************************)
(* What the storage promises its callers: a request that is answered has   *)
(* taken effect once, as a whole, between its call and its answer; one     *)
(* that fails or is withdrawn has had no effect, unless its caller was     *)
(* cancelled or the process died after it took effect.                     *)
(***************************************************************************)
CONSTANTS Callers, Keys, Values, Requests,
          Nothing       \* no row, no request, no reply

VARIABLES rows,         \* the stored value of every key
          call          \* the request of every caller and its reply

storeVars == <<rows, call>>

\* ProfileRepository and HeightCacheRepository: what an operation leaves in the
\* tables, and what it answers.
Missing(r, d) == r.op \in {"get", "update", "delete"} /\ d[r.key] = Nothing
Conflict(r, d) == r.op = "create" /\ d[r.key] # Nothing
Reply(r, d) == IF Missing(r, d) THEN "missing"
               ELSE IF Conflict(r, d) THEN "conflict"
               ELSE IF r.op = "get" THEN d[r.key] ELSE "done"
Put(r) == IF r.op = "delete" THEN Nothing ELSE r.value
After(r, d) == IF r.op = "get" \/ Missing(r, d) \/ Conflict(r, d) THEN d
               ELSE [d EXCEPT ![r.key] = Put(r)]

NoCall == [req |-> Nothing, reply |-> Nothing]
Asked(c) == call[c].req # Nothing /\ call[c].reply = Nothing

Init == /\ rows \in [Keys -> Values \cup {Nothing}]
        /\ call = [c \in Callers |-> NoCall]

Ask(c) == /\ call[c] = NoCall
          /\ \E r \in Requests : call' = [call EXCEPT ![c].req = r]
          /\ UNCHANGED rows

Take(c) == /\ Asked(c)
           /\ rows' = After(call[c].req, rows)
           /\ call' = [call EXCEPT ![c].reply = Reply(call[c].req, rows)]

Fail(c) == /\ Asked(c)
           /\ call' = [call EXCEPT ![c].reply = "failed"]
           /\ UNCHANGED rows

\* The caller goes on: with its reply, or cancelled, with or without one.
Leave(c) == /\ call[c].req # Nothing
            /\ call' = [call EXCEPT ![c] = NoCall]
            /\ UNCHANGED rows

Crash == /\ call' = [c \in Callers |-> NoCall]
         /\ UNCHANGED rows

Next == Crash \/ \E c \in Callers : Ask(c) \/ Take(c) \/ Fail(c) \/ Leave(c)

Spec == Init /\ [][Next]_storeVars
=============================================================================
