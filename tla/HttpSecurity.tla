---------------------------- MODULE HttpSecurity ----------------------------
(***************************************************************************)
(* HttpSecurityMiddleware: the sliding-window limit on the requests of one *)
(* client for one path, then the limit on the size of a body, then the     *)
(* application.                                                            *)
(*                                                                         *)
(* The deque of a key is kept as the log of all times that were appended   *)
(* to it and the position of its left end.                                 *)
(***************************************************************************)
EXTENDS Integers, Sequences, FiniteSets

CONSTANTS
    Request,    \* the HTTP requests
    Key,        \* client host and path
    KeyOf,      \* the key of each request
    Limited,    \* the keys whose path the rate limit applies to
    Window,     \* mcp_rate_limit_window_seconds
    PerWindow,  \* mcp_rate_limit_per_minute
    BodyLimit,  \* mcp_request_body_limit_enabled
    MaxBody,    \* mcp_max_request_body_bytes
    Size,       \* the size of each request's body
    MaxTime     \* bound on the clock

\* What validate_mcp_security accepts.
ASSUME SettingsAssumption ==
    /\ Window \in Nat \ {0}
    /\ PerWindow \in Nat \ {0}
    /\ BodyLimit \in BOOLEAN
    /\ MaxBody \in Nat \ {0}

ASSUME RequestAssumption ==
    /\ KeyOf \in [Request -> Key]
    /\ Size \in [Request -> Nat]
    /\ Limited \subseteq Key
    /\ MaxTime \in Nat

VARIABLES
    now,     \* the monotonic clock
    log,     \* log[k]: the times of the requests allowed for k
    head,    \* head[k]: the position in log[k] of the deque's left end
    pc,      \* pc[r]: where request r is
    at,      \* at[r]: when r was refused for its rate
    got,     \* got[r]: the bytes of r's body that were read
    gone     \* gone[r]: the client of r has disconnected

vars == <<now, log, head, pc, at, got, gone>>

-----------------------------------------------------------------------------
(* The rate limit. *)

\* Mutant: a time at the very start of the window counts as past.
ExpiredAtStart(t) == t <= now - Window

Expired(t) == t < now - Window

\* Popping the expired times from the left leaves the deque of k from h on.
Trim(k, h) ==
    /\ h \in head[k] .. Len(log[k]) + 1
    /\ \A i \in head[k] .. h - 1 : Expired(log[k][i])
    /\ h <= Len(log[k]) => ~Expired(log[k][h])
    /\ head' = [head EXCEPT ![k] = h]

\* The times in a deque of k from h on.
Count(k, h) == Len(log[k]) - h + 1

AfterLimit == IF BodyLimit THEN "reading" ELSE "passed"

\* A path without a rate limit.
Exempt(r) ==
    /\ pc[r] = "new"
    /\ KeyOf[r] \notin Limited
    /\ pc' = [pc EXCEPT ![r] = AfterLimit]
    /\ UNCHANGED <<now, log, head, at, got, gone>>

\* Mutant: the limit is compared with <=.
AllowOneMore(r) ==
    LET k == KeyOf[r] IN
    /\ pc[r] = "new"
    /\ k \in Limited
    /\ \E h \in 1 .. Len(log[k]) + 1 : Trim(k, h) /\ Count(k, h) <= PerWindow
    /\ log' = [log EXCEPT ![k] = Append(@, now)]
    /\ pc' = [pc EXCEPT ![r] = AfterLimit]
    /\ UNCHANGED <<now, at, got, gone>>

Allow(r) ==
    LET k == KeyOf[r] IN
    /\ pc[r] = "new"
    /\ k \in Limited
    /\ \E h \in 1 .. Len(log[k]) + 1 : Trim(k, h) /\ Count(k, h) < PerWindow
    /\ log' = [log EXCEPT ![k] = Append(@, now)]
    /\ pc' = [pc EXCEPT ![r] = AfterLimit]
    /\ UNCHANGED <<now, at, got, gone>>

\* Mutant: the times are counted before the expired ones are popped.
RefuseUntrimmed(r) ==
    LET k == KeyOf[r] IN
    /\ pc[r] = "new"
    /\ k \in Limited
    /\ Count(k, head[k]) >= PerWindow
    /\ \E h \in 1 .. Len(log[k]) + 1 : Trim(k, h)
    /\ pc' = [pc EXCEPT ![r] = "refused429"]
    /\ at' = [at EXCEPT ![r] = now]
    /\ UNCHANGED <<now, log, got, gone>>

Refuse(r) ==
    LET k == KeyOf[r] IN
    /\ pc[r] = "new"
    /\ k \in Limited
    /\ \E h \in 1 .. Len(log[k]) + 1 : Trim(k, h) /\ Count(k, h) >= PerWindow
    /\ pc' = [pc EXCEPT ![r] = "refused429"]
    /\ at' = [at EXCEPT ![r] = now]
    /\ UNCHANGED <<now, log, got, gone>>

-----------------------------------------------------------------------------
(* The body. *)

\* Mutant: the size of a chunk is compared, not that of the body so far.
ChunkAlone(r) ==
    /\ pc[r] = "reading" /\ ~gone[r]
    /\ \E n \in 0 .. Size[r] - got[r] :
         \/ /\ n > MaxBody
            /\ pc' = [pc EXCEPT ![r] = "refused413"]
            /\ UNCHANGED got
         \/ /\ n <= MaxBody
            /\ got' = [got EXCEPT ![r] = @ + n]
            /\ \/ UNCHANGED pc
               \/ /\ got[r] + n = Size[r]
                  /\ pc' = [pc EXCEPT ![r] = "passed"]
    /\ UNCHANGED <<now, log, head, at, gone>>

\* Mutant: an empty chunk ends the body, whatever more_body says.
ChunkEmptyEnds(r) ==
    /\ pc[r] = "reading" /\ ~gone[r]
    /\ \E n \in 0 .. Size[r] - got[r] :
         \/ /\ n > 0 /\ got[r] + n > MaxBody
            /\ pc' = [pc EXCEPT ![r] = "refused413"]
            /\ UNCHANGED got
         \/ /\ got[r] + n <= MaxBody
            /\ got' = [got EXCEPT ![r] = @ + n]
            /\ \/ UNCHANGED pc
               \/ /\ n = 0 \/ got[r] + n = Size[r]
                  /\ pc' = [pc EXCEPT ![r] = "passed"]
    /\ UNCHANGED <<now, log, head, at, gone>>

\* A chunk of the body comes in; the last one may be empty.
Chunk(r) ==
    /\ pc[r] = "reading" /\ ~gone[r]
    /\ \E n \in 0 .. Size[r] - got[r] :
         \/ /\ n > 0 /\ got[r] + n > MaxBody
            /\ pc' = [pc EXCEPT ![r] = "refused413"]
            /\ UNCHANGED got
         \/ /\ got[r] + n <= MaxBody
            /\ got' = [got EXCEPT ![r] = @ + n]
            /\ \/ UNCHANGED pc
               \/ /\ got[r] + n = Size[r]
                  /\ pc' = [pc EXCEPT ![r] = "passed"]
    /\ UNCHANGED <<now, log, head, at, gone>>

\* The server reports a disconnect: the application gets what was read so far
\* as if it were the whole body.
ReadDisconnect(r) ==
    /\ pc[r] = "reading" /\ gone[r]
    /\ pc' = [pc EXCEPT ![r] = "passed"]
    /\ UNCHANGED <<now, log, head, at, got, gone>>

-----------------------------------------------------------------------------
Disconnects(r) ==
    /\ pc[r] = "reading" /\ ~gone[r]
    /\ gone' = [gone EXCEPT ![r] = TRUE]
    /\ UNCHANGED <<now, log, head, pc, at, got>>

Tick ==
    /\ now < MaxTime
    /\ now' = now + 1
    /\ UNCHANGED <<log, head, pc, at, got, gone>>

\* Every request has its answer: the only way the system may stop.
Quiescent ==
    /\ \A r \in Request : pc[r] \in {"passed", "refused429", "refused413"}
    /\ UNCHANGED vars

Init ==
    /\ now = 0
    /\ log = [k \in Key |-> <<>>]
    /\ head = [k \in Key |-> 1]
    /\ pc = [r \in Request |-> "new"]
    /\ at = [r \in Request |-> 0]
    /\ got = [r \in Request |-> 0]
    /\ gone = [r \in Request |-> FALSE]

Next ==
    \/ \E r \in Request :
         \/ Exempt(r)
         \/ Allow(r)
         \/ Refuse(r)
         \/ Chunk(r)
         \/ ReadDisconnect(r)
         \/ Disconnects(r)
    \/ Tick
    \/ Quiescent

Spec == Init /\ [][Next]_vars

-----------------------------------------------------------------------------
\* Every variable has its type.
TypeOK ==
    /\ now \in Nat
    /\ log \in [Key -> Seq(Nat)]
    /\ head \in [Key -> Nat \ {0}]
    /\ \A k \in Key : head[k] <= Len(log[k]) + 1
    /\ pc \in [Request -> {"new", "reading", "passed", "refused429", "refused413"}]
    /\ at \in [Request -> Nat]
    /\ got \in [Request -> Nat]
    /\ gone \in [Request -> BOOLEAN]

\* No window, wherever it starts, holds more allowed requests of a key than
\* the limit: one more than that always span more than the window.
SlidingWindow ==
    \A k \in Limited : \A i \in 1 .. Len(log[k]) - PerWindow :
        log[k][i + PerWindow] - log[k][i] > Window

\* A request is refused for its rate only if the window before it was full of
\* allowed requests of its own key: neither other keys nor requests that were
\* refused themselves cost it anything.
RefusedOnlyIfFull ==
    \A r \in Request :
        pc[r] = "refused429" =>
            LET k == KeyOf[r]
            IN  Cardinality({i \in 1 .. Len(log[k]) :
                    at[r] - Window <= log[k][i] /\ log[k][i] <= at[r]}) >= PerWindow

\* Under the body limit a body reaches the application only if it fits, in
\* however many chunks it came, and is refused only if it does not.
BodyFits ==
    BodyLimit =>
        \A r \in Request :
            /\ pc[r] = "passed" => got[r] <= MaxBody
            /\ pc[r] = "refused413" => Size[r] > MaxBody

\* Unless its client disconnects, a request reaches the application with its
\* whole body.
BodyIsWhole ==
    BodyLimit =>
        \A r \in Request : pc[r] = "passed" /\ ~gone[r] => got[r] = Size[r]
=============================================================================
