-------------------------------- MODULE LogFeed --------------------------------
(***************************************************************************)
(* What the log sessions promise their clients, without connections,       *)
(* timers, close handlers and reference counts: a topic keeps its log and  *)
(* passes every entry to all the clients it serves, a client starts with   *)
(* the whole log, and is told at most once that there is no more.          *)
(* Session implements this specification (Session!ImplementsLogFeed).      *)
(***************************************************************************)
EXTENDS Naturals, Sequences

CONSTANTS
    Topics,     \* session ids
    Clients     \* subscriptions

VARIABLES
    log,        \* topic -> number of entries it keeps
    served,     \* topic -> clients that get its next entry
    got,        \* client -> entries it was sent, each by its number
    told        \* client -> notices it was sent

vars == <<log, served, got, told>>

Whole(n) == [i \in 1 .. n |-> i]

(* A topic forgets its log only when it serves nobody. *)
Keeps(lg) ==
    /\ log' \in [Topics -> Nat]
    /\ \A x \in Topics : log'[x] = lg[x] \/ (log'[x] = 0 /\ served'[x] = {})

(* Nobody is served who was not, c by x excepted. *)
NobodyElse(c, x) ==
    /\ served' \in [Topics -> SUBSET Clients]
    /\ \A y \in Topics : served'[y] \subseteq served[y] \cup {d \in {c} : y = x}

NobodyNew ==
    /\ served' \in [Topics -> SUBSET Clients]
    /\ \A y \in Topics : served'[y] \subseteq served[y]

New(c) == got[c] = << >> /\ told[c] = << >> /\ \A x \in Topics : c \notin served[x]

Init ==
    /\ log = [x \in Topics |-> 0]
    /\ served = [x \in Topics |-> {}]
    /\ got = [c \in Clients |-> << >>]
    /\ told = [c \in Clients |-> << >>]

(* A client joins and is sent the whole log.  A topic that keeps nothing   *)
(* and serves nobody may first be read back from where it was stored.  The *)
(* client of a topic that is over is told so at once.                      *)
Join(c, x) ==
    LET n == Len(got'[c])
    IN  /\ New(c)
        /\ n = log[x] \/ (log[x] = 0 /\ served[x] = {})
        /\ got' = [got EXCEPT ![c] = Whole(n)]
        /\ told' \in {told, [told EXCEPT ![c] = <<"closed">>]}
        /\ NobodyElse(c, x)
        /\ Keeps([log EXCEPT ![x] = n])

(* The topic was given up: the client gets no log. *)
Refuse(c) ==
    /\ New(c)
    /\ told' = [told EXCEPT ![c] = <<"not_established">>]
    /\ UNCHANGED got
    /\ NobodyNew
    /\ Keeps(log)

(* The next entry reaches all who are served. *)
Entry(x) ==
    /\ got' = [c \in Clients |-> IF c \in served[x] THEN Append(got[c], log[x] + 1) ELSE got[c]]
    /\ UNCHANGED <<told, served>>
    /\ log' = [log EXCEPT ![x] = @ + 1]

(* All who are served by the topic hear, for the first time, that it is    *)
(* over, or, if it never had an entry, was given up, and are served no     *)
(* longer.                                                                 *)
End(x, notice) ==
    /\ \A c \in served[x] : told[c] = << >>
    /\ notice = "not_established" => \A c \in served[x] : got[c] = << >>
    /\ told' = [c \in Clients |-> IF c \in served[x] THEN <<notice>> ELSE told[c]]
    /\ UNCHANGED got
    /\ NobodyNew
    /\ served'[x] = {}
    /\ Keeps(log)

(* Clients leave, topics are released. *)
Leave ==
    /\ UNCHANGED <<got, told>>
    /\ NobodyNew
    /\ Keeps(log)

Next ==
    \/ Leave
    \/ \E x \in Topics : Entry(x) \/ \E notice \in {"closed", "not_established"} : End(x, notice)
    \/ \E c \in Clients : Refuse(c) \/ \E x \in Topics : Join(c, x)

Spec == Init /\ [][Next]_vars
================================================================================
