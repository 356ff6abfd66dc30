---------------------------- MODULE CloseHandlers ----------------------------
(***************************************************************************)
(* The table of close handlers a websocket connection keeps                *)
(* (net::websocket_queue::close_handlers_, a std::map from uint32_t to a   *)
(* callable).  The callable only carries the object it keeps alive, so a   *)
(* table is a function from the keys in use to that object.                *)
(***************************************************************************)
EXTENDS Integers, FiniteSets, Functions

CONSTANT KeyMod     \* number of values of the key type: 2^32 in the code

ASSUME KeyModAssumption == KeyMod \in Nat \ {0}

Keys == 0 .. KeyMod - 1

EmptyTable == [k \in {} |-> k]

IsLargest(k, keys) == k \in keys /\ \A j \in keys : j <= k

(* variants: signed arithmetic; counting up *)
NewKeySigned(h) == IF DOMAIN h = {} THEN 0
                   ELSE (CHOOSE k \in DOMAIN h : IsLargest(k, DOMAIN h)) - 1
NewKeyAbove(h) == IF DOMAIN h = {} THEN 0
                  ELSE ((CHOOSE k \in DOMAIN h : IsLargest(k, DOMAIN h)) + 1) % KeyMod

(* add_close_handler: 0 for an empty table, otherwise one LESS than the    *)
(* largest key, in unsigned arithmetic.                                    *)
NewKey(h) == IF DOMAIN h = {}
             THEN 0
             ELSE ((CHOOSE k \in DOMAIN h : IsLargest(k, DOMAIN h)) - 1) % KeyMod

(* std::map::insert leaves the entry of a key that is already there.       *)
AddHandler(h, x) ==
    [k \in DOMAIN h \cup {NewKey(h)} |-> IF k \in DOMAIN h THEN h[k] ELSE x]

(* remove_close_handler: std::map::erase, a no-op for an absent key.       *)
RemoveHandler(h, k) == Restrict(h, DOMAIN h \ {k})

(* What every sequence of the two operations leaves behind: the largest    *)
(* key, the one below it and 0 are the only keys there can be.             *)
KeysInv(h) ==
    /\ DOMAIN h \subseteq Keys
    /\ \/ DOMAIN h = {}
       \/ \E top \in Keys : IsLargest(top, DOMAIN h) /\ DOMAIN h \subseteq {0, top - 1, top}
==============================================================================
