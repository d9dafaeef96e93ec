------------------------------ MODULE KVStore ------------------------------
(***************************************************************************)
(* What the database library promises its callers: a map from keys to      *)
(* data on which every call takes effect at one instant between its        *)
(* invocation and its return, however many processes share the files.      *)
(*                                                                         *)
(* The one call that is not a point of the map is db_nextrec: it may       *)
(* report a record that a concurrent store is still writing.  And a        *)
(* process that dies inside a store may leave its own key absent, but      *)
(* touches no other key.                                                   *)
(***************************************************************************)
CONSTANTS Proc, Key, Data, NoKey, NoData

VARIABLES
  map,    \* the stored data of each key, NoData when the key is absent
  req,    \* the call each process is executing
  resp,   \* the answer of a call that has taken effect, NoResp before
  up      \* the processes that have not died

vars == <<map, req, resp, up>>

Flags == {"insert", "replace", "store"}
Calls == [op: {"fetch", "delete", "store", "nextrec"}, key: Key \cup {NoKey},
          data: Data \cup {NoData}, flag: Flags \cup {"none"}]
NoCall == [op |-> "none", key |-> NoKey, data |-> NoData, flag |-> "none"]

Reply(rc, k, d) == [rc |-> rc, key |-> k, data |-> d]
NoResp == Reply("none", NoKey, NoData)

Init ==
  /\ map = [k \in Key |-> NoData]
  /\ req = [p \in Proc |-> NoCall]
  /\ resp = [p \in Proc |-> NoResp]
  /\ up = Proc

Invoke(p) ==
  /\ p \in up /\ req[p] = NoCall
  /\ \E c \in Calls : req' = [req EXCEPT ![p] = c]
  /\ UNCHANGED <<map, resp, up>>

Answer(p, rc, k, d) == resp' = [resp EXCEPT ![p] = Reply(rc, k, d)]

Fetch(p) ==
  /\ req[p].op = "fetch"
  /\ LET k == req[p].key IN
     IF map[k] = NoData THEN Answer(p, "error", NoKey, NoData)
                        ELSE Answer(p, "ok", k, map[k])
  /\ UNCHANGED map

Delete(p) ==
  /\ req[p].op = "delete"
  /\ LET k == req[p].key IN
     /\ map' = [map EXCEPT ![k] = NoData]
     /\ Answer(p, IF map[k] = NoData THEN "error" ELSE "ok", NoKey, NoData)

(***************************************************************************)
(* DB_INSERT refuses a present key, DB_REPLACE an absent one.              *)
(***************************************************************************)
Store(p) ==
  /\ req[p].op = "store"
  /\ LET k == req[p].key
         absent == map[k] = NoData
         rc == CASE req[p].flag = "insert" /\ ~absent -> "exists"
                 [] req[p].flag = "replace" /\ absent -> "error"
                 [] OTHER -> "ok"
     IN /\ Answer(p, rc, NoKey, NoData)
        /\ map' = IF rc = "ok" THEN [map EXCEPT ![k] = req[p].data] ELSE map

Nextrec(p) ==
  /\ req[p].op = "nextrec"
  /\ \/ Answer(p, "error", NoKey, NoData)
     \/ \E k \in Key, d \in Data :
          /\ \/ map[k] = d
             \/ \E q \in Proc :
                  req[q].op = "store" /\ req[q].key = k /\ req[q].data = d
          /\ Answer(p, "ok", k, d)
  /\ UNCHANGED map

Commit(p) ==
  /\ p \in up /\ resp[p] = NoResp
  /\ Fetch(p) \/ Delete(p) \/ Store(p) \/ Nextrec(p)
  /\ UNCHANGED <<req, up>>

Return(p) ==
  /\ p \in up /\ resp[p] # NoResp
  /\ req' = [req EXCEPT ![p] = NoCall]
  /\ resp' = [resp EXCEPT ![p] = NoResp]
  /\ UNCHANGED <<map, up>>

Die(p) ==
  /\ p \in up
  /\ up' = up \ {p}
  /\ resp' = [resp EXCEPT ![p] = NoResp]
  /\ \/ UNCHANGED map
     \/ req[p].op = "store" /\ map' = [map EXCEPT ![req[p].key] = NoData]
  /\ UNCHANGED req

Next == \E p \in Proc : Invoke(p) \/ Commit(p) \/ Return(p) \/ Die(p)

Spec == Init /\ [][Next]_vars
=============================================================================
