----------------------------- MODULE FlatMemory -----------------------------
(***************************************************************************)
(* What the processor expects of its memory system: one word per address,  *)
(* a load answers with the last word stored.  Cache is shown to implement  *)
(* this when no other master writes, no two addresses share a word and     *)
(* every address is mapped.                                                *)
(***************************************************************************)

CONSTANTS Addr, Val

VARIABLES
  store,      \* [Addr -> Val]
  resp        \* the answer to the last access

vars == <<store, resp>>

NoResp == [op |-> "none"]

Init == store \in [Addr -> Val] /\ resp = NoResp

Load(a) ==
  /\ resp' = [op |-> "load", addr |-> a, val |-> store[a], status |-> "ok"]
  /\ store' = store

Store(a, v) ==
  /\ resp' = [op |-> "store", addr |-> a, val |-> v, status |-> "ok"]
  /\ store' = [store EXCEPT ![a] = v]

Next == \E a \in Addr : Load(a) \/ \E v \in Val : Store(a, v)

Spec == Init /\ [][Next]_vars
=============================================================================
