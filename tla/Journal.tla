------------------------------ MODULE Journal ------------------------------
(***************************************************************************)
(* The journal of core/state: an ordered sequence of undo entries plus the *)
(* per-address count of entries ("dirties", map[common.Address]int in      *)
(* statedb.go's Journal() and SetDirties()).                               *)
(*                                                                         *)
(* journal.go is not part of this repository's sources; append, length,   *)
(* revert and the undo of every entry kind follow the spec (sections 3 and *)
(* 4.2).  An entry tied to an address counts toward that address in        *)
(* dirties; revert undoes entries from the end and decrements the counts,  *)
(* so an address whose entries are all undone is no longer dirty, except  *)
(* ripemd: stateObject.touch also calls journal.dirty(ripemd), a count no  *)
(* entry owns, so a touch of ripemd leaves it dirty after a revert         *)
(* (statedb.go:500-503 and 561-568).                                       *)
(*                                                                         *)
(* Undo acts on the part of a StateDB the entries restore: the live        *)
(* objects, the persistent dirty set, the refund and the preimages.        *)
(***************************************************************************)
EXTENDS StateObject, FiniteSets

LOCAL INSTANCE SequencesExt

CONSTANTS
  Addrs,         \* account addresses (model values)
  Hashes,        \* preimage hashes (model values)
  NoObj,         \* no live object for an address
  Ripemd         \* {ripemd}, or {} in an instance without it

ASSUME Ripemd \subseteq Addrs

\* Entries appended by the StateDB itself (the object's are in StateObject).
createObjectChange(a)        == [kind |-> "create", account |-> a]
resetObjectChange(a, prev)   == [kind |-> "reset", account |-> a, prevobj |-> prev]
suicideChange(a, prev, pb)   == [kind |-> "suicide", account |-> a, prevsuicided |-> prev,
                                 prevbalance |-> pb]
refundChange(prev)           == [kind |-> "refund", prev |-> prev]
addPreimageChange(h)         == [kind |-> "preimage", hash |-> h]

\* dirtied(): the address an entry is tied to, if any.
dirtied(e) == IF "account" \in DOMAIN e THEN {e.account} ELSE {}

newJournal == [entries |-> <<>>, dirties |-> [a \in Addrs |-> 0]]

\* A touchChange of ripemd, which touch() follows with journal.dirty(ripemd).
ripemdTouch(e, a) == e.kind = "touch" /\ e.account = a /\ a \in Ripemd

\* append(entry) for each entry of es, in order, with touch()'s extra
\* journal.dirty for ripemd.
append(j, es) ==
  [entries |-> j.entries \o es,
   dirties |-> [a \in Addrs |->
                 j.dirties[a] + Cardinality({i \in DOMAIN es : a \in dirtied(es[i])})
                              + Cardinality({i \in DOMAIN es : ripemdTouch(es[i], a)})]]

length(j) == Len(j.entries)

\* The addresses with at least one entry: what Finalise and Copy walk.
DirtyAddrs(j) == {a \in Addrs : j.dirties[a] > 0}

(***************************************************************************)
(* Undo of one entry against st = [objs, objsDirty, refund, preimages].    *)
(***************************************************************************)
revertEntry(st, e) ==
  CASE e.kind = "balance"  -> [st EXCEPT !.objs[e.account].data.balance = e.prev]
    [] e.kind = "nonce"    -> [st EXCEPT !.objs[e.account].data.nonce = e.prev]
    [] e.kind = "code"     -> [st EXCEPT !.objs[e.account].data.code = e.prev]
    [] e.kind = "storage"  -> [st EXCEPT !.objs[e.account].data.storage[e.key] = e.prev]
    [] e.kind = "create"   -> [st EXCEPT !.objs[e.account] = NoObj,
                                         !.objsDirty = @ \ {e.account}]
    [] e.kind = "reset"    -> [st EXCEPT !.objs[e.account] = e.prevobj]
    [] e.kind = "suicide"  -> [st EXCEPT !.objs[e.account].suicided = e.prevsuicided,
                                         !.objs[e.account].data.balance = e.prevbalance]
    [] e.kind = "refund"   -> [st EXCEPT !.refund = e.prev]
    [] e.kind = "touch"    -> st
    [] e.kind = "preimage" -> [st EXCEPT !.preimages = @ \ {e.hash}]

\* revert(statedb, snapshot): undo the entries from the last one down to
\* index n + 1, uncounting each from dirties, then truncate to n entries.
RECURSIVE revert(_, _, _)
revert(j, st, n) ==
  IF length(j) <= n THEN [journal |-> j, view |-> st]
  ELSE LET e == Last(j.entries)
       IN revert([entries |-> Front(j.entries),
                  dirties |-> [a \in Addrs |->
                                IF a \in dirtied(e) THEN j.dirties[a] - 1
                                ELSE j.dirties[a]]],
                 revertEntry(st, e), n)
=============================================================================
