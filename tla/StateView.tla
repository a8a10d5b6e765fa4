----------------------------- MODULE StateView -----------------------------
(***************************************************************************)
(* What one StateDB view promises its caller (the EVM), without the        *)
(* journal, the cache or the trie:                                         *)
(*   view      what the getters return: per address an account (its data  *)
(*             and suicided flag) or Nil, the refund and the preimages;    *)
(*   committed what the root (IntermediateRoot) commits to: per address    *)
(*             the account data or Nil;                                    *)
(*   saved     the open snapshots, oldest first, each with its id and the  *)
(*             view when it was taken;                                     *)
(*   nextId    the next snapshot id;                                       *)
(*   failed    the sticky database error is set.                           *)
(*                                                                         *)
(* A mutation changes the view but not the root or the snapshots; the     *)
(* refund and the preimages only grow.  A revert restores a snapshot's     *)
(* view (while no error is recorded) and drops it and every later one.  A  *)
(* commit drops all snapshots, resets the refund, removes suicided         *)
(* accounts (and, when asked, empty ones), and, unless an error is        *)
(* recorded, makes the root commit to exactly the view.                    *)
(***************************************************************************)
EXTENDS Naturals, Sequences

CONSTANTS
  Addrs,   \* account addresses
  Nil,     \* no account
  NoCode   \* the empty-code hash

VARIABLES view, committed, saved, nextId, failed

absVars == <<view, committed, saved, nextId, failed>>

\* What the root holds for an account the getters show.
Data(acc) == IF acc = Nil THEN Nil ELSE acc.data

IsEmpty(acc) ==
  acc # Nil /\ acc.data.balance = 0 /\ acc.data.nonce = 0 /\ acc.data.code = NoCode

\* The error latch only ever closes.
Latch == failed' \in {failed, TRUE}

Init ==
  /\ \A a \in Addrs : view.accounts[a] = Nil \/ ~view.accounts[a].suicided
  /\ view.refund = 0 /\ view.preimages = {}
  /\ committed = [a \in Addrs |-> Data(view.accounts[a])]
  /\ saved = <<>> /\ nextId = 0 /\ failed = FALSE

Mutate ==
  /\ view'.refund >= view.refund
  /\ view.preimages \subseteq view'.preimages
  /\ Latch
  /\ UNCHANGED <<committed, saved, nextId>>

Snapshot ==
  /\ saved' = Append(saved, [id |-> nextId, view |-> view])
  /\ nextId' = nextId + 1
  /\ UNCHANGED <<view, committed, failed>>

\* Once an error is recorded the restored view is not promised: a trie
\* write that failed may leave the cache and the trie apart.
Revert(i) ==
  /\ ~failed => view' = saved[i].view
  /\ saved' = SubSeq(saved, 1, i - 1)
  /\ UNCHANGED <<committed, nextId, failed>>

\* An account a commit may leave in the view: a suicided one goes, an
\* empty one may go when deleteEmptyObjects is asked.
Kept(acc, deleteEmpty) ==
  IF acc # Nil /\ acc.suicided THEN {Nil}
  ELSE IF deleteEmpty /\ IsEmpty(acc) THEN {acc, Nil}
  ELSE {acc}

Commit(deleteEmpty) ==
  /\ \A a \in Addrs : view'.accounts[a] \in Kept(view.accounts[a], deleteEmpty)
  /\ view'.refund = 0 /\ view'.preimages = view.preimages
  /\ saved' = <<>>
  /\ Latch
  /\ \A a \in Addrs : committed'[a] \in {committed[a], Data(view'.accounts[a])}
  /\ ~failed' => committed' = [a \in Addrs |-> Data(view'.accounts[a])]
  /\ UNCHANGED nextId

Next ==
  \/ Mutate
  \/ Snapshot
  \/ \E i \in DOMAIN saved : Revert(i)
  \/ \E d \in BOOLEAN : Commit(d)

Spec == Init /\ [][Next]_absVars
=============================================================================
