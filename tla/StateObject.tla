---------------------------- MODULE StateObject ----------------------------
(***************************************************************************)
(* The Account Record and the Account Object of core/state.                *)
(*                                                                         *)
(* state_object.go is not part of this repository's sources; everything    *)
(* here follows the spec (sections 3 and 4.1) and the way statedb.go uses  *)
(* the object (Balance(), data.Balance, suicided, deleted, empty(),        *)
(* deepCopy).  An object is a value, so deepCopy is a plain copy.  The    *)
(* cached storage and the sub-trie are folded into data.storage, since     *)
(* reads go through the cache to the sub-trie and return the same value    *)
(* either way; updateRoot is part of the write of data into the top-level  *)
(* trie at Finalise.                                                       *)
(*                                                                         *)
(* Every mutator that the StateDB journals returns the new object and the  *)
(* journal entries it produced (a sequence of zero or one entries).        *)
(***************************************************************************)
EXTENDS Integers, Sequences

CONSTANTS
  Keys,          \* storage keys (model values)
  Codes,         \* non-empty contract codes (model values)
  NoCode,        \* the empty-code hash sentinel
  MaxBalance,    \* bound on balances
  MaxNonce,      \* bound on nonces
  MaxValue,      \* storage values are 0..MaxValue, 0 = empty
  PdxValues      \* PDX extended-storage values, 0 = empty bytes

ASSUME NoCode \notin Codes
ASSUME MaxBalance \in Nat /\ MaxNonce \in Nat /\ MaxValue \in Nat \ {0}
ASSUME 0 \in PdxValues /\ PdxValues \subseteq Nat

Balances == 0 .. MaxBalance
Nonces   == 0 .. MaxNonce
Values   == 0 .. MaxValue

\* Account (the Record): balance, nonce, code hash, storage (standing for
\* the storage root) and the PDX extended storage used by GetPDXState.
Account == [balance : Balances, nonce : Nonces, code : Codes \cup {NoCode},
            storage : [Keys -> Values], pdx : [Keys -> PdxValues]]

EmptyAccount == [balance |-> 0, nonce |-> 0, code |-> NoCode,
                 storage |-> [k \in Keys |-> 0], pdx |-> [k \in Keys |-> 0]]

StateObjectT == [data : Account, suicided : BOOLEAN, deleted : BOOLEAN]

\* newObject(db, addr, data)
newObject(data) == [data |-> data, suicided |-> FALSE, deleted |-> FALSE]

\* empty(): EIP161 emptiness, balance = nonce = 0 and no code.
empty(o) == o.data.balance = 0 /\ o.data.nonce = 0 /\ o.data.code = NoCode

\* The result of a journaled mutator.
Res(o, es) == [obj |-> o, entries |-> es]

(***************************************************************************)
(* Journal entries appended by the object's mutators.                      *)
(***************************************************************************)
balanceChange(a, prev)       == [kind |-> "balance", account |-> a, prev |-> prev]
nonceChange(a, prev)         == [kind |-> "nonce", account |-> a, prev |-> prev]
codeChange(a, prev)          == [kind |-> "code", account |-> a, prev |-> prev]
storageChange(a, k, prev)    == [kind |-> "storage", account |-> a, key |-> k, prev |-> prev]
touchChange(a)               == [kind |-> "touch", account |-> a]

\* SetBalance: journal the old balance, then set.
SetBalance(o, a, amount) ==
  Res([o EXCEPT !.data.balance = amount], <<balanceChange(a, o.data.balance)>>)

\* AddBalance: a zero amount only touches an empty account (so that
\* Finalise(true) can remove it); otherwise SetBalance(balance + amount).
AddBalance(o, a, amount) ==
  IF amount = 0
  THEN Res(o, IF empty(o) THEN <<touchChange(a)>> ELSE <<>>)
  ELSE SetBalance(o, a, o.data.balance + amount)

\* SubBalance: a zero amount is a no-op; otherwise SetBalance(balance - amount).
SubBalance(o, a, amount) ==
  IF amount = 0 THEN Res(o, <<>>)
  ELSE SetBalance(o, a, o.data.balance - amount)

SetNonce(o, a, n) ==
  Res([o EXCEPT !.data.nonce = n], <<nonceChange(a, o.data.nonce)>>)

SetCode(o, a, c) ==
  Res([o EXCEPT !.data.code = c], <<codeChange(a, o.data.code)>>)

\* SetState journals the previous value even when it is unchanged.
SetState(o, a, k, v) ==
  Res([o EXCEPT !.data.storage[k] = v], <<storageChange(a, k, o.data.storage[k])>>)

\* SetPDXState writes the extended storage without journaling: the comment
\* at StateDB.SetPDXState says it does not put the address in the dirty set.
SetPDXState(o, k, v) == [o EXCEPT !.data.pdx[k] = v]

\* markSuicided
markSuicided(o) == [o EXCEPT !.suicided = TRUE]
=============================================================================
