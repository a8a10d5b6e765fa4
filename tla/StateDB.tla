------------------------------ MODULE StateDB ------------------------------
(***************************************************************************)
(* StateDB of pdx-chain core/state (src/.../core/state/statedb.go): the    *)
(* caching state view over the account trie, with its journal, revision    *)
(* stack, Finalise pipeline, sticky database error and Copy/NewCopy.       *)
(*                                                                         *)
(* Every view v has the fields of the StateDB struct as functions of v.    *)
(* A trie is identified by the view that opened or copied it: trieOf[v] is *)
(* the trie v writes to and tries[t] is its content (an Account, Nil for a *)
(* missing key, or Corrupt for bytes that do not decode).                  *)
(*                                                                         *)
(* Storage errors are nondeterministic: with ReadFailures a TryGet of a    *)
(* key that is not live may fail, with WriteFailures a TryUpdate or        *)
(* TryDelete at Finalise may fail.                                         *)
(***************************************************************************)
EXTENDS Journal, TLC

CONSTANTS
  Views,          \* StateDB instances (model values)
  View0,          \* the view opened by New(root, db)
  Nil,            \* TryGet of a missing key / getStateObject returned nil
  Corrupt,        \* an encoded record that rlp.DecodeBytes rejects
  NoErr, ErrRead, ErrWrite,  \* dbErr values
  InitRecords,    \* what the trie at root may hold for one address
  Amounts,        \* AddBalance / SubBalance / AddRefund arguments
  MaxJournal,     \* bound on journal length
  MaxRevisions,   \* bound on revision ids handed out by Snapshot
  MaxRefund,      \* bound on the refund counter
  ReadFailures,   \* may TryGet / ContractCode fail?
  WriteFailures   \* may TryUpdate / TryDelete fail?

ASSUME View0 \in Views
ASSUME InitRecords \subseteq Account \cup {Nil, Corrupt}
ASSUME ReadFailures \in BOOLEAN /\ WriteFailures \in BOOLEAN

VARIABLES
  alive,              \* views that have been created
  tries,              \* trie content per trie id
  trieOf,             \* StateDB.trie
  stateObjects,       \* StateDB.stateObjects (NoObj = no entry)
  stateObjectsDirty,  \* StateDB.stateObjectsDirty
  journal,            \* StateDB.journal: [entries, dirties]
  validRevisions,     \* StateDB.validRevisions
  nextRevisionId,     \* StateDB.nextRevisionId
  refund,             \* StateDB.refund
  preimages,          \* StateDB.preimages (the set of hashes)
  dbErr,              \* StateDB.dbErr
  snaps,              \* history: per revision id, what the view showed
  touched             \* history: addresses touched since the last Finalise

vars == <<alive, tries, trieOf, stateObjects, stateObjectsDirty, journal,
          validRevisions, nextRevisionId, refund, preimages, dbErr, snaps, touched>>

Revision    == [id : Nat, journalIndex : Nat]
RevisionIds == 0 .. MaxRevisions - 1
EmptyTrie   == [a \in Addrs |-> Nil]
NoSnaps     == [i \in {} |-> Nil]

ReadOutcomes           == IF ReadFailures THEN BOOLEAN ELSE {TRUE}
WriteFailureSets(D)    == IF WriteFailures THEN SUBSET D ELSE {{}}

Trie(v) == tries[trieOf[v]]

\* setError: remember the first error only.
setError(err, new) == IF err = NoErr THEN new ELSE err

(***************************************************************************)
(* Observable state: what the getters return for each address.  A live    *)
(* object wins (a deleted one reads as absent); otherwise the trie record. *)
(***************************************************************************)
Visible(d) == [balance |-> d.balance, nonce |-> d.nonce, code |-> d.code,
               storage |-> d.storage]

ObsAccount(v, a) ==
  LET o == stateObjects[v][a]
      r == Trie(v)[a]
  IN IF o # NoObj THEN IF o.deleted THEN Nil
                       ELSE [data |-> Visible(o.data), suicided |-> o.suicided]
     ELSE IF r \in Account THEN [data |-> Visible(r), suicided |-> FALSE]
     ELSE Nil

Observe(v) == [accounts  |-> [a \in Addrs |-> ObsAccount(v, a)],
               refund    |-> refund[v],
               preimages |-> preimages[v]]

(***************************************************************************)
(* getStateObject(addr) against a trie, the live objects and dbErr, where *)
(* ok says whether a TryGet succeeds.  Returns the object (or Nil) and the *)
(* new objects and dbErr: a loaded record is inserted into the live set.   *)
(***************************************************************************)
getStateObject(trie, objs, err, a, ok) ==
  LET live == objs[a]
      enc  == trie[a]
  IN CASE live # NoObj       -> [obj  |-> IF live.deleted THEN Nil ELSE live,
                                 objs |-> objs, err |-> err]
       [] ~ok                -> [obj |-> Nil, objs |-> objs,
                                 err |-> setError(err, ErrRead)]
       [] enc \in Account    -> [obj  |-> newObject(enc),
                                 objs |-> [objs EXCEPT ![a] = newObject(enc)],
                                 err  |-> err]
       [] OTHER              -> [obj |-> Nil, objs |-> objs, err |-> err]

\* createObject(addr): a fresh object replaces any previous one; the entry
\* is a createObjectChange when there was none, else a resetObjectChange.
createObject(trie, objs, err, a, ok) ==
  LET p   == getStateObject(trie, objs, err, a, ok)
      new == newObject(EmptyAccount)
  IN [obj  |-> new, prev |-> p.obj,
      objs |-> [p.objs EXCEPT ![a] = new], err |-> p.err,
      entries |-> <<IF p.obj = Nil THEN createObjectChange(a)
                    ELSE resetObjectChange(a, p.obj)>>]

\* GetOrNewStateObject(addr); ok1 and ok2 are the outcomes of the reads in
\* getStateObject and in createObject's own getStateObject.
GetOrNewStateObject(v, a, ok1, ok2) ==
  LET g == getStateObject(Trie(v), stateObjects[v], dbErr[v], a, ok1)
  IN IF g.obj # Nil THEN [obj |-> g.obj, objs |-> g.objs, err |-> g.err,
                          entries |-> <<>>]
     ELSE createObject(Trie(v), g.objs, g.err, a, ok2)

(***************************************************************************)
(* Actions.                                                                *)
(***************************************************************************)
Init ==
  /\ alive = {View0}
  /\ \E root \in [Addrs -> InitRecords] :
        tries = [t \in Views |-> IF t = View0 THEN root ELSE EmptyTrie]
  /\ trieOf = [v \in Views |-> v]
  /\ stateObjects = [v \in Views |-> [a \in Addrs |-> NoObj]]
  /\ stateObjectsDirty = [v \in Views |-> {}]
  /\ journal = [v \in Views |-> newJournal]
  /\ validRevisions = [v \in Views |-> <<>>]
  /\ nextRevisionId = [v \in Views |-> 0]
  /\ refund = [v \in Views |-> 0]
  /\ preimages = [v \in Views |-> {}]
  /\ dbErr = [v \in Views |-> NoErr]
  /\ snaps = [v \in Views |-> NoSnaps]
  /\ touched = [v \in Views |-> {}]

\* A setter of the StateDB: GetOrNewStateObject(addr), then the object's
\* mutator F; t is the set of addresses the call touches.
Setter(v, a, F(_), t) ==
  \E ok1, ok2 \in ReadOutcomes :
    LET g  == GetOrNewStateObject(v, a, ok1, ok2)
        r  == F(g.obj)
        es == g.entries \o r.entries
    IN /\ length(journal[v]) + Len(es) <= MaxJournal
       /\ r.obj.data \in Account
       /\ stateObjects' = [stateObjects EXCEPT ![v] = [g.objs EXCEPT ![a] = r.obj]]
       /\ journal' = [journal EXCEPT ![v] = append(@, es)]
       /\ dbErr' = [dbErr EXCEPT ![v] = g.err]
       /\ touched' = [touched EXCEPT ![v] = @ \cup t]
       /\ UNCHANGED <<alive, tries, trieOf, stateObjectsDirty, validRevisions,
                      nextRevisionId, refund, preimages, snaps>>

AddBalanceOp(v, a, amount) ==
  Setter(v, a, LAMBDA o : AddBalance(o, a, amount), {a})

\* A SubBalance of zero changes nothing and does not touch the account.
SubBalanceOp(v, a, amount) ==
  Setter(v, a, LAMBDA o : SubBalance(o, a, amount), IF amount = 0 THEN {} ELSE {a})

SetBalanceOp(v, a, amount) ==
  Setter(v, a, LAMBDA o : SetBalance(o, a, amount), {a})

SetNonceOp(v, a, n) ==
  Setter(v, a, LAMBDA o : SetNonce(o, a, n), {a})

SetCodeOp(v, a, c) ==
  Setter(v, a, LAMBDA o : SetCode(o, a, c), {a})

SetStateOp(v, a, k, val) ==
  Setter(v, a, LAMBDA o : SetState(o, a, k, val), {a})

\* SetPDXState: no journal entry of its own (see StateObject).
SetPDXStateOp(v, a, k, val) ==
  Setter(v, a, LAMBDA o : Res(SetPDXState(o, k, val), <<>>), {})

\* The getters (GetBalance, GetNonce, GetCode, GetCodeHash, GetState,
\* GetPDXState, Exist, Empty, HasSuicided): getStateObject, then a pure read.
Get(v, a) ==
  \E ok \in ReadOutcomes :
    LET g == getStateObject(Trie(v), stateObjects[v], dbErr[v], a, ok)
    IN /\ stateObjects' = [stateObjects EXCEPT ![v] = g.objs]
       /\ dbErr' = [dbErr EXCEPT ![v] = g.err]
       /\ UNCHANGED <<alive, tries, trieOf, stateObjectsDirty, journal,
                      validRevisions, nextRevisionId, refund, preimages, snaps, touched>>

\* GetSelectiveStateObjectRoot(addr): getStateObject, then the hash of the
\* object's storage trie (no state of its own); a missing object is
\* returned as an error, not recorded in dbErr.
GetSelectiveStateObjectRoot(v, a) == Get(v, a)

\* GetCodeSize reads the code through db.ContractCode and records its error.
GetCodeSize(v, a) ==
  \E ok, codeOk \in ReadOutcomes :
    LET g == getStateObject(Trie(v), stateObjects[v], dbErr[v], a, ok)
    IN /\ stateObjects' = [stateObjects EXCEPT ![v] = g.objs]
       /\ dbErr' = [dbErr EXCEPT ![v] =
                      IF g.obj # Nil /\ ~codeOk THEN setError(g.err, ErrRead) ELSE g.err]
       /\ UNCHANGED <<alive, tries, trieOf, stateObjectsDirty, journal,
                      validRevisions, nextRevisionId, refund, preimages, snaps, touched>>

\* Suicide(addr): no-op without a live object; otherwise journal the flag
\* and balance, mark the object and zero its balance.
Suicide(v, a) ==
  \E ok \in ReadOutcomes :
    LET g == getStateObject(Trie(v), stateObjects[v], dbErr[v], a, ok)
        o == g.obj
    IN /\ stateObjects' = [stateObjects EXCEPT ![v] =
              IF o = Nil THEN g.objs
              ELSE [g.objs EXCEPT ![a] = [markSuicided(o) EXCEPT !.data.balance = 0]]]
       /\ journal' = [journal EXCEPT ![v] =
              IF o = Nil THEN @
              ELSE append(@, <<suicideChange(a, o.suicided, o.data.balance)>>)]
       /\ o # Nil => length(journal[v]) < MaxJournal
       /\ dbErr' = [dbErr EXCEPT ![v] = g.err]
       /\ touched' = [touched EXCEPT ![v] = IF o = Nil THEN @ ELSE @ \cup {a}]
       /\ UNCHANGED <<alive, tries, trieOf, stateObjectsDirty, validRevisions,
                      nextRevisionId, refund, preimages, snaps>>

\* CreateAccount(addr): createObject, carrying over a previous balance.
CreateAccount(v, a) ==
  \E ok \in ReadOutcomes :
    LET c   == createObject(Trie(v), stateObjects[v], dbErr[v], a, ok)
        new == IF c.prev = Nil THEN c.obj
               ELSE [c.obj EXCEPT !.data.balance = c.prev.data.balance]
    IN /\ length(journal[v]) < MaxJournal
       /\ stateObjects' = [stateObjects EXCEPT ![v] = [c.objs EXCEPT ![a] = new]]
       /\ journal' = [journal EXCEPT ![v] = append(@, c.entries)]
       /\ dbErr' = [dbErr EXCEPT ![v] = c.err]
       /\ touched' = [touched EXCEPT ![v] = @ \cup {a}]
       /\ UNCHANGED <<alive, tries, trieOf, stateObjectsDirty, validRevisions,
                      nextRevisionId, refund, preimages, snaps>>

\* Mutant of AddRefund: the gas is subtracted from the counter.
AddRefundSubtracts(v, gas) ==
  /\ length(journal[v]) < MaxJournal
  /\ refund[v] + gas <= MaxRefund
  /\ journal' = [journal EXCEPT ![v] = append(@, <<refundChange(refund[v])>>)]
  /\ refund' = [refund EXCEPT ![v] = @ - gas]
  /\ UNCHANGED <<alive, tries, trieOf, stateObjects, stateObjectsDirty,
                 validRevisions, nextRevisionId, preimages, dbErr, snaps, touched>>

\* Mutant of AddRefund: the counter is raised before it is journaled.
AddRefundJournalAfter(v, gas) ==
  /\ length(journal[v]) < MaxJournal
  /\ refund[v] + gas <= MaxRefund
  /\ journal' = [journal EXCEPT ![v] = append(@, <<refundChange(refund[v] + gas)>>)]
  /\ refund' = [refund EXCEPT ![v] = @ + gas]
  /\ UNCHANGED <<alive, tries, trieOf, stateObjects, stateObjectsDirty,
                 validRevisions, nextRevisionId, preimages, dbErr, snaps, touched>>

AddRefund(v, gas) ==
  /\ length(journal[v]) < MaxJournal
  /\ refund[v] + gas <= MaxRefund
  /\ journal' = [journal EXCEPT ![v] = append(@, <<refundChange(refund[v])>>)]
  /\ refund' = [refund EXCEPT ![v] = @ + gas]
  /\ UNCHANGED <<alive, tries, trieOf, stateObjects, stateObjectsDirty,
                 validRevisions, nextRevisionId, preimages, dbErr, snaps, touched>>

\* AddPreimage(hash, preimage): journaled only the first time.
AddPreimage(v, h) ==
  /\ h \notin preimages[v]
  /\ length(journal[v]) < MaxJournal
  /\ journal' = [journal EXCEPT ![v] = append(@, <<addPreimageChange(h)>>)]
  /\ preimages' = [preimages EXCEPT ![v] = @ \cup {h}]
  /\ UNCHANGED <<alive, tries, trieOf, stateObjects, stateObjectsDirty,
                 validRevisions, nextRevisionId, refund, dbErr, snaps, touched>>

\* Snapshot(): push (nextRevisionId, journal length); the history records
\* what the view shows at this point under the new id.
Snapshot(v) ==
  LET id == nextRevisionId[v]
  IN /\ id < MaxRevisions
     /\ nextRevisionId' = [nextRevisionId EXCEPT ![v] = id + 1]
     /\ validRevisions' = [validRevisions EXCEPT ![v] =
                             Append(@, [id |-> id, journalIndex |-> length(journal[v])])]
     /\ snaps' = [snaps EXCEPT ![v] =
                    (id :> [obs |-> Observe(v), touched |-> touched[v]]) @@ @]
     /\ UNCHANGED <<alive, tries, trieOf, stateObjects, stateObjectsDirty,
                    journal, refund, preimages, dbErr, touched>>

\* sort.Search: the first index whose revision id is >= revid.
SearchRevision(vr, revid) ==
  LET found == {i \in DOMAIN vr : vr[i].id >= revid}
  IN IF found = {} THEN Len(vr) + 1
     ELSE CHOOSE i \in found : \A j \in found : i <= j

\* RevertToSnapshot(revid), for any id Snapshot has returned.  When the
\* search does not hit revid the code panics; that call is not a step.
RevertToSnapshot(v, revid) ==
  LET vr  == validRevisions[v]
      idx == SearchRevision(vr, revid)
      st  == [objs |-> stateObjects[v], objsDirty |-> stateObjectsDirty[v],
              refund |-> refund[v], preimages |-> preimages[v]]
      r   == revert(journal[v], st, vr[idx].journalIndex)
  IN /\ revid < nextRevisionId[v]
     /\ idx <= Len(vr) /\ vr[idx].id = revid
     /\ journal' = [journal EXCEPT ![v] = r.journal]
     /\ stateObjects' = [stateObjects EXCEPT ![v] = r.view.objs]
     /\ stateObjectsDirty' = [stateObjectsDirty EXCEPT ![v] = r.view.objsDirty]
     /\ refund' = [refund EXCEPT ![v] = r.view.refund]
     /\ preimages' = [preimages EXCEPT ![v] = r.view.preimages]
     /\ validRevisions' = [validRevisions EXCEPT ![v] = SubSeq(vr, 1, idx - 1)]
     /\ touched' = [touched EXCEPT ![v] = snaps[v][revid].touched]
     /\ UNCHANGED <<alive, tries, trieOf, nextRevisionId, dbErr, snaps>>

\* Mutant of clearJournalAndRefund: the revision stack is kept.
clearJournalKeepRevisions(v) ==
  /\ journal' = [journal EXCEPT ![v] = newJournal]
  /\ UNCHANGED validRevisions
  /\ refund' = [refund EXCEPT ![v] = 0]
  /\ snaps' = [snaps EXCEPT ![v] = NoSnaps]
  /\ touched' = [touched EXCEPT ![v] = {}]

\* clearJournalAndRefund: a new journal, no revisions, no refund (the
\* revision ids keep counting up).  The history variables restart too.
clearJournalAndRefund(v) ==
  /\ journal' = [journal EXCEPT ![v] = newJournal]
  /\ validRevisions' = [validRevisions EXCEPT ![v] = <<>>]
  /\ refund' = [refund EXCEPT ![v] = 0]
  /\ snaps' = [snaps EXCEPT ![v] = NoSnaps]
  /\ touched' = [touched EXCEPT ![v] = {}]

\* Finalise's fallback (statedb.go:571-576): a dirty address with no live
\* object (ripemd, touched and reverted) is looked up again with
\* getStateObject.  When that finds no account (a missing key, a record
\* that does not decode, a failed read) it returns nil and
\* stateObject.suicided dereferences it: the code panics, and Finalise
\* takes no step.
FinaliseResolves(v) ==
  \A a \in DirtyAddrs(journal[v]) : stateObjects[v][a] # NoObj \/ Trie(v)[a] \in Account

\* The objects Finalise works on: the live ones, and for a dirty address
\* without one the object getStateObject loads (and caches) from the trie.
FinaliseObjects(v) ==
  [a \in Addrs |-> IF stateObjects[v][a] = NoObj /\ a \in DirtyAddrs(journal[v])
                   THEN newObject(Trie(v)[a]) ELSE stateObjects[v][a]]

\* Mutant of Finalise: a suicided object that is not empty is written back.
FinaliseKeepSuicided(v, deleteEmptyObjects) ==
  LET D       == DirtyAddrs(journal[v])
      objs    == FinaliseObjects(v)
      gone(a) == deleteEmptyObjects /\ empty(objs[a])
  IN \E F \in WriteFailureSets(D) :
     /\ FinaliseResolves(v)
     /\ stateObjects' = [stateObjects EXCEPT ![v] =
           [a \in Addrs |-> IF a \in D /\ gone(a) THEN [objs[a] EXCEPT !.deleted = TRUE]
                            ELSE objs[a]]]
     /\ tries' = [tries EXCEPT ![trieOf[v]] =
           [a \in Addrs |-> IF a \in D \ F THEN (IF gone(a) THEN Nil ELSE objs[a].data)
                            ELSE Trie(v)[a]]]
     /\ dbErr' = [dbErr EXCEPT ![v] = IF F = {} THEN @ ELSE setError(@, ErrWrite)]
     /\ stateObjectsDirty' = [stateObjectsDirty EXCEPT ![v] = @ \cup D]
     /\ clearJournalAndRefund(v)
     /\ UNCHANGED <<alive, trieOf, nextRevisionId, preimages>>

\* Mutant of Finalise: deleteEmptyObjects is ignored.
FinaliseKeepEmpty(v, deleteEmptyObjects) ==
  LET D       == DirtyAddrs(journal[v])
      objs    == FinaliseObjects(v)
      gone(a) == objs[a].suicided
  IN \E F \in WriteFailureSets(D) :
     /\ FinaliseResolves(v)
     /\ stateObjects' = [stateObjects EXCEPT ![v] =
           [a \in Addrs |-> IF a \in D /\ gone(a) THEN [objs[a] EXCEPT !.deleted = TRUE]
                            ELSE objs[a]]]
     /\ tries' = [tries EXCEPT ![trieOf[v]] =
           [a \in Addrs |-> IF a \in D \ F THEN (IF gone(a) THEN Nil ELSE objs[a].data)
                            ELSE Trie(v)[a]]]
     /\ dbErr' = [dbErr EXCEPT ![v] = IF F = {} THEN @ ELSE setError(@, ErrWrite)]
     /\ stateObjectsDirty' = [stateObjectsDirty EXCEPT ![v] = @ \cup D]
     /\ clearJournalAndRefund(v)
     /\ UNCHANGED <<alive, trieOf, nextRevisionId, preimages>>

\* Mutant of Finalise: a failed trie write is not recorded in dbErr.
FinaliseSwallowError(v, deleteEmptyObjects) ==
  LET D       == DirtyAddrs(journal[v])
      objs    == FinaliseObjects(v)
      gone(a) == objs[a].suicided \/ (deleteEmptyObjects /\ empty(objs[a]))
  IN \E F \in WriteFailureSets(D) :
     /\ FinaliseResolves(v)
     /\ stateObjects' = [stateObjects EXCEPT ![v] =
           [a \in Addrs |-> IF a \in D /\ gone(a) THEN [objs[a] EXCEPT !.deleted = TRUE]
                            ELSE objs[a]]]
     /\ tries' = [tries EXCEPT ![trieOf[v]] =
           [a \in Addrs |-> IF a \in D \ F THEN (IF gone(a) THEN Nil ELSE objs[a].data)
                            ELSE Trie(v)[a]]]
     /\ UNCHANGED dbErr
     /\ stateObjectsDirty' = [stateObjectsDirty EXCEPT ![v] = @ \cup D]
     /\ clearJournalAndRefund(v)
     /\ UNCHANGED <<alive, trieOf, nextRevisionId, preimages>>

\* Finalise(deleteEmptyObjects), and IntermediateRoot which is Finalise
\* followed by a read of the root hash.  For every address in the journal's
\* dirty set: delete a suicided (or, if asked, empty) object from the trie
\* and mark it deleted, otherwise write its record; remember the address in
\* stateObjectsDirty; then clearJournalAndRefund.  F is the set of
\* addresses whose trie write fails.  A dirty address with no live object
\* is first looked up again (FinaliseResolves, FinaliseObjects).
Finalise(v, deleteEmptyObjects) ==
  LET D       == DirtyAddrs(journal[v])
      objs    == FinaliseObjects(v)
      trie    == Trie(v)
      gone(a) == objs[a].suicided \/ (deleteEmptyObjects /\ empty(objs[a]))
  IN \E F \in WriteFailureSets(D) :
     /\ FinaliseResolves(v)
     /\ stateObjects' = [stateObjects EXCEPT ![v] =
           [a \in Addrs |-> IF a \in D /\ gone(a) THEN [objs[a] EXCEPT !.deleted = TRUE]
                            ELSE objs[a]]]
     /\ tries' = [tries EXCEPT ![trieOf[v]] =
           [a \in Addrs |-> IF a \in D \ F THEN (IF gone(a) THEN Nil ELSE objs[a].data)
                            ELSE trie[a]]]
     /\ dbErr' = [dbErr EXCEPT ![v] = IF F = {} THEN @ ELSE setError(@, ErrWrite)]
     /\ stateObjectsDirty' = [stateObjectsDirty EXCEPT ![v] = @ \cup D]
     /\ clearJournalAndRefund(v)
     /\ UNCHANGED <<alive, trieOf, nextRevisionId, preimages>>

\* IntermediateRoot(deleteEmptyObjects): Finalise, then s.trie.Hash()
\* (RootData), which reads and changes nothing.
IntermediateRoot(v, deleteEmptyObjects) == Finalise(v, deleteEmptyObjects)

\* Mutant of Copy: only the first loop, over the journal's dirties.
CopyFirstLoopOnly(v, w) ==
  LET first == {a \in DirtyAddrs(journal[v]) : stateObjects[v][a] # NoObj}
  IN /\ w \notin alive
     /\ alive' = alive \cup {w}
     /\ tries' = [tries EXCEPT ![w] = Trie(v)]
     /\ trieOf' = [trieOf EXCEPT ![w] = w]
     /\ stateObjects' = [stateObjects EXCEPT ![w] =
                           [a \in Addrs |-> IF a \in first THEN stateObjects[v][a] ELSE NoObj]]
     /\ stateObjectsDirty' = [stateObjectsDirty EXCEPT ![w] = first]
     /\ refund' = [refund EXCEPT ![w] = refund[v]]
     /\ preimages' = [preimages EXCEPT ![w] = preimages[v]]
     /\ UNCHANGED <<journal, validRevisions, nextRevisionId, dbErr, snaps, touched>>

\* Mutant of Copy: the second loop marks addresses dirty without copying
\* their objects.
CopyDirtyWithoutObjects(v, w) ==
  LET first == {a \in DirtyAddrs(journal[v]) : stateObjects[v][a] # NoObj}
  IN /\ w \notin alive
     /\ alive' = alive \cup {w}
     /\ tries' = [tries EXCEPT ![w] = Trie(v)]
     /\ trieOf' = [trieOf EXCEPT ![w] = w]
     /\ stateObjects' = [stateObjects EXCEPT ![w] =
                           [a \in Addrs |-> IF a \in first THEN stateObjects[v][a] ELSE NoObj]]
     /\ stateObjectsDirty' = [stateObjectsDirty EXCEPT ![w] = first \cup stateObjectsDirty[v]]
     /\ refund' = [refund EXCEPT ![w] = refund[v]]
     /\ preimages' = [preimages EXCEPT ![w] = preimages[v]]
     /\ UNCHANGED <<journal, validRevisions, nextRevisionId, dbErr, snaps, touched>>

\* Copy(): a new view w over a copy of the trie, with deep copies of the
\* objects in the journal's dirties and then of those in stateObjectsDirty
\* not copied yet, the refund and the preimages; a new journal, no
\* revisions, no error.  The second loop calls deepCopy on
\* self.stateObjects[addr], which panics for an address without an object.
Copy(v, w) ==
  LET first  == {a \in DirtyAddrs(journal[v]) : stateObjects[v][a] # NoObj}
      copied == first \cup stateObjectsDirty[v]
  IN /\ w \notin alive
     /\ \A a \in stateObjectsDirty[v] \ first : stateObjects[v][a] # NoObj
     /\ alive' = alive \cup {w}
     /\ tries' = [tries EXCEPT ![w] = Trie(v)]
     /\ trieOf' = [trieOf EXCEPT ![w] = w]
     /\ stateObjects' = [stateObjects EXCEPT ![w] =
                           [a \in Addrs |-> IF a \in copied THEN stateObjects[v][a]
                                            ELSE NoObj]]
     /\ stateObjectsDirty' = [stateObjectsDirty EXCEPT ![w] = copied]
     /\ refund' = [refund EXCEPT ![w] = refund[v]]
     /\ preimages' = [preimages EXCEPT ![w] = preimages[v]]
     /\ UNCHANGED <<journal, validRevisions, nextRevisionId, dbErr, snaps, touched>>

\* NewCopy(state): a new, empty view that shares state's trie (the same
\* Trie value, not db.CopyTrie of it).
NewCopy(v, w) ==
  /\ w \notin alive
  /\ alive' = alive \cup {w}
  /\ trieOf' = [trieOf EXCEPT ![w] = trieOf[v]]
  /\ UNCHANGED <<tries, stateObjects, stateObjectsDirty, journal, validRevisions,
                 nextRevisionId, refund, preimages, dbErr, snaps, touched>>

ViewNext(v) ==
  \/ \E a \in Addrs :
       \/ Get(v, a)
       \/ GetSelectiveStateObjectRoot(v, a)
       \/ GetCodeSize(v, a)
       \/ Suicide(v, a)
       \/ CreateAccount(v, a)
       \/ \E x \in Amounts : AddBalanceOp(v, a, x) \/ SubBalanceOp(v, a, x)
       \/ \E x \in Balances : SetBalanceOp(v, a, x)
       \/ \E n \in Nonces : SetNonceOp(v, a, n)
       \/ \E c \in Codes \cup {NoCode} : SetCodeOp(v, a, c)
       \/ \E k \in Keys : \/ \E x \in Values : SetStateOp(v, a, k, x)
                         \/ \E x \in PdxValues : SetPDXStateOp(v, a, k, x)
  \/ \E x \in Amounts : AddRefund(v, x)
  \/ \E h \in Hashes : AddPreimage(v, h)
  \/ Snapshot(v)
  \/ \E id \in RevisionIds : RevertToSnapshot(v, id)
  \/ \E d \in BOOLEAN : Finalise(v, d) \/ IntermediateRoot(v, d)

Next == \E v \in alive : ViewNext(v)

\* The system with Copy() only, and with NewCopy as well.
NextCopy    == \E v \in alive : ViewNext(v) \/ \E w \in Views : Copy(v, w)
NextNewCopy == NextCopy \/ \E v \in alive, w \in Views : NewCopy(v, w)

Spec        == Init /\ [][Next]_vars
SpecCopy    == Init /\ [][NextCopy]_vars
SpecNewCopy == Init /\ [][NextNewCopy]_vars

(***************************************************************************)
(* Invariants and properties.                                              *)
(***************************************************************************)
TypeOK ==
  /\ alive \subseteq Views
  /\ tries \in [Views -> [Addrs -> Account \cup {Nil, Corrupt}]]
  /\ trieOf \in [Views -> Views]
  /\ stateObjects \in [Views -> [Addrs -> StateObjectT \cup {NoObj}]]
  /\ stateObjectsDirty \in [Views -> SUBSET Addrs]
  /\ \A v \in Views : /\ journal[v].dirties \in [Addrs -> Nat]
                      /\ length(journal[v]) <= MaxJournal
                      /\ validRevisions[v] \in Seq(Revision)
  /\ nextRevisionId \in [Views -> 0 .. MaxRevisions]
  /\ refund \in [Views -> 0 .. MaxRefund]
  /\ preimages \in [Views -> SUBSET Hashes]
  /\ dbErr \in [Views -> {NoErr, ErrRead, ErrWrite}]

\* RevertToSnapshot(id) puts every getter back to what it returned when
\* Snapshot() handed out id: balances, nonces, code, storage, existence,
\* the suicided flag, the refund and the preimages (journal.revert undoing
\* the entries appended since, in reverse order).
RevertRestoresSnapshot ==
  [][\A v \in Views, id \in RevisionIds :
        RevertToSnapshot(v, id) => Observe(v)' = snaps[v][id].obs]_vars

\* Every address Finalise walks (the journal's dirties) resolves: it has
\* a live object, or the trie holds an account its fallback getStateObject
\* loads, so stateObject.suicided at statedb.go:576 never dereferences nil,
\* whatever the order of setters, reverts and Finalises.
DirtyAddressesResolve ==
  \A v \in alive : \A a \in DirtyAddrs(journal[v]) :
    stateObjects[v][a] # NoObj \/ Trie(v)[a] \in Account

\* Every address in stateObjectsDirty has a live object, so the deepCopy in
\* Copy's second loop (statedb.go:512-516) never dereferences nil, also in
\* copies of copies.
DirtyObjectsBacked ==
  \A v \in alive : \A a \in stateObjectsDirty[v] : stateObjects[v][a] # NoObj

\* The trie of view v commits to its live objects: a deleted object is gone
\* from the trie, any other one is not suicided and its record is what
\* the trie holds.
TrieCommitsCache(v) ==
  \A a \in Addrs :
    LET o == stateObjects[v][a] IN
      o # NoObj =>
        IF o.deleted THEN Trie(v)[a] = Nil
        ELSE /\ ~o.suicided
             /\ Trie(v)[a] \in Account
             /\ Visible(Trie(v)[a]) = Visible(o.data)

\* Whenever the journal is empty (after Finalise, or after reverting to a
\* snapshot taken then) and no database error has been recorded, the live
\* objects agree with the trie.
CacheAgreesWithTrie ==
  \A v \in alive :
    (length(journal[v]) = 0 /\ dbErr[v] = NoErr) => TrieCommitsCache(v)

\* IntermediateRoot (Finalise, then the trie's hash) is the commitment to
\* the view: after a Finalise that records no error, the trie agrees with
\* every live object of the view, copied ones included.
FinaliseCommitsView ==
  [][\A v \in Views, d \in BOOLEAN :
        (Finalise(v, d) /\ dbErr'[v] = NoErr) => TrieCommitsCache(v)']_vars

\* The sticky error survives Copy (spec section 7: no root may be trusted
\* while the error is set): a copy taken between transactions, whose
\* cache and trie disagree because a trie write of the original failed,
\* carries an error too.
CopyCarriesError ==
  [][\A v, w \in Views :
        (Copy(v, w) /\ length(journal[v]) = 0) =>
          (TrieCommitsCache(w)' \/ dbErr'[w] # NoErr)]_vars

\* A value written with SetPDXState is what the trie holds after the next
\* Finalise that records no error, like any other write through a setter
\* (the comment in SetPDXState says it is lost unless SetState is called
\* on the same account).
PDXStatePersisted ==
  [][\A v \in Views, d \in BOOLEAN :
        (Finalise(v, d) /\ dbErr'[v] = NoErr) =>
          \A a \in Addrs :
            LET o == stateObjects'[v][a] IN
              (o # NoObj /\ ~o.deleted) => Trie(v)'[a].pdx = o.data.pdx]_vars

\* A record that does not decode is not silently taken for a missing
\* account (spec sections 7 and 9): a view that puts a live object at
\* such an address has recorded an error.
CorruptRecordSurfaces ==
  [][\A v \in Views, a \in Addrs :
        (Trie(v)[a] = Corrupt /\ stateObjects'[v][a] # NoObj) => dbErr'[v] # NoErr]_vars

\* The revision stack is what sort.Search in RevertToSnapshot relies on:
\* ids strictly increasing and below nextRevisionId, journal indexes
\* non-decreasing and within the current journal.
RevisionStackWellFormed ==
  \A v \in alive :
    LET vr == validRevisions[v] IN
      /\ \A i \in DOMAIN vr : /\ vr[i].id < nextRevisionId[v]
                              /\ vr[i].journalIndex <= length(journal[v])
      /\ \A i, j \in DOMAIN vr : i < j =>
            vr[i].id < vr[j].id /\ vr[i].journalIndex <= vr[j].journalIndex

\* EIP161: Finalise(true) leaves no empty account among those touched since
\* the previous Finalise (a zero AddBalance to an empty account included).
FinaliseRemovesTouchedEmpty ==
  [][\A v \in Views :
        Finalise(v, TRUE) =>
          \A a \in touched[v] : ObsAccount(v, a)' = Nil
                                \/ ~(ObsAccount(v, a)'.data.balance = 0
                                     /\ ObsAccount(v, a)'.data.nonce = 0
                                     /\ ObsAccount(v, a)'.data.code = NoCode)]_vars

\* Copy() yields a view that shows exactly what the original showed: the
\* objects it leaves behind (live but neither in the journal's dirties nor
\* in stateObjectsDirty) must be readable unchanged from the copied trie,
\* also when the original is itself a copy.
CopyPreservesView ==
  [][\A v, w \in Views : Copy(v, w) => Observe(w)' = Observe(v)]_vars

\* Views are independent: a step that is not an operation of view w does
\* not change anything w shows (spec section 5: mutating one copy never
\* affects another).
ViewsIndependent ==
  [][\A w \in alive : ~ViewNext(w) => Observe(w)' = Observe(w)]_vars

(***************************************************************************)
(* Refinement: view View0 implements the abstract view of StateView.      *)
(***************************************************************************)
\* What the root of view v commits to: the account data in its trie.
RootData(v) ==
  [a \in Addrs |-> IF Trie(v)[a] \in Account THEN Visible(Trie(v)[a]) ELSE Nil]

\* The open snapshots of view v, oldest first, with what the view showed.
OpenSnapshots(v) ==
  [i \in DOMAIN validRevisions[v] |->
     [id |-> validRevisions[v][i].id, view |-> snaps[v][validRevisions[v][i].id].obs]]

AbsView == INSTANCE StateView WITH
             view      <- Observe(View0),
             committed <- RootData(View0),
             saved     <- OpenSnapshots(View0),
             nextId    <- nextRevisionId[View0],
             failed    <- dbErr[View0] # NoErr

\* The StateDB, seen through its getters, its root, its revision stack and
\* dbErr, behaves as the abstract view: setters never move the root or
\* the snapshots, RevertToSnapshot restores the matched snapshot and drops
\* the later ones, Finalise/IntermediateRoot drops every revision, resets
\* the refund, removes suicided (and asked-for empty) accounts and, when
\* dbErr stays nil, makes the root commit to exactly what the getters show.
ImplementsStateView == AbsView!Spec

=============================================================================
