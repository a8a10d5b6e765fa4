------------------------------ MODULE SoHandler ------------------------------
(***************************************************************************)
(* The smart-object (SO) call path of pdx-chain-so: the Handler that      *)
(* serves state calls against the PDX storage of one address              *)
(* (so/handler.go), the SOCallStub a contract calls (so/stub.go) and the   *)
(* demo contract on top of it (simpleDemo.go).                             *)
(*                                                                         *)
(* Byte strings are sequences over the small alphabet Bytes.  A storage    *)
(* slot is a hash of HashLen bytes: common.BytesToHash keeps the last      *)
(* HashLen bytes of a key and left-pads a shorter one with zeros (the      *)
(* real width is 32; the model scales it down, which keeps both ways two   *)
(* keys can share a slot).  The chain GET_HISTORY walks is the constant    *)
(* Chain: Chain[i + 1] is the PDX storage at block i.                      *)
(***************************************************************************)
EXTENDS Integers, Sequences, FiniteSets

LOCAL INSTANCE SequencesExt

CONSTANTS
  Bytes,        \* byte values (0 is the padding byte)
  HashLen,      \* common.HashLength, scaled down
  Inputs,       \* the byte strings a contract passes as keys and values
  Functions,    \* function names a caller may pass to the demo contract
  Chain,        \* PDX storage of the address at blocks 0 .. Len(Chain) - 1
  Pruned,       \* block numbers whose state StateAt cannot open
  MaxSize,      \* the history size limit (5 GiB in the code), scaled down
  Nil,          \* a nil *CallSoResMessage
  Panic         \* a Go runtime panic ended the call

ASSUME 0 \in Bytes /\ HashLen \in Nat \ {0}
ASSUME Inputs \subseteq Seq(Bytes)
ASSUME Chain \in Seq([[1 .. HashLen -> Bytes] -> Inputs])
ASSUME MaxSize \in Nat \ {0}

Hash       == [1 .. HashLen -> Bytes]
Empty      == <<>>
BlockNums  == 0 .. Len(Chain) + 1

\* messageType
SoCall_GET_STATE   == 1
SoCall_PUT_STATE   == 2
Socall_PUT_STATES  == 3
SoCall_DEL_STATE   == 4
SoCall_GET_HISTORY == 5

\* The SoCallError values, and nil.
NoError      == "nil"
CallErrors   == {"Input_Error", "NoResult", "Key_Value_NotMatch",
                 "Start_FinishNum_Illegal", "History_Encode_Error",
                 "History_Limit_Reached"}

\* CallSoResMessage{res, err}.
Res(res, err) == [res |-> res, err |-> err]

\* common.BytesToHash: the last HashLen bytes, left-padded with zeros.
BytesToHash(b) ==
  LET pad == HashLen - Len(b)
  IN [i \in 1 .. HashLen |-> IF i <= pad THEN 0 ELSE b[i - pad]]

\* rlp.EncodeToBytes of a value with no exported fields (list.List and
\* RecordElement): the empty RLP list, the single byte 0xC0.
EncodeNoExportedFields == <<192>>

VARIABLES
  store,        \* MStateDB PDX storage of the stub's address: Hash -> value
  ret           \* what the last call returned to its caller, or Panic

vars == <<store, ret>>

(***************************************************************************)
(* Handler.handle, one operator per call type.  Each returns the storage  *)
(* after the call and the response (Nil when handle returns nil).          *)
(***************************************************************************)
Out(st, resp) == [st |-> st, resp |-> resp]

\* validityInput: the first input must not be empty.
validityInput(in) == IF Len(in) = 0 THEN Res(Empty, "Input_Error") ELSE Nil

\* GET_STATE: a response is built only when the value is empty.
handleGetState(st, key) ==
  Out(st, IF Len(st[key]) = 0 THEN Res(Empty, "NoResult") ELSE Nil)

handlePutState(st, key, ins) ==
  IF Len(ins) # 2 THEN Out(st, Res(Empty, "Key_Value_NotMatch"))
  ELSE Out([st EXCEPT ![key] = ins[2]], Res(Empty, NoError))

\* The PUT_STATES loop: pairs i = 0 .. n - 1 of ins, in order.
RECURSIVE putPairs(_, _, _, _)
putPairs(st, ins, i, n) ==
  IF i >= n THEN st
  ELSE putPairs([st EXCEPT ![BytesToHash(ins[2 * i + 1])] = ins[2 * i + 2]], ins, i + 1, n)

\* The loop bound is len(inputs) % 2, which is 0 once the length is even.
handlePutStates(st, ins) ==
  IF Len(ins) % 2 # 0 THEN Out(st, Res(Empty, "Key_Value_NotMatch"))
  ELSE Out(putPairs(st, ins, 0, Len(ins) % 2), Res(Empty, NoError))

handleDelState(st, key) == Out([st EXCEPT ![key] = Empty], Res(Empty, NoError))

\* The GET_HISTORY loop over blocks i = start .. finish - 1: a block past
\* the head is a nil *Block whose Header() panics; a block whose state
\* cannot be opened ends the loop; an empty value is skipped; a record is
\* pushed to the front and counted by its encoded size.
RECURSIVE collect(_, _, _, _, _)
collect(key, i, finish, recs, size) ==
  IF i >= finish THEN recs
  ELSE IF i >= Len(Chain) THEN Panic
  ELSE IF i \in Pruned THEN recs
  ELSE LET v == Chain[i + 1][key]
       IN IF Len(v) = 0 THEN collect(key, i + 1, finish, recs, size)
          ELSE LET size2 == size + Len(EncodeNoExportedFields)
               IN IF size2 >= MaxSize THEN <<[value |-> v, num |-> i]>> \o recs
                  ELSE collect(key, i + 1, finish, <<[value |-> v, num |-> i]>> \o recs, size2)

\* startNum < 0 and finishNum < 0 never hold for uint64.
handleGetHistory(st, key, ins, start, finish) ==
  IF Len(ins) % 3 # 0 THEN Out(st, Res(Empty, "Key_Value_NotMatch"))
  ELSE IF start > finish THEN Out(st, Res(Empty, "Start_FinishNum_Illegal"))
  ELSE IF collect(key, start, finish, <<>>, 0) = Panic THEN Out(st, Panic)
  ELSE Out(st, Res(EncodeNoExportedFields, "History_Limit_Reached"))

\* handle(message); start and finish are the block numbers the stub
\* encoded into inputs[1] and inputs[2].
handle(st, callType, ins, start, finish) ==
  IF validityInput(ins[1]) # Nil THEN Out(st, validityInput(ins[1]))
  ELSE LET key == BytesToHash(ins[1]) IN
    CASE callType = SoCall_GET_STATE   -> handleGetState(st, key)
      [] callType = SoCall_PUT_STATE   -> handlePutState(st, key, ins)
      [] callType = Socall_PUT_STATES  -> handlePutStates(st, ins)
      [] callType = SoCall_DEL_STATE   -> handleDelState(st, key)
      [] callType = SoCall_GET_HISTORY -> handleGetHistory(st, key, ins, start, finish)
      [] OTHER                         -> Out(st, Nil)

(***************************************************************************)
(* SOCallStub: each method sends one message to handle and returns its    *)
(* fields; a nil response is dereferenced.                                 *)
(***************************************************************************)
Returned(h) == IF h.resp \in {Nil, Panic} THEN Out(h.st, Panic) ELSE h

stubGetState(st, k) ==
  Returned(handle(st, SoCall_GET_STATE, <<k>>, 0, 0))

stubPutState(st, k, v) ==
  LET h == Returned(handle(st, SoCall_PUT_STATE, <<k, v>>, 0, 0))
  IN IF h.resp = Panic THEN h ELSE Out(h.st, Res(Empty, h.resp.err))

stubDelState(st, k) ==
  LET h == Returned(handle(st, SoCall_DEL_STATE, <<k>>, 0, 0))
  IN IF h.resp = Panic THEN h ELSE Out(h.st, Res(Empty, h.resp.err))

\* GetHistoryForKey: a non-empty result is returned as an error; only an
\* empty one is decoded, and rlp rejects empty input.
stubGetHistoryForKey(st, k, start, end) ==
  LET h == Returned(handle(st, SoCall_GET_HISTORY, <<k, <<start>>, <<end>>>>, start, end))
  IN CASE h.resp = Panic        -> h
       [] Len(h.resp.res) > 0   -> Out(st, Res(Empty, h.resp.err))
       [] OTHER                 -> Out(st, Res(Empty, "Decode_Error"))

(***************************************************************************)
(* The demo contract (simpleDemo.go): Run dispatches on the function name *)
(* GetFunctionAndParameters takes from the first argument.                 *)
(***************************************************************************)
NoArgs  == "noArgs"
RunArgs == {[fn |-> NoArgs, params |-> <<>>]} \cup
           {[fn |-> f, params |-> p] : f \in Functions, p \in BoundedSeq(Inputs, 2)}

queryPersonInfo(st, params) ==
  IF Len(params) # 1 THEN Out(st, Res(Empty, "QueryArgsError"))
  ELSE stubGetState(st, params[1])

savePersonInfo(st, params) ==
  IF Len(params) # 2 THEN Out(st, Res(Empty, "SaveArgsError"))
  ELSE LET h == stubPutState(st, params[1], params[2])
       IN IF h.resp = Panic \/ h.resp.err # NoError THEN h
          ELSE Out(h.st, Res(params[2], NoError))

RunContract(st, args) ==
  CASE args.fn = "queryPersonInfo" -> queryPersonInfo(st, args.params)
    [] args.fn = "savePersonInfo"  -> savePersonInfo(st, args.params)
    [] OTHER                       -> Out(st, Res(Empty, NoError))

(***************************************************************************)
(* Actions: a contract calls a stub method, or the demo contract is run.   *)
(* A panic ends the execution.                                             *)
(***************************************************************************)
Init ==
  /\ store \in [Hash -> Inputs]
  /\ ret = Res(Empty, NoError)

Call(h) ==
  /\ ret # Panic
  /\ store' = h.st
  /\ ret' = h.resp

GetState(k)        == Call(stubGetState(store, k))
PutState(k, v)     == Call(stubPutState(store, k, v))
DelState(k)        == Call(stubDelState(store, k))
GetHistoryForKey(k, s, e) == Call(stubGetHistoryForKey(store, k, s, e))
Run(args)          == Call(RunContract(store, args))

Next ==
  \/ \E k \in Inputs : GetState(k) \/ DelState(k)
  \/ \E k, v \in Inputs : PutState(k, v)
  \/ \E k \in Inputs, s, e \in BlockNums : GetHistoryForKey(k, s, e)
  \/ \E args \in RunArgs : Run(args)

Spec == Init /\ [][Next]_vars

(***************************************************************************)
(* Properties.                                                             *)
(***************************************************************************)
TypeOK ==
  /\ store \in [Hash -> Inputs]
  /\ ret \in {Panic} \cup [res : Seq(Bytes), err : CallErrors \cup {NoError,
                "QueryArgsError", "SaveArgsError", "Decode_Error"}]

\* GetState of a key under which a value is stored returns that value with
\* no error (what queryPersonInfo relies on to read what savePersonInfo
\* stored).
GetStateReadsBack ==
  [][\A k \in Inputs :
        (GetState(k) /\ Len(k) > 0 /\ Len(store[BytesToHash(k)]) > 0)
          => ret' = Res(store[BytesToHash(k)], NoError)]_vars

\* PutState of one key leaves the value of every other key unchanged.
KeysDoNotAlias ==
  [][\A k, v \in Inputs :
        PutState(k, v) =>
          \A k2 \in Inputs \ {k} : Len(k2) > 0 =>
             store'[BytesToHash(k2)] = store[BytesToHash(k2)]]_vars

\* PUT_STATES stores every key/value pair of an accepted message, later
\* pairs overriding earlier ones.
PutStatesStoresPairs ==
  \A ins \in BoundedSeq(Inputs, 2) :
    (Len(ins) > 0 /\ Len(ins[1]) > 0 /\ Len(ins) % 2 = 0) =>
      handle(store, Socall_PUT_STATES, ins, 0, 0).st = putPairs(store, ins, 0, Len(ins) \div 2)

\* GetHistoryForKey over a range of blocks the chain has returns without
\* an error.
HistoryReadable ==
  [][\A k \in Inputs, s, e \in BlockNums :
        (GetHistoryForKey(k, s, e) /\ Len(k) > 0 /\ s <= e /\ e <= Len(Chain))
          => ret' # Panic /\ ret'.err = NoError]_vars

\* GetHistoryForKey never crashes the node, whatever range it asks for:
\* handle answers an illegal range with Start_FinishNum_Illegal, and a
\* range past the chain head is one too (GetBlockByNumber returns nil for
\* it, and the loop calls block.Header() on it).
HistoryNeverPanics ==
  [][\A k \in Inputs, s, e \in BlockNums :
        (GetHistoryForKey(k, s, e) /\ Len(k) > 0) => ret' # Panic]_vars
=============================================================================
