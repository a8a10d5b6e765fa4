--------------------------- MODULE ErrGroupServer ---------------------------
(***************************************************************************)
(* The errgroup HTTP server of 并行编程/httpserver (main.go and            *)
(* server/server.go).                                                      *)
(*                                                                         *)
(* main makes an unbuffered channel sch, an errgroup g with its context    *)
(* ctx, and starts one goroutine (the worker) with g.Go.  The worker calls *)
(* StartServer, which blocks in ListenAndServe; on an error it returns it, *)
(* else it sends the server on sch.  main blocks in g.Wait, then selects   *)
(* between receiving the server (to Shutdown it) and ctx.Done().           *)
(*                                                                         *)
(* errgroup (golang.org/x/sync) is folded into the steps that call it:     *)
(* g.Go adds 1 to the WaitGroup; a goroutine returning an error records    *)
(* the first error and cancels ctx before its wg.Done; Wait waits for the  *)
(* counter to reach 0 and then cancels ctx too.  ListenAndServe returns    *)
(* only a non-nil error (net/http): at once when the listen fails, or      *)
(* when Serve stops on an accept error.  While it serves, each client      *)
(* connection runs the registered handler on a goroutine of its own.      *)
(* When main returns the process exits and every goroutine stops.          *)
(***************************************************************************)
EXTENDS Naturals

CONSTANTS
  Conns          \* client connections (model values)

VARIABLES
  mainPc,        \* main: "go", "wait", "select", "done"
  workerPc,      \* worker: "idle", "listen", "serving", "returned", "send", "done"
  srv,           \* the http.Server: "new", "serving", "failed"
  wg,            \* the errgroup's WaitGroup counter
  gErr,          \* the errgroup's first error: "nil" or "err"
  ctxDone,       \* ctx from errgroup.WithContext is cancelled
  conn           \* per connection: "none", "active" (in the handler), "served"

vars == <<mainPc, workerPc, srv, wg, gErr, ctxDone, conn>>

Running == mainPc # "done"

Init ==
  /\ mainPc = "go"
  /\ workerPc = "idle"
  /\ srv = "new"
  /\ wg = 0
  /\ gErr = "nil"
  /\ ctxDone = FALSE
  /\ conn = [c \in Conns |-> "none"]

(***************************************************************************)
(* main                                                                    *)
(***************************************************************************)
\* Mutant of Go: the goroutine is started without wg.Add(1).
GoSkipsAdd ==
  /\ mainPc = "go"
  /\ workerPc' = "listen"
  /\ mainPc' = "wait"
  /\ UNCHANGED <<srv, wg, gErr, ctxDone, conn>>

\* g.Go(f): wg.Add(1) and start the worker.
Go ==
  /\ mainPc = "go"
  /\ wg' = wg + 1
  /\ workerPc' = "listen"
  /\ mainPc' = "wait"
  /\ UNCHANGED <<srv, gErr, ctxDone, conn>>

\* g.Wait(): block until the counter is 0, then cancel ctx.
Wait ==
  /\ mainPc = "wait"
  /\ wg = 0
  /\ ctxDone' = TRUE
  /\ mainPc' = "select"
  /\ UNCHANGED <<workerPc, srv, wg, gErr, conn>>

\* The select: its case <-ctx.Done() returns from main.  Its case
\* server := <-sch needs a worker blocked in the send (workerPc = "send"),
\* which the worker only reaches after g.Wait has returned for it, so the
\* case is never ready here and has no step.
Select ==
  /\ mainPc = "select"
  /\ ctxDone
  /\ mainPc' = "done"
  /\ UNCHANGED <<workerPc, srv, wg, gErr, ctxDone, conn>>

(***************************************************************************)
(* the worker goroutine and the server                                     *)
(***************************************************************************)
\* s.ListenAndServe(): the listen fails and it returns, or it serves.
ListenAndServe ==
  /\ Running
  /\ workerPc = "listen"
  /\ \E ok \in BOOLEAN :
       /\ srv' = IF ok THEN "serving" ELSE "failed"
       /\ workerPc' = IF ok THEN "serving" ELSE "returned"
  /\ UNCHANGED <<mainPc, wg, gErr, ctxDone, conn>>

\* Serve stops on an accept error and ListenAndServe returns it; the
\* connections already accepted keep running.
ServeFails ==
  /\ Running
  /\ workerPc = "serving"
  /\ srv' = "failed"
  /\ workerPc' = "returned"
  /\ UNCHANGED <<mainPc, wg, gErr, ctxDone, conn>>

\* Serve accepts a connection and runs the handler on it.
Accept(c) ==
  /\ Running
  /\ srv = "serving"
  /\ conn[c] = "none"
  /\ conn' = [conn EXCEPT ![c] = "active"]
  /\ UNCHANGED <<mainPc, workerPc, srv, wg, gErr, ctxDone>>

\* The handler registered with http.HandleFunc("/") returns.
Handle(c) ==
  /\ Running
  /\ conn[c] = "active"
  /\ conn' = [conn EXCEPT ![c] = "served"]
  /\ UNCHANGED <<mainPc, workerPc, srv, wg, gErr, ctxDone>>

\* Mutant of GoReturnsError: StartServer returns the server without
\* checking ListenAndServe's error, and the worker sends it on sch.
StartServerIgnoresError ==
  /\ Running
  /\ workerPc = "returned"
  /\ workerPc' = "send"
  /\ UNCHANGED <<mainPc, srv, wg, gErr, ctxDone, conn>>

\* StartServer returns (nil, err) after ListenAndServe's error, and the
\* worker returns err: errgroup records the first error, cancels ctx and
\* calls wg.Done.  (The send on sch after a nil error is unreachable.)
GoReturnsError ==
  /\ Running
  /\ workerPc = "returned"
  /\ gErr' = IF gErr = "nil" THEN "err" ELSE gErr
  /\ ctxDone' = TRUE
  /\ wg' = wg - 1
  /\ workerPc' = "done"
  /\ UNCHANGED <<mainPc, srv, conn>>

Next ==
  \/ Go \/ Wait \/ Select
  \/ ListenAndServe \/ ServeFails \/ GoReturnsError
  \/ \E c \in Conns : Accept(c) \/ Handle(c)

\* The Go scheduler runs every runnable goroutine: main, the worker and
\* the connection handlers are weakly fair.  Clients connecting and Serve
\* failing depend on the environment and are not.
Fairness ==
  /\ WF_vars(Go) /\ WF_vars(Wait) /\ WF_vars(Select)
  /\ WF_vars(ListenAndServe) /\ WF_vars(GoReturnsError)
  /\ \A c \in Conns : WF_vars(Handle(c))

Spec == Init /\ [][Next]_vars /\ Fairness

(***************************************************************************)
(* Properties                                                              *)
(***************************************************************************)
TypeOK ==
  /\ mainPc \in {"go", "wait", "select", "done"}
  /\ workerPc \in {"idle", "listen", "serving", "returned", "send", "done"}
  /\ srv \in {"new", "serving", "failed"}
  /\ wg \in Nat
  /\ gErr \in {"nil", "err"}
  /\ ctxDone \in BOOLEAN
  /\ conn \in [Conns -> {"none", "active", "served"}]

\* Once ListenAndServe has returned (the listen failed or Serve stopped),
\* main gets out of g.Wait and its select and the program exits: the
\* worker's return, the WaitGroup and the cancelled ctx never leave main
\* and the worker waiting on each other (the unbuffered send on sch).
ExitAfterServeEnds == (srv = "failed") ~> (mainPc = "done")

\* A request the server has accepted is served before main returns: the
\* select's case server.Shutdown(ctx) is there to let accepted requests
\* finish before the process exits.
InFlightRequestsDrained ==
  mainPc = "done" => \A c \in Conns : conn[c] # "active"
=============================================================================
