-------------------------------- MODULE Server --------------------------------
(***************************************************************************)
(* The process around the writer of the store (LogWriter): how requests    *)
(* are admitted (limitProxy), what the pool does in the background (the    *)
(* refresh queue with its workers, the health loop), how accounts are      *)
(* imported, and how all of it is shut down (run in main.go).              *)
(*                                                                         *)
(* A caller of LogWriter is one request.  What a request and a refresh do  *)
(* in between is the subject of ProxyLoop, Pool and Credentials.  An       *)
(* account has the name of the token it was imported with.  The table of   *)
(* logs stays below the 5000 rows that the maintenance of main.go keeps.   *)
(***************************************************************************)
EXTENDS LogWriter

CONSTANTS Importers,
          Pasted,         \* per importer: its tokens
          Crowds,         \* who comes: sets of callers and importers
          MaxConcurrent,  \* MAX_CONCURRENT_REQUESTS; pending is twice that
          ImportSlots,    \* cap(importSlots)
          Workers,        \* the refresh workers of the pool
          RefreshCap      \* cap(refreshQueue)

ASSUME ServerAssumption ==
    /\ Callers \subseteq Nat
    /\ {MaxConcurrent, ImportSlots, RefreshCap} \subseteq Nat \ {0}
    /\ Crowds \subseteq SUBSET (Callers \cup Importers)

VARIABLES
    process,       \* place in run
    poolClosed,    \* Pool.closed, p.ctx and s.ctx ended (Server.Close)
    maintenance,   \* the goroutine of main.go is there
    crowd,         \* who comes in this behaviour
    place,         \* per request
    pending, admission,   \* the lengths of the channels
    left,          \* per importer: its context ended
    item,          \* per importer and token: how far it is
    rows,          \* tokens of the accounts in the table
    refreshQueue, queued,
    refresher,     \* per worker: Ready, Exited, or the account
    refreshed,     \* (aux) accounts that were refreshed
    health         \* the health loop runs

requests == <<place, pending, admission>>
imports == <<left, item, rows>>
background == <<refreshQueue, queued, refresher, refreshed, health>>
runtime == <<process, poolClosed, maintenance, crowd>>
server == <<runtime, requests, imports, background>>

Ready == <<>>
Exited == <<"exited">>

ServerInit ==
    /\ Init
    /\ process = "serving" /\ poolClosed = FALSE /\ maintenance = TRUE
    /\ crowd \in Crowds
    /\ place = [c \in Callers |-> "outside"] /\ pending = 0 /\ admission = 0
    /\ left = [i \in Importers |-> FALSE]
    /\ item = [i \in Importers |-> [t \in Pasted[i] |-> "todo"]]
    /\ rows = {}
    /\ refreshQueue = <<>> /\ queued = {}
    /\ refresher = [w \in Workers |-> Ready] /\ refreshed = {}
    /\ health = TRUE

Tokens == UNION {Pasted[i] : i \in Importers}

Alive == process # "ended"

-----------------------------------------------------------------------------
(* limitProxy. *)

\* Requests have the numbers in which they come.  There is room for twice as
\* many as may run, or the answer is 503.
Arrive(c) ==
    /\ process = "serving" /\ c \in crowd /\ place[c] = "outside"
    /\ \A d \in crowd \cap Callers : d < c => place[d] # "outside"
    /\ IF pending < 2 * MaxConcurrent
       THEN pending' = pending + 1 /\ place' = [place EXCEPT ![c] = "waiting"]
       ELSE place' = [place EXCEPT ![c] = "gone"] /\ UNCHANGED pending
    /\ UNCHANGED <<vars, runtime, admission, imports, background>>

Admit(c) ==
    /\ Alive /\ place[c] = "waiting"
    /\ admission < MaxConcurrent
    /\ admission' = admission + 1
    /\ place' = [place EXCEPT ![c] = "admitted"]
    /\ UNCHANGED <<vars, runtime, pending, imports, background>>

\* AdmissionTimeout is over, the client left, or the server shuts down (503).
Reject(c) ==
    /\ Alive /\ place[c] = "waiting"
    /\ place' = [place EXCEPT ![c] = "gone"]
    /\ pending' = pending - 1
    /\ UNCHANGED <<vars, runtime, admission, imports, background>>

\* The handler acquires an account (MarkUsed), or fails to, and logs.
Acquires(c) ==
    /\ Alive /\ place[c] = "admitted"
    /\ issued < MaxEntries
    /\ place' = [place EXCEPT ![c] = "acquired"]
    /\ BeginMarkUsed(c)
    /\ UNCHANGED <<runtime, pending, admission, imports, background>>

Logs(c) ==
    /\ Alive /\ place[c] \in {"admitted", "acquired"}
    /\ place' = [place EXCEPT ![c] = "logged"]
    /\ BeginAddLog(c)
    /\ UNCHANGED <<runtime, pending, admission, imports, background>>

\* (mutant) Only the place in admission is given back.
PendingLeft_Kept == pending

PendingLeft == pending - 1

\* (The list of models, or a request that is malformed, needs no account.)
Leave(c) ==
    /\ Alive /\ place[c] \in {"admitted", "logged"} /\ pc[c] = "idle"
    /\ place' = [place EXCEPT ![c] = "gone"]
    /\ admission' = admission - 1
    /\ pending' = PendingLeft
    /\ UNCHANGED <<vars, runtime, imports, background>>

-----------------------------------------------------------------------------
(* importTokens.  (A token that the server rotates is not found again.) *)

ContextOver(i) == left[i] \/ poolClosed

Items == {k \in Importers \X Tokens : k[2] \in Pasted[k[1]]}
Running == {k \in Items : item[k[1]][k[2]] = "hydrating"}

Moves(i, t, from, to) ==
    /\ Alive /\ i \in crowd
    /\ item[i][t] = from
    /\ item' = [item EXCEPT ![i][t] = to]
    /\ UNCHANGED <<vars, runtime, requests, left, refresher, refreshed, health>>

\* A goroutine for the token takes one of the import slots; HasRefreshToken.
StartToken(i, t) ==
    /\ process = "serving" \/ \E u \in Pasted[i] : item[i][u] # "todo"
    /\ Cardinality(Running) < ImportSlots
    /\ Moves(i, t, "todo", IF t \in rows THEN "skipped" ELSE "hydrating")
    /\ UNCHANGED <<rows, refreshQueue, queued>>

SkipRest(i, t) ==
    /\ ContextOver(i)
    /\ Moves(i, t, "todo", "left out")
    /\ UNCHANGED <<rows, refreshQueue, queued>>

\* hydrateAccount: the token cannot be refreshed, or its user not be read.
HydrateFails(i, t) ==
    /\ Moves(i, t, "hydrating", "failed")
    /\ UNCHANGED <<rows, refreshQueue, queued>>

\* InsertAccount, after hydrateAccount: the unique index has the last word.
InsertAccount(i, t) ==
    /\ Moves(i, t, "hydrating", IF t \in rows THEN "skipped" ELSE "imported")
    /\ rows' = rows \cup {t}
    /\ UNCHANGED <<refreshQueue, queued>>

\* After wg.Wait, one account after the other.
Enqueues(i) == \A t \in Pasted[i] : item[i][t] \notin {"todo", "hydrating", "marked"}

Account(i, t) == <<i, t>>

Mark(i, t) ==
    /\ Enqueues(i) /\ ~ContextOver(i)
    /\ Moves(i, t, "imported", IF Account(i, t) \in queued THEN "enqueued" ELSE "marked")
    /\ queued' = queued \cup {Account(i, t)}
    /\ UNCHANGED <<rows, refreshQueue>>

\* enqueueRefreshContext waits for room in the queue, or for its context.
Enqueue(i, t) ==
    /\ Len(refreshQueue) < RefreshCap
    /\ Moves(i, t, "marked", "enqueued")
    /\ refreshQueue' = Append(refreshQueue, Account(i, t))
    /\ UNCHANGED <<rows, queued>>

GiveUp(i, t) ==
    /\ ContextOver(i)
    /\ \/ Moves(i, t, "marked", "given up") /\ queued' = queued \ {Account(i, t)}
       \/ Enqueues(i) /\ Moves(i, t, "imported", "given up") /\ UNCHANGED queued
    /\ UNCHANGED <<rows, refreshQueue>>

Importing(i) ==
    /\ \E t \in Pasted[i] : item[i][t] # "todo"
    /\ \E t \in Pasted[i] : item[i][t] \in {"todo", "hydrating", "imported", "marked"}

\* The administrator leaves, or server.Close ends the connection.
ImporterLeaves(i) ==
    /\ Alive /\ Importing(i) /\ ~left[i]
    /\ left' = [left EXCEPT ![i] = TRUE]
    /\ UNCHANGED <<vars, runtime, requests, item, rows, background>>

Import(i) == \E t \in Pasted[i] :
    \/ StartToken(i, t) \/ SkipRest(i, t) \/ HydrateFails(i, t) \/ InsertAccount(i, t)
    \/ Mark(i, t) \/ Enqueue(i, t) \/ GiveUp(i, t)

-----------------------------------------------------------------------------
(* The background of the pool. *)

Works(w, from) ==
    /\ Alive /\ refresher[w] = from
    /\ UNCHANGED <<vars, runtime, requests, imports, health>>

StartRefresh(w) ==
    /\ Works(w, Ready)
    /\ refreshQueue # <<>>
    /\ refresher' = [refresher EXCEPT ![w] = Head(refreshQueue)]
    /\ refreshQueue' = Tail(refreshQueue)
    /\ UNCHANGED <<queued, refreshed>>

\* RefreshAccountContext returns and the mark is removed.
EndRefresh(w) ==
    /\ refresher[w] \notin {Ready, Exited}
    /\ Works(w, refresher[w])
    /\ refreshed' = refreshed \cup {refresher[w]}
    /\ queued' = queued \ {refresher[w]}
    /\ refresher' = [refresher EXCEPT ![w] = Ready]
    /\ UNCHANGED refreshQueue

\* (mutant) The worker only looks at the queue, which nobody closes.
PoolOver_Unseen == FALSE

PoolOver == poolClosed

WorkerExits(w) ==
    /\ Works(w, Ready)
    /\ PoolOver
    /\ refresher' = [refresher EXCEPT ![w] = Exited]
    /\ UNCHANGED <<queued, refreshed, refreshQueue>>

\* Wherever it is, waiting for the timer or for the checks of the accounts, it
\* looks at the context of the pool.
HealthLoopExits ==
    /\ Alive /\ health /\ poolClosed
    /\ health' = FALSE
    /\ UNCHANGED <<vars, runtime, requests, imports, refreshQueue, queued, refresher, refreshed>>

-----------------------------------------------------------------------------
(* run. *)

Proceed(from, to) ==
    /\ process = from /\ process' = to
    /\ UNCHANGED <<crowd, requests, imports, background>>

\* A signal, or the listener fails.
Stop ==
    /\ \/ Proceed("serving", "shutdown") \/ Proceed("serving", "maintenance")
    /\ UNCHANGED <<vars, poolClosed, maintenance>>

Busy == \/ \E c \in Callers : place[c] \notin {"outside", "gone"}
        \/ \E i \in Importers : Importing(i)

\* server.Shutdown waits for the handlers.
ShutdownReturns ==
    /\ ~Busy
    /\ Proceed("shutdown", "maintenance")
    /\ UNCHANGED <<vars, poolClosed, maintenance>>

\* Server.Close, the first or the second time, up to the wait in Pool.Close.
Close == poolClosed' = TRUE

\* ShutdownTimeout is over.
ShutdownTimesOut ==
    /\ Proceed("shutdown", "forced")
    /\ Close
    /\ UNCHANGED <<vars, maintenance>>

\* stopMaintenance and its wait, which TrimLogs does not outlive; Server.Close.
StopMaintenance ==
    /\ Proceed("maintenance", "close")
    /\ maintenance' = FALSE
    /\ Close
    /\ UNCHANGED vars

BackgroundEnded == ~health /\ \A w \in Workers : refresher[w] = Exited

PoolIsClosed(from, to) ==
    /\ BackgroundEnded
    /\ Proceed(from, to)
    /\ UNCHANGED <<vars, poolClosed, maintenance>>

Run ==
    \/ ShutdownReturns \/ ShutdownTimesOut \/ StopMaintenance
    \/ PoolIsClosed("forced", "maintenance") \/ PoolIsClosed("close", "store")

\* The deferred st.Close, and the end of the process.
CloseStore ==
    \/ process = "store" /\ StartClose /\ UNCHANGED server
    \/ CloseQueue /\ UNCHANGED server
    \/ /\ FinishClose
       /\ process' = "ended"
       /\ UNCHANGED <<poolClosed, maintenance, crowd, requests, imports, background>>

-----------------------------------------------------------------------------
Request(c) ==
    \/ Admit(c) \/ Reject(c) \/ Acquires(c) \/ Logs(c) \/ Leave(c)
    \/ Alive /\ (Check(c) \/ AddLog(c) \/ \E a \in Accounts : MarkUsed(c, a)) /\ UNCHANGED server

\* (A tick of the worker with nothing to write changes nothing, and time only
\* matters once one was noted.)
StoreWorks ==
    /\ Alive
    /\ \/ WorkerStep
       \/ ClockTick /\ noted # Nothing
    /\ worker' = "flush" => batch' # <<>> \/ used # Nothing \/ final'
    /\ UNCHANGED server

Refresher(w) == StartRefresh(w) \/ EndRefresh(w) \/ WorkerExits(w)

\* What the program does by itself: handlers, goroutines and timers.
Progress ==
    \/ \E c \in Callers : Request(c)
    \/ \E i \in Importers : Import(i)
    \/ \E w \in Workers : Refresher(w)
    \/ HealthLoopExits \/ Run \/ CloseStore \/ StoreWorks

ServerNext ==
    \/ Progress \/ Stop
    \/ \E c \in Callers : Arrive(c)
    \/ \E i \in Importers : ImporterLeaves(i)

all == <<vars, server>>

\* Requests, signals and the end of contexts need not come.  Nothing here goes
\* on forever, so that it is enough that something happens while it can.
ServerSpec == ServerInit /\ [][ServerNext]_all /\ WF_all(Progress)

-----------------------------------------------------------------------------
(* Properties. *)

At(c, places) == place[c] \in places
Imported == {k \in Items : item[k[1]][k[2]] \in
                {"imported", "marked", "enqueued", "given up"}}

\* Where a refresh that was asked for is: with its importer, in the queue, or
\* with a worker.
Holders(a) ==
    {<<"importer", i>> : i \in {j \in Importers : \E t \in Pasted[j] :
                                  item[j][t] = "marked" /\ Account(j, t) = a}}
    \cup {<<"queue", n>> : n \in {k \in DOMAIN refreshQueue : refreshQueue[k] = a}}
    \cup {<<"worker", w>> : w \in {v \in Workers : refresher[v] = a}}

\* However requests leave limitProxy (served, timed out, disconnected, or shut
\* down), their places come back once, and no more run than are allowed.  A
\* mark in queued stands for exactly one refresh that is on its way, as long as
\* there are workers.  An import counts an account as imported if and only if
\* its row is its own, although another import may have seen the same token as
\* new.  And when the store is closed, the background of the pool and the
\* maintenance have ended, whether or not the shutdown timed out.
NothingIsLeaked ==
    /\ admission = Cardinality({c \in Callers : At(c, {"admitted", "acquired", "logged"})})
    /\ pending = admission + Cardinality({c \in Callers : At(c, {"waiting"})})
    /\ admission <= MaxConcurrent
    /\ ~poolClosed => \A a \in Items :
          Cardinality(Holders(a)) = IF a \in queued THEN 1 ELSE 0
    /\ Cardinality(rows) = Cardinality(Imported)
    /\ closer # "idle" => ~maintenance /\ BackgroundEnded

\* In the end all is settled: every request that came was served or refused,
\* every account that was imported is refreshed, unless its import was cut short
\* while it waited for the queue, and a process that was told to stop ended: the
\* writer, the workers, and requests that outlive the shutdown do not keep it.
Settled ==
    \/ process = "ended"
    \/ /\ process = "serving"
       /\ \A c \in Callers : place[c] \in {"outside", "gone"}
       /\ \A k \in Imported :
             k \in refreshed \/ (left[k[1]] /\ item[k[1]][k[2]] = "given up")
WorkEnds == <>[]Settled
=============================================================================
