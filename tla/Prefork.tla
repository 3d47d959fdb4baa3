------------------------------ MODULE Prefork ------------------------------
(***************************************************************************)
(* The preforking server of wsgi/prefork.py: a master that select()s on    *)
(* the listening socket and on one channel per worker process, and the     *)
(* workers, which accept() and serve a connection each time the master     *)
(* tells them to.                                                          *)
(*                                                                         *)
(* The master is a program with a program counter (pc); every select(),    *)
(* recv(), send(), fork() and kill() is a step of its own, and so is the   *)
(* timeout of a recv(), so the workers run between any two of them.  Four  *)
(* things are merged, each with a reason.  waitpid() is done with the call *)
(* it stands beside: a process that dies between the two is collected by   *)
(* the next waitpid(), and the worker to be shot does what it likes before *)
(* the step.  A recv() is done with the kill that a wrong answer brings:   *)
(* that answer is EOF or DYING, of a process that is dead or does nothing  *)
(* but exit.  The kills that end shutdown() are one step: workers do not   *)
(* look at each other.  A channel is closed when its process exits.        *)
(*                                                                         *)
(* The worker processes are slots of the set Workers: a slot is reused for *)
(* a new process once the old one is gone and the master holds no          *)
(* reference to its channel.  A channel is identified with its process.    *)
(***************************************************************************)
EXTENDS Integers, Sequences, FiniteSets

CONSTANTS
    Workers,        \* slots for worker processes
    NoWorker,       \* "no channel", outside Workers
    wmin, wmax,     \* the minimum and maximum number of workers
    rqmax,          \* requests before a worker retires, 0 for no limit
    min_idle,       \* spare workers to keep around
    ovstall,        \* TRUE: stall on overload, FALSE: accept and discard
    IdleTimeout,    \* TRUE if the pool has an idle timeout
    WorkerTimeout,  \* TRUE if idle workers time out
    StopKinds,      \* the shutdown requests prfunc may raise
    MaxConns,       \* bound: connections that ever arrive
    MaxFaults,      \* bound: workers that die on their own, failed accept()s
    MaxSlow         \* bound: replies slower than the one second allowed

(***************************************************************************)
(* What the code assumes of its parameters: at least one worker may run.   *)
(***************************************************************************)
ASSUME PoolAssumption ==
    /\ IsFiniteSet(Workers)
    /\ NoWorker \notin Workers
    /\ wmin \in Nat /\ wmax \in Nat \ {0} /\ rqmax \in Nat /\ min_idle \in Nat
    /\ ovstall \in BOOLEAN /\ IdleTimeout \in BOOLEAN /\ WorkerTimeout \in BOOLEAN
    /\ StopKinds \subseteq {"SHUTDOWN", "CLEANDOWN"}
    /\ MaxConns \in Nat /\ MaxFaults \in Nat /\ MaxSlow \in Nat

VARIABLES
    pc,         \* where the master is
    mode,       \* "serve" in serve(), "drain" in shutdown_accept(), "down" in shutdown()
    accept_on,  \* does the next cycle() select on the server socket?
    kids, idle_kids, pending_kids,
    older,      \* <<a, b>> when ctimes[a] < ctimes[b]
    boot,       \* workers serve() still has to start before it loops
    ready,      \* channels of seltup[0] not acknowledged yet
    rsock,      \* was the server socket in seltup[0]?
    cur,        \* the channel the master waits on in recv_resp()
    after,      \* what insure_min_kids() returns to
    rem,        \* shutdown(): is there time left?
    late,       \* has recv_resp() timed out, and cur is to be shot?
    proc,       \* the worker processes
    backlog,    \* connections waiting in the listen queue
    arrived, faults, slow,  \* what has been used of the bounds
    lost        \* accepted connections whose worker was killed or died

master == <<pc, mode, accept_on, boot, ready, rsock, cur, after, rem, late>>
tables == <<kids, idle_kids, pending_kids, older>>
env    == <<backlog, arrived, faults, slow, lost>>
vars   == <<master, tables, proc, env>>

Messages == {"IDLE", "BUSY", "SKIPPED", "DYING", "SHUTDOWN", "CLEANDOWN"}
Commands == {"ACCEPT", "EXIT"}

(* self.running and self.downing are functions of where the master is. *)
Running == mode # "down"
Downing == mode # "serve"

(***************************************************************************)
(* Worker processes.  st is the point of worker() the process is at:       *)
(* "start" before its first IDLE, "wait" in select(), "acc" at _accept(),  *)
(* "got" between accept() and BUSY, "proc" in prfunc, "exiting" on the way *)
(* out, "dead" a zombie the master has not noticed, "free" no process.     *)
(***************************************************************************)
WorkerStates == {"free", "start", "wait", "acc", "got", "proc", "exiting", "dead"}

NoProc == [st |-> "free", chan |-> <<>>, cmd |-> "none", handled |-> 0, stop |-> "none"]

(* Processes that hold a connection they have accept()ed. *)
Holding(w) == proc[w].st \in {"got", "proc"}

(***************************************************************************)
(* What the master sees of a worker.                                       *)
(***************************************************************************)
CanRecv(w) == proc[w].chan # <<>> \/ proc[w].st = "dead"
Resp(w)    == IF proc[w].chan # <<>> THEN Head(proc[w].chan) ELSE "EOF"
DeadKids   == {w \in kids : proc[w].st = "dead"}
Oldest(S)  == {w \in S : \A v \in S : <<v, w>> \notin older}

(* Mutant of Forget: drop_kid() leaves the channel in idle_kids. *)
ForgetButIdle(S) ==
    /\ kids' = kids \ S /\ pending_kids' = pending_kids \ S /\ UNCHANGED idle_kids
    /\ older' = {p \in older : p[1] \notin S /\ p[2] \notin S}

(***************************************************************************)
(* drop_kid(), for a set of channels at once.                              *)
(***************************************************************************)
Forget(S) ==
    /\ kids' = kids \ S
    /\ idle_kids' = idle_kids \ S
    /\ pending_kids' = pending_kids \ S
    /\ older' = {p \in older : p[1] \notin S /\ p[2] \notin S}

(* reap_kids(): collect every dead process, and forget those in kidpids. *)
ReapKids ==
    /\ Forget(DeadKids)
    /\ proc' = [w \in Workers |-> IF w \in DeadKids THEN NoProc ELSE proc[w]]

(* Mutant of Shoot: the worker is forgotten and not killed. *)
ShootBlank(c) ==
    /\ Forget(DeadKids \cup {c})
    /\ proc' = [w \in Workers |-> IF w \in DeadKids THEN NoProc ELSE proc[w]]
    /\ UNCHANGED lost

(* shoot_kid(): reap, SIGKILL whatever is left of chan, forget it. *)
Shoot(c) ==
    LET gone == DeadKids \cup ({c} \cap kids)
    IN  /\ Forget(gone)
        /\ proc' = [w \in Workers |-> IF w \in gone THEN NoProc ELSE proc[w]]
        /\ lost' = IF c \in kids /\ Holding(c) THEN lost + 1 ELSE lost

(* drop_kid() after a DYING: the process is on its way out by itself. *)
DropDying(c) ==
    /\ Forget({c})
    /\ proc' = [proc EXCEPT ![c] = IF @.st = "dead" THEN NoProc
                                   ELSE [@ EXCEPT !.chan = <<>>]]

(* Taking one message off chan and leaving the worker alone. *)
Taken(p) == [p EXCEPT !.chan = Tail(@)]
Take(c)  == proc' = [proc EXCEPT ![c] = Taken(@)]

(***************************************************************************)
(* start_worker(): get_pair() and fork().  The new process runs worker()   *)
(* from the top.  `async' puts it in pending_kids.                         *)
(***************************************************************************)
FreeSlots == {w \in Workers \ (ready \cup {cur}) : proc[w].st = "free"}

Fork(w) ==
    /\ w \in FreeSlots
    /\ kids' = kids \cup {w}
    /\ older' = older \cup (kids \X {w})
    /\ proc' = [proc EXCEPT ![w] = [NoProc EXCEPT !.st = "start"]]
    /\ UNCHANGED idle_kids
-----------------------------------------------------------------------------
Init ==
    /\ pc = "boot" /\ mode = "serve" /\ accept_on = TRUE
    /\ kids = {} /\ idle_kids = {} /\ pending_kids = {} /\ older = {}
    /\ boot = wmin
    /\ ready = {} /\ rsock = FALSE /\ cur = NoWorker /\ after = "none" /\ rem = TRUE
    /\ late = FALSE
    /\ proc = [w \in Workers |-> NoProc]
    /\ backlog = 0 /\ arrived = 0 /\ faults = 0 /\ slow = 0 /\ lost = 0

(***************************************************************************)
(* recv_resp() for a channel that may not be readable yet: either it is,   *)
(* or the one second the master allows runs out (socket.timeout).  The     *)
(* worker is shot for that only after this step: it may still answer, and  *)
(* its answer, BUSY for one, is then never read.                           *)
(***************************************************************************)
(* Program locations at which the master waits for cur to answer.          *)
StartWaits == {"boot_wait", "pending_wait", "start_wait"}
Waits      == StartWaits \cup {"accept_wait", "exit_wait"}

CanAnswer    == ~late /\ CanRecv(cur)
RespIs(msgs) == CanAnswer /\ Resp(cur) \in msgs

RespTimesOut ==
    /\ pc \in Waits /\ ~late /\ ~CanRecv(cur)
    /\ slow < MaxSlow /\ slow' = slow + 1
    /\ late' = TRUE
    /\ UNCHANGED <<pc, mode, accept_on, boot, ready, rsock, cur, after, rem, tables, proc>>
    /\ UNCHANGED <<backlog, arrived, faults, lost>>

ShootLate(c) == late /\ Shoot(c)

(***************************************************************************)
(* Synchronous start_worker(), from serve() ("boot") and from dispatch()   *)
(* ("dispatch"): fork, then wait for the first IDLE.                       *)
(***************************************************************************)
StartWorker(from, waiting) ==
    /\ pc = from
    /\ \E w \in Workers : Fork(w) /\ cur' = w
    /\ pc' = waiting
    /\ UNCHANGED <<mode, accept_on, pending_kids, boot, ready, rsock, after, rem, late, env>>

StartAcked(waiting, to) ==
    /\ pc = waiting /\ pc' = to /\ cur' = NoWorker
    /\ \/ /\ RespIs({"IDLE"})
          /\ Take(cur)
          /\ idle_kids' = idle_kids \cup {cur}
          /\ UNCHANGED <<kids, pending_kids, older, lost>>
       \/ /\ CanAnswer /\ Resp(cur) # "IDLE"
          /\ Shoot(cur)
       \/ ShootLate(cur)
    /\ late' = FALSE
    /\ UNCHANGED <<mode, accept_on, ready, rsock, after, rem, backlog, arrived, faults, slow>>

BootStart == boot > 0 /\ StartWorker("boot", "boot_wait")
BootAcked == StartAcked("boot_wait", "boot") /\ boot' = boot - 1

BootDone ==
    /\ pc = "boot" /\ boot = 0
    /\ pc' = "loop"
    /\ UNCHANGED <<mode, accept_on, boot, ready, rsock, cur, after, rem, late, tables, proc, env>>

(***************************************************************************)
(* The top of serve()'s loop: reap, and listen to a stalled server socket  *)
(* again if there is, or can be, a worker for it.                          *)
(***************************************************************************)
HasCapacity == idle_kids # {} \/ pending_kids # {} \/ Cardinality(kids) < wmax

(* Mutant of ServeLoop: a stalled server socket stays stalled. *)
ServeLoopStalled ==
    /\ pc = "loop"
    /\ ReapKids
    /\ pc' = "select"
    /\ UNCHANGED <<mode, accept_on, boot, ready, rsock, cur, after, rem, late, env>>

ServeLoop ==
    /\ pc = "loop"
    /\ ReapKids
    /\ accept_on' = (accept_on \/ HasCapacity')
    /\ pc' = "select"
    /\ UNCHANGED <<mode, boot, ready, rsock, cur, after, rem, late, env>>

(***************************************************************************)
(* cycle(): the select().                                                  *)
(***************************************************************************)
Readable   == {w \in kids : CanRecv(w)}
SockReady  == accept_on /\ backlog > 0
NoSockets  == kids = {} /\ ~accept_on

(* Mutant of MayTimeOut: shutdown_accept() always cycles with a timeout of 0. *)
MayTimeOutAlways == CASE mode = "serve" -> IdleTimeout
                      [] mode = "drain" -> TRUE
                      [] mode = "down"  -> ~rem

MayTimeOut == CASE mode = "serve" -> IdleTimeout   \* base_tmo
                [] mode = "drain" -> accept_on     \* 0, or None
                [] mode = "down"  -> ~rem          \* what is left of the 15 seconds

Select ==
    /\ pc = "select"
    /\ Readable # {} \/ SockReady
    /\ ready' = Readable /\ rsock' = SockReady
    /\ pc' = "acks"
    /\ UNCHANGED <<mode, accept_on, boot, cur, after, rem, late, tables, proc, env>>

(***************************************************************************)
(* cycle() returns Timeout: serve() starts a clean shutdown,               *)
(* shutdown_accept() is finished and shutdown() begins, shutdown() looks   *)
(* for idle workers again.                                                 *)
(***************************************************************************)
SelectTimeout ==
    /\ pc = "select"
    /\ NoSockets \/ (Readable = {} /\ ~SockReady /\ MayTimeOut)
    /\ \/ mode = "serve" /\ mode' = "drain" /\ accept_on' = TRUE /\ pc' = "select"
       \/ mode = "drain" /\ mode' = "down" /\ accept_on' = FALSE /\ pc' = "shut_idle"
       \/ mode = "down" /\ pc' = "shut_idle" /\ UNCHANGED <<mode, accept_on>>
    /\ UNCHANGED <<boot, ready, rsock, cur, after, rem, late, tables, proc, env>>

(***************************************************************************)
(* ack_kid() for one of the ready channels.  Its assert is a program       *)
(* location of its own.                                                    *)
(***************************************************************************)
Acking(w) == pc = "acks" /\ w \in ready /\ ready' = ready \ {w}

AckGone(w) ==
    /\ Acking(w) /\ w \notin kids
    /\ UNCHANGED <<pc, mode, accept_on, boot, rsock, cur, after, rem, late, tables, proc, env>>

AckIdle(w) ==
    /\ Acking(w) /\ w \in kids /\ Resp(w) = "IDLE"
    /\ Take(w)
    /\ IF w \in idle_kids
       THEN pc' = "assertion_failed" /\ UNCHANGED <<idle_kids, pending_kids>>
       ELSE /\ idle_kids' = idle_kids \cup {w}
            /\ pending_kids' = pending_kids \ {w}
            /\ UNCHANGED pc
    /\ UNCHANGED <<mode, accept_on, boot, rsock, cur, after, rem, late, kids, older, env>>

AckDying(w) ==
    /\ Acking(w) /\ w \in kids /\ Resp(w) = "DYING"
    /\ DropDying(w)
    /\ pc' = "insure" /\ after' = "acks"
    /\ UNCHANGED <<mode, accept_on, boot, rsock, cur, rem, late, env>>

(* The first request shuts the pool down from inside ack_kid(); later ones *)
(* only mark their worker idle.  The nested shutdown() leaves no kids, so  *)
(* what is left of this seltup is not acted on when it returns.            *)
AckShutdown(w) ==
    /\ pc = "acks" /\ w \in ready /\ w \in kids /\ Resp(w) \in {"SHUTDOWN", "CLEANDOWN"}
    /\ Take(w)
    /\ idle_kids' = idle_kids \cup {w}
    /\ \/ /\ Downing
          /\ ready' = ready \ {w}
          /\ UNCHANGED <<pc, mode, accept_on, rsock>>
       \/ /\ ~Downing /\ Resp(w) = "CLEANDOWN"
          /\ mode' = "drain" /\ accept_on' = TRUE /\ pc' = "select"
          /\ ready' = {} /\ rsock' = FALSE
       \/ /\ ~Downing /\ Resp(w) = "SHUTDOWN"
          /\ mode' = "down" /\ accept_on' = FALSE /\ pc' = "shut_idle"
          /\ ready' = {} /\ rsock' = FALSE
    /\ UNCHANGED <<boot, cur, after, rem, late, kids, pending_kids, older, env>>

AckBad(w) ==
    /\ Acking(w) /\ w \in kids /\ Resp(w) \in {"BUSY", "SKIPPED", "EOF"}
    /\ Shoot(w)
    /\ UNCHANGED <<pc, mode, accept_on, boot, rsock, cur, after, rem, late>>
    /\ UNCHANGED <<backlog, arrived, faults, slow>>

(***************************************************************************)
(* cycle() returns Processed or Overload to its caller.                    *)
(***************************************************************************)
CycleReturns(res) ==
    /\ \/ /\ mode = "serve"
          /\ accept_on' = (accept_on /\ res # "Overload") /\ pc' = "loop"
       \/ /\ mode = "drain"
          /\ accept_on' = (res # "Overload") /\ pc' = "select"
       \/ /\ mode = "down"
          /\ pc' = "shut_idle" /\ UNCHANGED accept_on
    /\ rsock' = FALSE

AcksDone ==
    /\ pc = "acks" /\ ready = {}
    /\ IF Running /\ rsock
       THEN pc' = "dispatch" /\ UNCHANGED <<accept_on, rsock>>
       ELSE CycleReturns("Processed")
    /\ UNCHANGED <<mode, boot, ready, cur, after, rem, late, tables, proc, env>>

(***************************************************************************)
(* dispatch(), first part: wait for pending workers, oldest first, until   *)
(* there is an idle one; start one if that gives none; then offer.         *)
(***************************************************************************)
AwaitPending ==
    /\ pc = "dispatch" /\ idle_kids = {}
    /\ \E c \in Oldest(pending_kids) : pending_kids' = pending_kids \ {c} /\ cur' = c
    /\ pc' = "pending_wait"
    /\ UNCHANGED <<mode, accept_on, boot, ready, rsock, after, rem, late,
                   kids, idle_kids, older, proc, env>>

PendingAcked == StartAcked("pending_wait", "dispatch") /\ UNCHANGED boot

(* Mutant of DispatchStart: one worker too many. *)
DispatchStartOver ==
    /\ idle_kids = {} /\ pending_kids = {} /\ Cardinality(kids) <= wmax
    /\ StartWorker("dispatch", "start_wait")

DispatchStart ==
    /\ idle_kids = {} /\ pending_kids = {} /\ Cardinality(kids) < wmax
    /\ StartWorker("dispatch", "start_wait")

DispatchStarted == StartAcked("start_wait", "offer") /\ UNCHANGED boot

DispatchReady ==
    /\ pc = "dispatch"
    /\ idle_kids # {} \/ (pending_kids = {} /\ Cardinality(kids) >= wmax)
    /\ pc' = "offer"
    /\ UNCHANGED <<mode, accept_on, boot, ready, rsock, cur, after, rem, late, tables, proc, env>>

(***************************************************************************)
(* dispatch(), second part: tell the oldest idle worker to accept() and    *)
(* wait for what it says; go on to the next one if it cannot be told or    *)
(* says nothing.                                                           *)
(***************************************************************************)
Offer ==
    /\ pc = "offer"
    /\ \E c \in Oldest(idle_kids) :
         \/ /\ c \notin kids
            /\ pc' = "assertion_failed"
            /\ UNCHANGED <<cur, tables, proc, lost>>
         \/ /\ c \in kids /\ proc[c].st = "dead"
            /\ Shoot(c)
            /\ UNCHANGED <<pc, cur>>
         \/ /\ c \in kids /\ proc[c].st # "dead"
            /\ idle_kids' = idle_kids \ {c}
            /\ proc' = [proc EXCEPT ![c] = [@ EXCEPT !.cmd = "ACCEPT"]]
            /\ cur' = c /\ pc' = "accept_wait"
            /\ UNCHANGED <<kids, pending_kids, older, lost>>
    /\ UNCHANGED <<mode, accept_on, boot, ready, rsock, after, rem, late, backlog, arrived, faults, slow>>

(* SKIPPED: there was nothing to accept(), so the worker is idle again. *)
TakeBack ==
    /\ Take(cur)
    /\ idle_kids' = idle_kids \cup {cur}
    /\ UNCHANGED <<kids, pending_kids, older, lost>>

(* Mutant of Answer: `r != BUSY' is left out, and a busy worker shot. *)
AnswerShot == IF Resp(cur) = "SKIPPED" THEN TakeBack ELSE Shoot(cur)

(* Mutant of Answer: SKIPPED is taken for BUSY. *)
AnswerTakenForBusy ==
    IF Resp(cur) \in {"BUSY", "SKIPPED"} THEN Take(cur) /\ UNCHANGED <<tables, lost>>
                                        ELSE Shoot(cur)

Answer ==
    \/ Resp(cur) = "BUSY" /\ Take(cur) /\ UNCHANGED <<tables, lost>>
    \/ Resp(cur) = "SKIPPED" /\ TakeBack
    \/ Resp(cur) \notin {"BUSY", "SKIPPED"} /\ Shoot(cur)

OfferAnswered ==
    /\ pc = "accept_wait" /\ CanAnswer
    /\ Answer
    /\ pc' = "insure" /\ after' = "Processed" /\ cur' = NoWorker
    /\ UNCHANGED <<mode, accept_on, boot, ready, rsock, rem, late, backlog, arrived, faults, slow>>

(* Mutant of OfferTimedOut: the worker that says nothing is let be. *)
OfferTimedOutSpared ==
    /\ pc = "accept_wait"
    /\ late /\ UNCHANGED <<tables, proc, lost>>
    /\ pc' = "offer" /\ cur' = NoWorker /\ late' = FALSE
    /\ UNCHANGED <<mode, accept_on, boot, ready, rsock, after, rem, backlog, arrived, faults, slow>>

OfferTimedOut ==
    /\ pc = "accept_wait"
    /\ ShootLate(cur)
    /\ pc' = "offer" /\ cur' = NoWorker /\ late' = FALSE
    /\ UNCHANGED <<mode, accept_on, boot, ready, rsock, after, rem, backlog, arrived, faults, slow>>

NoOffer ==
    /\ pc = "offer" /\ idle_kids = {}
    /\ pc' = "insure" /\ after' = "Overload"
    /\ UNCHANGED <<mode, accept_on, boot, ready, rsock, cur, rem, late, tables, proc, env>>

(***************************************************************************)
(* insure_min_kids(), one fork a step, and the return to its caller.  In   *)
(* cycle(), a dispatch() that failed is an overload: stall, or accept()    *)
(* the connection and close it.                                            *)
(***************************************************************************)
(* Mutant of NeedKid: `<=' for `<'. *)
NeedKidOver ==
    /\ Running
    /\ \/ Cardinality(kids) <= wmin
       \/ /\ Cardinality(kids) <= wmax
          /\ Cardinality(idle_kids) + Cardinality(pending_kids) < min_idle

NeedKid ==
    /\ Running
    /\ \/ Cardinality(kids) < wmin
       \/ /\ Cardinality(kids) < wmax
          /\ Cardinality(idle_kids) + Cardinality(pending_kids) < min_idle

InsureFork ==
    /\ pc = "insure" /\ NeedKid
    /\ \E w \in Workers : Fork(w) /\ pending_kids' = pending_kids \cup {w}
    /\ UNCHANGED <<master, env>>

InsureDone ==
    /\ pc = "insure" /\ ~NeedKid
    /\ after' = "none"
    /\ \/ /\ after = "acks"
          /\ pc' = "acks" /\ UNCHANGED <<accept_on, rsock, backlog>>
       \/ /\ after = "Processed"
          /\ CycleReturns("Processed") /\ UNCHANGED backlog
       \/ /\ after = "Overload" /\ ovstall
          /\ CycleReturns("Overload") /\ UNCHANGED backlog
       \/ /\ after = "Overload" /\ ~ovstall
          /\ CycleReturns("Processed")
          /\ backlog' = IF backlog > 0 THEN backlog - 1 ELSE 0
    /\ UNCHANGED <<mode, boot, ready, cur, rem, late, tables, proc, arrived, faults, slow, lost>>

(***************************************************************************)
(* shutdown(): shutdown_idle() tells each idle worker to exit and waits    *)
(* for its DYING; then wait for busy workers, until none or no time is     *)
(* left; then shoot the rest.                                              *)
(***************************************************************************)
ShutIdle ==
    /\ pc = "shut_idle"
    /\ \E c \in idle_kids :
         IF proc[c].st = "dead"
         THEN Shoot(c) /\ UNCHANGED <<pc, cur>>
         ELSE /\ proc' = [proc EXCEPT ![c] = [@ EXCEPT !.cmd = "EXIT"]]
              /\ cur' = c /\ pc' = "exit_wait"
              /\ UNCHANGED <<tables, lost>>
    /\ UNCHANGED <<mode, accept_on, boot, ready, rsock, after, rem, late, backlog, arrived, faults, slow>>

ExitAnswered ==
    /\ pc = "exit_wait"
    /\ \/ RespIs({"DYING"}) /\ DropDying(cur) /\ UNCHANGED lost
       \/ CanAnswer /\ Resp(cur) # "DYING" /\ Shoot(cur)
       \/ ShootLate(cur)
    /\ pc' = "shut_idle" /\ cur' = NoWorker /\ late' = FALSE
    /\ UNCHANGED <<mode, accept_on, boot, ready, rsock, after, rem, backlog, arrived, faults, slow>>

ShutIdleDone ==
    /\ pc = "shut_idle" /\ idle_kids = {}
    /\ ReapKids
    /\ pc' = "down_loop"
    /\ UNCHANGED <<mode, accept_on, boot, ready, rsock, cur, after, rem, late, env>>

DownWait ==
    /\ pc = "down_loop" /\ kids # {} /\ rem
    /\ pc' = "select"
    /\ UNCHANGED <<mode, accept_on, boot, ready, rsock, cur, after, rem, late, tables, proc, env>>

(* Mutant of ShootAll: whoever is left is forgotten and not killed. *)
ShootNone == Forget(kids) /\ UNCHANGED <<proc, lost>>

ShootAll ==
    /\ Forget(kids)
    /\ proc' = [w \in Workers |-> IF w \in kids THEN NoProc ELSE proc[w]]
    /\ lost' = lost + Cardinality({w \in kids : Holding(w)})

(* Mutant of DownDone: shutdown() does not wait for busy workers. *)
DownDoneAtOnce ==
    /\ pc = "down_loop" /\ ShootAll /\ pc' = "stopped"
    /\ UNCHANGED <<mode, accept_on, boot, ready, rsock, cur, after, rem, late, backlog, arrived, faults, slow>>

DownDone ==
    /\ pc = "down_loop" /\ (kids = {} \/ ~rem)
    /\ ShootAll
    /\ pc' = "stopped"
    /\ UNCHANGED <<mode, accept_on, boot, ready, rsock, cur, after, rem, late, backlog, arrived, faults, slow>>

Master ==
    \/ BootStart \/ BootAcked \/ BootDone
    \/ ServeLoop \/ Select \/ SelectTimeout
    \/ \E w \in Workers : \/ AckGone(w) \/ AckIdle(w) \/ AckDying(w)
                          \/ AckShutdown(w) \/ AckBad(w)
    \/ AcksDone
    \/ AwaitPending \/ PendingAcked \/ DispatchStart \/ DispatchStarted \/ DispatchReady
    \/ Offer \/ OfferAnswered \/ OfferTimedOut \/ NoOffer
    \/ InsureFork \/ InsureDone
    \/ ShutIdle \/ ExitAnswered \/ ShutIdleDone \/ DownWait \/ DownDone
-----------------------------------------------------------------------------
(***************************************************************************)
(* worker().                                                               *)
(***************************************************************************)
Sent(p, m, next) == [p EXCEPT !.chan = Append(@, m), !.st = next]

Send(w, m, next) == proc' = [proc EXCEPT ![w] = Sent(@, m, next)]

WorkerUp(w) ==
    /\ proc[w].st = "start"
    /\ Send(w, "IDLE", "wait")
    /\ UNCHANGED <<master, tables, env>>

(* select() times out; only a worker that has served a request has a tmo. *)
WorkerTimesOut(w) ==
    /\ proc[w].st = "wait" /\ proc[w].cmd = "none"
    /\ WorkerTimeout /\ proc[w].handled > 0
    /\ Send(w, "DYING", "exiting")
    /\ UNCHANGED <<master, tables, env>>

(* recv(): ACCEPT leads to accept(), anything else to DYING. *)
Received(p) == IF p.cmd = "ACCEPT"
               THEN [p EXCEPT !.cmd = "none", !.st = "acc"]
               ELSE [Sent(p, "DYING", "exiting") EXCEPT !.cmd = "none"]

WorkerRecv(w) ==
    /\ proc[w].st = "wait" /\ proc[w].cmd # "none"
    /\ proc' = [proc EXCEPT ![w] = Received(@)]
    /\ UNCHANGED <<master, tables, env>>

(* Mutant of WorkerAccept: accept() is taken to have succeeded. *)
WorkerAcceptBlind(w) ==
    /\ proc[w].st = "acc"
    /\ backlog' = backlog - 1
    /\ proc' = [proc EXCEPT ![w] = [@ EXCEPT !.st = "got"]]
    /\ UNCHANGED <<master, tables, arrived, faults, slow, lost>>

(* The server socket is non-blocking: with nothing to accept() the worker  *)
(* reports SKIPPED, as it does when accept() fails.                        *)
WorkerAccept(w) ==
    /\ proc[w].st = "acc" /\ backlog > 0
    /\ backlog' = backlog - 1
    /\ proc' = [proc EXCEPT ![w] = [@ EXCEPT !.st = "got"]]
    /\ UNCHANGED <<master, tables, arrived, faults, slow, lost>>

WorkerSkips(w) ==
    /\ proc[w].st = "acc"
    /\ \/ backlog = 0 /\ UNCHANGED faults
       \/ backlog > 0 /\ faults < MaxFaults /\ faults' = faults + 1
    /\ Send(w, "SKIPPED", "wait")
    /\ UNCHANGED <<master, tables, backlog, arrived, slow, lost>>

WorkerBusy(w) ==
    /\ proc[w].st = "got"
    /\ Send(w, "BUSY", "proc")
    /\ UNCHANGED <<master, tables, env>>

(* `handled > self.rqmax', tested after the increment. *)
Retires(n) == rqmax > 0 /\ n > rqmax

(* prfunc returns, or raises one of StopKinds.  stop is never reset.       *)
Served(p, s) ==
    LET n == p.handled + 1
        q == IF s # "none"   THEN Sent(p, s, "wait")
             ELSE IF Retires(n) THEN Sent(p, "DYING", "exiting")
             ELSE Sent(p, "IDLE", "wait")
    IN  [q EXCEPT !.handled = n, !.stop = s]

WorkerDone(w) ==
    /\ proc[w].st = "proc"
    /\ \E s \in StopKinds \cup {proc[w].stop} :
         proc' = [proc EXCEPT ![w] = Served(@, s)]
    /\ UNCHANGED <<master, tables, env>>

(* A process is gone: a zombie while the master still has it in kidpids. *)
Corpse(p) == [NoProc EXCEPT !.st = "dead", !.chan = p.chan]
Gone(w)   == IF w \in kids THEN Corpse(proc[w]) ELSE NoProc

WorkerExits(w) ==
    /\ proc[w].st = "exiting"
    /\ proc' = [proc EXCEPT ![w] = Gone(w)]
    /\ UNCHANGED <<master, tables, env>>

(* An exception out of prfunc, or anything else that kills a worker. *)
WorkerDies(w) ==
    /\ proc[w].st \in {"start", "wait", "acc", "got", "proc"}
    /\ faults < MaxFaults /\ faults' = faults + 1
    /\ proc' = [proc EXCEPT ![w] = Gone(w)]
    /\ lost' = IF Holding(w) THEN lost + 1 ELSE lost
    /\ UNCHANGED <<master, tables, backlog, arrived, slow>>

Worker(w) ==
    \/ WorkerUp(w) \/ WorkerRecv(w) \/ WorkerAccept(w) \/ WorkerSkips(w)
    \/ WorkerBusy(w) \/ WorkerDone(w) \/ WorkerExits(w)

(***************************************************************************)
(* The world outside: connections arrive, time passes.                     *)
(***************************************************************************)
Arrive ==
    /\ arrived < MaxConns /\ pc # "stopped"
    /\ arrived' = arrived + 1 /\ backlog' = backlog + 1
    /\ UNCHANGED <<master, tables, proc, faults, slow, lost>>

TimeRunsOut ==
    /\ mode = "down" /\ rem /\ pc # "stopped"
    /\ rem' = FALSE
    /\ UNCHANGED <<pc, mode, accept_on, boot, ready, rsock, cur, after, late, tables, proc, env>>

(* serve() has returned. *)
Stopped == pc = "stopped" /\ UNCHANGED vars

Next ==
    \/ Master
    \/ \E w \in Workers : Worker(w) \/ WorkerTimesOut(w) \/ WorkerDies(w)
    \/ Arrive \/ RespTimesOut \/ TimeRunsOut \/ Stopped

Spec == Init /\ [][Next]_vars

(***************************************************************************)
(* Fairness: the operating system runs the master and every worker that    *)
(* can run, prfunc returns, and time passes.  Nothing obliges clients to   *)
(* connect, workers to idle out or to die, or replies to be late.          *)
(***************************************************************************)
Fairness ==
    /\ WF_vars(Master) /\ WF_vars(TimeRunsOut)
    /\ \A w \in Workers : WF_vars(Worker(w))

FairSpec == Spec /\ Fairness
-----------------------------------------------------------------------------
PCs == {"boot", "boot_wait", "loop", "select", "acks", "dispatch", "pending_wait", "start_wait",
        "offer", "accept_wait", "insure", "shut_idle", "exit_wait", "down_loop", "stopped",
        "assertion_failed"}

Processes == [st : WorkerStates, chan : Seq(Messages), cmd : Commands \cup {"none"},
              handled : Nat, stop : {"none", "SHUTDOWN", "CLEANDOWN"}]

(* The type invariant of the pool. *)
TypeOK ==
    /\ pc \in PCs /\ mode \in {"serve", "drain", "down"}
    /\ accept_on \in BOOLEAN /\ rsock \in BOOLEAN /\ rem \in BOOLEAN /\ late \in BOOLEAN
    /\ kids \subseteq Workers /\ idle_kids \subseteq Workers /\ pending_kids \subseteq Workers
    /\ older \subseteq Workers \X Workers
    /\ boot \in Nat /\ ready \subseteq Workers /\ cur \in Workers \cup {NoWorker}
    /\ after \in {"none", "acks", "Processed", "Overload"}
    /\ proc \in [Workers -> Processes]
    /\ backlog \in Nat /\ arrived \in Nat /\ faults \in Nat /\ slow \in Nat /\ lost \in Nat

(* The asserts of dispatch() and ack_kid() never fail: an idle channel is  *)
(* always one of a current worker, and no worker reports idle twice.       *)
NoAssertionFails == pc # "assertion_failed"

(* The master and its workers stay in step: a worker the master counts as  *)
(* idle, unless it is being told to exit right now, is waiting for a       *)
(* command or going away, with nothing unread but                          *)
(* its DYING, and ack_kid() never reads a reply meant for dispatch().      *)
InStep ==
    /\ \A w \in idle_kids \ {cur} :
         /\ proc[w].st \in {"wait", "exiting", "dead"} /\ proc[w].cmd = "none"
         /\ proc[w].chan \in {<<>>, <<"DYING">>}
    /\ pc = "acks" => \A w \in ready \cap kids : Resp(w) \notin {"BUSY", "SKIPPED"}

(* Every process that can accept() or is serving is in the master's        *)
(* tables, and so is killed or told to exit by shutdown().                 *)
NoStrayWorkers ==
    \A w \in Workers : proc[w].st \in {"start", "wait", "acc", "got", "proc"} => w \in kids

(* No more than wmax workers, given wmin <= wmax: no path that starts one  *)
(* passes the limit, and so no more than wmax connections are served.      *)
WorkerLimit == wmin <= wmax => Cardinality(kids) <= wmax

(* Until shutdown() gives up on busy workers, a connection that was        *)
(* accept()ed is lost only to a worker that died, or one shot for being    *)
(* slower than a second; never more than one for each.                     *)
LossAccounted == pc # "stopped" => lost <= faults + slow

(* cycle() never has nothing to select() on, so serve() gets Timeout from  *)
(* its idle timeout only, and shutdown_accept() only with an empty queue;  *)
(* for a pool that keeps a minimum of workers.                             *)
NeverBlind == wmin + min_idle > 0 /\ pc = "select" => ~NoSockets

(* shutdown_accept() hands over every pending connection before shutdown() *)
(* stops the workers.                                                      *)
DrainComplete == [][(mode = "drain" /\ mode' = "down") => backlog = 0]_vars

(* A worker whose BUSY the master has read is never shot before the end of *)
(* shutdown(), once its time has run out; a worker that is serving is shot *)
(* otherwise only if its BUSY came after the second recv_resp() waits for  *)
(* it, and before the kill.                                                *)
BusyNeverShot ==
    [][\A w \in kids : (proc[w].st = "proc" /\ w \notin kids')
         => (mode = "down" /\ ~rem) \/ (pc = "accept_wait" /\ late /\ w = cur)]_vars

(* A pending connection is accept()ed by someone, even when the server has *)
(* stalled on overload, unless the pool shuts down first.                  *)
ConnectionsTaken == backlog > 0 ~> (backlog = 0 \/ pc = "stopped")

(* A shutdown, however it was asked for, comes to an end: serve() returns  *)
(* and no worker process is left behind.                                   *)
ShutdownEnds == Downing ~> (pc = "stopped" /\ \A w \in Workers : proc[w].st = "free")

(***************************************************************************)
(* The pool seen from outside, and the service it implements.              *)
(***************************************************************************)
Limit == IF wmin <= wmax THEN wmax ELSE wmin

Service == INSTANCE PoolService WITH
    Servers <- Workers, limit <- Limit, stalls <- ovstall,
    waiting <- backlog, serving <- {w \in Workers : Holding(w)}, open <- Running

(* The pool implements PoolService: at most wmax connections are served at *)
(* once, stalling never discards one, none is taken once shutdown() has    *)
(* begun, and every accept() takes exactly one.                            *)
ImplementsService == Service!Spec

(* -- What the documentation says and the code does not do. -- *)

(* "rqmax is the maximum number of requests handled by a single worker     *)
(* process before it exits" (the docstring of ServerPool).                 *)
RetiresOnTime == rqmax > 0 => \A w \in Workers : proc[w].handled <= rqmax

(* "wmin is the minimum number of worker processes to have" (the same): a  *)
(* pool that has fallen below it, and is not shutting down, recovers.      *)
MinimumRestored ==
    (pc = "loop" /\ Cardinality(kids) < wmin) ~> (Cardinality(kids) >= wmin \/ Downing)
=============================================================================
