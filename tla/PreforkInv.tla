----------------------------- MODULE PreforkInv -----------------------------
(***************************************************************************)
(* The inductive invariant of the prefork pool.  What a worker process may *)
(* be doing, and what may lie unread in its channel, is determined by the  *)
(* role it has in the master's tables; the master never gives it a role    *)
(* its process is not in.                                                  *)
(***************************************************************************)
EXTENDS Prefork

Reports == {"IDLE", "SHUTDOWN", "CLEANDOWN"}

(* A worker that has not been heard of yet. *)
Starting(p) ==
    /\ p.cmd = "none" /\ p.handled = 0
    /\ \/ p.st = "start" /\ p.chan = <<>>
       \/ p.st = "wait" /\ p.chan = <<"IDLE">>
       \/ p.st = "dead" /\ p.chan \in {<<>>, <<"IDLE">>}

(* A worker in idle_kids. *)
Idle(p) ==
    /\ p.cmd = "none"
    /\ \/ p.st = "wait" /\ p.chan = <<>>
       \/ p.st = "exiting" /\ p.chan = <<"DYING">>
       \/ p.st = "dead" /\ p.chan \in {<<>>, <<"DYING">>}

(* A worker that has been sent EXIT and has not answered. *)
Leaving(p) ==
    \/ p.st = "wait" /\ p.cmd = "EXIT" /\ p.chan = <<>>
    \/ p.st = "exiting" /\ p.chan = <<"DYING">>
    \/ p.st = "dead" /\ p.chan \in {<<>>, <<"DYING">>}

(* A worker that has reported BUSY. *)
Busy(p) ==
    /\ p.cmd = "none"
    /\ \/ p.st = "proc" /\ p.chan = <<>>
       \/ p.st = "wait" /\ p.chan \in {<<m>> : m \in Reports}
       \/ p.st = "exiting" /\ p.chan \in {<<"DYING">>} \cup {<<m, "DYING">> : m \in Reports}
       \/ p.st = "dead" /\ p.chan \in {<<>>, <<"DYING">>} \cup {<<m>> : m \in Reports}
                                        \cup {<<m, "DYING">> : m \in Reports}

(* A worker that has been sent ACCEPT and whose answer is not read yet. *)
Told(p) ==
    \/ p.st = "wait" /\ p.cmd = "ACCEPT" /\ p.chan = <<>>
    \/ p.st = "exiting" /\ p.cmd = "ACCEPT" /\ p.chan = <<"DYING">>
    \/ p.st \in {"acc", "got"} /\ p.cmd = "none" /\ p.chan = <<>>
    \/ p.st = "wait" /\ p.cmd = "none" /\ p.chan = <<"SKIPPED">>
    \/ p.st = "exiting" /\ p.cmd = "none" /\ p.chan = <<"SKIPPED", "DYING">>
    \/ p.st = "dead" /\ p.cmd = "none"
       /\ p.chan \in {<<>>, <<"DYING">>, <<"SKIPPED">>, <<"SKIPPED", "DYING">>}
    \/ p.chan # <<>> /\ Head(p.chan) = "BUSY" /\ Busy(Taken(p))

(* The channel an answer is awaited from. *)
Awaited(w) == pc \in Waits /\ w = cur

RolesOK ==
    /\ \A w \in pending_kids : Starting(proc[w])
    /\ \A w \in idle_kids : ~Awaited(w) => Idle(proc[w])
    /\ pc \in StartWaits => Starting(proc[cur])
    /\ pc = "accept_wait" => Told(proc[cur])
    /\ pc = "exit_wait" => Leaving(proc[cur])
    /\ \A w \in kids \ (pending_kids \cup idle_kids) : ~Awaited(w) => Busy(proc[w])
    /\ \A w \in Workers \ kids : proc[w].st \in {"free", "exiting"}

TablesOK ==
    /\ idle_kids \subseteq kids /\ pending_kids \subseteq kids
    /\ idle_kids \cap pending_kids = {}
    /\ pc \in Waits => cur \in kids \ pending_kids
    /\ pc \in Waits \ {"exit_wait"} => cur \notin idle_kids
    /\ pc = "exit_wait" => cur \in idle_kids
    /\ pc \notin Waits => cur = NoWorker /\ ~late
    /\ pc \notin {"acks", "insure"} => ready = {}
    /\ pc = "insure" => after # "none" /\ (after # "acks" => ready = {})
    /\ \A w \in ready \cap kids : CanRecv(w)

(* Where the master can be in each mode. *)
ModesOK ==
    /\ pc \in {"boot", "boot_wait", "loop"} => mode = "serve"
    /\ pc \in {"shut_idle", "exit_wait", "down_loop", "stopped"} => mode = "down"
    /\ pc \in {"dispatch", "pending_wait", "start_wait", "offer", "accept_wait"} => mode # "down"
    /\ pc = "insure" /\ after # "acks" => mode # "down"
    /\ pc = "boot_wait" => boot > 0
    /\ mode = "down" => ~accept_on

(* How many workers there are, while serve() starts the first ones and later. *)
CountOK ==
    /\ pc = "boot" => Cardinality(kids) + boot <= wmin
    /\ pc = "boot_wait" => Cardinality(kids) + boot <= wmin + 1
    /\ Cardinality(kids) <= Limit

IInv == TypeOK /\ NoAssertionFails /\ TablesOK /\ RolesOK /\ ModesOK
=============================================================================
