--------------------------- MODULE PreforkProofs ---------------------------
(***************************************************************************)
(* Proofs about the prefork pool, for any number of workers, any limits    *)
(* and any bounds.                                                         *)
(***************************************************************************)
EXTENDS PreforkInv, FiniteSetTheorems, SequenceTheorems, TLAPS

(***************************************************************************)
(* Channels hold at most three messages; these are the facts about short   *)
(* sequences that the provers need.                                        *)
(***************************************************************************)
LEMMA AppendToOne ==
    ASSUME NEW M, NEW m \in M, NEW n \in M
    PROVE  Append(<<m>>, n) = <<m, n>>
  <1> DEFINE s == Append(<<m>>, n)
             t == <<m, n>>
  <1>1. s \in Seq(M) /\ Len(s) = 2 /\ s[1] = m /\ s[2] = n
    OBVIOUS
  <1>2. t \in Seq(M) /\ Len(t) = 2 /\ t[1] = m /\ t[2] = n
    OBVIOUS
  <1>3. \A i \in 1 .. Len(s) : s[i] = t[i]
    BY <1>1, <1>2
  <1> QED
    BY <1>1, <1>2, <1>3, SeqEqual

LEMMA ShortSeqs ==
    ASSUME NEW m \in Messages, NEW n \in Messages
    PROVE  /\ Append(<<>>, m) = <<m>> /\ Append(<<m>>, n) = <<m, n>>
           /\ Head(<<m>>) = m /\ Tail(<<m>>) = <<>>
           /\ Head(<<m, n>>) = m /\ Tail(<<m, n>>) = <<n>>
           /\ <<m>> # <<>> /\ <<m, n>> # <<>>
           /\ <<m>> \in Seq(Messages) /\ <<m, n>> \in Seq(Messages)
           /\ <<>> \in Seq(Messages)
  <1>1. Append(<<>>, m) = <<m>>
    OBVIOUS
  <1>2. Append(<<m>>, n) = <<m, n>>
    BY AppendToOne
  <1>3. /\ Head(<<m>>) = m /\ Tail(<<m>>) = <<>>
        /\ Head(<<m, n>>) = m /\ Tail(<<m, n>>) = <<n>>
    OBVIOUS
  <1>4. /\ <<m>> \in Seq(Messages) /\ <<m, n>> \in Seq(Messages)
        /\ <<>> \in Seq(Messages)
        /\ <<m>> # <<>> /\ <<m, n>> # <<>>
    OBVIOUS
  <1> QED
    BY <1>1, <1>2, <1>3, <1>4

(* A message sent on a channel leaves it readable, and its head in place.  *)
LEMMA AppendFacts ==
    ASSUME NEW S, NEW s \in Seq(S), NEW m \in S
    PROVE  /\ Append(s, m) \in Seq(S) /\ Append(s, m) # <<>>
           /\ s # <<>> => /\ Head(Append(s, m)) = Head(s)
                          /\ Tail(Append(s, m)) = Append(Tail(s), m)
                          /\ Tail(s) \in Seq(S)
                          /\ Head(s) \in S
  BY HeadTailAppend, AppendProperties, HeadTailProperties

(***************************************************************************)
(* A step of a worker keeps its process in the role the master has for it. *)
(***************************************************************************)
HasMessage(p) == p.chan # <<>> \/ p.st = "dead"

RoleKept(p, q) ==
    /\ Starting(p) => Starting(q)
    /\ Idle(p) => Idle(q)
    /\ Leaving(p) => Leaving(q)
    /\ Busy(p) => Busy(q)
    /\ Told(p) => Told(q)
    /\ HasMessage(p) => HasMessage(q)

LEMMA SentTyped ==
    ASSUME NEW p \in Processes, NEW m \in Messages, NEW next \in WorkerStates
    PROVE  LET q == Sent(p, m, next) IN
           /\ q \in Processes /\ HasMessage(q) /\ q.chan # <<>>
           /\ q.chan = Append(p.chan, m) /\ q.st = next /\ q.cmd = p.cmd
           /\ q.handled = p.handled /\ q.stop = p.stop
  <1> DEFINE q == Sent(p, m, next)
  <1>1. p.chan \in Seq(Messages)
    BY DEF Processes
  <1>2. Append(p.chan, m) \in Seq(Messages) /\ Append(p.chan, m) # <<>>
    BY <1>1, AppendFacts
  <1>3. /\ q.chan = Append(p.chan, m) /\ q.st = next /\ q.cmd = p.cmd
        /\ q.handled = p.handled /\ q.stop = p.stop
    BY DEF Processes, Sent
  <1>4. q \in Processes
    BY <1>2 DEF Processes, Sent
  <1> QED
    BY <1>2, <1>3, <1>4 DEF HasMessage

LEMMA TakenTyped ==
    ASSUME NEW p \in Processes, p.chan # <<>>
    PROVE  LET q == Taken(p) IN
           /\ q \in Processes /\ q.chan = Tail(p.chan)
           /\ q.st = p.st /\ q.cmd = p.cmd /\ q.handled = p.handled /\ q.stop = p.stop
  <1>1. p.chan \in Seq(Messages)
    BY DEF Processes
  <1>2. Tail(p.chan) \in Seq(Messages)
    BY <1>1
  <1> QED
    BY <1>2 DEF Processes, Taken

LEMMA Names ==
    /\ Reports \subseteq Messages
    /\ {"IDLE", "DYING", "SKIPPED", "BUSY", "SHUTDOWN", "CLEANDOWN"} \subseteq Messages
    /\ {"free", "start", "wait", "acc", "got", "proc", "exiting", "dead"} \subseteq WorkerStates
  BY DEF Reports, Messages, WorkerStates

LEMMA UpKeepsRole ==
    ASSUME NEW p \in Processes, p.st = "start"
    PROVE  RoleKept(p, Sent(p, "IDLE", "wait")) /\ Sent(p, "IDLE", "wait") \in Processes
  <1> DEFINE q == Sent(p, "IDLE", "wait")
  <1>1. /\ q \in Processes /\ HasMessage(q) /\ q.chan = Append(p.chan, "IDLE")
        /\ q.st = "wait" /\ q.cmd = p.cmd /\ q.handled = p.handled
    BY Names, SentTyped
  <1>2. Starting(p) => Starting(q)
    BY <1>1, Names, ShortSeqs DEF Starting
  <1>3. ~Idle(p) /\ ~Leaving(p) /\ ~Busy(p) /\ ~Told(p)
    <2>1. Taken(p).st = "start"
      BY DEF Taken, Processes
    <2> QED
      BY <2>1 DEF Idle, Leaving, Busy, Told
  <1> QED
    BY <1>1, <1>2, <1>3 DEF RoleKept

LEMMA TimeOutKeepsBusy ==
    ASSUME NEW p \in Processes, p.st = "wait", Busy(p)
    PROVE  Busy(Sent(p, "DYING", "exiting"))
  <1>1. PICK m \in Reports : p.chan = <<m>>
    BY DEF Busy
  <1>2. /\ Sent(p, "DYING", "exiting").chan = Append(p.chan, "DYING")
        /\ Sent(p, "DYING", "exiting").st = "exiting"
        /\ Sent(p, "DYING", "exiting").cmd = p.cmd
    BY Names, SentTyped
  <1>3. Sent(p, "DYING", "exiting").chan = <<m, "DYING">>
    BY <1>1, <1>2, Names, ShortSeqs
  <1> QED
    BY <1>2, <1>3 DEF Busy

LEMMA TimeOutKeepsRole ==
    ASSUME NEW p \in Processes, p.st = "wait", p.cmd = "none", p.handled > 0
    PROVE  RoleKept(p, Sent(p, "DYING", "exiting")) /\ Sent(p, "DYING", "exiting") \in Processes
  <1> DEFINE q == Sent(p, "DYING", "exiting")
  <1>1. /\ q \in Processes /\ HasMessage(q) /\ q.chan = Append(p.chan, "DYING")
        /\ q.st = "exiting" /\ q.cmd = p.cmd
    <2>1. "DYING" \in Messages /\ "exiting" \in WorkerStates
      BY Names
    <2> QED
      BY <2>1, SentTyped, Zenon
  <1>2. ~Starting(p) /\ ~Leaving(p)
    BY DEF Starting, Leaving, Processes
  <1>3. Idle(p) => Idle(q)
    BY <1>1, Names, ShortSeqs DEF Idle
  <1>4. Busy(p) => Busy(q)
    BY TimeOutKeepsBusy
  <1>5. Told(p) => Told(q)
    <2>1. CASE p.chan = <<"SKIPPED">>
      BY <1>1, <2>1, Names, ShortSeqs DEF Told
    <2>2. CASE p.chan # <<>> /\ Head(p.chan) = "BUSY" /\ Busy(Taken(p))
      <3>1. Taken(p) \in Processes /\ Taken(p).st = "wait"
        BY <2>2, TakenTyped
      <3>2. Busy(Sent(Taken(p), "DYING", "exiting"))
        BY <2>2, <3>1, TimeOutKeepsBusy
      <3>3. q.chan # <<>> /\ Head(q.chan) = "BUSY" /\ Tail(q.chan) = Append(Tail(p.chan), "DYING")
        BY <1>1, <2>2, Names, AppendFacts DEF Processes
      <3>4. Taken(q) = Sent(Taken(p), "DYING", "exiting")
        BY <1>1, <3>3 DEF Taken, Sent, Processes
      <3> QED
        BY <3>2, <3>3, <3>4 DEF Told
    <2> QED
      BY <2>1, <2>2 DEF Told
  <1> QED
    BY <1>1, <1>2, <1>3, <1>4, <1>5 DEF RoleKept

LEMMA RecvKeepsRole ==
    ASSUME NEW p \in Processes, p.st = "wait", p.cmd # "none"
    PROVE  RoleKept(p, Received(p)) /\ Received(p) \in Processes
  <1> DEFINE q == Received(p)
             r == Sent(p, "DYING", "exiting")
  <1>1. /\ r \in Processes /\ HasMessage(r) /\ r.chan = Append(p.chan, "DYING")
        /\ r.st = "exiting" /\ r.cmd = p.cmd /\ r.chan # <<>>
    <2>1. "DYING" \in Messages /\ "exiting" \in WorkerStates
      BY Names
    <2> QED
      BY <2>1, SentTyped, Zenon
  <1>2. ~Starting(p) /\ ~Idle(p) /\ ~Busy(p)
    BY DEF Starting, Idle, Busy
  <1>3. Taken(p).cmd # "none"
    BY DEF Taken, Processes
  <1>4. Leaving(p) => p.chan = <<>> /\ p.cmd = "EXIT"
    BY DEF Leaving
  <1>5. Told(p) => p.chan = <<>> /\ p.cmd = "ACCEPT"
    BY <1>3 DEF Told, Busy
  <1>6. CASE p.cmd = "ACCEPT"
    <2>1. q.st = "acc" /\ q.cmd = "none" /\ q.chan = p.chan /\ q \in Processes
      BY <1>6 DEF Received, Processes, WorkerStates, Commands
    <2> QED
      BY <1>2, <1>4, <1>5, <1>6, <2>1 DEF RoleKept, HasMessage, Told
  <1>7. CASE p.cmd # "ACCEPT"
    <2>1. q = [r EXCEPT !.cmd = "none"]
      BY <1>7 DEF Received
    <2>2. q.st = "exiting" /\ q.cmd = "none" /\ q.chan = r.chan /\ q \in Processes
      BY <1>1, <2>1 DEF Processes, Commands
    <2>3. Leaving(p) => Leaving(q)
      BY <1>1, <1>4, <2>2, Names, ShortSeqs DEF Leaving
    <2> QED
      BY <1>1, <1>2, <1>5, <1>7, <2>2, <2>3 DEF RoleKept, HasMessage
  <1> QED
    BY <1>6, <1>7

LEMMA AcceptKeepsRole ==
    ASSUME NEW p \in Processes, p.st = "acc"
    PROVE  /\ RoleKept(p, [p EXCEPT !.st = "got"]) /\ [p EXCEPT !.st = "got"] \in Processes
           /\ RoleKept(p, Sent(p, "SKIPPED", "wait")) /\ Sent(p, "SKIPPED", "wait") \in Processes
  <1> DEFINE g == [p EXCEPT !.st = "got"]
             q == Sent(p, "SKIPPED", "wait")
  <1>1. /\ q \in Processes /\ HasMessage(q) /\ q.chan = Append(p.chan, "SKIPPED")
        /\ q.st = "wait" /\ q.cmd = p.cmd
    <2>1. "SKIPPED" \in Messages /\ "wait" \in WorkerStates
      BY Names
    <2> QED
      BY <2>1, SentTyped, Zenon
  <1>2. g.st = "got" /\ g.cmd = p.cmd /\ g.chan = p.chan /\ g \in Processes
    BY DEF Processes, WorkerStates
  <1>3. ~Starting(p) /\ ~Idle(p) /\ ~Leaving(p) /\ ~Busy(p)
    BY DEF Starting, Idle, Leaving, Busy
  <1>4. Taken(p).st = "acc"
    BY DEF Taken, Processes
  <1>5. Told(p) => p.chan = <<>> /\ p.cmd = "none"
    BY <1>4 DEF Told, Busy
  <1>6. Told(p) => Told(q)
    BY <1>1, <1>5, Names, ShortSeqs DEF Told
  <1>7. Told(p) => Told(g)
    BY <1>2, <1>5 DEF Told
  <1> QED
    BY <1>1, <1>2, <1>3, <1>6, <1>7 DEF RoleKept, HasMessage

LEMMA BusyKeepsRole ==
    ASSUME NEW p \in Processes, p.st = "got"
    PROVE  RoleKept(p, Sent(p, "BUSY", "proc")) /\ Sent(p, "BUSY", "proc") \in Processes
  <1> DEFINE q == Sent(p, "BUSY", "proc")
  <1>1. /\ q \in Processes /\ HasMessage(q) /\ q.chan = Append(p.chan, "BUSY")
        /\ q.st = "proc" /\ q.cmd = p.cmd /\ q.chan # <<>>
    <2>1. "BUSY" \in Messages /\ "proc" \in WorkerStates
      BY Names
    <2> QED
      BY <2>1, SentTyped, Zenon
  <1>2. ~Starting(p) /\ ~Idle(p) /\ ~Leaving(p) /\ ~Busy(p)
    BY DEF Starting, Idle, Leaving, Busy
  <1>3. Taken(p).st = "got"
    BY DEF Taken, Processes
  <1>4. Told(p) => p.chan = <<>> /\ p.cmd = "none"
    BY <1>3 DEF Told, Busy
  <1>5. ASSUME Told(p) PROVE Told(q)
    <2>1. q.chan = <<"BUSY">>
      BY <1>1, <1>4, <1>5, Names, ShortSeqs
    <2>2. Head(q.chan) = "BUSY" /\ Tail(q.chan) = <<>>
      BY <2>1, Names, ShortSeqs
    <2>3. Taken(q).chan = <<>> /\ Taken(q).st = "proc" /\ Taken(q).cmd = "none"
      BY <1>1, <1>4, <1>5, <2>2, TakenTyped
    <2> QED
      BY <1>1, <2>2, <2>3 DEF Told, Busy
  <1> QED
    BY <1>1, <1>2, <1>5 DEF RoleKept

LEMMA DoneKeepsRole ==
    ASSUME NEW p \in Processes, p.st = "proc",
           NEW s \in {"none", "SHUTDOWN", "CLEANDOWN"}
    PROVE  RoleKept(p, Served(p, s)) /\ Served(p, s) \in Processes
  <1> DEFINE q == Served(p, s)
             Report(m) == q.st = "wait" /\ q.chan = Append(p.chan, m) /\ m \in Reports
             Retire    == q.st = "exiting" /\ q.chan = Append(p.chan, "DYING")
  <1>1. /\ q \in Processes /\ q.cmd = p.cmd
        /\ (\E m \in Reports : Report(m)) \/ Retire
        /\ q.chan # <<>>
    <2> DEFINE n == p.handled + 1
    <2>1. n \in Nat
      BY DEF Processes
    <2>2. ASSUME NEW r \in Processes, r.cmd = p.cmd, q = [r EXCEPT !.handled = n, !.stop = s]
          PROVE  q \in Processes /\ q.st = r.st /\ q.chan = r.chan /\ q.cmd = p.cmd
      BY <2>1, <2>2 DEF Processes
    <2>3. CASE s # "none"
      <3>1. s \in Messages /\ "wait" \in WorkerStates /\ s \in Reports
        BY <2>3, Names DEF Reports
      <3>2. /\ Sent(p, s, "wait") \in Processes /\ Sent(p, s, "wait").cmd = p.cmd
            /\ Sent(p, s, "wait").st = "wait" /\ Sent(p, s, "wait").chan = Append(p.chan, s)
            /\ Sent(p, s, "wait").chan # <<>>
        BY <3>1, SentTyped, Zenon
      <3>3. q = [Sent(p, s, "wait") EXCEPT !.handled = n, !.stop = s]
        BY <2>3 DEF Served
      <3> QED
        BY <2>2, <3>1, <3>2, <3>3
    <2>4. CASE s = "none" /\ Retires(n)
      <3>1. "DYING" \in Messages /\ "exiting" \in WorkerStates
        BY Names
      <3>2. /\ Sent(p, "DYING", "exiting") \in Processes /\ Sent(p, "DYING", "exiting").cmd = p.cmd
            /\ Sent(p, "DYING", "exiting").st = "exiting"
            /\ Sent(p, "DYING", "exiting").chan = Append(p.chan, "DYING")
            /\ Sent(p, "DYING", "exiting").chan # <<>>
        BY <3>1, SentTyped, Zenon
      <3>3. q = [Sent(p, "DYING", "exiting") EXCEPT !.handled = n, !.stop = s]
        BY <2>4 DEF Served
      <3> QED
        BY <2>2, <3>1, <3>2, <3>3
    <2>5. CASE s = "none" /\ ~Retires(n)
      <3>1. "IDLE" \in Messages /\ "wait" \in WorkerStates /\ "IDLE" \in Reports
        BY Names DEF Reports
      <3>2. /\ Sent(p, "IDLE", "wait") \in Processes /\ Sent(p, "IDLE", "wait").cmd = p.cmd
            /\ Sent(p, "IDLE", "wait").st = "wait"
            /\ Sent(p, "IDLE", "wait").chan = Append(p.chan, "IDLE")
            /\ Sent(p, "IDLE", "wait").chan # <<>>
        BY <3>1, SentTyped, Zenon
      <3>3. q = [Sent(p, "IDLE", "wait") EXCEPT !.handled = n, !.stop = s]
        BY <2>5 DEF Served
      <3> QED
        BY <2>2, <3>1, <3>2, <3>3
    <2> QED
      BY <2>3, <2>4, <2>5
  <1>2. ~Starting(p) /\ ~Idle(p) /\ ~Leaving(p)
    BY DEF Starting, Idle, Leaving
  <1>3. HasMessage(q)
    BY <1>1 DEF HasMessage
  <1>4. ASSUME NEW t, NEW m \in Messages, t.cmd = "none", t.chan = Append(<<>>, m),
               \/ m \in Reports /\ t.st = "wait"
               \/ m = "DYING" /\ t.st = "exiting"
        PROVE  Busy(t)
    <2>1. t.chan = <<m>>
      BY <1>4, ShortSeqs
    <2> QED
      BY <1>4, <2>1 DEF Busy
  <1>5. ASSUME Busy(p) PROVE Busy(q)
    <2>1. p.cmd = "none" /\ p.chan = <<>>
      BY <1>5 DEF Busy
    <2>2. PICK m \in Messages : /\ q.chan = Append(p.chan, m)
                                /\ \/ m \in Reports /\ q.st = "wait"
                                   \/ m = "DYING" /\ q.st = "exiting"
      BY <1>1, Names
    <2> QED
      BY <1>1, <1>4, <2>1, <2>2
  <1>6. ASSUME Told(p) PROVE Told(q)
    <2>1. p.chan # <<>> /\ Head(p.chan) = "BUSY" /\ Busy(Taken(p))
      BY <1>6 DEF Told
    <2>2. /\ Taken(p).st = "proc" /\ Taken(p).chan = <<>> /\ Taken(p).chan = Tail(p.chan)
          /\ p.cmd = "none"
      BY <2>1, TakenTyped DEF Busy
    <2>3. PICK m \in Messages : /\ q.chan = Append(p.chan, m)
                                /\ \/ m \in Reports /\ q.st = "wait"
                                   \/ m = "DYING" /\ q.st = "exiting"
      BY <1>1, Names
    <2>4. Head(q.chan) = "BUSY" /\ Tail(q.chan) = Append(Tail(p.chan), m)
      BY <2>1, <2>3, AppendFacts DEF Processes
    <2>5. /\ Taken(q).st = q.st /\ Taken(q).cmd = "none"
          /\ Taken(q).chan = Append(Tail(p.chan), m)
      BY <1>1, <2>2, <2>4, TakenTyped
    <2>6. Busy(Taken(q))
      BY <1>4, <2>2, <2>3, <2>5
    <2> QED
      BY <1>1, <2>4, <2>6 DEF Told
  <1> QED
    BY <1>1, <1>2, <1>3, <1>5, <1>6 DEF RoleKept

(* A process that ends without a word leaves a zombie in the same role. *)
LEMMA DeathKeepsRole ==
    ASSUME NEW p \in Processes
    PROVE  RoleKept(p, Corpse(p)) /\ Corpse(p) \in Processes
  <1> DEFINE q == Corpse(p)
  <1>1. /\ q.st = "dead" /\ q.chan = p.chan /\ q.cmd = "none" /\ q.handled = 0
        /\ q \in Processes
    BY DEF Corpse, NoProc, Processes, WorkerStates, Commands
  <1>2. (Starting(p) => Starting(q)) /\ (Idle(p) => Idle(q)) /\ (Leaving(p) => Leaving(q))
    BY <1>1 DEF Starting, Idle, Leaving
  <1>3. ASSUME NEW a, NEW b, Busy(a), b.st = "dead", b.chan = a.chan, b.cmd = "none"
        PROVE  Busy(b)
    BY <1>3 DEF Busy
  <1>4. Busy(p) => Busy(q)
    BY <1>1, <1>3
  <1>5. ASSUME Told(p) PROVE Told(q)
    <2>1. CASE p.chan # <<>> /\ Head(p.chan) = "BUSY" /\ Busy(Taken(p))
      <3>1. Taken(q).st = "dead" /\ Taken(q).chan = Taken(p).chan /\ Taken(q).cmd = "none"
        BY <1>1, <2>1, TakenTyped
      <3>2. Busy(Taken(q))
        BY <1>3, <2>1, <3>1
      <3> QED
        BY <1>1, <2>1, <3>2 DEF Told
    <2>2. CASE p.chan \in {<<>>, <<"DYING">>, <<"SKIPPED">>, <<"SKIPPED", "DYING">>}
      BY <1>1, <2>2 DEF Told
    <2> QED
      BY <1>5, <2>1, <2>2 DEF Told
  <1> QED
    BY <1>1, <1>2, <1>4, <1>5 DEF RoleKept, HasMessage

(***************************************************************************)
(* The master and its tables stay as they are while a worker takes a step, *)
(* so it is enough that the step keeps the process in its role.            *)
(***************************************************************************)
LEMMA WorkerFrame ==
    ASSUME IInv, NEW w \in Workers, NEW q \in Processes,
           proc' = [proc EXCEPT ![w] = q], UNCHANGED <<master, tables>>,
           w \in kids => RoleKept(proc[w], q),
           w \notin kids => q.st \in {"free", "exiting"}
    PROVE  /\ NoAssertionFails' /\ TablesOK' /\ RolesOK' /\ ModesOK'
           /\ proc' \in [Workers -> Processes]
  <1> USE DEF IInv
  <1>1. /\ UNCHANGED <<pc, mode, accept_on, boot, ready, rsock, cur, after, rem, late>>
        /\ UNCHANGED <<kids, idle_kids, pending_kids, older>>
    BY DEF master, tables
  <1>2. /\ proc \in [Workers -> Processes] /\ proc' \in [Workers -> Processes]
        /\ proc'[w] = q /\ \A v \in Workers : v # w => proc'[v] = proc[v]
    BY DEF TypeOK
  <1>3. kids \subseteq Workers /\ idle_kids \subseteq kids /\ pending_kids \subseteq kids
    BY DEF TypeOK, TablesOK
  <1>4. \A v \in kids : RoleKept(proc[v], proc'[v])
    <2>1. \A v \in kids : v # w => proc'[v] = proc[v]
      BY <1>2, <1>3
    <2>2. \A p : RoleKept(p, p)
      BY DEF RoleKept
    <2> QED
      BY <1>2, <2>1, <2>2
  <1>5. RolesOK'
    <2>1. \A v \in Workers : Awaited(v)' = Awaited(v)
      BY <1>1 DEF Awaited
    <2>2. pc \in Waits => cur \in kids
      BY DEF TablesOK
    <2>3. (\A v \in pending_kids : Starting(proc[v]))'
      BY <1>1, <1>3, <1>4 DEF RolesOK, RoleKept
    <2>4. (\A v \in idle_kids : ~Awaited(v) => Idle(proc[v]))'
      BY <1>1, <1>3, <1>4, <2>1 DEF RolesOK, RoleKept
    <2>5. /\ (pc \in StartWaits => Starting(proc[cur]))'
          /\ (pc = "accept_wait" => Told(proc[cur]))'
          /\ (pc = "exit_wait" => Leaving(proc[cur]))'
      BY <1>1, <1>4, <2>2 DEF RolesOK, RoleKept, Waits, StartWaits
    <2>6. (\A v \in kids \ (pending_kids \cup idle_kids) : ~Awaited(v) => Busy(proc[v]))'
      BY <1>1, <1>3, <1>4, <2>1 DEF RolesOK, RoleKept
    <2>7. (\A v \in Workers \ kids : proc[v].st \in {"free", "exiting"})'
      BY <1>1, <1>2 DEF RolesOK
    <2> QED
      BY <2>3, <2>4, <2>5, <2>6, <2>7 DEF RolesOK
  <1>6. TablesOK'
    <2>1. (\A v \in ready \cap kids : CanRecv(v))'
      BY <1>1, <1>4 DEF TablesOK, CanRecv, RoleKept, HasMessage
    <2> QED
      BY <1>1, <2>1 DEF TablesOK
  <1>7. NoAssertionFails' /\ ModesOK'
    BY <1>1 DEF NoAssertionFails, ModesOK
  <1> QED
    BY <1>2, <1>5, <1>6, <1>7

LEMMA WorkerStep ==
    ASSUME IInv, NEW w \in Workers, Worker(w) \/ WorkerTimesOut(w) \/ WorkerDies(w)
    PROVE  IInv'
  <1> USE PoolAssumption
  <1> DEFINE p == proc[w]
  <1>1. /\ TypeOK /\ p \in Processes /\ proc \in [Workers -> Processes]
        /\ (w \notin kids => p.st \in {"free", "exiting"})
    BY DEF IInv, TypeOK, RolesOK
  <1>2. SUFFICES ASSUME NEW q \in Processes, proc' = [proc EXCEPT ![w] = q],
                        UNCHANGED <<master, tables>>,
                        w \in kids => RoleKept(p, q),
                        w \notin kids => q.st \in {"free", "exiting"},
                        /\ backlog' \in Nat /\ arrived' \in Nat /\ faults' \in Nat
                        /\ slow' \in Nat /\ lost' \in Nat
                 PROVE  IInv'
    <2> DEFINE Goal(q) ==
                 /\ q \in Processes /\ proc' = [proc EXCEPT ![w] = q]
                 /\ UNCHANGED <<master, tables>>
                 /\ w \in kids => RoleKept(p, q)
                 /\ w \notin kids => q.st \in {"free", "exiting"}
                 /\ backlog' \in Nat /\ arrived' \in Nat /\ faults' \in Nat
                 /\ slow' \in Nat /\ lost' \in Nat
    <2> SUFFICES \E q : Goal(q)
      OBVIOUS
    <2>0. backlog \in Nat /\ arrived \in Nat /\ faults \in Nat /\ slow \in Nat /\ lost \in Nat
      BY <1>1 DEF TypeOK
    <2>e. ASSUME UNCHANGED env
          PROVE  /\ backlog' \in Nat /\ arrived' \in Nat /\ faults' \in Nat
                 /\ slow' \in Nat /\ lost' \in Nat
      BY <2>0, <2>e DEF env
    <2>1. CASE WorkerUp(w)
      <3>1. Goal(Sent(p, "IDLE", "wait"))
        BY <1>1, <2>1, <2>e, UpKeepsRole DEF WorkerUp, Send
      <3> QED
        BY <3>1
    <2>2. CASE WorkerTimesOut(w)
      <3>1. p.st = "wait" /\ p.cmd = "none" /\ p.handled > 0
        BY <2>2 DEF WorkerTimesOut
      <3>2. /\ RoleKept(p, Sent(p, "DYING", "exiting"))
            /\ Sent(p, "DYING", "exiting") \in Processes
        BY <1>1, <3>1, TimeOutKeepsRole
      <3>3. Goal(Sent(p, "DYING", "exiting"))
        BY <1>1, <2>2, <2>e, <3>1, <3>2 DEF WorkerTimesOut, Send
      <3> QED
        BY <3>3
    <2>3. CASE WorkerRecv(w)
      <3>1. Goal(Received(p))
        BY <1>1, <2>3, <2>e, RecvKeepsRole DEF WorkerRecv
      <3> QED
        BY <3>1
    <2>4. CASE WorkerAccept(w)
      <3>1. p.st = "acc" /\ backlog' = backlog - 1 /\ backlog > 0
        BY <2>4 DEF WorkerAccept
      <3>2. Goal([p EXCEPT !.st = "got"])
        BY <1>1, <2>0, <2>4, <3>1, AcceptKeepsRole DEF WorkerAccept
      <3> QED
        BY <3>2
    <2>5. CASE WorkerSkips(w)
      <3>1. faults' \in Nat
        BY <2>0, <2>5 DEF WorkerSkips
      <3>2. Goal(Sent(p, "SKIPPED", "wait"))
        BY <1>1, <2>0, <2>5, <3>1, AcceptKeepsRole DEF WorkerSkips, Send
      <3> QED
        BY <3>2
    <2>6. CASE WorkerBusy(w)
      <3>1. Goal(Sent(p, "BUSY", "proc"))
        BY <1>1, <2>6, <2>e, BusyKeepsRole DEF WorkerBusy, Send
      <3> QED
        BY <3>1
    <2>7. CASE WorkerDone(w)
      <3>1. PICK s \in StopKinds \cup {p.stop} : proc' = [proc EXCEPT ![w] = Served(p, s)]
        BY <1>1, <2>7 DEF WorkerDone
      <3>2. s \in {"none", "SHUTDOWN", "CLEANDOWN"}
        BY <1>1 DEF Processes
      <3>3. p.st = "proc" /\ UNCHANGED <<master, tables, env>>
        BY <2>7 DEF WorkerDone
      <3>4. RoleKept(p, Served(p, s)) /\ Served(p, s) \in Processes
        BY <1>1, <3>2, <3>3, DoneKeepsRole
      <3>5. Goal(Served(p, s))
        BY <1>1, <2>e, <3>1, <3>3, <3>4
      <3> QED
        BY <3>5
    <2>8. ASSUME proc' = [proc EXCEPT ![w] = Gone(w)], UNCHANGED <<master, tables>>,
                 /\ backlog' \in Nat /\ arrived' \in Nat /\ faults' \in Nat
                 /\ slow' \in Nat /\ lost' \in Nat
          PROVE  Goal(Gone(w))
      <3>1. NoProc \in Processes /\ NoProc.st = "free"
        BY ShortSeqs DEF NoProc, Processes, WorkerStates, Messages
      <3> QED
        BY <1>1, <2>8, <3>1, DeathKeepsRole DEF Gone
    <2>9. CASE WorkerExits(w)
      <3>1. Goal(Gone(w))
        BY <2>8, <2>9, <2>e DEF WorkerExits
      <3> QED
        BY <3>1
    <2>10. CASE WorkerDies(w)
      <3>1. faults' \in Nat /\ lost' \in Nat
        BY <2>0, <2>10 DEF WorkerDies
      <3>2. Goal(Gone(w))
        BY <2>0, <2>8, <2>10, <3>1 DEF WorkerDies
      <3> QED
        BY <3>2
    <2> QED
      BY <2>1, <2>2, <2>3, <2>4, <2>5, <2>6, <2>7, <2>9, <2>10 DEF Worker
  <1>3. /\ NoAssertionFails' /\ TablesOK' /\ RolesOK' /\ ModesOK'
        /\ proc' \in [Workers -> Processes]
    BY <1>2, WorkerFrame
  <1>4. TypeOK'
    BY <1>1, <1>2, <1>3 DEF TypeOK, master, tables
  <1> QED
    BY <1>3, <1>4 DEF IInv

(***************************************************************************)
(* The master looking at its own state only.                               *)
(***************************************************************************)
LEMMA QuietRoles ==
    ASSUME IInv, UNCHANGED <<tables, proc>>,
           \/ pc \notin Waits /\ pc' \notin Waits
           \/ UNCHANGED <<pc, cur>>
    PROVE  RolesOK'
  <1>1. \A w : Awaited(w)' = Awaited(w)
    BY DEF Awaited, TablesOK
  <1>2. UNCHANGED <<kids, idle_kids, pending_kids, proc>>
    BY DEF tables
  <1>3. RolesOK
    BY DEF IInv
  <1>4. CASE pc \notin Waits /\ pc' \notin Waits
    BY <1>1, <1>2, <1>3, <1>4 DEF RolesOK, Waits, StartWaits
  <1>5. CASE UNCHANGED <<pc, cur>>
    BY <1>1, <1>2, <1>3, <1>5 DEF RolesOK
  <1> QED
    BY <1>4, <1>5

(***************************************************************************)
(* drop_kid(), reap_kids(), shoot_kid(): some workers are forgotten and    *)
(* their processes are gone, or going; nothing is said of the others.      *)
(***************************************************************************)
Remains(gone) ==
    /\ kids' = kids \ gone /\ idle_kids' = idle_kids \ gone
    /\ pending_kids' = pending_kids \ gone
    /\ kids' \subseteq Workers /\ idle_kids' \subseteq kids' /\ pending_kids' \subseteq kids'
    /\ idle_kids' \cap pending_kids' = {}
    /\ older' \subseteq Workers \X Workers
    /\ proc' \in [Workers -> Processes]
    /\ \A w \in pending_kids' : Starting(proc'[w])
    /\ \A w \in idle_kids' : ~Awaited(w) => Idle(proc'[w])
    /\ \A w \in kids' \ (pending_kids' \cup idle_kids') : ~Awaited(w) => Busy(proc'[w])
    /\ \A w \in Workers \ kids' : proc'[w].st \in {"free", "exiting"}
    /\ \A w \in ready \cap kids' : CanRecv(w)'

LEMMA NoProcTyped == NoProc \in Processes /\ NoProc.st = "free"
  BY ShortSeqs DEF NoProc, Processes, WorkerStates, Messages

LEMMA Removal ==
    ASSUME IInv, NEW gone \in SUBSET kids, Forget(gone),
           proc' \in [Workers -> Processes],
           \A w \in Workers \ gone : proc'[w] = proc[w],
           \A w \in gone : proc'[w].st \in {"free", "exiting"}
    PROVE  Remains(gone)
  <1>1. /\ kids \subseteq Workers /\ older \subseteq Workers \X Workers
        /\ idle_kids \subseteq kids /\ pending_kids \subseteq kids
        /\ idle_kids \cap pending_kids = {}
    BY DEF IInv, TypeOK, TablesOK
  <1>2. /\ kids' = kids \ gone /\ idle_kids' = idle_kids \ gone
        /\ pending_kids' = pending_kids \ gone
        /\ older' \subseteq Workers \X Workers
    BY <1>1 DEF Forget
  <1>3. \A w \in kids' : proc'[w] = proc[w]
    BY <1>1, <1>2
  <1>4. /\ \A w \in pending_kids' : Starting(proc'[w])
        /\ \A w \in idle_kids' : ~Awaited(w) => Idle(proc'[w])
        /\ \A w \in kids' \ (pending_kids' \cup idle_kids') : ~Awaited(w) => Busy(proc'[w])
    BY <1>1, <1>2, <1>3 DEF IInv, RolesOK
  <1>5. \A w \in Workers \ kids' : proc'[w].st \in {"free", "exiting"}
    BY <1>1, <1>2 DEF IInv, RolesOK
  <1>6. \A w \in ready \cap kids' : CanRecv(w)'
    BY <1>2, <1>3 DEF IInv, TablesOK, CanRecv
  <1> QED
    BY <1>1, <1>2, <1>4, <1>5, <1>6 DEF Remains

LEMMA ReapRemains ==
    ASSUME IInv, ReapKids
    PROVE  Remains(DeadKids)
  <1>1. DeadKids \subseteq kids /\ kids \subseteq Workers /\ proc \in [Workers -> Processes]
    BY DEF DeadKids, IInv, TypeOK
  <1>2. proc' = [w \in Workers |-> IF w \in DeadKids THEN NoProc ELSE proc[w]]
    BY DEF ReapKids
  <1>3. proc' \in [Workers -> Processes]
    BY <1>1, <1>2, NoProcTyped
  <1>4. /\ \A w \in Workers \ DeadKids : proc'[w] = proc[w]
        /\ \A w \in DeadKids : proc'[w].st \in {"free", "exiting"}
    BY <1>1, <1>2, NoProcTyped
  <1>5. Forget(DeadKids)
    BY DEF ReapKids
  <1> QED
    BY <1>1, <1>3, <1>4, <1>5, Removal

LEMMA ShootRemains ==
    ASSUME IInv, NEW c \in kids, Shoot(c)
    PROVE  Remains(DeadKids \cup {c}) /\ lost' \in Nat
  <1> DEFINE gone == DeadKids \cup {c}
  <1>1. /\ gone \subseteq kids /\ kids \subseteq Workers /\ proc \in [Workers -> Processes]
        /\ lost \in Nat
    BY DEF DeadKids, IInv, TypeOK
  <1>2. DeadKids \cup ({c} \cap kids) = gone
    OBVIOUS
  <1>3. /\ Forget(gone)
        /\ proc' = [w \in Workers |-> IF w \in gone THEN NoProc ELSE proc[w]]
        /\ lost' = IF c \in kids /\ Holding(c) THEN lost + 1 ELSE lost
    BY <1>2 DEF Shoot
  <1>4. proc' \in [Workers -> Processes]
    BY <1>1, <1>3, NoProcTyped
  <1>5. /\ \A w \in Workers \ gone : proc'[w] = proc[w]
        /\ \A w \in gone : proc'[w].st \in {"free", "exiting"}
    BY <1>1, <1>3, NoProcTyped
  <1>6. Remains(gone)
    BY <1>1, <1>3, <1>4, <1>5, Removal
  <1> QED
    BY <1>1, <1>3, <1>6

LEMMA DropDyingRemains ==
    ASSUME IInv, NEW c \in kids, proc[c].st \in {"exiting", "dead"}, DropDying(c)
    PROVE  Remains({c})
  <1>1. c \in Workers /\ proc \in [Workers -> Processes]
    BY DEF IInv, TypeOK
  <1> DEFINE q == IF proc[c].st = "dead" THEN NoProc ELSE [proc[c] EXCEPT !.chan = <<>>]
  <1>2. proc' = [proc EXCEPT ![c] = q] /\ Forget({c})
    BY DEF DropDying
  <1>3. q \in Processes /\ q.st \in {"free", "exiting"}
    <2>1. proc[c] \in Processes /\ <<>> \in Seq(Messages)
      BY <1>1
    <2>2. [proc[c] EXCEPT !.chan = <<>>] \in Processes
      BY <2>1 DEF Processes
    <2>3. [proc[c] EXCEPT !.chan = <<>>].st = proc[c].st
      BY <2>1 DEF Processes
    <2> QED
      BY <2>2, <2>3, NoProcTyped
  <1>4. /\ proc' \in [Workers -> Processes]
        /\ \A w \in Workers \ {c} : proc'[w] = proc[w]
        /\ \A w \in {c} : proc'[w].st \in {"free", "exiting"}
    BY <1>1, <1>2, <1>3
  <1> QED
    BY <1>2, <1>4, Removal

(* After the workers in gone are forgotten no answer is awaited any more.  *)
LEMMA RemainsRoles ==
    ASSUME IInv, NEW gone, Remains(gone), pc' \notin Waits,
           pc \in Waits => cur \in gone
    PROVE  RolesOK'
  <1>1. \A w \in kids' : ~Awaited(w)
    BY DEF Remains, Awaited
  <1>2. idle_kids' \subseteq kids'
    BY DEF Remains
  <1> QED
    BY <1>1, <1>2 DEF Remains, RolesOK, Waits, StartWaits

(***************************************************************************)
(* The steps at which the master changes no table and touches no process.  *)
(***************************************************************************)
QuietStep ==
    \/ BootDone \/ Select \/ SelectTimeout \/ (\E w \in Workers : AckGone(w)) \/ AcksDone
    \/ DispatchReady \/ NoOffer \/ InsureDone \/ DownWait
    \/ Arrive \/ RespTimesOut \/ TimeRunsOut \/ Stopped

LEMMA QuietKeeps ==
    ASSUME IInv, QuietStep
    PROVE  IInv'
  <1> USE DEF IInv, TypeOK, NoAssertionFails, TablesOK, ModesOK, PCs, Waits, StartWaits
  <1> DEFINE Kept == UNCHANGED <<tables, proc>>
                     /\ ((pc \notin Waits /\ pc' \notin Waits) \/ UNCHANGED <<pc, cur>>)
             Rest == TypeOK' /\ NoAssertionFails' /\ TablesOK' /\ ModesOK'
  <1>1. SUFFICES Kept /\ Rest
    BY QuietRoles
  <1>2. CASE BootDone
    BY <1>2 DEF BootDone, tables, env, CanRecv
  <1>3. CASE Select
    BY <1>3 DEF Select, tables, env, CanRecv, Readable, SockReady
  <1>4. CASE SelectTimeout
    <2>1. /\ pc = "select" /\ Kept
          /\ UNCHANGED <<boot, ready, rsock, cur, after, rem, late, tables, proc, env>>
      BY <1>4 DEF SelectTimeout
    <2>2. CASE mode = "serve" /\ mode' = "drain" /\ accept_on' = TRUE /\ pc' = "select"
      BY <2>1, <2>2 DEF tables, env, CanRecv
    <2>3. CASE mode = "drain" /\ mode' = "down" /\ accept_on' = FALSE /\ pc' = "shut_idle"
      BY <2>1, <2>3 DEF tables, env, CanRecv
    <2>4. CASE mode = "down" /\ pc' = "shut_idle" /\ UNCHANGED <<mode, accept_on>>
      BY <2>1, <2>4 DEF tables, env, CanRecv
    <2> QED
      BY <1>4, <2>2, <2>3, <2>4 DEF SelectTimeout
  <1>5. CASE \E w \in Workers : AckGone(w)
    BY <1>5 DEF AckGone, Acking, tables, env, CanRecv
  <1>6. CASE AcksDone
    BY <1>6 DEF AcksDone, CycleReturns, Running, tables, env, CanRecv
  <1>7. CASE DispatchReady
    BY <1>7 DEF DispatchReady, tables, env, CanRecv
  <1>8. CASE NoOffer
    BY <1>8 DEF NoOffer, tables, env, CanRecv
  <1>9. CASE InsureDone
    <2>1. backlog' \in Nat
      BY <1>9 DEF InsureDone
    <2>2. /\ pc = "insure" /\ after' = "none"
          /\ UNCHANGED <<mode, boot, ready, cur, rem, late, tables, proc, arrived, faults, slow, lost>>
      BY <1>9 DEF InsureDone
    <2>3. CASE after = "acks"
      <3>1. pc' = "acks" /\ UNCHANGED <<accept_on, rsock>>
        BY <1>9, <2>3 DEF InsureDone
      <3> QED
        BY <2>1, <2>2, <3>1 DEF tables, CanRecv
    <2>4. CASE after # "acks"
      <3>1. PICK res : CycleReturns(res)
        BY <1>9, <2>4 DEF InsureDone
      <3>2. mode # "down" /\ ready = {}
        BY <2>2, <2>4
      <3> QED
        BY <2>1, <2>2, <3>1, <3>2 DEF CycleReturns, tables, CanRecv
    <2> QED
      BY <2>3, <2>4
  <1>10. CASE DownWait
    BY <1>10 DEF DownWait, tables, env, CanRecv
  <1>11. CASE Arrive
    BY <1>11 DEF Arrive, master, tables, CanRecv
  <1>12. CASE TimeRunsOut
    BY <1>12 DEF TimeRunsOut, tables, env, CanRecv
  <1>13. CASE Stopped
    BY <1>13 DEF Stopped, vars, master, tables, env, CanRecv
  <1>14. CASE RespTimesOut
    BY <1>14 DEF RespTimesOut, tables, CanRecv
  <1> QED
    BY <1>2, <1>3, <1>4, <1>5, <1>6, <1>7, <1>8, <1>9, <1>10, <1>11, <1>12, <1>13, <1>14
       DEF QuietStep

(***************************************************************************)
(* The steps at which workers are forgotten.                               *)
(***************************************************************************)
LEMMA ServeLoopKeeps ==
    ASSUME IInv, ServeLoop
    PROVE  IInv'
  <1>1. Remains(DeadKids)
    BY ReapRemains DEF ServeLoop
  <1>2. pc = "loop" /\ pc' = "select"
    BY DEF ServeLoop
  <1>3. RolesOK'
    BY <1>1, <1>2, RemainsRoles DEF Waits, StartWaits
  <1>4. TypeOK'
    BY <1>1, <1>2 DEF ServeLoop, IInv, TypeOK, Remains, PCs, env, HasCapacity
  <1>5. NoAssertionFails' /\ TablesOK' /\ ModesOK'
    BY <1>1, <1>2 DEF ServeLoop, IInv, NoAssertionFails, TablesOK, ModesOK, Remains, Waits, StartWaits
  <1> QED
    BY <1>3, <1>4, <1>5 DEF IInv

LEMMA ShutIdleDoneKeeps ==
    ASSUME IInv, ShutIdleDone
    PROVE  IInv'
  <1>1. Remains(DeadKids)
    BY ReapRemains DEF ShutIdleDone
  <1>2. pc = "shut_idle" /\ pc' = "down_loop"
    BY DEF ShutIdleDone
  <1>3. RolesOK'
    BY <1>1, <1>2, RemainsRoles DEF Waits, StartWaits
  <1>4. TypeOK'
    BY <1>1, <1>2 DEF ShutIdleDone, IInv, TypeOK, Remains, PCs, env
  <1>5. NoAssertionFails' /\ TablesOK' /\ ModesOK'
    BY <1>1, <1>2 DEF ShutIdleDone, IInv, NoAssertionFails, TablesOK, ModesOK, Remains, Waits, StartWaits
  <1> QED
    BY <1>3, <1>4, <1>5 DEF IInv

LEMMA DownDoneKeeps ==
    ASSUME IInv, DownDone
    PROVE  IInv'
  <1>1. /\ kids \subseteq Workers /\ proc \in [Workers -> Processes]
        /\ IsFiniteSet(Workers) /\ lost \in Nat
    BY PoolAssumption DEF IInv, TypeOK
  <1>2. Cardinality({w \in kids : Holding(w)}) \in Nat
    BY <1>1, FS_Subset, FS_CardinalityType
  <1>3. Remains(kids)
    <2>1. proc' = [w \in Workers |-> IF w \in kids THEN NoProc ELSE proc[w]] /\ Forget(kids)
      BY DEF DownDone, ShootAll
    <2>2. proc' \in [Workers -> Processes]
      BY <1>1, <2>1, NoProcTyped
    <2>3. /\ \A w \in Workers \ kids : proc'[w] = proc[w]
          /\ \A w \in kids : proc'[w].st \in {"free", "exiting"}
      BY <1>1, <2>1, NoProcTyped
    <2> QED
      BY <2>1, <2>2, <2>3, Removal
  <1>4. pc = "down_loop" /\ pc' = "stopped"
    BY DEF DownDone
  <1>5. RolesOK'
    BY <1>3, <1>4, RemainsRoles DEF Waits, StartWaits
  <1>6. lost' \in Nat
    BY <1>1, <1>2 DEF DownDone, ShootAll
  <1>7. TypeOK'
    BY <1>3, <1>4, <1>6 DEF DownDone, IInv, TypeOK, Remains, PCs
  <1>8. NoAssertionFails' /\ TablesOK' /\ ModesOK'
    BY <1>3, <1>4 DEF DownDone, IInv, NoAssertionFails, TablesOK, ModesOK, Remains, Waits, StartWaits
  <1> QED
    BY <1>5, <1>7, <1>8 DEF IInv

LEMMA AfterRemoval ==
    ASSUME IInv, NEW gone, Remains(gone), pc' \notin Waits, pc \in Waits => cur \in gone,
           cur' = NoWorker, ~late', ready' \subseteq ready,
           pc' \notin {"acks", "insure"} => ready' = {},
           pc' = "insure" => after' # "none" /\ (after' # "acks" => ready' = {})
    PROVE  TablesOK' /\ RolesOK'
  <1>1. RolesOK'
    BY RemainsRoles
  <1>2. TablesOK'
    BY DEF Remains, TablesOK, Waits, CanRecv
  <1> QED
    BY <1>1, <1>2

(* A worker that the master waits on, or hears of, is one of its own.      *)
LEMMA AwaitedIsKid ==
    ASSUME IInv, pc \in Waits
    PROVE  cur \in kids /\ cur \in Workers /\ cur \notin pending_kids /\ ready = {}
  BY DEF IInv, TypeOK, TablesOK, Waits, StartWaits

LEMMA AckBadKeeps ==
    ASSUME IInv, NEW w \in Workers, AckBad(w)
    PROVE  IInv'
  <1>1. /\ pc = "acks" /\ w \in kids /\ ready' = ready \ {w} /\ pc' = pc /\ Shoot(w)
        /\ UNCHANGED <<mode, accept_on, boot, rsock, cur, after, rem, late>>
        /\ UNCHANGED <<backlog, arrived, faults, slow>>
    BY DEF AckBad, Acking
  <1>2. Remains(DeadKids \cup {w}) /\ lost' \in Nat
    BY <1>1, ShootRemains
  <1>3. TablesOK' /\ RolesOK'
    BY <1>1, <1>2, AfterRemoval DEF IInv, TablesOK, Waits, StartWaits
  <1>4. TypeOK'
    BY <1>1, <1>2 DEF IInv, TypeOK, Remains
  <1>5. NoAssertionFails' /\ ModesOK'
    BY <1>1 DEF IInv, NoAssertionFails, ModesOK
  <1> QED
    BY <1>3, <1>4, <1>5 DEF IInv

(* A worker whose next message is DYING is on its way out.                 *)
LEMMA DyingIsLeaving ==
    ASSUME NEW p \in Processes, p.chan # <<>>, Head(p.chan) = "DYING",
           Starting(p) \/ Idle(p) \/ Leaving(p) \/ Busy(p)
    PROVE  p.st \in {"exiting", "dead"}
  <1>1. \A m \in Reports : Head(<<m>>) # "DYING" /\ Head(<<m, "DYING">>) # "DYING"
    BY DEF Reports
  <1> QED
    BY <1>1 DEF Starting, Idle, Leaving, Busy

LEMMA AckDyingKeeps ==
    ASSUME IInv, NEW w \in Workers, AckDying(w)
    PROVE  IInv'
  <1>1. /\ pc = "acks" /\ w \in kids /\ w \in ready /\ ready' = ready \ {w}
        /\ pc' = "insure" /\ after' = "acks" /\ DropDying(w) /\ Resp(w) = "DYING"
        /\ UNCHANGED <<mode, accept_on, boot, rsock, cur, rem, late, env>>
    BY DEF AckDying, Acking
  <1>2. proc[w].st \in {"exiting", "dead"}
    <2>1. proc[w].chan # <<>> /\ Head(proc[w].chan) = "DYING"
      BY <1>1 DEF Resp
    <2>2. Starting(proc[w]) \/ Idle(proc[w]) \/ Busy(proc[w])
      BY <1>1 DEF IInv, RolesOK, Awaited, Waits, StartWaits
    <2>3. proc[w] \in Processes
      BY DEF IInv, TypeOK
    <2> QED
      BY <2>1, <2>2, <2>3, DyingIsLeaving
  <1>3. Remains({w})
    BY <1>1, <1>2, DropDyingRemains
  <1>4. TablesOK' /\ RolesOK'
    BY <1>1, <1>3, AfterRemoval DEF IInv, TablesOK, Waits, StartWaits
  <1>5. TypeOK'
    BY <1>1, <1>3 DEF IInv, TypeOK, Remains, PCs, env
  <1>6. NoAssertionFails' /\ ModesOK'
    BY <1>1 DEF IInv, NoAssertionFails, ModesOK
  <1> QED
    BY <1>4, <1>5, <1>6 DEF IInv

LEMMA ExitAnsweredKeeps ==
    ASSUME IInv, ExitAnswered
    PROVE  IInv'
  <1>1. /\ pc = "exit_wait" /\ pc' = "shut_idle" /\ cur' = NoWorker
        /\ late' = FALSE /\ UNCHANGED <<mode, accept_on, boot, ready, rsock, after, rem>>
        /\ UNCHANGED <<backlog, arrived, faults, slow>>
    BY DEF ExitAnswered
  <1>2. cur \in kids /\ cur \in Workers /\ ready = {}
    BY <1>1, AwaitedIsKid DEF Waits
  <1>3. PICK gone : Remains(gone) /\ cur \in gone /\ lost' \in Nat
    <2>0. lost \in Nat
      BY DEF IInv, TypeOK
    <2>1. CASE RespIs({"DYING"}) /\ DropDying(cur) /\ UNCHANGED lost
      <3>1. proc[cur].chan # <<>> /\ Head(proc[cur].chan) = "DYING"
        BY <2>1 DEF RespIs, Resp
      <3>2. Leaving(proc[cur]) /\ proc[cur] \in Processes
        BY <1>1, <1>2 DEF IInv, RolesOK, TypeOK
      <3>3. Remains({cur})
        BY <1>2, <2>1, <3>1, <3>2, DyingIsLeaving, DropDyingRemains
      <3> QED
        BY <2>0, <2>1, <3>3
    <2>2. CASE Shoot(cur)
      BY <1>2, <2>2, ShootRemains
    <2> QED
      BY <2>1, <2>2 DEF ExitAnswered, ShootLate
  <1>4. TablesOK' /\ RolesOK'
    BY <1>1, <1>2, <1>3, AfterRemoval DEF Waits, StartWaits
  <1>5. TypeOK'
    BY <1>1, <1>3 DEF IInv, TypeOK, Remains, PCs
  <1>6. NoAssertionFails' /\ ModesOK'
    BY <1>1 DEF IInv, NoAssertionFails, ModesOK
  <1> QED
    BY <1>4, <1>5, <1>6 DEF IInv

(***************************************************************************)
(* The steps at which the master reads an answer.                          *)
(***************************************************************************)
LEMMA TakeFrame ==
    ASSUME IInv, NEW c \in kids, proc[c].chan # <<>>, Take(c)
    PROVE  /\ proc' \in [Workers -> Processes] /\ proc'[c] = Taken(proc[c])
           /\ \A w \in Workers : w # c => proc'[w] = proc[w]
  <1>1. c \in Workers /\ proc \in [Workers -> Processes]
    BY DEF IInv, TypeOK
  <1>2. Taken(proc[c]) \in Processes
    BY <1>1, TakenTyped
  <1> QED
    BY <1>1, <1>2 DEF Take

(* One worker is given the role of an idle or a busy one; the others keep  *)
(* theirs.                                                                 *)
LEMMA RoleGiven ==
    ASSUME IInv, NEW c \in kids, pc \in Waits => cur = c, pc' \notin Waits,
           proc' \in [Workers -> Processes],
           \A w \in Workers : w # c => proc'[w] = proc[w],
           UNCHANGED kids, pending_kids' = pending_kids \ {c},
           \/ idle_kids' = idle_kids \cup {c} /\ Idle(proc'[c])
           \/ idle_kids' = idle_kids /\ c \notin idle_kids /\ Busy(proc'[c])
    PROVE  RolesOK'
  <1>1. kids \subseteq Workers /\ idle_kids \subseteq kids /\ pending_kids \subseteq kids
    BY DEF IInv, TypeOK, TablesOK
  <1>2. \A w : w # c => ~Awaited(w)
    BY DEF Awaited
  <1>3. \A w \in pending_kids' : Starting(proc'[w])
    BY <1>1 DEF IInv, RolesOK
  <1>4. \A w \in idle_kids' : Idle(proc'[w])
    BY <1>1, <1>2 DEF IInv, RolesOK
  <1>5. \A w \in kids \ (pending_kids' \cup idle_kids') : Busy(proc'[w])
    BY <1>1, <1>2 DEF IInv, RolesOK
  <1>6. \A w \in Workers \ kids : proc'[w].st \in {"free", "exiting"}
    BY DEF IInv, RolesOK
  <1> QED
    BY <1>3, <1>4, <1>5, <1>6 DEF RolesOK, Waits, StartWaits

(* What is left of a worker once its report has been read. *)
LEMMA ReportIsIdle ==
    ASSUME NEW p \in Processes, Starting(p) \/ Busy(p), p.chan # <<>>, Head(p.chan) \in Reports
    PROVE  Idle(Taken(p))
  <1>1. PICK m \in Reports : p.chan = <<m>> \/ p.chan = <<m, "DYING">>
    <2>1. Head(<<"DYING">>) \notin Reports /\ "IDLE" \in Reports
      BY DEF Reports
    <2> QED
      BY <2>1 DEF Starting, Busy
  <1>2. m \in Messages /\ "DYING" \in Messages
    BY Names
  <1>3. <<m>> # <<m, "DYING">> /\ <<m>> # <<>> /\ <<m, "DYING">> # <<>>
    OBVIOUS
  <1>4. CASE p.chan = <<m>>
    <2>1. p.cmd = "none" /\ p.st \in {"wait", "dead"}
      <3>1. \A n \in Reports : <<m>> # <<n, "DYING">> /\ <<m>> # <<"DYING">>
        BY DEF Reports
      <3> QED
        BY <1>3, <1>4, <3>1 DEF Starting, Busy
    <2>2. Taken(p).chan = <<>> /\ Taken(p).st = p.st /\ Taken(p).cmd = p.cmd
      <3>1. Tail(<<m>>) = <<>>
        BY <1>2, ShortSeqs
      <3>2. /\ Taken(p).chan = Tail(p.chan) /\ Taken(p).st = p.st
            /\ Taken(p).cmd = p.cmd
        BY TakenTyped
      <3> QED
        BY <1>4, <3>1, <3>2
    <2> QED
      BY <2>1, <2>2 DEF Idle
  <1>5. CASE p.chan = <<m, "DYING">>
    <2>1. p.cmd = "none" /\ p.st \in {"exiting", "dead"}
      <3>1. \A n : <<m, "DYING">> # <<n>>
        OBVIOUS
      <3> QED
        BY <1>3, <1>5, <3>1 DEF Starting, Busy
    <2>2. Taken(p).chan = <<"DYING">> /\ Taken(p).st = p.st /\ Taken(p).cmd = p.cmd
      <3>1. Tail(<<m, "DYING">>) = <<"DYING">>
        BY <1>2, ShortSeqs
      <3>2. /\ Taken(p).chan = Tail(p.chan) /\ Taken(p).st = p.st
            /\ Taken(p).cmd = p.cmd
        BY TakenTyped
      <3> QED
        BY <1>5, <3>1, <3>2
    <2> QED
      BY <2>1, <2>2 DEF Idle
  <1> QED
    BY <1>1, <1>4, <1>5

LEMMA StartAckedKeeps ==
    ASSUME IInv, boot' \in Nat,
           \/ StartAcked("boot_wait", "boot")
           \/ StartAcked("pending_wait", "dispatch")
           \/ StartAcked("start_wait", "offer")
    PROVE  IInv'
  <1>1. /\ pc \in StartWaits /\ cur' = NoWorker
        /\ \/ pc = "boot_wait" /\ pc' = "boot"
           \/ pc # "boot_wait" /\ pc' \in {"dispatch", "offer"}
        /\ late' = FALSE
        /\ UNCHANGED <<mode, accept_on, ready, rsock, after, rem, backlog, arrived, faults, slow>>
    BY DEF StartAcked, StartWaits
  <1>2. /\ cur \in kids /\ cur \in Workers /\ cur \notin pending_kids /\ cur \notin idle_kids
        /\ ready = {} /\ Starting(proc[cur]) /\ proc[cur] \in Processes
    BY <1>1, AwaitedIsKid DEF IInv, TypeOK, TablesOK, RolesOK, Waits, StartWaits
  <1>3. /\ NoAssertionFails' /\ ModesOK' /\ pc' \in PCs /\ pc' \notin Waits /\ pc' # "insure"
    BY <1>1 DEF IInv, NoAssertionFails, ModesOK, PCs, Waits, StartWaits
  <1>4. lost \in Nat /\ kids \subseteq Workers
    BY DEF IInv, TypeOK
  <1>5. CASE /\ RespIs({"IDLE"}) /\ Take(cur) /\ idle_kids' = idle_kids \cup {cur}
             /\ UNCHANGED <<kids, pending_kids, older, lost>>
    <2>1. proc[cur].chan # <<>>
      BY <1>5 DEF RespIs, Resp
    <2>2. /\ proc' \in [Workers -> Processes] /\ Idle(proc'[cur])
          /\ \A w \in Workers : w # cur => proc'[w] = proc[w]
      <3>1. Head(proc[cur].chan) \in Reports
        BY <1>5, <2>1 DEF RespIs, Resp, Reports
      <3> QED
        BY <1>2, <1>5, <2>1, <3>1, TakeFrame, ReportIsIdle
    <2>3. RolesOK'
      <3>1. pending_kids' = pending_kids \ {cur}
        BY <1>2, <1>5
      <3> QED
        BY <1>2, <1>3, <1>5, <2>2, <3>1, RoleGiven
    <2>4. TablesOK'
      BY <1>1, <1>2, <1>3, <1>5 DEF IInv, TablesOK
    <2>5. TypeOK'
      BY <1>1, <1>2, <1>3, <1>5, <2>2 DEF IInv, TypeOK
    <2> QED
      BY <1>3, <2>3, <2>4, <2>5 DEF IInv
  <1>6. CASE Shoot(cur)
    <2>1. Remains(DeadKids \cup {cur}) /\ lost' \in Nat
      BY <1>2, <1>6, ShootRemains
    <2>2. TablesOK' /\ RolesOK'
      BY <1>1, <1>2, <1>3, <2>1, AfterRemoval DEF Waits
    <2>3. TypeOK'
      BY <1>1, <1>3, <2>1 DEF IInv, TypeOK, Remains
    <2> QED
      BY <1>3, <2>2, <2>3 DEF IInv
  <1> QED
    BY <1>5, <1>6 DEF StartAcked, ShootLate

LEMMA BootAckedKeeps ==
    ASSUME IInv, BootAcked
    PROVE  IInv'
  <1>1. pc = "boot_wait"
    BY DEF BootAcked, StartAcked
  <1>2. boot' \in Nat
    BY <1>1 DEF BootAcked, IInv, TypeOK, ModesOK
  <1> QED
    BY <1>2, StartAckedKeeps DEF BootAcked

LEMMA OtherAckedKeeps ==
    ASSUME IInv, PendingAcked \/ DispatchStarted
    PROVE  IInv'
  <1>1. boot' \in Nat
    BY DEF PendingAcked, DispatchStarted, IInv, TypeOK
  <1> QED
    BY <1>1, StartAckedKeeps DEF PendingAcked, DispatchStarted

LEMMA AckIdleKeeps ==
    ASSUME IInv, NEW w \in Workers, AckIdle(w)
    PROVE  IInv'
  <1> DEFINE p == proc[w]
  <1>1. /\ pc = "acks" /\ w \in kids /\ ready' = ready \ {w} /\ Resp(w) = "IDLE" /\ Take(w)
        /\ UNCHANGED <<mode, accept_on, boot, rsock, cur, after, rem, late, kids, older, env>>
    BY DEF AckIdle, Acking
  <1>2. p.chan # <<>> /\ Head(p.chan) = "IDLE" /\ p \in Processes
    BY <1>1 DEF Resp, IInv, TypeOK
  <1>3. w \notin idle_kids
    <2>1. w \in idle_kids => Idle(p)
      BY <1>1 DEF IInv, RolesOK, Awaited, Waits, StartWaits
    <2>2. ~Idle(p)
      BY <1>2 DEF Idle
    <2> QED
      BY <2>1, <2>2
  <1>4. /\ idle_kids' = idle_kids \cup {w} /\ pending_kids' = pending_kids \ {w} /\ pc' = pc
    BY <1>3 DEF AckIdle
  <1>5. Idle(Taken(p))
    <2>1. Starting(p) \/ Busy(p)
      BY <1>1, <1>3 DEF IInv, RolesOK, Awaited, Waits, StartWaits
    <2>2. Head(p.chan) \in Reports
      BY <1>2 DEF Reports
    <2> QED
      BY <1>2, <2>1, <2>2, ReportIsIdle
  <1>6. /\ proc' \in [Workers -> Processes] /\ proc'[w] = Taken(p)
        /\ \A v \in Workers : v # w => proc'[v] = proc[v]
    BY <1>1, <1>2, TakeFrame
  <1>7. RolesOK'
    BY <1>1, <1>4, <1>5, <1>6, RoleGiven DEF Waits, StartWaits
  <1>8. TypeOK'
    BY <1>1, <1>4, <1>6 DEF IInv, TypeOK, env
  <1>9. TablesOK'
    <2>1. (\A v \in ready \cap kids : CanRecv(v))'
      BY <1>1, <1>6 DEF IInv, TypeOK, TablesOK, CanRecv
    <2>2. /\ idle_kids' \subseteq kids' /\ pending_kids' \subseteq kids'
          /\ idle_kids' \cap pending_kids' = {}
      BY <1>1, <1>4 DEF IInv, TablesOK
    <2>3. pc' = "acks" /\ pc' \notin Waits /\ cur' = NoWorker /\ ~late'
      BY <1>1, <1>4 DEF IInv, TablesOK, Waits, StartWaits
    <2> QED
      BY <2>1, <2>2, <2>3 DEF TablesOK
  <1>10. NoAssertionFails' /\ ModesOK'
    BY <1>1, <1>4 DEF IInv, NoAssertionFails, ModesOK
  <1> QED
    BY <1>7, <1>8, <1>9, <1>10 DEF IInv

LEMMA AckShutdownKeeps ==
    ASSUME IInv, NEW w \in Workers, AckShutdown(w)
    PROVE  IInv'
  <1> DEFINE p == proc[w]
  <1>1. /\ pc = "acks" /\ w \in kids /\ Resp(w) \in {"SHUTDOWN", "CLEANDOWN"} /\ Take(w)
        /\ idle_kids' = idle_kids \cup {w}
        /\ UNCHANGED <<boot, cur, after, rem, late, kids, pending_kids, older, env>>
    BY DEF AckShutdown
  <1>2. /\ p.chan # <<>> /\ Head(p.chan) \in {"SHUTDOWN", "CLEANDOWN"} /\ p \in Processes
    BY <1>1 DEF Resp, IInv, TypeOK
  <1>3. w \notin pending_kids
    <2>1. ~Starting(p)
      BY <1>2 DEF Starting
    <2> QED
      BY <1>1, <2>1 DEF IInv, RolesOK
  <1>4. Idle(Taken(p))
    <2>1. ~Idle(p)
      BY <1>2 DEF Idle
    <2>2. Busy(p)
      BY <1>1, <1>3, <2>1 DEF IInv, RolesOK, Awaited, Waits, StartWaits
    <2>3. Head(p.chan) \in Reports
      BY <1>2 DEF Reports
    <2> QED
      BY <1>2, <2>2, <2>3, ReportIsIdle
  <1>5. /\ proc' \in [Workers -> Processes] /\ proc'[w] = Taken(p)
        /\ \A v \in Workers : v # w => proc'[v] = proc[v]
    BY <1>1, <1>2, TakeFrame
  <1>6. \/ ready' = ready \ {w} /\ UNCHANGED <<pc, mode, accept_on, rsock>>
        \/ mode' = "drain" /\ accept_on' = TRUE /\ pc' = "select" /\ ready' = {} /\ rsock' = FALSE
        \/ mode' = "down" /\ accept_on' = FALSE /\ pc' = "shut_idle" /\ ready' = {} /\ rsock' = FALSE
    BY DEF AckShutdown
  <1>7. RolesOK'
    <2>1. pc \notin Waits /\ pc' \notin Waits
      BY <1>1, <1>6 DEF Waits, StartWaits
    <2>2. pending_kids' = pending_kids \ {w}
      BY <1>1, <1>3
    <2> QED
      BY <1>1, <1>4, <1>5, <2>1, <2>2, RoleGiven
  <1>8. TypeOK'
    BY <1>1, <1>5, <1>6 DEF IInv, TypeOK, env, PCs
  <1>9. TablesOK'
    <2>1. (\A v \in ready \cap kids : CanRecv(v))'
      BY <1>1, <1>5, <1>6 DEF IInv, TypeOK, TablesOK, CanRecv
    <2>2. /\ idle_kids' \subseteq kids' /\ pending_kids' \subseteq kids'
          /\ idle_kids' \cap pending_kids' = {}
      BY <1>1, <1>3 DEF IInv, TablesOK
    <2>3. cur = NoWorker /\ ~late
      BY <1>1 DEF IInv, TablesOK, Waits, StartWaits
    <2>4. cur' = NoWorker /\ ~late' /\ pc' \in {"acks", "select", "shut_idle"}
      BY <1>1, <1>6, <2>3
    <2>5. pc' # "acks" => ready' = {}
      BY <1>1, <1>6
    <2>6. pc' \notin Waits /\ pc' # "exit_wait" /\ pc' # "insure"
      BY <2>4 DEF Waits, StartWaits
    <2>7. pc' \notin {"acks", "insure"} => ready' = {}
      BY <2>5
    <2> QED
      BY <2>1, <2>2, <2>4, <2>6, <2>7 DEF TablesOK
  <1>10. NoAssertionFails' /\ ModesOK'
    BY <1>1, <1>6 DEF IInv, NoAssertionFails, ModesOK
  <1> QED
    BY <1>7, <1>8, <1>9, <1>10 DEF IInv

(* What is left of a worker that was told to accept() once its answer has  *)
(* been read.                                                              *)
LEMMA AnswerRead ==
    ASSUME NEW p \in Processes, Told(p), p.chan # <<>>
    PROVE  /\ Head(p.chan) = "BUSY" => Busy(Taken(p))
           /\ Head(p.chan) = "SKIPPED" => Idle(Taken(p))
  <1>1. Head(p.chan) = "BUSY" => Busy(Taken(p))
    BY DEF Told
  <1>2. ASSUME Head(p.chan) = "SKIPPED" PROVE Idle(Taken(p))
    <2>1. /\ Taken(p).chan = Tail(p.chan) /\ Taken(p).st = p.st /\ Taken(p).cmd = p.cmd
      BY TakenTyped
    <2>2. /\ p.cmd = "none"
          /\ \/ p.st \in {"wait", "dead"} /\ p.chan = <<"SKIPPED">>
             \/ p.st \in {"exiting", "dead"} /\ p.chan = <<"SKIPPED", "DYING">>
      BY <1>2 DEF Told
    <2>3. /\ Tail(<<"SKIPPED">>) = <<>> /\ Tail(<<"SKIPPED", "DYING">>) = <<"DYING">>
      BY Names, ShortSeqs
    <2> QED
      BY <2>1, <2>2, <2>3 DEF Idle
  <1> QED
    BY <1>1, <1>2

LEMMA OfferAnsweredKeeps ==
    ASSUME IInv, OfferAnswered
    PROVE  IInv'
  <1> DEFINE p == proc[cur]
  <1>1. /\ pc = "accept_wait" /\ CanAnswer /\ pc' = "insure" /\ after' = "Processed"
        /\ cur' = NoWorker /\ ~late'
        /\ UNCHANGED <<mode, accept_on, boot, ready, rsock, rem, late, backlog, arrived, faults, slow>>
    BY DEF OfferAnswered, CanAnswer
  <1>2. /\ cur \in kids /\ cur \in Workers /\ cur \notin pending_kids /\ cur \notin idle_kids
        /\ ready = {} /\ Told(p) /\ p \in Processes /\ lost \in Nat
    BY <1>1, AwaitedIsKid DEF IInv, TypeOK, TablesOK, RolesOK, Waits, StartWaits
  <1>3. NoAssertionFails' /\ ModesOK' /\ pc' \notin Waits /\ pc' \in PCs
    BY <1>1 DEF IInv, NoAssertionFails, ModesOK, Waits, StartWaits, PCs
  <1>4. CASE /\ Resp(cur) \in {"BUSY", "SKIPPED"} /\ Take(cur)
             /\ idle_kids' = IF Resp(cur) = "BUSY" THEN idle_kids ELSE idle_kids \cup {cur}
             /\ UNCHANGED <<kids, pending_kids, older, lost>>
    <2>1. p.chan # <<>> /\ Head(p.chan) = Resp(cur)
      BY <1>4 DEF Resp
    <2>2. /\ proc' \in [Workers -> Processes] /\ proc'[cur] = Taken(p)
          /\ \A w \in Workers : w # cur => proc'[w] = proc[w]
      BY <1>2, <1>4, <2>1, TakeFrame
    <2>3. RolesOK'
      <3>1. pending_kids' = pending_kids \ {cur}
        BY <1>2, <1>4
      <3>2. /\ Resp(cur) = "BUSY" => Busy(proc'[cur])
            /\ Resp(cur) # "BUSY" => Idle(proc'[cur])
        BY <1>2, <1>4, <2>1, <2>2, AnswerRead
      <3> QED
        BY <1>2, <1>3, <1>4, <2>2, <3>1, <3>2, RoleGiven
    <2>4. TablesOK'
      BY <1>1, <1>2, <1>3, <1>4 DEF IInv, TablesOK
    <2>5. TypeOK'
      BY <1>1, <1>2, <1>3, <1>4, <2>2 DEF IInv, TypeOK
    <2> QED
      BY <1>3, <2>3, <2>4, <2>5 DEF IInv
  <1>5. CASE Shoot(cur)
    <2>1. Remains(DeadKids \cup {cur}) /\ lost' \in Nat
      BY <1>2, <1>5, ShootRemains
    <2>2. TablesOK' /\ RolesOK'
      BY <1>1, <1>2, <1>3, <2>1, AfterRemoval
    <2>3. TypeOK'
      BY <1>1, <1>3, <2>1 DEF IInv, TypeOK, Remains
    <2> QED
      BY <1>3, <2>2, <2>3 DEF IInv
  <1> QED
    BY <1>4, <1>5 DEF OfferAnswered, Answer, TakeBack, tables

LEMMA OfferTimedOutKeeps ==
    ASSUME IInv, OfferTimedOut
    PROVE  IInv'
  <1>1. /\ pc = "accept_wait" /\ Shoot(cur) /\ pc' = "offer" /\ cur' = NoWorker /\ late' = FALSE
        /\ UNCHANGED <<mode, accept_on, boot, ready, rsock, after, rem>>
        /\ UNCHANGED <<backlog, arrived, faults, slow>>
    BY DEF OfferTimedOut, ShootLate
  <1>2. cur \in kids /\ ready = {}
    BY <1>1, AwaitedIsKid DEF Waits
  <1>3. Remains(DeadKids \cup {cur}) /\ lost' \in Nat
    BY <1>1, <1>2, ShootRemains
  <1>4. TablesOK' /\ RolesOK'
    BY <1>1, <1>2, <1>3, AfterRemoval DEF Waits, StartWaits
  <1>5. TypeOK'
    BY <1>1, <1>3 DEF IInv, TypeOK, Remains, PCs
  <1>6. NoAssertionFails' /\ ModesOK'
    BY <1>1 DEF IInv, NoAssertionFails, ModesOK
  <1> QED
    BY <1>4, <1>5, <1>6 DEF IInv

(***************************************************************************)
(* The steps at which the master begins to wait for a worker.              *)
(***************************************************************************)
LEMMA NowAwaited ==
    ASSUME IInv, pc \notin Waits, pc' \in Waits, NEW c \in Workers, cur' = c,
           kids' = kids \cup {c}, pending_kids' = pending_kids \ {c},
           idle_kids' = IF pc' = "exit_wait" THEN idle_kids ELSE idle_kids \ {c},
           pc' = "exit_wait" => c \in idle_kids,
           \A w \in Workers : w # c => proc'[w] = proc[w],
           pc' \in StartWaits => Starting(proc'[c]),
           pc' = "accept_wait" => Told(proc'[c]),
           pc' = "exit_wait" => Leaving(proc'[c]),
           ready = {}, ready' = {}, late' = late
    PROVE  RolesOK' /\ TablesOK'
  <1>1. /\ kids \subseteq Workers /\ idle_kids \subseteq kids /\ pending_kids \subseteq kids
        /\ idle_kids \cap pending_kids = {} /\ c # NoWorker
    BY PoolAssumption DEF IInv, TypeOK, TablesOK
  <1>2. \A w : ~Awaited(w)
    BY DEF Awaited
  <1>3. \A w \in pending_kids' : Starting(proc'[w])
    BY <1>1 DEF IInv, RolesOK
  <1>4. \A w \in idle_kids' : w # c => Idle(proc'[w])
    BY <1>1, <1>2 DEF IInv, RolesOK
  <1>5. \A w \in kids' \ (pending_kids' \cup idle_kids') : w # c => Busy(proc'[w])
    BY <1>1, <1>2 DEF IInv, RolesOK
  <1>6. \A w \in Workers \ kids' : proc'[w].st \in {"free", "exiting"}
    BY DEF IInv, RolesOK
  <1>7. RolesOK'
    BY <1>3, <1>4, <1>5, <1>6 DEF RolesOK, Awaited
  <1>8. TablesOK'
    BY <1>1 DEF TablesOK, Waits, StartWaits
  <1> QED
    BY <1>7, <1>8

LEMMA OfferKeeps ==
    ASSUME IInv, Offer
    PROVE  IInv'
  <1>1. /\ pc = "offer" /\ ready = {} /\ ready' = {}
        /\ UNCHANGED <<mode, accept_on, boot, rsock, after, rem, late, backlog, arrived, faults, slow>>
    BY DEF Offer, IInv, TablesOK
  <1>2. PICK c \in idle_kids :
          \/ c \notin kids
          \/ c \in kids /\ Shoot(c) /\ UNCHANGED <<pc, cur>>
          \/ /\ c \in kids /\ proc[c].st # "dead"
             /\ idle_kids' = idle_kids \ {c}
             /\ proc' = [proc EXCEPT ![c] = [@ EXCEPT !.cmd = "ACCEPT"]]
             /\ cur' = c /\ pc' = "accept_wait"
             /\ UNCHANGED <<kids, pending_kids, older, lost>>
    BY DEF Offer, Oldest
  <1>3. /\ c \in kids /\ c \in Workers /\ c \notin pending_kids /\ Idle(proc[c])
        /\ proc[c] \in Processes /\ proc \in [Workers -> Processes] /\ cur = NoWorker /\ ~late
    BY <1>1 DEF IInv, TypeOK, TablesOK, RolesOK, Awaited, Waits, StartWaits
  <1>4. CASE Shoot(c) /\ UNCHANGED <<pc, cur>>
    <2>1. Remains(DeadKids \cup {c}) /\ lost' \in Nat
      BY <1>3, <1>4, ShootRemains
    <2>2. TablesOK' /\ RolesOK'
      BY <1>1, <1>3, <1>4, <2>1, AfterRemoval DEF Waits, StartWaits
    <2>3. TypeOK'
      BY <1>1, <1>4, <2>1 DEF IInv, TypeOK, Remains
    <2>4. NoAssertionFails' /\ ModesOK'
      BY <1>1, <1>4 DEF IInv, NoAssertionFails, ModesOK
    <2> QED
      BY <2>2, <2>3, <2>4 DEF IInv
  <1>5. CASE /\ proc[c].st # "dead" /\ idle_kids' = idle_kids \ {c}
             /\ proc' = [proc EXCEPT ![c] = [@ EXCEPT !.cmd = "ACCEPT"]]
             /\ cur' = c /\ pc' = "accept_wait"
             /\ UNCHANGED <<kids, pending_kids, older, lost>>
    <2> DEFINE q == [proc[c] EXCEPT !.cmd = "ACCEPT"]
    <2>1. /\ q \in Processes /\ q.cmd = "ACCEPT" /\ q.st = proc[c].st /\ q.chan = proc[c].chan
      BY <1>3 DEF Processes, Commands
    <2>2. /\ proc' \in [Workers -> Processes] /\ proc'[c] = q
          /\ \A w \in Workers : w # c => proc'[w] = proc[w]
      BY <1>3, <1>5, <2>1
    <2>3. Told(proc'[c])
      BY <1>3, <1>5, <2>1, <2>2 DEF Idle, Told
    <2>4. TablesOK' /\ RolesOK'
      <3>1. kids' = kids \cup {c} /\ pending_kids' = pending_kids \ {c}
        BY <1>3, <1>5
      <3> QED
        BY <1>1, <1>3, <1>5, <2>2, <2>3, <3>1, NowAwaited DEF Waits, StartWaits
    <2>5. TypeOK'
      BY <1>1, <1>3, <1>5, <2>2 DEF IInv, TypeOK, PCs
    <2>6. NoAssertionFails' /\ ModesOK'
      BY <1>1, <1>5 DEF IInv, NoAssertionFails, ModesOK
    <2> QED
      BY <2>4, <2>5, <2>6 DEF IInv
  <1> QED
    BY <1>2, <1>3, <1>4, <1>5

LEMMA ShutIdleKeeps ==
    ASSUME IInv, ShutIdle
    PROVE  IInv'
  <1>1. /\ pc = "shut_idle" /\ ready = {} /\ ready' = {}
        /\ UNCHANGED <<mode, accept_on, boot, rsock, after, rem, late, backlog, arrived, faults, slow>>
    BY DEF ShutIdle, IInv, TablesOK
  <1>2. PICK c \in idle_kids :
          \/ Shoot(c) /\ UNCHANGED <<pc, cur>>
          \/ /\ proc[c].st # "dead"
             /\ proc' = [proc EXCEPT ![c] = [@ EXCEPT !.cmd = "EXIT"]]
             /\ cur' = c /\ pc' = "exit_wait" /\ UNCHANGED <<tables, lost>>
    BY DEF ShutIdle
  <1>3. /\ c \in kids /\ c \in Workers /\ c \notin pending_kids /\ Idle(proc[c])
        /\ proc[c] \in Processes /\ proc \in [Workers -> Processes] /\ cur = NoWorker /\ ~late
    BY <1>1 DEF IInv, TypeOK, TablesOK, RolesOK, Awaited, Waits, StartWaits
  <1>4. CASE Shoot(c) /\ UNCHANGED <<pc, cur>>
    <2>1. Remains(DeadKids \cup {c}) /\ lost' \in Nat
      BY <1>3, <1>4, ShootRemains
    <2>2. TablesOK' /\ RolesOK'
      BY <1>1, <1>3, <1>4, <2>1, AfterRemoval DEF Waits, StartWaits
    <2>3. TypeOK'
      BY <1>1, <1>4, <2>1 DEF IInv, TypeOK, Remains
    <2>4. NoAssertionFails' /\ ModesOK'
      BY <1>1, <1>4 DEF IInv, NoAssertionFails, ModesOK
    <2> QED
      BY <2>2, <2>3, <2>4 DEF IInv
  <1>5. CASE /\ proc[c].st # "dead"
             /\ proc' = [proc EXCEPT ![c] = [@ EXCEPT !.cmd = "EXIT"]]
             /\ cur' = c /\ pc' = "exit_wait" /\ UNCHANGED <<tables, lost>>
    <2> DEFINE q == [proc[c] EXCEPT !.cmd = "EXIT"]
    <2>1. /\ q \in Processes /\ q.cmd = "EXIT" /\ q.st = proc[c].st /\ q.chan = proc[c].chan
      BY <1>3 DEF Processes, Commands
    <2>2. /\ proc' \in [Workers -> Processes] /\ proc'[c] = q
          /\ \A w \in Workers : w # c => proc'[w] = proc[w]
      BY <1>3, <1>5, <2>1
    <2>3. Leaving(proc'[c])
      BY <1>3, <1>5, <2>1, <2>2 DEF Idle, Leaving
    <2>4. TablesOK' /\ RolesOK'
      <3>1. /\ kids' = kids \cup {c} /\ pending_kids' = pending_kids \ {c}
            /\ idle_kids' = idle_kids
        BY <1>3, <1>5 DEF tables
      <3> QED
        BY <1>1, <1>3, <1>5, <2>2, <2>3, <3>1, NowAwaited DEF Waits, StartWaits
    <2>5. TypeOK'
      BY <1>1, <1>3, <1>5, <2>2 DEF IInv, TypeOK, PCs, tables
    <2>6. NoAssertionFails' /\ ModesOK'
      BY <1>1, <1>5 DEF IInv, NoAssertionFails, ModesOK
    <2> QED
      BY <2>4, <2>5, <2>6 DEF IInv
  <1> QED
    BY <1>2, <1>4, <1>5

LEMMA AwaitPendingKeeps ==
    ASSUME IInv, AwaitPending
    PROVE  IInv'
  <1>1. /\ pc = "dispatch" /\ pc' = "pending_wait" /\ idle_kids = {} /\ ready = {} /\ ready' = {}
        /\ UNCHANGED <<mode, accept_on, boot, rsock, after, rem, late, kids, idle_kids, older, proc, env>>
    BY DEF AwaitPending, IInv, TablesOK
  <1>2. PICK c \in pending_kids : pending_kids' = pending_kids \ {c} /\ cur' = c
    BY DEF AwaitPending, Oldest
  <1>3. c \in kids /\ c \in Workers /\ Starting(proc[c])
    BY DEF IInv, TypeOK, TablesOK, RolesOK
  <1>4. TablesOK' /\ RolesOK'
    <2>1. kids' = kids \cup {c} /\ idle_kids' = idle_kids \ {c}
      BY <1>1, <1>3
    <2> QED
      BY <1>1, <1>2, <1>3, <2>1, NowAwaited DEF Waits, StartWaits
  <1>5. TypeOK'
    BY <1>1, <1>2, <1>3 DEF IInv, TypeOK, PCs, env
  <1>6. NoAssertionFails' /\ ModesOK'
    BY <1>1 DEF IInv, NoAssertionFails, ModesOK
  <1> QED
    BY <1>4, <1>5, <1>6 DEF IInv

(***************************************************************************)
(* The steps that start a worker.                                          *)
(***************************************************************************)
LEMMA ForkFrame ==
    ASSUME IInv, pc \notin Waits, NEW w \in Workers, Fork(w)
    PROVE  /\ w \notin kids /\ w \notin ready /\ kids' = kids \cup {w}
           /\ older' \subseteq Workers \X Workers /\ idle_kids' = idle_kids
           /\ proc' \in [Workers -> Processes] /\ Starting(proc'[w])
           /\ \A v \in Workers : v # w => proc'[v] = proc[v]
  <1>1. /\ proc \in [Workers -> Processes] /\ kids \subseteq Workers
        /\ older \subseteq Workers \X Workers
    BY DEF IInv, TypeOK
  <1>2. proc[w].st = "free" /\ w \notin ready
    BY DEF Fork, FreeSlots
  <1>3. w \notin kids
    <2>1. w \in kids => Starting(proc[w]) \/ Idle(proc[w]) \/ Busy(proc[w])
      BY DEF IInv, RolesOK, Awaited
    <2>2. ~Starting(proc[w]) /\ ~Idle(proc[w]) /\ ~Busy(proc[w])
      BY <1>2 DEF Starting, Idle, Busy
    <2> QED
      BY <2>1, <2>2
  <1> DEFINE q == [NoProc EXCEPT !.st = "start"]
  <1>4. q.st = "start" /\ q.chan = <<>> /\ q.cmd = "none" /\ q.handled = 0
    BY DEF NoProc
  <1>5. q \in Processes
    BY NoProcTyped, Names DEF Processes
  <1>6. proc' = [proc EXCEPT ![w] = q]
    BY DEF Fork
  <1>7. /\ proc' \in [Workers -> Processes] /\ proc'[w] = q
        /\ \A v \in Workers : v # w => proc'[v] = proc[v]
    BY <1>1, <1>5, <1>6
  <1>8. Starting(q)
    BY <1>4 DEF Starting
  <1> QED
    BY <1>1, <1>2, <1>3, <1>7, <1>8 DEF Fork

LEMMA StartWorkerKeeps ==
    ASSUME IInv, BootStart \/ DispatchStart
    PROVE  IInv'
  <1>1. /\ pc \in {"boot", "dispatch"} /\ pc' \in {"boot_wait", "start_wait"}
        /\ pc = "boot" => pc' = "boot_wait" /\ boot > 0
        /\ pc = "dispatch" => pc' = "start_wait"
        /\ UNCHANGED <<mode, accept_on, pending_kids, boot, ready, rsock, after, rem, late, env>>
    BY DEF BootStart, DispatchStart, StartWorker
  <1>2. PICK w \in Workers : Fork(w) /\ cur' = w
    BY DEF BootStart, DispatchStart, StartWorker
  <1>3. /\ pc \notin Waits /\ pc' \in StartWaits /\ pc' \in Waits
        /\ ready = {} /\ ready' = {} /\ late' = late
    BY <1>1 DEF Waits, StartWaits, IInv, TablesOK
  <1>4. /\ w \notin kids /\ kids' = kids \cup {w}
        /\ older' \subseteq Workers \X Workers /\ idle_kids' = idle_kids
        /\ proc' \in [Workers -> Processes] /\ Starting(proc'[w])
        /\ \A v \in Workers : v # w => proc'[v] = proc[v]
    BY <1>2, <1>3, ForkFrame
  <1>5. pending_kids' = pending_kids \ {w} /\ idle_kids' = idle_kids \ {w}
    BY <1>1, <1>4 DEF IInv, TablesOK
  <1>6. pc' # "exit_wait" /\ pc' # "accept_wait"
    BY <1>1
  <1>7. TablesOK' /\ RolesOK'
    BY <1>2, <1>3, <1>4, <1>5, <1>6, NowAwaited
  <1>8. TypeOK'
    BY <1>1, <1>2, <1>4 DEF IInv, TypeOK, PCs, env
  <1>9. NoAssertionFails' /\ ModesOK'
    BY <1>1 DEF IInv, NoAssertionFails, ModesOK
  <1> QED
    BY <1>7, <1>8, <1>9 DEF IInv

LEMMA InsureForkKeeps ==
    ASSUME IInv, InsureFork
    PROVE  IInv'
  <1>1. PICK w \in Workers : Fork(w) /\ pending_kids' = pending_kids \cup {w}
    BY DEF InsureFork
  <1>2. /\ pc = "insure" /\ UNCHANGED <<pc, mode, accept_on, boot, ready, rsock, cur, after, rem, late>>
        /\ UNCHANGED env
    BY DEF InsureFork, master
  <1>3. pc \notin Waits
    BY <1>2 DEF Waits, StartWaits
  <1>4. /\ w \notin kids /\ w \notin ready /\ kids' = kids \cup {w}
        /\ older' \subseteq Workers \X Workers /\ idle_kids' = idle_kids
        /\ proc' \in [Workers -> Processes] /\ Starting(proc'[w])
        /\ \A v \in Workers : v # w => proc'[v] = proc[v]
    BY <1>1, <1>3, ForkFrame
  <1>5. /\ kids \subseteq Workers /\ idle_kids \subseteq kids /\ pending_kids \subseteq kids
        /\ idle_kids \cap pending_kids = {}
    BY DEF IInv, TypeOK, TablesOK
  <1>6. RolesOK'
    <2>1. \A v : ~Awaited(v)
      BY <1>3 DEF Awaited
    <2>2. \A v \in pending_kids' : Starting(proc'[v])
      BY <1>1, <1>4, <1>5 DEF IInv, RolesOK
    <2>3. \A v \in idle_kids' : Idle(proc'[v])
      BY <1>4, <1>5, <2>1 DEF IInv, RolesOK
    <2>4. \A v \in kids' \ (pending_kids' \cup idle_kids') : Busy(proc'[v])
      BY <1>1, <1>4, <1>5, <2>1 DEF IInv, RolesOK
    <2>5. \A v \in Workers \ kids' : proc'[v].st \in {"free", "exiting"}
      BY <1>4 DEF IInv, RolesOK
    <2> QED
      BY <1>2, <2>2, <2>3, <2>4, <2>5 DEF RolesOK, StartWaits
  <1>7. TablesOK'
    <2>1. (\A v \in ready \cap kids : CanRecv(v))'
      BY <1>2, <1>4, <1>5 DEF IInv, TablesOK, CanRecv
    <2> QED
      BY <1>1, <1>2, <1>3, <1>4, <1>5, <2>1 DEF IInv, TablesOK
  <1>8. TypeOK'
    BY <1>1, <1>2, <1>4 DEF IInv, TypeOK, env
  <1>9. NoAssertionFails' /\ ModesOK'
    BY <1>2 DEF IInv, NoAssertionFails, ModesOK
  <1> QED
    BY <1>6, <1>7, <1>8, <1>9 DEF IInv

-----------------------------------------------------------------------------
(***************************************************************************)
(* The invariant holds at first and every step keeps it.                   *)
(***************************************************************************)
LEMMA InitInvariant ==
    ASSUME Init
    PROVE  IInv
  <1>1. proc \in [Workers -> Processes] /\ \A w \in Workers : proc[w].st = "free"
    BY NoProcTyped DEF Init
  <1>2. TypeOK
    BY <1>1, PoolAssumption DEF Init, TypeOK, PCs
  <1>3. TablesOK
    BY DEF Init, TablesOK, Waits, StartWaits
  <1>4. RolesOK
    BY <1>1 DEF Init, RolesOK, StartWaits
  <1>5. NoAssertionFails /\ ModesOK
    BY DEF Init, NoAssertionFails, ModesOK
  <1> QED
    BY <1>2, <1>3, <1>4, <1>5 DEF IInv

LEMMA NextInvariant ==
    ASSUME IInv, [Next]_vars
    PROVE  IInv'
  <1>1. CASE Master
    <2>1. CASE \E w \in Workers : AckIdle(w) \/ AckDying(w) \/ AckShutdown(w) \/ AckBad(w)
      BY <2>1, AckIdleKeeps, AckDyingKeeps, AckShutdownKeeps, AckBadKeeps
    <2>2. CASE \/ BootDone \/ Select \/ SelectTimeout \/ (\E w \in Workers : AckGone(w))
               \/ AcksDone \/ DispatchReady \/ NoOffer \/ InsureDone \/ DownWait
      BY <2>2, QuietKeeps DEF QuietStep
    <2>3. CASE \/ BootStart \/ BootAcked \/ DispatchStart \/ InsureFork
      BY <2>3, StartWorkerKeeps, BootAckedKeeps, InsureForkKeeps
    <2>4. CASE \/ AwaitPending \/ PendingAcked \/ DispatchStarted
               \/ Offer \/ OfferAnswered \/ OfferTimedOut
      BY <2>4, AwaitPendingKeeps, OtherAckedKeeps, OfferKeeps, OfferAnsweredKeeps, OfferTimedOutKeeps
    <2>5. CASE \/ ServeLoop \/ ShutIdle \/ ExitAnswered \/ ShutIdleDone \/ DownDone
      BY <2>5, ServeLoopKeeps, ShutIdleKeeps, ExitAnsweredKeeps, ShutIdleDoneKeeps, DownDoneKeeps
    <2> QED
      BY <1>1, <2>1, <2>2, <2>3, <2>4, <2>5 DEF Master
  <1>2. CASE \E w \in Workers : Worker(w) \/ WorkerTimesOut(w) \/ WorkerDies(w)
    BY <1>2, WorkerStep
  <1>3. CASE Arrive \/ RespTimesOut \/ TimeRunsOut \/ Stopped
    BY <1>3, QuietKeeps DEF QuietStep
  <1>4. CASE UNCHANGED vars
    <2>1. UNCHANGED <<master, tables, proc, env>>
      BY <1>4 DEF vars
    <2>2. RolesOK'
      BY <2>1, QuietRoles DEF master
    <2>3. TypeOK' /\ NoAssertionFails' /\ TablesOK' /\ ModesOK'
      BY <2>1 DEF IInv, TypeOK, NoAssertionFails, TablesOK, ModesOK, CanRecv, master, tables, env
    <2> QED
      BY <2>2, <2>3 DEF IInv
  <1> QED
    BY <1>1, <1>2, <1>3, <1>4 DEF Next

(* The inductive invariant of the pool holds in every reachable state.     *)
THEOREM Invariance == Spec => []IInv
  <1>1. Init => IInv
    BY InitInvariant
  <1>2. IInv /\ [Next]_vars => IInv'
    BY NextInvariant
  <1> QED
    BY <1>1, <1>2, PTL DEF Spec

(* Every variable of the pool stays in its type.                           *)
THEOREM TypeCorrect == Spec => []TypeOK
  <1>1. IInv => TypeOK
    BY DEF IInv
  <1> QED
    BY <1>1, Invariance, PTL

(* The asserts of dispatch() and ack_kid() hold, whatever the workers and  *)
(* the clients do.                                                         *)
THEOREM AssertionsHold == Spec => []NoAssertionFails
  <1>1. IInv => NoAssertionFails
    BY DEF IInv
  <1> QED
    BY <1>1, Invariance, PTL

(* The master and its workers never get out of step.                       *)
THEOREM StaysInStep == Spec => []InStep
  <1>1. ASSUME IInv PROVE InStep
    <2>1. \A w \in idle_kids \ {cur} : Idle(proc[w])
      BY <1>1 DEF IInv, RolesOK, Awaited
    <2>2. ASSUME pc = "acks", NEW w \in ready \cap kids
          PROVE  Resp(w) \notin {"BUSY", "SKIPPED"}
      <3>1. Starting(proc[w]) \/ Idle(proc[w]) \/ Busy(proc[w])
        BY <1>1, <2>2 DEF IInv, RolesOK, Awaited, Waits, StartWaits
      <3>2. Head(<<"IDLE">>) = "IDLE" /\ Head(<<"DYING">>) = "DYING"
        OBVIOUS
      <3>3. \A m \in Reports : Head(<<m>>) = m /\ Head(<<m, "DYING">>) = m
        OBVIOUS
      <3>4. proc[w].chan # <<>> => Head(proc[w].chan) \in Reports \cup {"DYING"}
        BY <3>1, <3>2, <3>3 DEF Starting, Idle, Busy, Reports
      <3> QED
        BY <3>4 DEF Resp, Reports
    <2> QED
      BY <2>1, <2>2 DEF InStep, Idle
  <1> QED
    BY <1>1, Invariance, PTL

(* No worker process that could still accept() or serve is outside the     *)
(* master's tables.                                                        *)
THEOREM NoneStray == Spec => []NoStrayWorkers
  <1>1. IInv => NoStrayWorkers
    BY DEF IInv, RolesOK, NoStrayWorkers
  <1> QED
    BY <1>1, Invariance, PTL

-----------------------------------------------------------------------------
(***************************************************************************)
(* Who may be shot.                                                        *)
(***************************************************************************)
Spared(w) == w \in kids /\ proc[w].st = "proc"

LEMMA ShootSpares ==
    ASSUME NEW c, Shoot(c), NEW w, Spared(w), c # w
    PROVE  w \in kids'
  BY DEF Shoot, Forget, DeadKids, Spared

LEMMA ReapSpares ==
    ASSUME ReapKids, NEW w, Spared(w)
    PROVE  w \in kids'
  BY DEF ReapKids, Forget, DeadKids, Spared

(* A worker that is serving, and has said so, is in no other role. *)
LEMMA ServingRole ==
    ASSUME NEW p \in Processes, p.st = "proc"
    PROVE  /\ ~Starting(p) /\ ~Idle(p) /\ ~Leaving(p)
           /\ Busy(p) => p.chan = <<>>
           /\ Told(p) => p.chan # <<>> /\ Head(p.chan) = "BUSY"
  BY DEF Starting, Idle, Leaving, Busy, Told

LEMMA ServingSpared ==
    ASSUME IInv, Next, NEW w, Spared(w), w \notin kids'
    PROVE  (mode = "down" /\ ~rem) \/ (pc = "accept_wait" /\ late /\ w = cur)
  <1> DEFINE p == proc[w]
  <1>1. w \in Workers /\ p \in Processes /\ p.st = "proc" /\ w \in kids
    BY DEF IInv, TypeOK, Spared
  <1>2. ~Starting(p) /\ ~Idle(p) /\ ~Leaving(p)
    BY <1>1, ServingRole
  <1>3. kids # kids'
    BY <1>1
  <1>4. CASE \E c \in Workers : AckDying(c) \/ AckBad(c)
    <2>1. PICK c \in Workers : AckDying(c) \/ AckBad(c)
      BY <1>4
    <2>2. c = w
      BY <2>1, <1>1, ShootSpares DEF AckDying, AckBad, DropDying, Forget
    <2>3. pc = "acks" /\ w \in ready
      BY <2>1, <2>2 DEF AckDying, AckBad, Acking
    <2>4. Busy(p)
      BY <1>1, <1>2, <2>3 DEF IInv, RolesOK, Awaited, Waits, StartWaits
    <2>5. p.chan = <<>> /\ CanRecv(w)
      BY <1>1, <2>3, <2>4, ServingRole DEF IInv, TablesOK
    <2> QED
      BY <1>1, <2>5 DEF CanRecv
  <1>5. CASE BootAcked \/ PendingAcked \/ DispatchStarted
    <2>1. pc \in StartWaits /\ w # cur
      BY <1>2, <1>5 DEF BootAcked, PendingAcked, DispatchStarted, StartAcked, StartWaits,
                        IInv, RolesOK
    <2>2. Shoot(cur)
      BY <1>3, <1>5 DEF BootAcked, PendingAcked, DispatchStarted, StartAcked, ShootLate
    <2> QED
      BY <1>1, <2>1, <2>2, ShootSpares
  <1>6. CASE Offer
    <2>1. PICK c \in idle_kids : Shoot(c)
      BY <1>3, <1>6 DEF Offer, Oldest, tables
    <2>2. c # w
      BY <1>2, <1>6 DEF Offer, IInv, RolesOK, Awaited, Waits, StartWaits
    <2> QED
      BY <1>1, <2>1, <2>2, ShootSpares
  <1>7. CASE OfferAnswered
    <2>1. pc = "accept_wait" /\ Shoot(cur)
      BY <1>3, <1>7 DEF OfferAnswered, Answer, TakeBack, tables
    <2>2. cur = w
      BY <1>1, <2>1, ShootSpares
    <2>3. p.chan # <<>> /\ Head(p.chan) = "BUSY"
      BY <1>1, <2>1, <2>2, ServingRole DEF IInv, RolesOK
    <2>4. CanRecv(cur) /\ Resp(cur) = "BUSY"
      BY <2>2, <2>3 DEF CanRecv, Resp
    <2> QED
      BY <1>3, <1>7, <2>4 DEF OfferAnswered, Answer, tables
  <1>15. CASE OfferTimedOut
    <2>1. pc = "accept_wait" /\ late /\ Shoot(cur)
      BY <1>15 DEF OfferTimedOut, ShootLate
    <2> QED
      BY <1>1, <2>1, ShootSpares
  <1>8. CASE ShutIdle
    <2>1. PICK c \in idle_kids : Shoot(c)
      BY <1>3, <1>8 DEF ShutIdle, tables
    <2>2. c # w
      BY <1>2, <1>8 DEF ShutIdle, IInv, RolesOK, Awaited, Waits, StartWaits
    <2> QED
      BY <1>1, <2>1, <2>2, ShootSpares
  <1>9. CASE ExitAnswered
    <2>1. cur # w
      BY <1>2, <1>9 DEF ExitAnswered, IInv, RolesOK
    <2>2. DropDying(cur) \/ Shoot(cur)
      BY <1>9 DEF ExitAnswered, ShootLate
    <2> QED
      BY <1>1, <2>1, <2>2, ShootSpares DEF DropDying, Forget
  <1>10. CASE ServeLoop \/ ShutIdleDone
    BY <1>1, <1>10, ReapSpares DEF ServeLoop, ShutIdleDone
  <1>11. CASE DownDone
    BY <1>1, <1>11 DEF DownDone, IInv, ModesOK
  <1>12. CASE BootStart \/ DispatchStart \/ InsureFork
    BY <1>1, <1>12 DEF BootStart, DispatchStart, StartWorker, InsureFork, Fork
  <1>13. CASE \/ QuietStep \/ AwaitPending \/ \E c \in Workers : AckIdle(c) \/ AckShutdown(c)
    BY <1>3, <1>13 DEF QuietStep, BootDone, Select, SelectTimeout, AckGone, AcksDone, DispatchReady,
       NoOffer, InsureDone, DownWait, Arrive, RespTimesOut, TimeRunsOut, Stopped, AwaitPending, AckIdle,
       AckShutdown, tables, vars
  <1>14. CASE \E c \in Workers : Worker(c) \/ WorkerTimesOut(c) \/ WorkerDies(c)
    BY <1>3, <1>14 DEF Worker, WorkerUp, WorkerTimesOut, WorkerRecv, WorkerAccept, WorkerSkips,
       WorkerBusy, WorkerDone, WorkerExits, WorkerDies, tables
  <1> QED
    BY <1>4, <1>5, <1>6, <1>7, <1>8, <1>9, <1>10, <1>11, <1>12, <1>13, <1>14, <1>15
       DEF Next, Master, QuietStep

(* A worker that is serving a connection is shot only by shutdown() when   *)
(* the 15 seconds are over, or as the one the master waits on whose BUSY   *)
(* came after recv_resp() had timed out and before the kill: never once    *)
(* the master has read its BUSY.                                           *)
THEOREM BusyAreSpared == Spec => BusyNeverShot
  <1>1. ASSUME IInv, [Next]_vars
        PROVE  [\A w \in kids : (proc[w].st = "proc" /\ w \notin kids') =>
             (mode = "down" /\ ~rem) \/ (pc = "accept_wait" /\ late /\ w = cur)]_vars
    BY <1>1, ServingSpared DEF Spared
  <1> QED
    BY <1>1, Invariance, PTL DEF Spec, BusyNeverShot

-----------------------------------------------------------------------------
(***************************************************************************)
(* How many workers there are.                                             *)
(***************************************************************************)
Forks == BootStart \/ DispatchStart \/ InsureFork

LEMMA OnlyForksAdd ==
    ASSUME IInv, [Next]_vars, ~Forks
    PROVE  /\ kids' \subseteq kids
           /\ pc' # "boot_wait" \/ UNCHANGED <<pc, boot>>
           /\ pc' = "boot" => UNCHANGED <<pc, boot>> \/ BootAcked
  <1>1. CASE \/ ServeLoop \/ BootAcked \/ PendingAcked \/ DispatchStarted \/ Offer
             \/ OfferAnswered \/ OfferTimedOut \/ ShutIdle \/ ExitAnswered \/ ShutIdleDone \/ DownDone
             \/ \E c \in Workers : AckDying(c) \/ AckBad(c)
    <2>1. kids' \subseteq kids
      BY <1>1 DEF ServeLoop, ReapKids, BootAcked, PendingAcked, DispatchStarted, StartAcked, Offer,
         OfferAnswered, Answer, TakeBack, OfferTimedOut, ShutIdle, ExitAnswered, ShutIdleDone,
         ShootLate, DownDone, ShootAll, AckDying, AckBad, DropDying, Shoot, Forget, tables
    <2>2. /\ pc' # "boot_wait" \/ UNCHANGED <<pc, boot>>
          /\ pc' = "boot" => UNCHANGED <<pc, boot>> \/ BootAcked
      BY <1>1 DEF ServeLoop, BootAcked, PendingAcked, DispatchStarted, StartAcked, Offer,
         OfferAnswered, OfferTimedOut, ShutIdle, ExitAnswered, ShutIdleDone,
         DownDone, AckDying, AckBad, Acking
    <2> QED
      BY <2>1, <2>2
  <1>2. CASE \/ QuietStep \/ AwaitPending \/ \E c \in Workers : AckIdle(c) \/ AckShutdown(c)
    <2>1. UNCHANGED kids
      BY <1>2 DEF QuietStep, BootDone, Select, SelectTimeout, AckGone, AcksDone, DispatchReady,
         NoOffer, InsureDone, DownWait, Arrive, RespTimesOut, TimeRunsOut, Stopped, AwaitPending, AckIdle,
         AckShutdown, tables, vars
    <2>2. pc' \notin {"boot", "boot_wait"} \/ UNCHANGED <<pc, boot>>
      BY <1>2 DEF QuietStep, BootDone, Select, SelectTimeout, AckGone, Acking, AcksDone,
         DispatchReady, NoOffer, InsureDone, CycleReturns, DownWait, Arrive, RespTimesOut,
         TimeRunsOut, Stopped,
         AwaitPending, AckIdle, AckShutdown, master, vars
    <2> QED
      BY <2>1, <2>2
  <1>3. CASE \/ \E c \in Workers : Worker(c) \/ WorkerTimesOut(c) \/ WorkerDies(c)
             \/ UNCHANGED vars
    BY <1>3 DEF Worker, WorkerUp, WorkerTimesOut, WorkerRecv, WorkerAccept, WorkerSkips,
       WorkerBusy, WorkerDone, WorkerExits, WorkerDies, tables, master, vars
  <1> QED
    BY <1>1, <1>2, <1>3 DEF Next, Master, QuietStep, Forks

LEMMA CountNext ==
    ASSUME IInv, CountOK, [Next]_vars
    PROVE  CountOK'
  <1> USE PoolAssumption
  <1>1. TypeOK /\ IInv'
    BY NextInvariant DEF IInv
  <1>2. /\ IsFiniteSet(kids) /\ Cardinality(kids) \in Nat /\ boot \in Nat
        /\ Cardinality(kids') \in Nat
    <2>1. kids \subseteq Workers /\ kids' \subseteq Workers /\ boot \in Nat
      BY <1>1 DEF IInv, TypeOK
    <2> QED
      BY <2>1, FS_Subset, FS_CardinalityType
  <1>3. CASE ~Forks
    <2>1. Cardinality(kids') <= Cardinality(kids)
      BY <1>2, <1>3, OnlyForksAdd, FS_Subset
    <2>2. Cardinality(kids') <= Limit
      BY <1>2, <2>1 DEF CountOK, Limit
    <2>3. ASSUME pc' = "boot_wait" PROVE Cardinality(kids') + boot' <= wmin + 1
      <3>1. UNCHANGED <<pc, boot>>
        BY <1>3, <2>3, OnlyForksAdd
      <3> QED
        BY <1>2, <2>1, <2>3, <3>1 DEF CountOK
    <2>4. ASSUME pc' = "boot" PROVE Cardinality(kids') + boot' <= wmin
      <3>1. UNCHANGED <<pc, boot>> \/ BootAcked
        BY <1>3, <2>4, OnlyForksAdd
      <3>2. BootAcked => pc = "boot_wait" /\ boot' = boot - 1
        BY DEF BootAcked, StartAcked
      <3> QED
        BY <1>2, <2>1, <2>4, <3>1, <3>2 DEF CountOK
    <2> QED
      BY <2>2, <2>3, <2>4 DEF CountOK
  <1>4. CASE Forks
    <2>1. PICK w \in Workers : Fork(w)
      BY <1>4 DEF Forks, BootStart, DispatchStart, StartWorker, InsureFork
    <2>2. /\ pc \in {"boot", "dispatch", "insure"} /\ boot' = boot
          /\ pc = "boot" => BootStart
          /\ pc = "boot" => pc' = "boot_wait" /\ boot > 0
          /\ pc # "boot" => pc' \in {"start_wait", "insure"}
      BY <1>4 DEF Forks, BootStart, DispatchStart, StartWorker, InsureFork, master
    <2>3. w \notin kids /\ kids' = kids \cup {w}
      BY <2>1, <2>2, ForkFrame DEF Waits, StartWaits
    <2>4. Cardinality(kids') = Cardinality(kids) + 1
      BY <1>2, <2>3, FS_AddElement
    <2>5. CASE pc = "boot"
      BY <1>2, <2>2, <2>4, <2>5 DEF CountOK, Limit
    <2>6. CASE pc # "boot"
      <3>1. Cardinality(kids) < wmax \/ Cardinality(kids) < wmin
        BY <1>4, <2>2, <2>6 DEF Forks, BootStart, StartWorker, DispatchStart, InsureFork, NeedKid
      <3> QED
        BY <1>2, <2>2, <2>4, <2>6, <3>1 DEF CountOK, Limit
    <2> QED
      BY <2>5, <2>6
  <1> QED
    BY <1>3, <1>4

LEMMA Counted == Spec => []CountOK
  <1>1. Init => CountOK
    BY PoolAssumption, FS_EmptySet DEF Init, CountOK, Limit
  <1>2. IInv /\ CountOK /\ [Next]_vars => CountOK'
    BY CountNext
  <1> QED
    BY <1>1, <1>2, Invariance, PTL DEF Spec

(* There are never more than wmax workers, for any wmin <= wmax.           *)
THEOREM LimitHolds == Spec => []WorkerLimit
  <1>1. CountOK => WorkerLimit
    BY DEF CountOK, WorkerLimit, Limit
  <1> QED
    BY <1>1, Counted, PTL
-----------------------------------------------------------------------------
(***************************************************************************)
(* What is lost, and what the master listens to.                           *)
(***************************************************************************)
(* The workers that hold a connection. *)
Serving == {w \in Workers : Holding(w)}

LEMMA SameServing ==
    ASSUME \A w \in Workers : Holding(w)' <=> Holding(w)
    PROVE  Serving' = Serving
  BY DEF Serving

LEMMA TakeServing ==
    ASSUME IInv, NEW c \in Workers, Take(c)
    PROVE  Serving' = Serving
  <1>1. proc \in [Workers -> Processes] /\ proc' = [proc EXCEPT ![c] = Taken(proc[c])]
    BY DEF IInv, TypeOK, Take
  <1>2. Taken(proc[c]).st = proc[c].st
    BY <1>1 DEF Taken, Processes
  <1> QED
    BY <1>1, <1>2, SameServing DEF Holding

LEMMA ShootLoses ==
    ASSUME IInv, NEW c, Shoot(c)
    PROVE  /\ Serving' = Serving \ {c}
           /\ lost' \in {lost, lost + 1}
           /\ ~Holding(c) => lost' = lost
  <1>1. lost' = IF c \in kids /\ Holding(c) THEN lost + 1 ELSE lost
    BY DEF Shoot
  <1>2. proc' = [w \in Workers |-> IF w \in DeadKids \cup ({c} \cap kids) THEN NoProc ELSE proc[w]]
    BY DEF Shoot
  <1>3. \A w \in DeadKids : ~Holding(w)
    BY DEF DeadKids, Holding
  <1>4. c \in Workers \ kids => ~Holding(c)
    BY DEF IInv, RolesOK, Holding
  <1>5. ASSUME NEW w \in Workers
        PROVE  Holding(w)' <=> Holding(w) /\ w # c
    BY <1>2, <1>3, <1>4, NoProcTyped DEF Holding
  <1> QED
    BY <1>1, <1>5 DEF Serving

(* Wherever the master shoots a worker, except for its silence after an    *)
(* ACCEPT and at the end, it shoots one that holds no connection.          *)
Shots ==
    \/ BootAcked \/ PendingAcked \/ DispatchStarted \/ Offer \/ OfferAnswered
    \/ ShutIdle \/ ExitAnswered \/ \E c \in Workers : AckBad(c)

LEMMA ShotsSpare ==
    ASSUME IInv, Shots
    PROVE  /\ Serving' = Serving /\ lost' = lost /\ pc # "stopped"
           /\ UNCHANGED <<mode, backlog, faults, slow>> /\ late' \in {late, FALSE}
  <1>1. CASE \E c \in Workers : AckBad(c)
    <2>1. PICK c \in Workers : AckBad(c)
      BY <1>1
    <2>2. /\ pc = "acks" /\ c \in ready /\ c \in kids /\ Shoot(c)
          /\ UNCHANGED <<mode, backlog, faults, slow, late>>
      BY <2>1 DEF AckBad, Acking
    <2>3. Starting(proc[c]) \/ Idle(proc[c]) \/ Busy(proc[c])
      BY <2>2 DEF IInv, RolesOK, Awaited, Waits, StartWaits
    <2>4. CanRecv(c)
      BY <2>2 DEF IInv, TablesOK
    <2>5. ~Holding(c)
      BY <2>3, <2>4 DEF Holding, CanRecv, Starting, Idle, Busy
    <2> QED
      BY <2>2, <2>5, ShootLoses DEF Serving
  <1>2. CASE BootAcked \/ PendingAcked \/ DispatchStarted
    <2>1. /\ pc \in StartWaits /\ UNCHANGED <<mode, backlog, faults, slow>> /\ late' = FALSE
          /\ (Take(cur) /\ lost' = lost) \/ Shoot(cur)
      BY <1>2 DEF BootAcked, PendingAcked, DispatchStarted, StartAcked, StartWaits, ShootLate
    <2>2. ~Holding(cur) /\ cur \in Workers
      BY <2>1, AwaitedIsKid DEF IInv, RolesOK, Starting, Holding, Waits
    <2> QED
      BY <2>1, <2>2, ShootLoses, TakeServing DEF Serving, StartWaits
  <1>3. CASE Offer
    <2>1. pc = "offer" /\ UNCHANGED <<mode, backlog, faults, slow, late>>
      BY <1>3 DEF Offer
    <2>2. \/ UNCHANGED <<proc, lost>>
          \/ \E c \in idle_kids : proc[c].st = "dead" /\ Shoot(c)
          \/ \E c \in Workers : proc' = [proc EXCEPT ![c] = [@ EXCEPT !.cmd = "ACCEPT"]] /\ lost' = lost
      BY <1>3 DEF Offer, Oldest, IInv, TypeOK
    <2>3. CASE UNCHANGED <<proc, lost>>
      BY <2>1, <2>3 DEF Serving, Holding
    <2>4. CASE \E c \in idle_kids : proc[c].st = "dead" /\ Shoot(c)
      BY <2>1, <2>4, ShootLoses DEF Serving, Holding
    <2>5. CASE \E c \in Workers : proc' = [proc EXCEPT ![c] = [@ EXCEPT !.cmd = "ACCEPT"]] /\ lost' = lost
      BY <2>1, <2>5, SameServing DEF Holding, IInv, TypeOK, Processes
    <2> QED
      BY <2>2, <2>3, <2>4, <2>5
  <1>4. CASE OfferAnswered
    <2>1. /\ pc = "accept_wait" /\ CanRecv(cur) /\ Answer /\ cur \in Workers
          /\ UNCHANGED <<mode, backlog, faults, slow, late>>
      BY <1>4, AwaitedIsKid DEF OfferAnswered, CanAnswer, Waits
    <2>2. CASE Take(cur) /\ lost' = lost
      BY <2>1, <2>2, TakeServing
    <2>3. CASE Shoot(cur) /\ Resp(cur) \notin {"BUSY", "SKIPPED"}
      <3>1. Told(proc[cur])
        BY <2>1 DEF IInv, RolesOK
      <3>2. ~Holding(cur)
        BY <3>1, <2>1, <2>3 DEF Told, Busy, Holding, CanRecv, Resp
      <3> QED
        BY <2>1, <2>3, <3>2, ShootLoses DEF Serving
    <2> QED
      BY <2>1, <2>2, <2>3 DEF Answer, TakeBack
  <1>5. CASE ShutIdle
    <2>1. pc = "shut_idle" /\ UNCHANGED <<mode, backlog, faults, slow, late>>
      BY <1>5 DEF ShutIdle
    <2>2. \/ \E c \in idle_kids : proc[c].st = "dead" /\ Shoot(c)
          \/ \E c \in Workers : proc' = [proc EXCEPT ![c] = [@ EXCEPT !.cmd = "EXIT"]] /\ lost' = lost
      BY <1>5 DEF ShutIdle, IInv, TypeOK
    <2>3. CASE \E c \in idle_kids : proc[c].st = "dead" /\ Shoot(c)
      BY <2>1, <2>3, ShootLoses DEF Serving, Holding
    <2>4. CASE \E c \in Workers : proc' = [proc EXCEPT ![c] = [@ EXCEPT !.cmd = "EXIT"]] /\ lost' = lost
      BY <2>1, <2>4, SameServing DEF Holding, IInv, TypeOK, Processes
    <2> QED
      BY <2>2, <2>3, <2>4
  <1>6. CASE ExitAnswered
    <2>1. /\ pc = "exit_wait" /\ UNCHANGED <<mode, backlog, faults, slow>> /\ late' = FALSE
          /\ (DropDying(cur) /\ lost' = lost) \/ Shoot(cur)
      BY <1>6 DEF ExitAnswered, ShootLate
    <2>2. ~Holding(cur) /\ cur \in Workers
      BY <2>1, AwaitedIsKid DEF IInv, RolesOK, Leaving, Holding, Waits
    <2>3. CASE DropDying(cur) /\ lost' = lost
      BY <2>1, <2>2, <2>3, SameServing, NoProcTyped DEF DropDying, Holding, IInv, TypeOK, Processes
    <2> QED
      BY <2>1, <2>2, <2>3, ShootLoses DEF Serving
  <1> QED
    BY <1>1, <1>2, <1>3, <1>4, <1>5, <1>6 DEF Shots

(* What LossAccounted needs to be inductive: a timeout pays beforehand for *)
(* the connection that its shot may cost.                                  *)
LossDue == pc # "stopped" => lost <= faults + slow /\ (late => lost < faults + slow)

LEMMA LossNext ==
    ASSUME IInv, LossDue, [Next]_vars
    PROVE  LossDue'
  <1>1. lost \in Nat /\ faults \in Nat /\ slow \in Nat /\ late \in BOOLEAN
    BY DEF IInv, TypeOK
  <1>2. CASE Shots
    BY <1>1, <1>2, ShotsSpare DEF LossDue
  <1>3. CASE OfferTimedOut
    <2>1. pc = "accept_wait" /\ late /\ Shoot(cur) /\ faults' = faults /\ slow' = slow /\ ~late'
      BY <1>3 DEF OfferTimedOut, ShootLate
    <2> QED
      BY <1>1, <2>1, ShootLoses DEF LossDue
  <1>4. CASE \E c \in Workers : WorkerDies(c)
    <2>1. /\ faults' = faults + 1 /\ slow' = slow /\ pc' = pc /\ late' = late
          /\ lost' \in {lost, lost + 1}
      BY <1>4 DEF WorkerDies, master
    <2> QED
      BY <1>1, <2>1 DEF LossDue
  <1>5. CASE DownDone
    BY <1>5 DEF DownDone, LossDue
  <1>6. CASE \/ ServeLoop \/ ShutIdleDone \/ AwaitPending \/ BootStart \/ DispatchStart \/ InsureFork
             \/ \E c \in Workers : AckDying(c) \/ AckIdle(c) \/ AckShutdown(c)
    <2>1. UNCHANGED <<lost, faults, slow, late>> /\ pc # "stopped"
      BY <1>6 DEF ServeLoop, ShutIdleDone, AwaitPending, BootStart, DispatchStart, StartWorker,
         InsureFork, AckDying, AckIdle, AckShutdown, Acking, env, master
    <2> QED
      BY <2>1 DEF LossDue
  <1>9. CASE RespTimesOut
    BY <1>1, <1>9 DEF RespTimesOut, LossDue
  <1>7. CASE QuietStep /\ ~RespTimesOut
    <2>1. UNCHANGED <<lost, faults, slow, late>> /\ (pc = "stopped" => pc' = pc)
      BY <1>7 DEF QuietStep, BootDone, Select, SelectTimeout, AckGone, Acking, AcksDone,
         DispatchReady, NoOffer, InsureDone, DownWait, Arrive, TimeRunsOut, Stopped, master, env,
         vars
    <2> QED
      BY <2>1 DEF LossDue
  <1>8. CASE \/ \E c \in Workers : Worker(c) \/ WorkerTimesOut(c)
             \/ UNCHANGED vars
    <2>1. /\ lost' = lost /\ slow' = slow /\ pc' = pc /\ late' = late
          /\ faults' = faults \/ faults' = faults + 1
      BY <1>8 DEF Worker, WorkerUp, WorkerTimesOut, WorkerRecv, WorkerAccept, WorkerSkips,
         WorkerBusy, WorkerDone, WorkerExits, env, master, vars
    <2> QED
      BY <1>1, <2>1 DEF LossDue
  <1> QED
    BY <1>2, <1>3, <1>4, <1>5, <1>6, <1>7, <1>8, <1>9 DEF Next, Master, QuietStep, Shots

(* A connection that was accept()ed is lost only to a worker that died, or *)
(* one shot for its silence; a bad answer never costs one.                 *)
THEOREM LossesHaveCauses == Spec => []LossAccounted
  <1>1. Init => LossDue
    BY DEF Init, LossDue
  <1>2. IInv /\ LossDue /\ [Next]_vars => LossDue'
    BY LossNext
  <1>3. IInv /\ LossDue => LossAccounted
    BY DEF LossDue, LossAccounted, IInv, TypeOK
  <1> QED
    BY <1>1, <1>2, <1>3, Invariance, PTL DEF Spec

(* While the master is at its select() only it could change what it        *)
(* listens to.                                                             *)
LEMMA BlindNext ==
    ASSUME IInv, NeverBlind, [Next]_vars
    PROVE  NeverBlind'
  <1> SUFFICES ASSUME wmin + min_idle > 0, pc' = "select", kids' = {} PROVE accept_on'
    BY DEF NeverBlind, NoSockets
  <1> USE PoolAssumption
  <1>0. Cardinality({}) = 0
    BY FS_EmptySet
  <1>1. CASE UNCHANGED <<pc, kids, accept_on>>
    BY <1>1 DEF NeverBlind, NoSockets
  <1>2. CASE ServeLoop
    <2>1. accept_on' = (accept_on \/ HasCapacity')
      BY <1>2 DEF ServeLoop
    <2>2. Cardinality(kids') < wmax
      BY <1>0
    <2>3. HasCapacity'
      BY <2>2 DEF HasCapacity
    <2> QED
      BY <2>1, <2>3
  <1>3. CASE SelectTimeout \/ \E c \in Workers : AckShutdown(c)
    BY <1>3 DEF SelectTimeout, AckShutdown
  <1>4. CASE AcksDone
    BY <1>4 DEF AcksDone, CycleReturns
  <1>5. CASE InsureDone
    <2>1. kids = {} /\ ~NeedKid
      BY <1>5 DEF InsureDone, tables
    <2>2. NeedKid \/ ~Running
      <3>1. idle_kids = {} /\ pending_kids = {}
        BY <2>1 DEF IInv, TablesOK
      <3> QED
        BY <1>0, <2>1, <3>1 DEF NeedKid
    <2>3. mode = "down"
      BY <2>1, <2>2 DEF Running
    <2> QED
      BY <1>5, <2>3 DEF InsureDone, CycleReturns
  <1>6. CASE DownWait
    BY <1>6 DEF DownWait, tables
  <1>7. CASE \/ BootStart \/ BootAcked \/ BootDone \/ Select \/ AwaitPending \/ PendingAcked
             \/ DispatchStart \/ DispatchStarted \/ DispatchReady \/ Offer \/ OfferAnswered
             \/ OfferTimedOut \/ NoOffer \/ InsureFork \/ ShutIdle \/ ExitAnswered \/ ShutIdleDone
             \/ DownDone \/ \E c \in Workers : AckGone(c) \/ AckIdle(c) \/ AckDying(c) \/ AckBad(c)
    BY <1>7 DEF BootStart, BootAcked, BootDone, Select, AwaitPending, PendingAcked, DispatchStart,
       DispatchStarted, StartWorker, StartAcked, DispatchReady, Offer, OfferAnswered, OfferTimedOut,
       NoOffer, InsureFork, ShutIdle, ExitAnswered, ShutIdleDone, DownDone, AckGone, AckIdle,
       AckDying, AckBad, Acking, master
  <1>8. CASE \/ \E c \in Workers : Worker(c) \/ WorkerTimesOut(c) \/ WorkerDies(c)
             \/ Arrive \/ RespTimesOut \/ TimeRunsOut \/ Stopped \/ UNCHANGED vars
    <2>1. UNCHANGED <<pc, kids, accept_on>>
      BY <1>8 DEF Worker, WorkerUp, WorkerTimesOut, WorkerRecv, WorkerAccept, WorkerSkips,
         WorkerBusy, WorkerDone, WorkerExits, WorkerDies, Arrive, RespTimesOut, TimeRunsOut, Stopped,
         tables, master, vars
    <2> QED
      BY <1>1, <2>1
  <1> QED
    BY <1>2, <1>3, <1>4, <1>5, <1>6, <1>7, <1>8 DEF Next, Master

(* A pool that keeps a minimum of workers always has something to wait     *)
(* for: a stalled server socket is never all that is left.                 *)
THEOREM AlwaysListens == Spec => []NeverBlind
  <1>1. Init => NeverBlind
    BY DEF Init, NeverBlind
  <1>2. IInv /\ NeverBlind /\ [Next]_vars => NeverBlind'
    BY BlindNext
  <1> QED
    BY <1>1, <1>2, Invariance, PTL DEF Spec
(* shutdown_accept() leaves its loop with an empty queue only, in a pool   *)
(* that keeps a minimum of workers.  One that keeps none may find itself   *)
(* with nothing to select() on, when the only worker it starts is shot.    *)
THEOREM DrainsWhole ==
    ASSUME wmin + min_idle > 0
    PROVE  Spec => DrainComplete
  <1>1. ASSUME IInv, NeverBlind, Next, mode = "drain", mode' = "down"
        PROVE  backlog = 0
    <2>1. SelectTimeout
      <3>1. CASE Master
        BY <1>1, <3>1 DEF Master, BootStart, BootAcked, BootDone, ServeLoop, Select, AckGone, AckIdle,
           AckDying, AckShutdown, Downing, AckBad, AcksDone, AwaitPending, PendingAcked, DispatchStart,
           DispatchStarted, StartWorker, StartAcked, DispatchReady, Offer, OfferAnswered,
           OfferTimedOut, NoOffer, InsureFork, InsureDone, ShutIdle, ExitAnswered, ShutIdleDone,
           DownWait, DownDone, master
      <3>2. CASE \/ \E c \in Workers : Worker(c) \/ WorkerTimesOut(c) \/ WorkerDies(c)
                 \/ Arrive \/ RespTimesOut \/ TimeRunsOut \/ Stopped
        BY <1>1, <3>2 DEF Worker, WorkerUp, WorkerTimesOut, WorkerRecv, WorkerAccept, WorkerSkips,
           WorkerBusy, WorkerDone, WorkerExits, WorkerDies, Arrive, RespTimesOut, TimeRunsOut,
           Stopped, master, vars
      <3> QED
        BY <1>1, <3>1, <3>2 DEF Next
    <2>2. ~NoSockets
      BY <1>1, <2>1 DEF SelectTimeout, NeverBlind
    <2>3. ~SockReady /\ accept_on
      BY <1>1, <2>1, <2>2 DEF SelectTimeout, MayTimeOut
    <2> QED
      BY <1>1, <2>3 DEF SockReady, IInv, TypeOK
  <1>2. IInv /\ NeverBlind /\ [Next]_vars => [(mode = "drain" /\ mode' = "down") => backlog = 0]_vars
    BY <1>1
  <1> QED
    BY <1>2, Invariance, AlwaysListens, PTL DEF Spec, DrainComplete
----------------------------------------------------------------------------
-----------------------------------------------------------------------------
(***************************************************************************)
(* That the pool of Prefork implements PoolService, for any parameters:    *)
(* each step of the master and of its workers takes one connection, ends   *)
(* one, refuses one, closes the pool, gives up, or changes nothing that    *)
(* can be seen from outside.  What makes it so is in the invariant: who    *)
(* holds a connection is in kids, of which there are at most Limit, and    *)
(* an accept() is only ever made while the master awaits its outcome,      *)
(* hence never in shutdown().                                              *)
(***************************************************************************)

Same == UNCHANGED <<backlog, Serving, mode>>

LEMMA ServiceState ==
    /\ Service!vars = <<backlog, Serving, Running>>
    /\ Service!vars' = <<backlog, Serving, Running>>'
  BY DEF Service!vars, Serving

LEMMA SameStutters ==
    ASSUME Same
    PROVE  UNCHANGED Service!vars
  BY ServiceState DEF Same, Running

(* Nobody serves who is not in the tables, so there is room for one who    *)
(* does not serve yet.                                                     *)
LEMMA RoomToServe ==
    ASSUME IInv, CountOK, NEW w \in Workers, proc[w].st = "acc"
    PROVE  Cardinality(Serving) < Limit /\ mode # "down"
  <1>1. w \in kids /\ Serving \subseteq kids /\ w \notin Serving
    BY DEF IInv, RolesOK, Serving, Holding
  <1>2. IsFiniteSet(kids) /\ kids \subseteq Workers
    BY PoolAssumption, FS_Subset DEF IInv, TypeOK
  <1>3. /\ IsFiniteSet(Serving) /\ Cardinality(Serving) \in Nat /\ Cardinality(kids) \in Nat
        /\ Cardinality(Serving \cup {w}) = Cardinality(Serving) + 1
        /\ Cardinality(Serving \cup {w}) <= Cardinality(kids)
    <2>1. IsFiniteSet(Serving) /\ Cardinality(Serving) \in Nat /\ Cardinality(kids) \in Nat
      BY <1>1, <1>2, FS_Subset, FS_CardinalityType
    <2>2. Cardinality(Serving \cup {w}) = Cardinality(Serving) + 1
      BY <1>1, <2>1, FS_AddElement
    <2>3. Serving \cup {w} \subseteq kids
      BY <1>1
    <2> QED
      BY <1>2, <2>1, <2>2, <2>3, FS_Subset
  <1>4. Cardinality(kids) <= Limit /\ Limit \in Nat
    BY PoolAssumption DEF CountOK, Limit
  <1>5. mode # "down"
    <2>1. ~Starting(proc[w]) /\ ~Idle(proc[w]) /\ ~Busy(proc[w]) /\ ~Leaving(proc[w])
      BY DEF Starting, Idle, Busy, Leaving
    <2>2. pc \in Waits /\ w = cur
      BY <1>1, <2>1 DEF IInv, RolesOK, Awaited
    <2>3. pc = "accept_wait"
      BY <2>1, <2>2 DEF IInv, RolesOK, Waits
    <2> QED
      BY <2>3 DEF IInv, ModesOK
  <1> QED
    BY <1>3, <1>4, <1>5

(* What a worker does.                                                     *)
LEMMA WorkerServes ==
    ASSUME IInv, CountOK, NEW w \in Workers, Worker(w) \/ WorkerTimesOut(w) \/ WorkerDies(w)
    PROVE  [Service!Next]_(Service!vars)
  <1>1. proc \in [Workers -> Processes] /\ mode' = mode
    BY DEF IInv, TypeOK, Worker, WorkerUp, WorkerTimesOut, WorkerRecv, WorkerAccept, WorkerSkips,
       WorkerBusy, WorkerDone, WorkerExits, WorkerDies, master
  <1>2. CASE WorkerAccept(w)
    <2>1. /\ proc[w].st = "acc" /\ backlog > 0 /\ backlog' = backlog - 1
          /\ proc' = [proc EXCEPT ![w] = [@ EXCEPT !.st = "got"]]
      BY <1>2 DEF WorkerAccept
    <2>2. Cardinality(Serving) < Limit /\ mode # "down"
      BY <2>1, RoomToServe
    <2>3. w \notin Serving /\ Serving' = Serving \cup {w}
      BY <1>1, <2>1 DEF Serving, Holding, Processes
    <2>4. Service!TakeOne(w)
      <3>1. Running /\ Running' = Running
        BY <1>1, <2>2 DEF Running
      <3>2. /\ w \notin {v \in Workers : Holding(v)}
            /\ Cardinality({v \in Workers : Holding(v)}) < Limit
            /\ {v \in Workers : Holding(v)}' = {v \in Workers : Holding(v)} \cup {w}
        BY <2>2, <2>3 DEF Serving
      \* The instance brings its own copy of FiniteSets.
      <3>3. \A S : Service!Cardinality(S) = Cardinality(S)
        BY DEF Service!Cardinality, Cardinality
      <3> QED
        BY <2>1, <3>1, <3>2, <3>3 DEF Service!TakeOne
    <2> QED
      BY <2>4 DEF Service!Next
  <1>3. CASE \/ WorkerUp(w) \/ WorkerRecv(w) \/ WorkerSkips(w) \/ WorkerBusy(w) \/ WorkerExits(w)
             \/ WorkerTimesOut(w)
    <2>1. backlog' = backlog
      BY <1>3 DEF WorkerUp, WorkerTimesOut, WorkerRecv, WorkerSkips, WorkerBusy, WorkerExits, env
    <2>2. /\ proc'[w].st \in {"got", "proc"} <=> Holding(w)
          /\ \A v \in Workers \ {w} : proc'[v] = proc[v]
      <3>1. CASE WorkerRecv(w)
        <4>1. proc' = [proc EXCEPT ![w] = Received(proc[w])] /\ proc[w].st = "wait"
          BY <3>1 DEF WorkerRecv
        <4>2. Received(proc[w]).st \in {"acc", "exiting"}
          BY <1>1 DEF Received, Sent, Processes
        <4> QED
          BY <1>1, <4>1, <4>2 DEF Holding
      <3>2. CASE WorkerExits(w)
        <4>1. proc' = [proc EXCEPT ![w] = Gone(w)] /\ proc[w].st = "exiting"
          BY <3>2 DEF WorkerExits
        <4>2. Gone(w).st \in {"dead", "free"}
          BY DEF Gone, Corpse, NoProc
        <4> QED
          BY <1>1, <4>1, <4>2 DEF Holding
      <3>3. CASE WorkerUp(w) \/ WorkerSkips(w) \/ WorkerBusy(w) \/ WorkerTimesOut(w)
        <4>1. PICK m \in Messages, next \in {"wait", "exiting", "proc"} :
                 /\ proc' = [proc EXCEPT ![w] = Sent(proc[w], m, next)]
                 /\ next = "proc" <=> Holding(w)
          BY <3>3 DEF WorkerUp, WorkerSkips, WorkerBusy, WorkerTimesOut, Send, Messages, Holding
        <4>2. Sent(proc[w], m, next).st = next
          BY <1>1 DEF Sent, Processes
        <4> QED
          BY <1>1, <4>1, <4>2
      <3> QED
        BY <1>3, <3>1, <3>2, <3>3
    <2>3. Serving' = Serving
      BY <1>1, <2>2, SameServing DEF Holding
    <2> QED
      BY <1>1, <2>1, <2>3, SameStutters DEF Same
  <1>4. CASE WorkerDone(w) \/ WorkerDies(w)
    <2>1. backlog' = backlog
      BY <1>4 DEF WorkerDone, WorkerDies, env
    <2>2. /\ proc'[w].st \notin {"got", "proc"}
          /\ \A v \in Workers \ {w} : proc'[v] = proc[v]
      <3>1. CASE WorkerDone(w)
        <4>1. PICK s \in StopKinds \cup {proc[w].stop} : proc' = [proc EXCEPT ![w] = Served(proc[w], s)]
          BY <3>1 DEF WorkerDone
        <4>2. Served(proc[w], s).st \in {"wait", "exiting"}
          BY <1>1 DEF Served, Sent, Processes
        <4> QED
          BY <1>1, <4>1, <4>2
      <3>2. CASE WorkerDies(w)
        <4>1. proc' = [proc EXCEPT ![w] = Gone(w)]
          BY <3>2 DEF WorkerDies
        <4>2. Gone(w).st \in {"dead", "free"}
          BY DEF Gone, Corpse, NoProc
        <4> QED
          BY <1>1, <4>1, <4>2
      <3> QED
        BY <1>4, <3>1, <3>2
    <2>3. Serving' = Serving \ {w}
      BY <1>1, <2>2 DEF Serving, Holding
    <2>4. CASE w \in Serving
      BY <1>1, <2>1, <2>3, <2>4 DEF Service!Next, Service!Finish, Serving, Running
    <2>5. CASE w \notin Serving
      BY <1>1, <2>1, <2>3, <2>5, SameStutters DEF Same
    <2> QED
      BY <2>4, <2>5
  <1> QED
    BY <1>2, <1>3, <1>4 DEF Worker

(* Steps of the master that nobody outside sees.                           *)
LEMMA Unseen ==
    ASSUME IInv,
           \/ Shots \/ BootStart \/ BootDone \/ ServeLoop \/ Select \/ AcksDone \/ AwaitPending
           \/ DispatchStart \/ DispatchReady \/ NoOffer \/ InsureFork \/ ShutIdleDone \/ DownWait
           \/ \E c \in Workers : AckGone(c) \/ AckIdle(c) \/ AckDying(c)
    PROVE  Same
  <1>0. proc \in [Workers -> Processes]
    BY DEF IInv, TypeOK
  <1>1. CASE Shots
    BY <1>1, ShotsSpare DEF Same
  <1>2. CASE \/ BootDone \/ Select \/ AcksDone \/ AwaitPending \/ DispatchReady \/ NoOffer \/ DownWait
             \/ \E c \in Workers : AckGone(c)
    BY <1>2 DEF BootDone, Select, AcksDone, AwaitPending, DispatchReady, NoOffer, DownWait, AckGone,
       env, Same, Serving, Holding
  <1>3. CASE BootStart \/ DispatchStart \/ InsureFork
    <2>1. UNCHANGED <<backlog, mode>>
      BY <1>3 DEF BootStart, DispatchStart, StartWorker, InsureFork, env, master
    <2>2. PICK w \in Workers : Fork(w)
      BY <1>3 DEF BootStart, DispatchStart, StartWorker, InsureFork
    <2>3. proc[w].st = "free" /\ proc' = [proc EXCEPT ![w] = [NoProc EXCEPT !.st = "start"]]
      BY <2>2 DEF Fork, FreeSlots
    <2>4. Serving' = Serving
      BY <1>0, <2>3, SameServing DEF Holding, NoProc
    <2> QED
      BY <2>1, <2>4 DEF Same
  <1>4. CASE ServeLoop \/ ShutIdleDone
    <2>1. UNCHANGED <<backlog, mode>> /\ ReapKids
      BY <1>4 DEF ServeLoop, ShutIdleDone, env
    <2>2. Serving' = Serving
      BY <1>0, <2>1, SameServing, NoProcTyped DEF Holding, ReapKids, DeadKids
    <2> QED
      BY <2>1, <2>2 DEF Same
  <1>5. CASE \E c \in Workers : AckIdle(c)
    BY <1>5, TakeServing DEF AckIdle, env, Same
  <1>6. CASE \E c \in Workers : AckDying(c)
    <2>1. PICK c \in Workers : AckDying(c)
      BY <1>6
    <2>2. /\ UNCHANGED <<backlog, mode>> /\ DropDying(c) /\ pc = "acks" /\ c \in kids
          /\ Resp(c) = "DYING"
      BY <2>1 DEF AckDying, Acking, env
    <2>3. ~Holding(c)
      <3>1. Starting(proc[c]) \/ Idle(proc[c]) \/ Busy(proc[c])
        BY <2>2 DEF IInv, RolesOK, Awaited, Waits, StartWaits
      <3>2. proc[c].chan # <<>> /\ Head(proc[c].chan) = "DYING"
        BY <2>2 DEF Resp
      <3> QED
        BY <1>0, <3>1, <3>2, DyingIsLeaving DEF Holding
    <2>4. Serving' = Serving
      BY <1>0, <2>2, <2>3, SameServing, NoProcTyped DEF DropDying, Holding, Processes
    <2> QED
      BY <2>2, <2>4 DEF Same
  <1> QED
    BY <1>1, <1>2, <1>3, <1>4, <1>5, <1>6

(* And those that somebody does.                                           *)
LEMMA Seen ==
    ASSUME IInv,
           \/ SelectTimeout \/ OfferTimedOut \/ InsureDone \/ DownDone
           \/ \E c \in Workers : AckShutdown(c)
    PROVE  [Service!Next]_(Service!vars)
  <1>0. backlog \in Nat /\ mode \in {"serve", "drain", "down"}
    BY DEF IInv, TypeOK
  <1>1. CASE SelectTimeout \/ \E c \in Workers : AckShutdown(c)
    <2>1. Serving' = Serving /\ backlog' = backlog
      <3>1. CASE SelectTimeout
        BY <3>1 DEF SelectTimeout, env, Serving, Holding
      <3>2. CASE \E c \in Workers : AckShutdown(c)
        BY <3>2, TakeServing DEF AckShutdown, env
      <3> QED
        BY <1>1, <3>1, <3>2
    <2>2. mode = "down" => mode' = "down"
      BY <1>1 DEF SelectTimeout, AckShutdown, Downing
    <2>3. CASE mode # "down" /\ mode' = "down"
      BY <2>1, <2>3 DEF Service!Next, Service!Close, Serving, Running
    <2>4. CASE ~(mode # "down" /\ mode' = "down")
      BY <2>1, <2>2, <2>4, ServiceState DEF Running
    <2> QED
      BY <2>3, <2>4
  <1>2. CASE OfferTimedOut
    <2>1. Shoot(cur) /\ UNCHANGED <<backlog, mode>> /\ pc = "accept_wait"
      BY <1>2 DEF OfferTimedOut, ShootLate
    <2>2. Serving' = Serving \ {cur} /\ cur \in Workers
      BY <2>1, ShootLoses, AwaitedIsKid DEF Waits
    <2>3. CASE cur \in Serving
      BY <2>1, <2>2, <2>3 DEF Service!Next, Service!Finish, Serving, Running
    <2>4. CASE cur \notin Serving
      BY <2>1, <2>2, <2>4, SameStutters DEF Same
    <2> QED
      BY <2>3, <2>4
  <1>3. CASE InsureDone
    <2>1. UNCHANGED <<proc, mode>> /\ pc = "insure"
      BY <1>3 DEF InsureDone
    <2>2. Serving' = Serving
      BY <2>1 DEF Serving, Holding
    <2>3. CASE backlog' = backlog
      BY <2>1, <2>2, <2>3, SameStutters DEF Same
    <2>4. CASE backlog' # backlog
      <3>1. after = "Overload" /\ ~ovstall /\ backlog > 0 /\ backlog' = backlog - 1
        BY <1>0, <1>3, <2>4 DEF InsureDone
      <3>2. mode # "down"
        BY <2>1, <3>1 DEF IInv, ModesOK
      <3> QED
        BY <2>1, <2>2, <3>1, <3>2 DEF Service!Next, Service!Refuse, Serving, Running
    <2> QED
      BY <2>3, <2>4
  <1>4. CASE DownDone
    <2>1. /\ ShootAll /\ pc = "down_loop" /\ UNCHANGED <<backlog, mode>>
      BY <1>4 DEF DownDone
    <2>2. mode = "down"
      BY <2>1 DEF IInv, ModesOK
    <2>3. \A w \in Workers \ kids : ~Holding(w)
      BY DEF IInv, RolesOK, Holding
    <2>4. Serving' = {}
      BY <2>1, <2>3, NoProcTyped DEF ShootAll, Serving, Holding
    <2> QED
      BY <2>1, <2>2, <2>4 DEF Service!Next, Service!GiveUp, Serving, Running
  <1> QED
    BY <1>1, <1>2, <1>3, <1>4

LEMMA StepImplements ==
    ASSUME IInv, CountOK, [Next]_vars
    PROVE  [Service!Next]_(Service!vars)
  <1>1. CASE Master
    <2>1. CASE \/ SelectTimeout \/ OfferTimedOut \/ InsureDone \/ DownDone
               \/ \E c \in Workers : AckShutdown(c)
      BY <2>1, Seen
    <2>2. CASE ~ \/ SelectTimeout \/ OfferTimedOut \/ InsureDone \/ DownDone
                 \/ \E c \in Workers : AckShutdown(c)
      BY <1>1, <2>2, Unseen, SameStutters DEF Master, Shots
    <2> QED
      BY <2>1, <2>2
  <1>2. CASE \E w \in Workers : Worker(w) \/ WorkerTimesOut(w) \/ WorkerDies(w)
    BY <1>2, WorkerServes
  <1>3. CASE Arrive
    BY <1>3 DEF Arrive, master, Service!Next, Service!Arrive, Holding, Running
  <1>4. CASE RespTimesOut \/ TimeRunsOut \/ Stopped \/ UNCHANGED vars
    <2>1. Same
      BY <1>4 DEF RespTimesOut, TimeRunsOut, Stopped, vars, master, env, Same, Serving, Holding
    <2> QED
      BY <2>1, SameStutters
  <1> QED
    BY <1>1, <1>2, <1>3, <1>4 DEF Next

(* Seen from outside, the pool does what PoolService says: no more than    *)
(* its limit at once, none taken after closing, none refused by a pool     *)
(* that stalls, and one connection for each accept().                      *)
THEOREM PoolImplementsService == Spec => ImplementsService
  <1>1. Init => Service!Init
    BY DEF Init, Service!Init, Holding, NoProc, Running
  <1>2. IInv /\ CountOK /\ [Next]_vars => [Service!Next]_(Service!vars)
    BY StepImplements
  <1> QED
    BY <1>1, <1>2, Invariance, Counted, PTL DEF Spec, ImplementsService, Service!Spec
=============================================================================
