---------------------------- MODULE PairingProofs ----------------------------
(***************************************************************************)
(* Proofs about scans and pairings, for any number of requests, devices,   *)
(* prompts and replies: one of them runs at a time, the tables follow      *)
(* their tasks, and each prompt is accepted only by its own reply.         *)
(*                                                                         *)
(* Whoever holds bt_busy is exactly a task between try_lock and the drop   *)
(* of its guard, and its table entry goes one step before the guard does;  *)
(* so that lock, tables and tasks are one inductive invariant.             *)
(*                                                                         *)
(* A reply names no prompt.  That the next one in the channel is the right *)
(* one rests on counting (Turn): BlueZ asks again only when the last       *)
(* prompt was accepted, which took its reply out of the channel, so at     *)
(* most one reply is on its way, and it was given to the open prompt.      *)
(***************************************************************************)
EXTENDS Pairing, FiniteSetTheorems, TLAPS

\* The parts of a task that the proofs look at.
Reply == [to : Nat, accept : BOOLEAN]
Shape(t) ==
  /\ t = [pc |-> t.pc, tries |-> t.tries, asks |-> t.asks, ask |-> t.ask, steps |-> t.steps,
          replies |-> t.replies, heard |-> t.heard]
  /\ t.ask = [n |-> t.ask.n, at |-> t.ask.at, to |-> t.ask.to, said |-> t.ask.said]
  /\ t.asks \in Nat /\ t.ask.n \in Nat /\ t.ask.said \in BOOLEAN
  /\ t.steps \in Seq(Nat) /\ t.replies \in Seq(Reply)

Person == [sees : SUBSET Nat, told : SUBSET Nat, odd : BOOLEAN]

Shaped ==
  /\ task = [r \in Requests |-> task[r]]
  /\ \A r \in Requests : Shape(task[r])
  /\ person \in [Pairs -> Person]
  /\ \A l \in loop : l.request \in Requests /\ l.reply \in Reply
  /\ pairings \subseteq Requests
  /\ scans = [table |-> scans.table, stopped |-> scans.stopped, asked |-> scans.asked]

\* A prompt counts as accepted only by a reply that accepts; with no prompt, nothing was
\* asked.
Agreed(t) ==
  /\ t.ask.at = "accepted" => t.ask.said
  /\ t.ask.at = "none" => t.asks = 0
  /\ t.pc = "trust" => t.ask.at \in {"none", "accepted"}

\* No reply of pairing r is on its way.
Quiet(r, t, waiting) == t.replies = <<>> /\ \A l \in waiting : l.request # r

\* The prompts before the last one have their replies; the last one has at most one, which is
\* on its way until it is taken.
Turn(r, t, p, waiting) ==
  t.pc \notin {"ending", "done"} /\ ~p.odd =>
    /\ t.ask.n = t.asks
    /\ \A k \in p.sees \cup p.told : 0 < k /\ k <= t.asks
    /\ \A k \in Nat : 0 < k /\ k < t.asks => k \in p.told
    /\ \A i \in 1..Len(t.steps) : t.steps[i] <= t.asks
    /\ t.ask.at = "steps" => t.asks # 0 /\ t.asks \notin p.sees /\ \A i \in 1..Len(t.steps) : t.steps[i] # t.asks
    /\ t.ask.at = "accepted" => t.asks \in p.told /\ t.ask.to = t.asks /\ Quiet(r, t, waiting)
    /\ t.replies # <<>> => Len(t.replies) = 1 /\ t.replies[1].to = t.asks
    /\ \A l \in waiting : l.request = r => l.reply.to = t.asks /\ t.replies = <<>>
    /\ t.asks \notin p.told => Quiet(r, t, waiting)

Held(t) == t.pc \in {"start", "find", "known", "pair", "again", "trust", "scan", "ending"}
Runs(t) == t.pc \in {"start", "find", "known", "pair", "again", "trust", "scan"}

LockInv ==
  /\ \A r \in Requests : Held(task[r]) <=> r \in lock
  /\ \A r, s \in lock : r = s
  /\ lock \subseteq Requests
  /\ \A r \in Requests : Runs(task[r]) <=> r \in pairings \cup scans.table

AskInv == \A r \in Requests : Agreed(task[r])

TurnInv == \A r \in Pairs : Turn(r, task[r], person[r], loop)

\* Task r becomes t, and no other one changes.
Becomes(r, t) == task' = [task EXCEPT ![r] = t]

LEMMA BecomesThat ==
  ASSUME Shaped, NEW r \in Requests, NEW t, Becomes(r, t), Shape(t)
  PROVE  /\ task' = [s \in Requests |-> task'[s]]
         /\ \A s \in Requests : Shape(task'[s])
         /\ task'[r] = t /\ \A s \in Requests \ {r} : task'[s] = task[s]
<1>1. task' = [s \in Requests |-> IF s = r THEN t ELSE task[s]] BY DEF Shaped, Becomes
<1>2. QED BY <1>1 DEF Shaped

Inv == Shaped /\ LockInv /\ AskInv /\ TurnInv

\* The rest of the state keeps its shape.
RestShaped ==
  /\ person' \in [Pairs -> Person]
  /\ \A l \in loop' : l.request \in Requests /\ l.reply \in Reply
  /\ pairings' \subseteq Requests
  /\ scans' = [table |-> scans'.table, stopped |-> scans'.stopped, asked |-> scans'.asked]

\* The replies to the other pairings are where they were.
Apart(r) ==
  /\ \A s \in Pairs \ {r} : person'[s] = person[s]
  /\ \A l \in loop' : l \in loop \/ l.request = r

\* A task that goes on to t as agreed, and whose replies are in turn.
Goes(r, t) ==
  /\ Becomes(r, t) /\ Shape(t) /\ Agreed(t)
  /\ r \in Pairs => Turn(r, t, person'[r], loop')

\* Replies that are gone leave the other pairings in turn.
LEMMA TurnApart ==
  ASSUME NEW r \in Requests, NEW s \in Pairs \ {r}, Apart(r), Turn(s, task[s], person[s], loop),
         task'[s] = task[s]
  PROVE  Turn(s, task'[s], person'[s], loop')
<1>1. person'[s] = person[s] BY DEF Apart
<1>2. \A l \in loop' : l.request = s => l \in loop BY DEF Apart
<1>3. PICK t, p, lp : t = task[s] /\ p = person[s] /\ lp = loop' OBVIOUS
<1>4. Turn(s, t, p, lp) BY <1>2, <1>3 DEF Turn, Quiet
<1>5. QED BY <1>1, <1>3, <1>4

\* A step that leaves prompts, steps and replies alone, and does not go back from the end.
LEMMA TurnSame ==
  ASSUME NEW r, NEW x, NEW t, NEW p, NEW lp, Turn(r, x, p, lp),
         t.asks = x.asks, t.ask = x.ask, t.steps = x.steps, t.replies = x.replies,
         x.pc \in {"ending", "done"} => t.pc \in {"ending", "done"}
  PROVE  Turn(r, t, p, lp)
BY DEF Turn, Quiet

LEMMA TaskKept ==
  ASSUME Inv, NEW r \in Requests, NEW t, Goes(r, t), RestShaped, Apart(r)
  PROVE  Shaped' /\ AskInv' /\ TurnInv'
<1>1. /\ task' = [s \in Requests |-> task'[s]]
      /\ \A s \in Requests : Shape(task'[s])
      /\ task'[r] = t /\ \A s \in Requests \ {r} : task'[s] = task[s]
  BY BecomesThat DEF Inv, Goes
<1>2. Shaped' BY <1>1 DEF Shaped, RestShaped
<1>3. AskInv' BY <1>1 DEF AskInv, Inv, Goes
<1>4. TurnInv'
  <2>1. ASSUME NEW s \in Pairs PROVE Turn(s, task'[s], person'[s], loop')
    <3>1. CASE s = r BY <1>1, <3>1 DEF Goes
    <3>2. CASE s # r
      <4>1. task'[s] = task[s] /\ Turn(s, task[s], person[s], loop) BY <1>1, <3>2 DEF Inv, TurnInv, Requests
      <4>2. QED BY <3>2, <4>1, TurnApart
    <3>3. QED BY <3>1, <3>2
  <2>2. QED BY <2>1 DEF TurnInv
<1>5. QED BY <1>2, <1>3, <1>4

\* A step that neither takes the lock nor gives it back.
LEMMA QuietKept ==
  ASSUME Inv, NEW r \in Requests, NEW t, Goes(r, t), RestShaped, Apart(r),
         Held(t) <=> Held(task[r]), Runs(t) <=> Runs(task[r]),
         lock' = lock, pairings' = pairings, scans'.table = scans.table
  PROVE  Inv'
<1>1. task'[r] = t /\ \A s \in Requests \ {r} : task'[s] = task[s] BY BecomesThat DEF Inv, Goes
<1>2. LockInv' BY <1>1 DEF LockInv, Inv
<1>3. QED BY <1>2, TaskKept DEF Inv

\* A step that no task takes.
LEMMA IdleKept ==
  ASSUME Inv, RestShaped, TurnInv', task' = task, lock' = lock, pairings' = pairings,
         scans'.table = scans.table
  PROVE  Inv'
<1>1. Shaped' BY DEF Inv, Shaped, RestShaped
<1>2. LockInv' /\ AskInv' BY DEF Inv, LockInv, AskInv
<1>3. QED BY <1>1, <1>2 DEF Inv

LEMMA RestKept ==
  ASSUME Inv, UNCHANGED <<pairings, scans, person, loop>>
  PROVE  RestShaped /\ \A r \in Requests : Apart(r)
BY DEF Inv, Shaped, RestShaped, Apart

LEMMA TurnIdle ==
  ASSUME Inv, UNCHANGED <<task, person, loop>>
  PROVE  TurnInv'
BY DEF Inv, TurnInv

\* What a task starts with.
LEMMA NewParts ==
  /\ New.asks = 0 /\ New.steps \in Seq(Nat) /\ New.replies \in Seq(Reply)
  /\ New = [pc |-> New.pc, tries |-> New.tries, asks |-> New.asks, ask |-> New.ask, steps |-> New.steps,
            replies |-> New.replies, heard |-> New.heard]
<1>1. New.asks = 0 BY DEF New
<1>2. New.steps = <<>> /\ New.replies = <<>> BY DEF New
<1>3. New.steps \in Seq(Nat) /\ New.replies \in Seq(Reply) BY <1>2
<1>4. New = [pc |-> New.pc, tries |-> New.tries, asks |-> New.asks, ask |-> New.ask, steps |-> New.steps,
             replies |-> New.replies, heard |-> New.heard]
  BY DEF New
<1>5. QED BY <1>1, <1>3, <1>4

\* The end of a task takes its entries out of the tables.
LEMMA EndKept ==
  ASSUME Inv, NEW r \in Requests, NEW what, Runs(task[r]), End(r, what)
  PROVE  Inv'
<1>0. PICK t : t = [New EXCEPT !.pc = "ending", !.ask = task[r].ask, !.heard = task[r].heard] OBVIOUS
<1>1. Shape(task[r]) /\ Agreed(task[r]) BY DEF Inv, Shaped, AskInv
<1>2. Shape(t) /\ t.pc = "ending" /\ t.ask = task[r].ask /\ t.asks = 0
  <2>1. PICK a, h : a = task[r].ask /\ h = task[r].heard OBVIOUS
  <2>2. t = [New EXCEPT !.pc = "ending", !.ask = a, !.heard = h] BY <1>0, <2>1
  <2>3. /\ t = [pc |-> t.pc, tries |-> t.tries, asks |-> t.asks, ask |-> t.ask, steps |-> t.steps,
                replies |-> t.replies, heard |-> t.heard]
        /\ t.pc = "ending" /\ t.ask = a /\ t.asks = New.asks /\ t.steps = New.steps /\ t.replies = New.replies
    BY <2>2, NewParts
  <2>4. QED BY <1>1, <2>1, <2>3, NewParts DEF Shape
<1>23. Agreed(t) BY <1>1, <1>2 DEF Agreed
<1>24. Turn(r, t, person'[r], loop') BY <1>2 DEF Turn
<1>3. Shape(t) /\ Agreed(t) BY <1>2, <1>23
<1>4. Goes(r, t) BY <1>0, <1>2, <1>24, <1>3 DEF Goes, Becomes, End
<1>5. scans' = [table |-> scans.table \ {r}, stopped |-> scans.stopped, asked |-> scans.asked]
  BY DEF End, Inv, Shaped
<1>6. RestShaped BY <1>5 DEF RestShaped, End, Inv, Shaped
<1>7. task'[r] = t /\ \A s \in Requests \ {r} : task'[s] = task[s]
  BY <1>3, <1>4, BecomesThat DEF Inv, Goes
<1>8. Held(t) /\ ~Runs(t) BY <1>2 DEF Held, Runs
<1>9. Held(task[r]) BY DEF Held, Runs
<1>10. LockInv' BY <1>5, <1>7, <1>8, <1>9 DEF LockInv, Inv, End
<1>11. Apart(r) BY DEF Apart, End
<1>12. QED BY <1>4, <1>6, <1>10, <1>11, TaskKept DEF Inv

\* A step of task r that changes its pc and nothing else of it.
LEMMA PcMoves ==
  ASSUME Inv, NEW r \in Requests, NEW pc, task' = [task EXCEPT ![r].pc = pc],
         pc = "trust" => task[r].ask.at \in {"none", "accepted"},
         task[r].pc \in {"ending", "done"} => pc \in {"ending", "done"}, UNCHANGED <<person, loop>>
  PROVE  \E t : Goes(r, t) /\ t.pc = pc
<1>1. Shape(task[r]) /\ Agreed(task[r]) BY DEF Inv, Shaped, AskInv
<1>2. PICK x : x = task[r] OBVIOUS
<1>3. PICK t : t = [x EXCEPT !.pc = pc] OBVIOUS
<1>4. /\ t = [pc |-> t.pc, tries |-> t.tries, asks |-> t.asks, ask |-> t.ask, steps |-> t.steps,
              replies |-> t.replies, heard |-> t.heard]
      /\ t.pc = pc /\ t.ask = x.ask /\ t.asks = x.asks /\ t.steps = x.steps /\ t.replies = x.replies
  BY <1>1, <1>2, <1>3 DEF Shape
<1>5. Shape(t) /\ Agreed(t) BY <1>1, <1>2, <1>4 DEF Shape, Agreed
<1>6. Becomes(r, t) BY <1>2, <1>3 DEF Becomes
<1>7. r \in Pairs => Turn(r, t, person[r], loop) BY <1>2, <1>4, TurnSame DEF Inv, TurnInv
<1>8. QED BY <1>4, <1>5, <1>6, <1>7 DEF Goes

LEMMA RequestKept ==
  ASSUME Inv, NEW r \in Requests, Request(r)
  PROVE  Inv'
<1>1. PICK pc \in {"spawned", "done"} : task' = [task EXCEPT ![r].pc = pc] BY DEF Request
<1>2. PICK t : Goes(r, t) /\ t.pc = pc BY <1>1, PcMoves DEF Request
<1>3. Held(t) <=> Held(task[r]) BY <1>2 DEF Held, Request
<1>4. Runs(t) <=> Runs(task[r]) BY <1>2 DEF Runs, Request
<1>5. QED BY <1>2, <1>3, <1>4, RestKept, QuietKept DEF Request

\* The lock is taken only when nobody holds it, and the task is entered in its table.
LEMMA LockKept ==
  ASSUME Inv, NEW r \in Requests, try_lock(r)
  PROVE  Inv'
<1>1. CASE lock # {} /\ task' = [task EXCEPT ![r].pc = "done"] /\ UNCHANGED <<lock, pairings, scans>>
  <2>1. PICK t : Goes(r, t) /\ t.pc = "done" BY <1>1, PcMoves DEF try_lock
  <2>2. Held(t) <=> Held(task[r]) BY <2>1 DEF Held, try_lock
  <2>3. Runs(t) <=> Runs(task[r]) BY <2>1 DEF Runs, try_lock
  <2>4. QED BY <1>1, <2>1, <2>2, <2>3, RestKept, QuietKept DEF try_lock
<1>2. CASE /\ lock = {} /\ lock' = {r} /\ task' = [task EXCEPT ![r].pc = "start"]
           /\ pairings' = IF r \in Pairs THEN pairings \cup {r} ELSE pairings
           /\ scans' = IF r \in Scans THEN [scans EXCEPT !.table = @ \cup {r}] ELSE scans
  <2>1. PICK t : Goes(r, t) /\ t.pc = "start" BY <1>2, PcMoves DEF try_lock
  <2>2. Held(t) /\ Runs(t) BY <2>1 DEF Held, Runs
  <2>3. /\ scans' = [table |-> scans'.table, stopped |-> scans'.stopped, asked |-> scans'.asked]
        /\ scans'.table = IF r \in Scans THEN scans.table \cup {r} ELSE scans.table
    BY <1>2 DEF Inv, Shaped
  <2>4. RestShaped BY <1>2, <2>3 DEF RestShaped, Inv, Shaped, try_lock
  <2>5. task'[r] = t /\ \A s \in Requests \ {r} : task'[s] = task[s]
    BY <2>1, BecomesThat DEF Inv, Goes
  <2>6. \A s \in Requests : s \in pairings' \cup scans'.table <=> s = r \/ s \in pairings \cup scans.table
    BY <1>2, <2>3 DEF Requests
  <2>7. LockInv' BY <1>2, <2>2, <2>5, <2>6 DEF LockInv, Inv
  <2>8. Apart(r) BY DEF Apart, try_lock
  <2>9. QED BY <2>1, <2>4, <2>7, <2>8, TaskKept DEF Inv
<1>3. QED BY <1>1, <1>2 DEF try_lock

\* The guard is dropped by the task that holds the lock.
LEMMA ReleaseKept ==
  ASSUME Inv, NEW r \in Requests, Release(r)
  PROVE  Inv'
<1>1. PICK t : Goes(r, t) /\ t.pc = "done" BY PcMoves DEF Release
<1>2. ~Held(t) /\ ~Runs(t) BY <1>1 DEF Held, Runs
<1>3. task'[r] = t /\ \A s \in Requests \ {r} : task'[s] = task[s] BY <1>1, BecomesThat DEF Inv, Goes
<1>4. Held(task[r]) /\ ~Runs(task[r]) BY DEF Release, Held, Runs
<1>5. LockInv' BY <1>2, <1>3, <1>4 DEF LockInv, Inv, Release
<1>6. QED BY <1>1, <1>5, RestKept, TaskKept DEF Inv, Release

\* Steps that change no task.
LEMMA ScanStopKept ==
  ASSUME Inv, NEW r \in Scans, ScanStop(r)
  PROVE  Inv'
<1>1. /\ scans' = [table |-> scans'.table, stopped |-> scans'.stopped, asked |-> scans'.asked]
      /\ scans'.table = scans.table
  BY DEF ScanStop, Inv, Shaped
<1>2. RestShaped BY <1>1 DEF RestShaped, Inv, Shaped, ScanStop
<1>3. TurnInv' BY TurnIdle DEF ScanStop
<1>4. QED BY <1>1, <1>2, <1>3, IdleKept DEF ScanStop

LEMMA AroundKept ==
  ASSUME Inv, (\E d \in Devices : unpair(d) \/ News(d)) \/ \E r \in Requests : Disconnect(r)
  PROVE  Inv'
<1>1. UNCHANGED <<task, lock, pairings, scans, person, loop>> BY DEF unpair, News, Disconnect
<1>2. QED BY <1>1, RestKept, TurnIdle, IdleKept

\* A reply that is queued for a pairing, which it leaves in turn.
LEMMA QueuedKept ==
  ASSUME Inv, NEW r \in Requests, NEW reply \in Reply, NEW t,
         t = [task[r] EXCEPT !.replies = Append(task[r].replies, reply)], Becomes(r, t),
         r \in Pairs => Turn(r, t, person'[r], loop'), Apart(r),
         UNCHANGED <<lock, pairings, scans>>, loop' = {} \/ loop' = loop, person' \in [Pairs -> Person]
  PROVE  Inv'
<1>1. Shape(task[r]) /\ Agreed(task[r]) BY DEF Inv, Shaped, AskInv
<1>2. PICK x : x = task[r] OBVIOUS
<1>3. PICK q : q = Append(x.replies, reply) OBVIOUS
<1>4. q \in Seq(Reply) BY <1>1, <1>2, <1>3 DEF Shape
<1>5. t = [x EXCEPT !.replies = q] BY <1>2, <1>3
<1>6. /\ t = [pc |-> t.pc, tries |-> t.tries, asks |-> t.asks, ask |-> t.ask, steps |-> t.steps,
              replies |-> t.replies, heard |-> t.heard]
      /\ t.pc = x.pc /\ t.ask = x.ask /\ t.asks = x.asks /\ t.steps = x.steps /\ t.replies = q
  BY <1>1, <1>2, <1>5 DEF Shape
<1>7. Shape(t) /\ Agreed(t) BY <1>1, <1>2, <1>4, <1>6 DEF Shape, Agreed
<1>8. Goes(r, t) BY <1>7 DEF Goes
<1>9. RestShaped BY DEF RestShaped, Inv, Shaped
<1>10. (Held(t) <=> Held(task[r])) /\ (Runs(t) <=> Runs(task[r])) BY <1>2, <1>6 DEF Held, Runs
<1>11. QED BY <1>8, <1>9, <1>10, QuietKept

\* One more reply to a pairing: to its open prompt, which had none, or an odd one.
LEMMA ReplyParts ==
  ASSUME Inv, NEW r \in Pairs, NEW n \in person[r].sees \cup {0}, NEW accept \in BOOLEAN, PairReply(r, n, accept)
  PROVE  /\ person' \in [Pairs -> Person]
         /\ \A s \in Pairs \ {r} : person'[s] = person[s]
         /\ person'[r].sees = person[r].sees /\ person'[r].told = person[r].told \cup {n}
         /\ person'[r].odd = (person[r].odd \/ n = 0 \/ n \in person[r].told)
         /\ n \in Nat
<1>1. person \in [Pairs -> Person] BY DEF Inv, Shaped
<1>2. person[r].sees \in SUBSET Nat /\ person[r].told \in SUBSET Nat /\ person[r].odd \in BOOLEAN BY <1>1 DEF Person
<1>3. PICK odd \in BOOLEAN : odd = (person[r].odd \/ n = 0 \/ n \in person[r].told) BY <1>2
<1>4. PICK p : p = [sees |-> person[r].sees, told |-> person[r].told \cup {n}, odd |-> odd] OBVIOUS
<1>5. n \in Nat BY <1>2
<1>6. p \in Person /\ p.sees = person[r].sees /\ p.told = person[r].told \cup {n} /\ p.odd = odd
  BY <1>2, <1>4, <1>5 DEF Person
<1>7. person' = [person EXCEPT ![r] = p] BY <1>1, <1>3, <1>4 DEF PairReply
<1>8. QED BY <1>1, <1>3, <1>5, <1>6, <1>7

\* The pairing that the next reply is for.
LEMMA ReplyTurn ==
  ASSUME NEW r, NEW x, NEW p, NEW q, NEW n \in Nat, Turn(r, x, p, {}), Shape(x), p \in Person,
         x.pc \notin {"ending", "done"}, n \in p.sees \cup {0}, q.told = p.told \cup {n}, q.sees = p.sees,
         q.odd = (p.odd \/ n = 0 \/ n \in p.told), ~q.odd
  PROVE  n = x.asks /\ x.replies = <<>> /\ x.ask.at \notin {"steps", "accepted"}
<1>1. ~p.odd /\ n # 0 /\ n \notin p.told /\ n \in p.sees BY DEF Person
<1>2. 0 < n /\ n <= x.asks BY <1>1 DEF Turn
<1>3. x.asks \in Nat BY DEF Shape
<1>4. ~(n < x.asks) BY <1>1, <1>2 DEF Turn
<1>5. n = x.asks BY <1>2, <1>3, <1>4
<1>6. QED BY <1>1, <1>5 DEF Turn, Quiet

LEMMA PairReplyKept ==
  ASSUME Inv, NEW r \in Pairs, NEW n \in person[r].sees \cup {0}, NEW accept \in BOOLEAN, PairReply(r, n, accept)
  PROVE  Inv'
<1>1. r \in Requests BY DEF Requests
<1>2. PICK reply : reply = [to |-> n, accept |-> accept] OBVIOUS
<1>3. reply \in Reply /\ reply.to = n BY <1>2, ReplyParts DEF Reply
<1>4. PICK x, p, q : x = task[r] /\ p = person[r] /\ q = person'[r] OBVIOUS
<1>5. Shape(x) /\ p \in Person /\ Turn(r, x, p, {}) /\ loop = {} /\ q.sees = p.sees /\ q.told = p.told \cup {n}
  BY <1>1, <1>4, ReplyParts DEF Inv, Shaped, TurnInv, PairReply
<1>6. x.pc \notin {"ending", "done"} BY <1>1, <1>4 DEF Inv, LockInv, Runs, PairReply
<1>7. ~q.odd => /\ n = x.asks /\ x.replies = <<>> /\ x.ask.at \notin {"steps", "accepted"} /\ ~p.odd
                /\ 0 < n /\ n <= x.asks
  <2>1. q.odd = (p.odd \/ n = 0 \/ n \in p.told) BY <1>4, ReplyParts
  <2>2. n \in Nat /\ n \in p.sees \cup {0} BY <1>4, ReplyParts
  <2>3. ~q.odd => n = x.asks /\ x.replies = <<>> /\ x.ask.at \notin {"steps", "accepted"}
    BY <1>5, <1>6, <2>1, <2>2, ReplyTurn
  <2>4. p.odd \in BOOLEAN BY <1>5 DEF Person
  <2>5. ~q.odd => ~p.odd /\ n # 0 BY <2>1, <2>4, Zenon
  <2>6. n # 0 => 0 < n /\ n <= n BY <2>2
  <2>7. QED BY <2>3, <2>5, <2>6, Zenon
<1>8. CASE task' = [task EXCEPT ![r].replies = Append(@, reply)] /\ UNCHANGED loop
  <2>1. PICK t : t = [x EXCEPT !.replies = Append(x.replies, reply)] OBVIOUS
  <2>2. Becomes(r, t) BY <1>4, <1>8, <2>1 DEF Becomes
  <2>3. /\ t.pc = x.pc /\ t.ask = x.ask /\ t.asks = x.asks /\ t.steps = x.steps
        /\ t.replies = Append(x.replies, reply)
    BY <1>5, <2>1 DEF Shape
  <2>4. x.replies = <<>> => Len(t.replies) = 1 /\ t.replies[1] = reply BY <2>3
  <2>5. Turn(r, t, q, {}) BY <1>3, <1>5, <1>6, <1>7, <2>3, <2>4 DEF Turn, Quiet
  <2>6. Apart(r) BY <1>8, ReplyParts DEF Apart
  <2>7. t = [task[r] EXCEPT !.replies = Append(task[r].replies, reply)] BY <1>4, <2>1
  <2>8. Turn(r, t, person'[r], loop') BY <1>4, <1>5, <1>8, <2>5
  <2>9. UNCHANGED <<lock, pairings, scans>> BY DEF PairReply
  <2>10. QED BY <1>1, <1>3, <1>8, <2>2, <2>6, <2>7, <2>8, <2>9, ReplyParts, QueuedKept
<1>9. CASE loop' = {[request |-> r, reply |-> reply]} /\ UNCHANGED task
  <2>1. UNCHANGED <<lock, pairings, scans>> BY DEF PairReply
  <2>2. PICK l : l = [request |-> r, reply |-> reply] OBVIOUS
  <2>3. l.request = r /\ l.reply = reply /\ loop' = {l} BY <1>9, <2>2
  <2>35. RestShaped BY <1>1, <1>3, <2>1, <2>3, ReplyParts DEF RestShaped, Inv, Shaped
  <2>4. Turn(r, x, q, {l}) BY <1>3, <1>5, <1>6, <1>7, <2>3 DEF Turn, Quiet
  <2>5. Apart(r) BY <2>3, ReplyParts DEF Apart
  <2>6. ASSUME NEW s \in Pairs PROVE Turn(s, task'[s], person'[s], loop')
    <3>1. CASE s = r BY <1>4, <1>9, <2>3, <2>4, <3>1
    <3>2. CASE s # r
      <4>1. task'[s] = task[s] /\ Turn(s, task[s], person[s], loop) BY <1>9 DEF Inv, TurnInv
      <4>2. QED BY <1>1, <2>5, <3>2, <4>1, TurnApart
    <3>3. QED BY <3>1, <3>2
  <2>7. TurnInv' BY <2>6 DEF TurnInv
  <2>8. QED BY <1>9, <2>1, <2>35, <2>7, IdleKept
<1>10. QED BY <1>2, <1>8, <1>9 DEF PairReply

\* The reply that waited is the only one on its way to its pairing.
LEMMA PairReplySentKept ==
  ASSUME Inv, PairReplySent
  PROVE  Inv'
<1>1. CASE UNCHANGED task
  <2>1. RestShaped BY DEF RestShaped, Inv, Shaped, PairReplySent
  <2>2. ASSUME NEW s \in Pairs PROVE Turn(s, task'[s], person'[s], loop')
    <3>1. PICK t, p : t = task[s] /\ p = person[s] OBVIOUS
    <3>2. Turn(s, t, p, loop) BY <3>1 DEF Inv, TurnInv
    <3>3. Turn(s, t, p, {}) BY <3>2 DEF Turn, Quiet
    <3>4. QED BY <1>1, <3>1, <3>3 DEF PairReplySent
  <2>3. TurnInv' BY <2>2 DEF TurnInv
  <2>4. QED BY <1>1, <2>1, <2>3, IdleKept DEF PairReplySent
<1>2. CASE \E l \in loop : task' = [task EXCEPT ![l.request].replies = Append(@, l.reply)]
  <2>1. PICK l \in loop : task' = [task EXCEPT ![l.request].replies = Append(@, l.reply)] BY <1>2
  <2>2. PICK r, reply : r = l.request /\ reply = l.reply OBVIOUS
  <2>3. r \in Requests /\ reply \in Reply BY <2>2 DEF Inv, Shaped
  <2>4. PICK x : x = task[r] OBVIOUS
  <2>5. Shape(x) BY <2>3, <2>4 DEF Inv, Shaped
  <2>6. PICK t : t = [x EXCEPT !.replies = Append(x.replies, reply)] OBVIOUS
  <2>7. Becomes(r, t) BY <2>1, <2>2, <2>4, <2>6 DEF Becomes
  <2>8. /\ t.pc = x.pc /\ t.ask = x.ask /\ t.asks = x.asks /\ t.steps = x.steps
        /\ t.replies = Append(x.replies, reply)
    BY <2>5, <2>6 DEF Shape
  <2>9. x.replies = <<>> => Len(t.replies) = 1 /\ t.replies[1] = reply BY <2>3, <2>8
  <2>10. r \in Pairs => Turn(r, t, person[r], {})
    <3>1. SUFFICES ASSUME r \in Pairs PROVE Turn(r, t, person[r], {}) OBVIOUS
    <3>2. PICK p : p = person[r] OBVIOUS
    <3>3. Turn(r, x, p, loop) BY <2>4, <3>1, <3>2 DEF Inv, TurnInv
    <3>4. Turn(r, t, p, {}) BY <2>1, <2>2, <2>8, <2>9, <3>3 DEF Turn, Quiet
    <3>5. QED BY <3>2, <3>4
  <2>11. Apart(r) BY DEF Apart, PairReplySent
  <2>12. person' \in [Pairs -> Person] BY DEF Inv, Shaped, PairReplySent
  <2>13. QED BY <2>3, <2>4, <2>6, <2>7, <2>10, <2>11, <2>12, QueuedKept DEF PairReplySent
<1>3. QED BY <1>1, <1>2 DEF PairReplySent

------------------------------------------------------------------------------
\* pairing::scan.

LEMMA DiscoverKept ==
  ASSUME Inv, NEW r \in Scans, Discover(r) \/ ScanEnds(r)
  PROVE  Inv'
<1>1. r \in Requests BY DEF Requests
<1>2. Runs(task[r]) BY DEF Runs, Discover, ScanEnds
<1>3. CASE /\ task[r].pc = "start" /\ task' = [task EXCEPT ![r].pc = "scan"]
           /\ UNCHANGED <<lock, pairings, scans, person, answer, loop, open, used>>
  <2>1. PICK t : Goes(r, t) /\ t.pc = "scan" BY <1>1, <1>3, PcMoves
  <2>2. (Held(t) <=> Held(task[r])) /\ (Runs(t) <=> Runs(task[r])) BY <1>3, <2>1 DEF Held, Runs
  <2>3. QED BY <1>1, <1>3, <2>1, <2>2, RestKept, QuietKept
<1>4. QED BY <1>1, <1>2, <1>3, EndKept DEF Discover, ScanEnds

LEMMA DeviceAddedKept ==
  ASSUME Inv, NEW r \in Scans, NEW d \in Devices, DeviceAdded(r, d)
  PROVE  Inv'
<1>0. r \in Requests BY DEF Requests
<1>1. Shape(task[r]) /\ Agreed(task[r]) BY <1>0 DEF Inv, Shaped, AskInv
<1>2. PICK x : x = task[r] OBVIOUS
<1>3. PICK h : task' = [task EXCEPT ![r].heard = h] BY DEF DeviceAdded
<1>4. PICK t : t = [x EXCEPT !.heard = h] OBVIOUS
<1>5. /\ t = [pc |-> t.pc, tries |-> t.tries, asks |-> t.asks, ask |-> t.ask, steps |-> t.steps,
              replies |-> t.replies, heard |-> t.heard]
      /\ t.pc = x.pc /\ t.ask = x.ask /\ t.asks = x.asks /\ t.steps = x.steps /\ t.replies = x.replies
  BY <1>1, <1>2, <1>4 DEF Shape
<1>6. Shape(t) /\ Agreed(t) BY <1>1, <1>2, <1>5 DEF Shape, Agreed
<1>7. Becomes(r, t) BY <1>2, <1>3, <1>4 DEF Becomes
<1>75. r \in Pairs => Turn(r, t, person'[r], loop') BY <1>2, <1>5, TurnSame DEF Inv, TurnInv, DeviceAdded
<1>8. Goes(r, t) /\ Apart(r) BY <1>6, <1>7, <1>75 DEF Goes, Apart, DeviceAdded
<1>9. /\ scans' = [table |-> scans'.table, stopped |-> scans'.stopped, asked |-> scans'.asked]
      /\ scans'.table = scans.table
  BY DEF DeviceAdded, Inv, Shaped
<1>10. RestShaped BY <1>9 DEF RestShaped, Inv, Shaped, DeviceAdded
<1>11. (Held(t) <=> Held(task[r])) /\ (Runs(t) <=> Runs(task[r])) BY <1>2, <1>5 DEF Held, Runs
<1>12. QED BY <1>0, <1>8, <1>9, <1>10, <1>11, QuietKept DEF DeviceAdded

------------------------------------------------------------------------------
\* pairing::pair.

\* A step of a pairing that is under way and stays so.
Pairs_on(r, t) == Goes(r, t) /\ Runs(task[r]) /\ Runs(t)

LEMMA PairerKept ==
  ASSUME Inv, NEW r \in Pairs, NEW t, Pairs_on(r, t), Pairer(r)
  PROVE  Inv'
<1>1. r \in Requests BY DEF Requests
<1>2. Held(t) /\ Held(task[r]) BY DEF Pairs_on, Held, Runs
<1>3. RestShaped /\ Apart(r) BY <1>1, RestKept DEF Pairer
<1>4. QED BY <1>1, <1>2, <1>3, QuietKept DEF Pairs_on, Pairer

\* A step that goes on at another pc.
LEMMA PcPairs ==
  ASSUME Inv, NEW r \in Pairs, NEW pc, task' = [task EXCEPT ![r].pc = pc], Pairer(r),
         Runs(task[r]), pc \in {"known", "pair", "again", "trust"},
         pc = "trust" => task[r].ask.at \in {"none", "accepted"}
  PROVE  Inv'
<1>1. r \in Requests BY DEF Requests
<1>2. PICK t : Goes(r, t) /\ t.pc = pc BY <1>1, PcMoves DEF Runs, Pairer
<1>3. Runs(t) BY <1>2 DEF Runs
<1>4. QED BY <1>2, <1>3, PairerKept DEF Pairs_on

LEMMA TellKept ==
  ASSUME Inv, NEW r \in Pairs, NEW pc, tell(r, pc), Pairer(r), Runs(task[r]), pc \in {"find", "pair"}
  PROVE  Inv'
<1>0. r \in Requests BY DEF Requests
<1>1. Shape(task[r]) /\ Agreed(task[r]) BY <1>0 DEF Inv, Shaped, AskInv
<1>2. PICK x : x = task[r] OBVIOUS
<1>3. PICK q : q = IF Len(x.steps) < StepQueue THEN Append(x.steps, 0) ELSE x.steps OBVIOUS
<1>4. q \in Seq(Nat) BY <1>1, <1>2, <1>3 DEF Shape
<1>5. PICK t : t = [x EXCEPT !.pc = pc, !.steps = q] OBVIOUS
<1>6. /\ t = [pc |-> t.pc, tries |-> t.tries, asks |-> t.asks, ask |-> t.ask, steps |-> t.steps,
              replies |-> t.replies, heard |-> t.heard]
      /\ t.pc = pc /\ t.ask = x.ask /\ t.asks = x.asks /\ t.steps = q /\ t.replies = x.replies
  BY <1>1, <1>2, <1>5 DEF Shape
<1>7. Shape(t) /\ Agreed(t) BY <1>1, <1>2, <1>4, <1>6 DEF Shape, Agreed
<1>8. Becomes(r, t)
  <2>1. task' = [task EXCEPT ![r].pc = pc, ![r].steps = q]
    BY <1>0, <1>1, <1>2, <1>3 DEF tell, Inv, Shaped, Shape
  <2>2. QED BY <1>0, <1>2, <1>5, <2>1 DEF Becomes, Inv, Shaped
<1>85. Turn(r, t, person[r], loop)
  <2>1. PICK p : p = person[r] OBVIOUS
  <2>2. Turn(r, x, p, loop) BY <1>2, <2>1 DEF Inv, TurnInv
  <2>3. \A i \in 1..Len(q) : q[i] = 0 \/ (i \in 1..Len(x.steps) /\ q[i] = x.steps[i]) BY <1>1, <1>2, <1>3 DEF Shape
  <2>4. x.asks \in Nat BY <1>1, <1>2 DEF Shape
  <2>5. x.pc \notin {"ending", "done"} BY <1>2 DEF Runs
  <2>6. Turn(r, t, p, loop) BY <1>6, <2>2, <2>3, <2>4, <2>5 DEF Turn, Quiet
  <2>7. QED BY <2>1, <2>6
<1>9. Goes(r, t) /\ Runs(t) BY <1>6, <1>7, <1>8, <1>85 DEF Goes, Runs, Pairer
<1>10. QED BY <1>9, PairerKept DEF Pairs_on

LEMMA BeginKept ==
  ASSUME Inv, NEW r \in Pairs, Begin(r)
  PROVE  Inv'
<1>1. Runs(task[r]) BY DEF Begin, Runs
<1>2. CASE task' = [task EXCEPT ![r].pc = "known"] BY <1>1, <1>2, PcPairs DEF Begin
<1>3. CASE tell(r, "find") BY <1>1, <1>3, TellKept DEF Begin
<1>4. QED BY <1>2, <1>3 DEF Begin

LEMMA FindKept ==
  ASSUME Inv, NEW r \in Pairs, find(r)
  PROVE  Inv'
<1>1. Runs(task[r]) /\ r \in Requests BY DEF find, Runs, Requests
<1>2. CASE task' = [task EXCEPT ![r].pc = "known"] /\ Pairer(r) BY <1>1, <1>2, PcPairs
<1>3. CASE End(r, "failed") BY <1>1, <1>3, EndKept
<1>4. QED BY <1>2, <1>3 DEF find

LEMMA KnownKept ==
  ASSUME Inv, NEW r \in Pairs, Known(r)
  PROVE  Inv'
<1>1. Runs(task[r]) /\ r \in Requests BY DEF Known, Runs, Requests
<1>2. CASE tell(r, "pair") /\ Pairer(r) BY <1>1, <1>2, TellKept
<1>3. CASE End(r, "ok") BY <1>1, <1>3, EndKept
<1>4. QED BY <1>2, <1>3 DEF Known

LEMMA AgainKept ==
  ASSUME Inv, NEW r \in Pairs, Again(r)
  PROVE  Inv'
<1>1. Runs(task[r]) BY DEF Again, Runs
<1>2. QED BY <1>1, PcPairs DEF Again

LEMMA FailsKept ==
  ASSUME Inv, NEW r \in Pairs, PairFails(r) \/ Trusted(r)
  PROVE  Inv'
<1>1. Runs(task[r]) /\ r \in Requests BY DEF PairFails, Trusted, Runs, Requests
<1>2. QED BY <1>1, EndKept DEF PairFails, Trusted

\* BlueZ reports a pairing: its last prompt was accepted by a reply that says so.
LEMMA PairedKept ==
  ASSUME Inv, NEW r \in Pairs, Paired(r)
  PROVE  Inv'
<1>1. Runs(task[r]) /\ r \in Requests BY DEF Paired, Runs, Requests
<1>2. QED BY <1>1, PcPairs DEF Paired

\* A prompt is new: nobody has accepted it.
LEMMA AskKept ==
  ASSUME Inv, NEW r \in Pairs, ask(r)
  PROVE  Inv'
<1>0. r \in Requests BY DEF Requests
<1>1. Shape(task[r]) BY <1>0 DEF Inv, Shaped
<1>2. PICK x : x = task[r] OBVIOUS
<1>3. PICK m : m = x.asks + 1 OBVIOUS
<1>4. m \in Nat BY <1>1, <1>2, <1>3 DEF Shape
<1>5. PICK a : a = [NoAsk EXCEPT !.n = m, !.at = "steps"] OBVIOUS
<1>6. /\ a = [n |-> a.n, at |-> a.at, to |-> a.to, said |-> a.said]
      /\ a.n = m /\ a.at = "steps" /\ a.said = FALSE
  BY <1>5 DEF NoAsk
<1>7. PICK t : t = [x EXCEPT !.asks = m, !.ask = a] OBVIOUS
<1>8. /\ t = [pc |-> t.pc, tries |-> t.tries, asks |-> t.asks, ask |-> t.ask, steps |-> t.steps,
              replies |-> t.replies, heard |-> t.heard]
      /\ t.pc = x.pc /\ t.ask = a /\ t.asks = m /\ t.steps = x.steps /\ t.replies = x.replies
  BY <1>1, <1>2, <1>7 DEF Shape
<1>85. x.pc = "pair" BY <1>2 DEF ask
<1>9. Shape(t) /\ Agreed(t) BY <1>85, <1>1, <1>2, <1>4, <1>6, <1>8 DEF Shape, Agreed
<1>10. Becomes(r, t)
  <2>1. task' = [task EXCEPT ![r].asks = m, ![r].ask = a] BY <1>2, <1>3, <1>5 DEF ask
  <2>2. QED BY <1>0, <1>2, <1>7, <2>1 DEF Becomes, Inv, Shaped
<1>105. Turn(r, t, person[r], loop)
  <2>1. PICK p : p = person[r] OBVIOUS
  <2>2. Turn(r, x, p, loop) BY <1>2, <2>1 DEF Inv, TurnInv
  <2>3. p \in Person BY <2>1 DEF Inv, Shaped
  <2>4. x.ask.at = "none" => x.asks = 0 BY <1>0, <1>2 DEF Inv, AskInv, Agreed
  <2>5. x.ask.at \in {"none", "accepted"} /\ x.pc = "pair" BY <1>2 DEF ask
  <2>6. x.asks \in Nat /\ x.steps \in Seq(Nat) BY <1>1, <1>2 DEF Shape
  <2>7. SUFFICES ASSUME ~p.odd PROVE Turn(r, t, p, loop) BY <2>1 DEF Turn
  <2>8. \A k \in p.sees \cup p.told : k \in Nat /\ 0 < k /\ k <= x.asks BY <2>2, <2>3, <2>5, <2>7 DEF Turn, Person
  <2>9. Quiet(r, x, loop)
    <3>1. CASE x.ask.at = "accepted" BY <2>2, <2>5, <2>7, <3>1 DEF Turn
    <3>2. CASE x.asks = 0
      <4>1. x.asks \notin p.told BY <2>8, <3>2
      <4>2. QED BY <2>2, <2>5, <2>7, <4>1 DEF Turn
    <3>3. QED BY <2>4, <2>5, <3>1, <3>2
  <2>10. \A k \in Nat : 0 < k /\ k < m => k \in p.told
    <3>1. x.asks # 0 => x.asks \in p.told BY <2>2, <2>4, <2>5, <2>7 DEF Turn
    <3>2. \A k \in Nat : 0 < k /\ k < x.asks => k \in p.told BY <2>2, <2>5, <2>7 DEF Turn
    <3>3. QED BY <1>3, <2>6, <3>1, <3>2
  <2>11. \A i \in 1..Len(x.steps) : x.steps[i] \in Nat /\ x.steps[i] <= x.asks BY <2>2, <2>5, <2>6, <2>7 DEF Turn
  <2>12. m \notin p.sees \cup p.told /\ m # 0 BY <1>3, <2>6, <2>8
  <2>13. \A k \in p.sees \cup p.told : 0 < k /\ k <= m BY <1>3, <2>6, <2>8
  <2>14. \A i \in 1..Len(x.steps) : x.steps[i] <= m /\ x.steps[i] # m BY <1>3, <2>6, <2>11
  <2>15. QED BY <1>6, <1>8, <2>9, <2>10, <2>12, <2>13, <2>14 DEF Turn, Quiet
<1>11. Goes(r, t) /\ Runs(t) /\ Runs(task[r])
  BY <1>2, <1>8, <1>9, <1>10, <1>105 DEF Goes, Runs, ask, Pairer
<1>12. QED BY <1>11, PairerKept DEF Pairs_on, ask

LEMMA AskQueuedKept ==
  ASSUME Inv, NEW r \in Pairs, AskQueued(r)
  PROVE  Inv'
<1>0. r \in Requests BY DEF Requests
<1>1. Shape(task[r]) BY <1>0 DEF Inv, Shaped
<1>2. PICK x : x = task[r] OBVIOUS
<1>3. PICK q : q = Append(x.steps, x.ask.n) OBVIOUS
<1>4. q \in Seq(Nat) BY <1>1, <1>2, <1>3 DEF Shape
<1>5. PICK a : a = [x.ask EXCEPT !.at = "reply"] OBVIOUS
<1>6. /\ a = [n |-> a.n, at |-> a.at, to |-> a.to, said |-> a.said]
      /\ a.n = x.ask.n /\ a.at = "reply" /\ a.said = x.ask.said
  BY <1>1, <1>2, <1>5 DEF Shape
<1>7. PICK t : t = [x EXCEPT !.steps = q, !.ask = a] OBVIOUS
<1>8. /\ t = [pc |-> t.pc, tries |-> t.tries, asks |-> t.asks, ask |-> t.ask, steps |-> t.steps,
              replies |-> t.replies, heard |-> t.heard]
      /\ t.pc = x.pc /\ t.ask = a /\ t.asks = x.asks /\ t.steps = q /\ t.replies = x.replies
  BY <1>1, <1>2, <1>7 DEF Shape
<1>85. x.pc = "pair" BY <1>2 DEF AskQueued
<1>9. Shape(t) /\ Agreed(t) BY <1>85, <1>1, <1>2, <1>4, <1>6, <1>8 DEF Shape, Agreed
<1>10. Becomes(r, t)
  <2>1. task' = [task EXCEPT ![r].steps = q, ![r].ask.at = "reply"]
    BY <1>0, <1>1, <1>2, <1>3 DEF AskQueued, Inv, Shaped, Shape
  <2>2. QED BY <1>0, <1>1, <1>2, <1>5, <1>7, <2>1 DEF Becomes, Inv, Shaped, Shape
<1>105. Turn(r, t, person[r], loop)
  <2>1. PICK p : p = person[r] OBVIOUS
  <2>2. Turn(r, x, p, loop) /\ x.ask.at = "steps" /\ x.pc = "pair" BY <1>2, <2>1 DEF Inv, TurnInv, AskQueued
  <2>3. SUFFICES ASSUME ~p.odd PROVE Turn(r, t, p, loop) BY <2>1 DEF Turn
  <2>4. x.steps \in Seq(Nat) /\ x.asks \in Nat /\ x.ask.n = x.asks BY <1>1, <1>2, <2>2, <2>3 DEF Shape, Turn
  <2>5. \A i \in 1..Len(q) : q[i] = x.asks \/ (i \in 1..Len(x.steps) /\ q[i] = x.steps[i]) BY <1>3, <2>4
  <2>6. \A i \in 1..Len(q) : q[i] <= x.asks BY <2>2, <2>3, <2>4, <2>5 DEF Turn
  <2>7. QED BY <1>6, <1>8, <2>2, <2>3, <2>6 DEF Turn, Quiet
<1>11. Goes(r, t) /\ Runs(t) /\ Runs(task[r])
  BY <1>2, <1>8, <1>9, <1>10, <1>105 DEF Goes, Runs, AskQueued, Pairer
<1>12. QED BY <1>11, PairerKept DEF Pairs_on, AskQueued

LEMMA AskCancelledKept ==
  ASSUME Inv, NEW r \in Pairs, AskCancelled(r)
  PROVE  Inv'
<1>0. r \in Requests BY DEF Requests
<1>1. Shape(task[r]) BY <1>0 DEF Inv, Shaped
<1>2. PICK x : x = task[r] OBVIOUS
<1>3. PICK a : a = [x.ask EXCEPT !.at = "refused"] OBVIOUS
<1>4. /\ a = [n |-> a.n, at |-> a.at, to |-> a.to, said |-> a.said]
      /\ a.n = x.ask.n /\ a.at = "refused" /\ a.said = x.ask.said
  BY <1>1, <1>2, <1>3 DEF Shape
<1>5. PICK t : t = [x EXCEPT !.ask = a] OBVIOUS
<1>6. /\ t = [pc |-> t.pc, tries |-> t.tries, asks |-> t.asks, ask |-> t.ask, steps |-> t.steps,
              replies |-> t.replies, heard |-> t.heard]
      /\ t.pc = x.pc /\ t.ask = a /\ t.asks = x.asks /\ t.steps = x.steps /\ t.replies = x.replies
  BY <1>1, <1>2, <1>5 DEF Shape
<1>65. x.pc = "pair" BY <1>2 DEF AskCancelled
<1>7. Shape(t) /\ Agreed(t) BY <1>65, <1>1, <1>2, <1>4, <1>6 DEF Shape, Agreed
<1>8. Becomes(r, t) BY <1>0, <1>1, <1>2, <1>3, <1>5 DEF AskCancelled, Becomes, Inv, Shaped, Shape
<1>85. Turn(r, t, person[r], loop)
  <2>1. PICK p : p = person[r] OBVIOUS
  <2>2. Turn(r, x, p, loop) /\ x.pc = "pair" BY <1>2, <2>1 DEF Inv, TurnInv, AskCancelled
  <2>3. Turn(r, t, p, loop) BY <1>4, <1>6, <2>2 DEF Turn, Quiet
  <2>4. QED BY <2>1, <2>3
<1>9. Goes(r, t) /\ Runs(t) /\ Runs(task[r])
  BY <1>2, <1>6, <1>7, <1>8, <1>85 DEF Goes, Runs, AskCancelled, Pairer
<1>10. QED BY <1>9, PairerKept DEF Pairs_on, AskCancelled

LEMMA UnreachedKept ==
  ASSUME Inv, NEW r \in Pairs, Unreached(r)
  PROVE  Inv'
<1>0. r \in Requests BY DEF Requests
<1>1. Shape(task[r]) /\ Agreed(task[r]) BY <1>0 DEF Inv, Shaped, AskInv
<1>2. PICK x : x = task[r] OBVIOUS
<1>3. PICK t : t = [x EXCEPT !.tries = 1, !.pc = "again"] OBVIOUS
<1>4. /\ t = [pc |-> t.pc, tries |-> t.tries, asks |-> t.asks, ask |-> t.ask, steps |-> t.steps,
              replies |-> t.replies, heard |-> t.heard]
      /\ t.pc = "again" /\ t.ask = x.ask /\ t.asks = x.asks /\ t.steps = x.steps /\ t.replies = x.replies
  BY <1>1, <1>2, <1>3 DEF Shape
<1>5. Shape(t) /\ Agreed(t) BY <1>1, <1>2, <1>4 DEF Shape, Agreed
<1>6. Becomes(r, t) BY <1>0, <1>2, <1>3 DEF Unreached, Becomes, Inv, Shaped
<1>65. Turn(r, t, person[r], loop) BY <1>2, <1>4, TurnSame DEF Inv, TurnInv, Unreached
<1>7. Goes(r, t) /\ Runs(t) /\ Runs(task[r])
  BY <1>2, <1>4, <1>5, <1>6, <1>65 DEF Goes, Runs, Unreached, Pairer
<1>8. QED BY <1>7, PairerKept DEF Pairs_on, Unreached

\* The next reply accepts the prompt, or refuses it: it is the one that was given to it.
LEMMA RepliedKept ==
  ASSUME Inv, NEW r \in Pairs, Replied(r)
  PROVE  Inv'
<1>0. r \in Requests BY DEF Requests
<1>1. Shape(task[r]) BY <1>0 DEF Inv, Shaped
<1>2. PICK x : x = task[r] OBVIOUS
<1>3. PICK y, q : y = Head(x.replies) /\ q = Tail(x.replies) OBVIOUS
<1>4. y \in Reply /\ q \in Seq(Reply)
  <2>1. x.replies \in Seq(Reply) BY <1>1, <1>2 DEF Shape
  <2>2. x.replies # <<>> BY <1>2 DEF Replied
  <2>3. PICK z : z = x.replies OBVIOUS
  <2>4. z \in Seq(Reply) /\ z # <<>> BY <2>1, <2>2, <2>3
  <2>5. Head(z) \in Reply /\ Tail(z) \in Seq(Reply) BY <2>4
  <2>6. QED BY <1>3, <2>3, <2>5
<1>5. PICK at : at = IF y.accept THEN "accepted" ELSE "refused" OBVIOUS
<1>6. PICK a : a = [x.ask EXCEPT !.at = at, !.to = y.to, !.said = y.accept] OBVIOUS
<1>7. /\ a = [n |-> a.n, at |-> a.at, to |-> a.to, said |-> a.said]
      /\ a.n = x.ask.n /\ a.at = at /\ a.said = y.accept /\ a.to = y.to
  BY <1>1, <1>2, <1>6 DEF Shape
<1>8. PICK t : t = [x EXCEPT !.ask = a, !.replies = q] OBVIOUS
<1>9. /\ t = [pc |-> t.pc, tries |-> t.tries, asks |-> t.asks, ask |-> t.ask, steps |-> t.steps,
              replies |-> t.replies, heard |-> t.heard]
      /\ t.pc = x.pc /\ t.ask = a /\ t.asks = x.asks /\ t.steps = x.steps /\ t.replies = q
  BY <1>1, <1>2, <1>8 DEF Shape
<1>10. y.accept \in BOOLEAN BY <1>4 DEF Reply
<1>11. Shape(t) BY <1>1, <1>2, <1>4, <1>7, <1>9, <1>10 DEF Shape
<1>12. Agreed(t) BY <1>2, <1>5, <1>7, <1>9, <1>10 DEF Agreed, Replied
<1>13. Becomes(r, t)
  <2>1. task' = [task EXCEPT ![r].ask.at = at, ![r].ask.to = y.to, ![r].ask.said = y.accept, ![r].replies = q]
    BY <1>0, <1>1, <1>2, <1>3, <1>5 DEF Replied, Inv, Shaped, Shape
  <2>2. task = [s \in Requests |-> task[s]] BY DEF Inv, Shaped
  <2>3. task'[r] = t BY <1>0, <1>1, <1>2, <1>6, <1>8, <2>1, <2>2 DEF Shape
  <2>4. /\ task' = [s \in Requests |-> task'[s]]
        /\ \A s \in Requests \ {r} : task'[s] = task[s]
    BY <1>0, <2>1, <2>2
  <2>5. QED BY <1>0, <2>2, <2>3, <2>4 DEF Becomes
<1>135. Turn(r, t, person[r], loop)
  <2>1. PICK p : p = person[r] OBVIOUS
  <2>2. Turn(r, x, p, loop) /\ x.pc = "pair" /\ x.replies # <<>> BY <1>2, <2>1 DEF Inv, TurnInv, Replied
  <2>3. SUFFICES ASSUME ~p.odd PROVE Turn(r, t, p, loop) BY <2>1 DEF Turn
  <2>4. Len(x.replies) = 1 /\ x.replies[1].to = x.asks /\ x.asks \in p.told /\ \A l \in loop : l.request # r
    BY <2>2, <2>3 DEF Turn, Quiet
  <2>5. x.replies \in Seq(Reply) BY <1>1, <1>2 DEF Shape
  <2>6. y = x.replies[1] /\ q = <<>> BY <1>3, <2>2, <2>4, <2>5
  <2>7. Quiet(r, t, loop) BY <1>9, <2>4, <2>6 DEF Quiet
  <2>8. at # "steps" BY <1>5
  <2>9. QED BY <1>7, <1>9, <2>2, <2>3, <2>4, <2>6, <2>7, <2>8 DEF Turn, Quiet
<1>14. Goes(r, t) /\ Runs(t) /\ Runs(task[r])
  BY <1>2, <1>9, <1>11, <1>12, <1>13, <1>135 DEF Goes, Runs, Replied, Pairer
<1>15. QED BY <1>14, PairerKept DEF Pairs_on, Replied

\* Only numbers of prompts reach the person.
LEMMA ForwardKept ==
  ASSUME Inv, NEW r \in Pairs, Forward(r)
  PROVE  Inv'
<1>0. r \in Requests BY DEF Requests
<1>1. Shape(task[r]) /\ Agreed(task[r]) BY <1>0 DEF Inv, Shaped, AskInv
<1>2. PICK x : x = task[r] OBVIOUS
<1>3. PICK h, q : h = Head(x.steps) /\ q = Tail(x.steps) OBVIOUS
<1>4. h \in Nat /\ q \in Seq(Nat) BY <1>1, <1>2, <1>3 DEF Shape, Forward
<1>5. PICK t : t = [x EXCEPT !.steps = q] OBVIOUS
<1>6. /\ t = [pc |-> t.pc, tries |-> t.tries, asks |-> t.asks, ask |-> t.ask, steps |-> t.steps,
              replies |-> t.replies, heard |-> t.heard]
      /\ t.pc = x.pc /\ t.ask = x.ask /\ t.asks = x.asks /\ t.steps = q /\ t.replies = x.replies
  BY <1>1, <1>2, <1>5 DEF Shape
<1>7. Shape(t) /\ Agreed(t) BY <1>1, <1>2, <1>4, <1>6 DEF Shape, Agreed
<1>8. Becomes(r, t) BY <1>2, <1>3, <1>5 DEF Becomes, Forward
<1>9. \E q0 \in SUBSET Nat : /\ q0 \subseteq person[r].sees \cup ({h} \ {0})
                            /\ person' = [person EXCEPT ![r] = [person[r] EXCEPT !.sees = q0]]
  <2>1. person \in [Pairs -> Person] /\ person[r].sees \in SUBSET Nat BY DEF Inv, Shaped, Person
  <2>2. CASE r \in open
    <3>1. person' = [person EXCEPT ![r] = [person[r] EXCEPT !.sees = person[r].sees \cup ({h} \ {0})]]
      BY <1>2, <1>3, <2>1, <2>2 DEF Forward
    <3>2. QED BY <1>4, <2>1, <3>1
  <2>3. CASE r \notin open
    <3>1. person' = person BY <2>3 DEF Forward
    <3>2. person[r] = [person[r] EXCEPT !.sees = person[r].sees] BY <2>1 DEF Person
    <3>3. person' = [person EXCEPT ![r] = [person[r] EXCEPT !.sees = person[r].sees]] BY <2>1, <3>1, <3>2
    <3>4. QED BY <2>1, <3>3
  <2>4. QED BY <2>2, <2>3
<1>10. PICK q0 \in SUBSET Nat : /\ q0 \subseteq person[r].sees \cup ({h} \ {0})
                              /\ person' = [person EXCEPT ![r] = [person[r] EXCEPT !.sees = q0]]
  BY <1>9
<1>11. PICK p, p0 : p0 = person[r] /\ p = [p0 EXCEPT !.sees = q0] OBVIOUS
<1>12. p0 \in Person BY <1>11 DEF Inv, Shaped
<1>13. p \in Person /\ p.sees = q0 /\ p.told = p0.told /\ p.odd = p0.odd BY <1>11, <1>12 DEF Person
<1>14. person' = [person EXCEPT ![r] = p] BY <1>10, <1>11
<1>15. person' \in [Pairs -> Person] /\ person'[r] = p /\ \A s \in Pairs \ {r} : person'[s] = person[s]
  BY <1>13, <1>14 DEF Inv, Shaped
<1>16. Turn(r, t, p, loop)
  <2>1. Turn(r, x, p0, loop) BY <1>2, <1>11 DEF Inv, TurnInv
  <2>2. x.steps # <<>> /\ x.steps \in Seq(Nat) /\ x.asks \in Nat BY <1>1, <1>2 DEF Shape, Forward
  <2>3. h = x.steps[1] /\ 1 \in 1..Len(x.steps)
        /\ \A i \in 1..Len(q) : i + 1 \in 1..Len(x.steps) /\ q[i] = x.steps[i + 1]
    BY <1>3, <2>2
  <2>4. SUFFICES ASSUME x.pc \notin {"ending", "done"}, ~p0.odd PROVE Turn(r, t, p, loop)
    BY <1>6, <1>13 DEF Turn
  <2>5. \A i \in 1..Len(x.steps) : x.steps[i] <= x.asks BY <2>1, <2>4 DEF Turn
  <2>6. \A k \in q0 : 0 < k /\ k <= x.asks
    <3>1. \A k \in p0.sees : 0 < k /\ k <= x.asks BY <2>1, <2>4 DEF Turn
    <3>2. h # 0 => 0 < h /\ h <= x.asks BY <1>4, <2>3, <2>5
    <3>3. QED BY <1>10, <1>11, <3>1, <3>2
  <2>7. \A i \in 1..Len(q) : q[i] <= x.asks BY <2>3, <2>5
  <2>8. x.ask.at = "steps" => x.asks # 0 /\ x.asks \notin q0 /\ \A i \in 1..Len(q) : q[i] # x.asks
    <3>1. SUFFICES ASSUME x.ask.at = "steps" PROVE x.asks # 0 /\ x.asks \notin q0 /\ \A i \in 1..Len(q) : q[i] # x.asks
      OBVIOUS
    <3>2. x.asks # 0 /\ x.asks \notin p0.sees /\ \A i \in 1..Len(x.steps) : x.steps[i] # x.asks
      BY <2>1, <2>4, <3>1 DEF Turn
    <3>3. QED BY <1>10, <1>11, <2>3, <3>2
  <2>9. QED BY <1>6, <1>13, <2>1, <2>4, <2>6, <2>7, <2>8 DEF Turn, Quiet
<1>17. Goes(r, t) BY <1>7, <1>8, <1>15, <1>16 DEF Goes, Forward
<1>18. RestShaped /\ Apart(r) BY <1>15 DEF RestShaped, Inv, Shaped, Forward, Apart
<1>19. (Held(t) <=> Held(task[r])) /\ (Runs(t) <=> Runs(task[r])) BY <1>2, <1>6 DEF Held, Runs
<1>20. QED BY <1>0, <1>17, <1>18, <1>19, QuietKept DEF Forward

------------------------------------------------------------------------------

LEMMA InitInv == Init => Inv
<1>. SUFFICES ASSUME Init PROVE Inv OBVIOUS
<1>1. New.pc = "new" /\ New.ask = NoAsk BY DEF New
<1>2. New.ask = [n |-> New.ask.n, at |-> New.ask.at, to |-> New.ask.to, said |-> New.ask.said]
      /\ New.ask.n \in Nat /\ New.ask.said \in BOOLEAN /\ New.ask.at = "none"
  BY <1>1 DEF NoAsk
<1>3. Shape(New) /\ Agreed(New) BY <1>2, NewParts DEF Shape, Agreed
<1>4. ~Held(New) /\ ~Runs(New) BY <1>1 DEF Held, Runs
<1>5. task = [r \in Requests |-> New] BY DEF Init
<1>6. \A r \in Requests : task[r] = New BY <1>5
<1>7. scans = [table |-> scans.table, stopped |-> scans.stopped, asked |-> scans.asked] /\ scans.table = {}
  BY DEF Init
<1>75. person \in [Pairs -> Person]
  <2>1. [sees |-> {}, told |-> {}, odd |-> FALSE] \in Person BY DEF Person
  <2>2. QED BY <2>1 DEF Init
<1>8. Shaped BY <1>3, <1>5, <1>6, <1>7, <1>75 DEF Shaped, Init
<1>9. LockInv BY <1>4, <1>6, <1>7 DEF LockInv, Init
<1>10. TurnInv
  <2>1. PICK p : p = [sees |-> {}, told |-> {}, odd |-> FALSE] OBVIOUS
  <2>2. p.sees = {} /\ p.told = {} BY <2>1
  <2>3. New.asks = 0 /\ New.steps = <<>> /\ New.replies = <<>> /\ New.ask.n = 0 /\ New.ask.at = "none"
    BY DEF New, NoAsk
  <2>4. \A r : Turn(r, New, p, {}) BY <2>2, <2>3 DEF Turn, Quiet
  <2>5. QED BY <1>6, <2>1, <2>4 DEF TurnInv, Init, Requests
<1>11. QED BY <1>3, <1>6, <1>8, <1>9, <1>10 DEF Inv, AskInv

LEMMA StutterInv == Inv /\ UNCHANGED vars => Inv'
<1>. SUFFICES ASSUME Inv, UNCHANGED vars PROVE Inv' OBVIOUS
<1>1. UNCHANGED <<task, lock, pairings, scans, person, loop>> BY DEF vars
<1>2. QED BY <1>1, RestKept, TurnIdle, IdleKept

LEMMA NextInv == Inv /\ [Next]_vars => Inv'
<1>. SUFFICES ASSUME Inv, Next PROVE Inv' BY StutterInv
<1>1. CASE PairReplySent BY <1>1, PairReplySentKept
<1>2. CASE \E d \in Devices : unpair(d) \/ News(d) BY <1>2, AroundKept
<1>3. CASE \E r \in Requests : Request(r) \/ try_lock(r) \/ Release(r) \/ Disconnect(r)
  BY <1>3, RequestKept, LockKept, ReleaseKept, AroundKept
<1>4. CASE \E r \in Scans : ScanStop(r) \/ Discover(r) \/ ScanEnds(r) \/ \E d \in Devices : DeviceAdded(r, d)
  BY <1>4, ScanStopKept, DiscoverKept, DeviceAddedKept
<1>5. ASSUME NEW r \in Pairs,
             \/ Begin(r) \/ find(r) \/ Known(r) \/ ask(r) \/ AskQueued(r) \/ Replied(r) \/ AskCancelled(r)
             \/ Paired(r) \/ Unreached(r) \/ Again(r) \/ PairFails(r) \/ Trusted(r) \/ Forward(r)
      PROVE  Inv'
  BY <1>5, BeginKept, FindKept, KnownKept, AskKept, AskQueuedKept, RepliedKept, AskCancelledKept,
     PairedKept, UnreachedKept, AgainKept, FailsKept, ForwardKept
<1>6. ASSUME NEW r \in Pairs, \E n \in person[r].sees \cup {0}, accept \in BOOLEAN : PairReply(r, n, accept)
      PROVE  Inv'
  BY <1>6, PairReplyKept
<1>7. QED BY <1>1, <1>2, <1>3, <1>4, <1>5, <1>6 DEF Next

\* One scan or pairing runs at a time, and it is the one that holds bt_busy (the lock that
\* bluetooth() tries in each task), for any number of requests.
THEOREM OneRuns == Spec => []OneAtATime
<1>1. Inv => OneAtATime
  <2>. SUFFICES ASSUME Inv PROVE OneAtATime OBVIOUS
  <2>1. \A r \in Requests : Active(r) \/ task[r].pc = "ending" <=> r \in lock
    BY DEF Inv, LockInv, Active, Held
  <2>2. Cardinality(lock) <= 1
    <3>1. CASE lock = {} 
      <4>1. Cardinality({}) = 0 BY FS_EmptySet
      <4>2. QED BY <3>1, <4>1
    <3>2. CASE lock # {}
      <4>1. PICK r : r \in lock BY <3>2
      <4>2. lock = {r} BY <4>1 DEF Inv, LockInv
      <4>3. Cardinality({r}) = 1 BY FS_Singleton
      <4>4. QED BY <4>2, <4>3
    <3>3. QED BY <3>1, <3>2
  <2>3. QED BY <2>1, <2>2 DEF OneAtATime
<1>2. QED BY InitInv, NextInv, <1>1, PTL DEF Spec

\* The tables that a pair_reply and a scan_stop look in hold exactly the tasks that run: an
\* entry goes on every way out of its task, before the lock does.
THEOREM TablesSafe == Spec => []TablesFollow
<1>1. Inv => TablesFollow BY DEF Inv, LockInv, TablesFollow, Active, Runs
<1>2. QED BY InitInv, NextInv, <1>1, PTL DEF Spec

\* A prompt is accepted only by the very reply that the person gave to it, and a pairing that
\* asked is paired only so (ask() and the agent of pairing::pair), for any number of prompts,
\* queued replies and requests; unless a reply came unasked, or twice to one prompt.
THEOREM PairedSafe == Spec => []PairedByReply
<1>1. Inv => PairedByReply
  <2>. SUFFICES ASSUME Inv, NEW r \in Pairs, Active(r)
                PROVE  /\ task[r].pc = "trust" => task[r].asks = 0 \/ task[r].ask.at = "accepted"
                       /\ task[r].ask.at = "accepted" =>
                            task[r].ask.said /\ (task[r].ask.to = task[r].asks \/ person[r].odd)
    BY DEF PairedByReply
  <2>1. Agreed(task[r]) /\ Turn(r, task[r], person[r], loop) BY DEF Inv, AskInv, TurnInv, Requests
  <2>2. person[r].odd \in BOOLEAN BY DEF Inv, Shaped, Person
  <2>3. task[r].pc \notin {"ending", "done"} BY DEF Active
  <2>4. QED BY <2>1, <2>2, <2>3 DEF Agreed, Turn
<1>2. QED BY InitInv, NextInv, <1>1, PTL DEF Spec
=============================================================================
