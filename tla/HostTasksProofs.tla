--------------------------- MODULE HostTasksProofs ---------------------------
(***************************************************************************)
(* Proofs about the asynchronous tasks on hosts, for any hosts, tasks,     *)
(* chains and processes: the row of a host follows the host, a host that   *)
(* is awaited has a task, and a chain does one task after the other.       *)
(*                                                                         *)
(* The argument rests on Once and Fresh: nothing is queued or at work      *)
(* twice, and a chain that has a task still before it has never asked for  *)
(* it.  Then a message that is sent cannot be locked already, and what a   *)
(* chain has left behind is over.                                          *)
(***************************************************************************)
EXTENDS HostTasks, FiniteSetTheorems, TLAPS

Chains == {Chain(mix.chains[c]) : c \in DOMAIN mix.chains}
Item == SinglesOf(Tasks) \cup Chains
Msg == {m \in [id : Tasks, host : Host, ok : BOOLEAN] : KindOf(m.id) \in Column}

Has(w, t) == work[w] # Idle /\ work[w].t = t
Queued(t) == t \in ToSet(queue)
Inbox(s) == ToSet(sub[s].inbox)
Reported == locks \cup UNION {Inbox(s) : s \in Subscriber}

-----------------------------------------------------------------------------
(* The inductive invariant, part by part.  First the shape of the state.   *)

Outs == {"ok", "garbled", "failed", "raised"}
SingleWork(x) ==
  \/ x \in [t : SinglesOf(Tasks), pc : {"run"}, at : {1}, out : {None}]
  \/ x \in [t : SinglesOf(Tasks), pc : {"report"}, at : {1}, out : Outs]
ChainWork(x) ==
  /\ x \in [t : Chains, pc : {"execute", "check"}, at : Nat, out : {None}]
  /\ x.at \in DOMAIN x.t.chain

WorkShape ==
  /\ DOMAIN work = Process
  /\ \A w \in Process : work[w] = Idle \/ SingleWork(work[w]) \/ ChainWork(work[w])

AwaitedShape == DOMAIN awaited = Tasks /\ \A i \in Tasks : awaited[i] \subseteq mix.task[i].hosts

Table == [Host -> [Column -> Tasks \cup {None}]]
TableShape == on \in Table /\ row \in Table

Subs == [Subscriber -> [at : {"listening", "writing", "away"}, inbox : Seq(Msg)]]
SubShape ==
  /\ sub \in Subs
  /\ \A s \in Subscriber : /\ sub[s].at = "writing" => sub[s].inbox # <<>> /\ Handled(Message(s))
                           /\ sub[s].at = "away" => sub[s].inbox = <<>>

Shape ==
  /\ WellFormed(mix) /\ queue \in Seq(Item) /\ locks \subseteq Msg
  /\ WorkShape /\ AwaitedShape /\ TableShape /\ SubShape

\* Nothing is queued twice, at work twice, or both.
Once ==
  /\ \A m, n \in DOMAIN queue : queue[m] = queue[n] => m = n
  /\ \A w \in Process : work[w] # Idle => ~Queued(work[w].t)
  /\ \A v, w \in Process : work[v] # Idle /\ Has(w, work[v].t) => v = w

\* The task i is on hosts; or something has been heard of it.
Out(i) == \E h \in Host : Single(i, h) \in UnderWay
Touched(i) == Out(i) \/ \E m \in Reported : m.id = i

\* The chain c has its task j still before it.
Ahead(c, j) ==
  \/ Queued(Chain(mix.chains[c]))
  \/ \E w \in Process : /\ Has(w, Chain(mix.chains[c]))
                        /\ work[w].at < j \/ (work[w].at = j /\ work[w].pc = "execute")

\* What was reported is not under way, and what a chain has before it was never.
Fresh ==
  /\ \A m \in Reported : Single(m.id, m.host) \notin UnderWay
  /\ \A c \in DOMAIN mix.chains : \A j \in DOMAIN mix.chains[c] :
       Ahead(c, j) => ~Touched(mix.chains[c][j])

\* The chains: a task that is on a host is awaited there, what a chain has behind it is
\* over, and of two tasks that are on hosts the first was given up.
AwaitedWhileOut ==
  \A i \in Tasks :
    Blind(i) \in marks \/ (\A h \in Host : Single(i, h) \in UnderWay => h \in awaited[i])
Over(i) == Blind(i) \in marks \/ ~Out(i)
BehindOver ==
  \A c \in DOMAIN mix.chains : \A w \in Process : Has(w, Chain(mix.chains[c])) =>
    \A j \in DOMAIN mix.chains[c] : j < work[w].at => Over(mix.chains[c][j])
InTurn ==
  \A c \in DOMAIN mix.chains : \A j, k \in DOMAIN mix.chains[c] :
    j < k /\ Out(mix.chains[c][j]) /\ Out(mix.chains[c][k]) => Blind(mix.chains[c][j]) \in marks

\* A result that no handler can report is lost from the start.
Unreported ==
  \A w \in Process : Working(w, "report") /\ ~Reports(KindOf(work[w].t.id), work[w].out) =>
    Lost(work[w].t.id) \in marks

\* The rows: a host h and a kind k of which no tasks crossed and no message was missed.
Clean(k, h) == <<"crossed", k, h>> \notin marks /\ <<"missed", k, h>> \notin marks
OnIt(w, k, h) == work[w] # Idle /\ On(work[w].t, k, h)
Of(m, k, h) == m.host = h /\ KindOf(m.id) = k
Good(m, k, h) == Of(m, k, h) /\ m.ok
Fits(k, h) == row[h][k] = on[h][k]

\* One process is at it, and then nothing about it waits with the subscribers.
OneAtWork(k, h) == \A v, w \in Process : OnIt(v, k, h) /\ OnIt(w, k, h) => v = w
NoneSent(k, h) ==
  \A w \in Process, s \in Subscriber : OnIt(w, k, h) => \A m \in Inbox(s) : ~Of(m, k, h)

\* The row fits until the command has run, and then unless it succeeded.
FitsBefore(k, h) == \A w \in Process : OnIt(w, k, h) /\ Working(w, "run") => Fits(k, h)
KnownAfter(k, h) ==
  \A w \in Process : OnIt(w, k, h) /\ Working(w, "report") =>
    IF work[w].out = "ok" THEN on[h][k] = work[w].t.id ELSE Fits(k, h)

\* A message of success tells of the last task.  If it is locked, the row was written
\* or is being written: it does no harm to drop it.
Newest(k, h) == \A s \in Subscriber : \A m \in Inbox(s) : Good(m, k, h) => on[h][k] = m.id
Writes(r, m) == sub[r].at = "writing" /\ Message(r) = m
LockedHandled(k, h) ==
  \A s \in Subscriber : \A m \in Inbox(s) : Good(m, k, h) /\ m \in locks =>
    Fits(k, h) \/ \E r \in Subscriber : Writes(r, m)

\* What the row lacks is on its way to it.
OnItsWay(k, h) ==
  \/ \E w \in Process : OnIt(w, k, h) /\ Working(w, "report") /\ work[w].out = "ok"
  \/ \E s \in Subscriber : \E m \in Inbox(s) : Good(m, k, h)

RowInv(k, h) ==
  /\ OneAtWork(k, h) /\ NoneSent(k, h) /\ FitsBefore(k, h) /\ KnownAfter(k, h)
  /\ Newest(k, h) /\ LockedHandled(k, h) /\ (Fits(k, h) \/ OnItsWay(k, h))

Rows == \A h \in Host, k \in Column : Clean(k, h) => RowInv(k, h)

-----------------------------------------------------------------------------
(* Queues.                                                                 *)

Distinct(s) == \A m, n \in DOMAIN s : s[m] = s[n] => m = n

LEMMA Orders ==
  ASSUME NEW S, IsFiniteSet(S)
  PROVE  LET s == SetToSeq(S) IN s \in Seq(S) /\ ToSet(s) = S /\ Distinct(s)
<1> DEFINE n == Cardinality(S)
<1>1. n \in Nat /\ ExistsBijection(1..n, S)
  BY FS_CardinalityType
<1>2. PICK f \in [1..n -> S] : IsInjective(f)
  BY <1>1 DEF ExistsBijection, Bijection, Injection, IsInjective
<1>3. SetToSeq(S) \in [1..n -> S] /\ IsInjective(SetToSeq(S))
  BY <1>2 DEF SetToSeq
<1> DEFINE s == SetToSeq(S)
<1> HIDE DEF s
<1>4. s \in Injection(1..n, S)
  BY <1>3 DEF s, Injection, IsInjective
<1>5. Cardinality(1..n) = n
  BY <1>1, FS_Interval
<1>6. s \in Surjection(1..n, S)
  BY <1>4, <1>5, FS_Injection
<1>7. s \in Seq(S) /\ Len(s) = n /\ DOMAIN s = 1..n
  BY <1>1, <1>3 DEF s
<1>8. ToSet(s) = S
  BY <1>6, <1>7 DEF ToSet, Surjection
<1> QED BY <1>3, <1>7, <1>8 DEF s, Distinct, IsInjective

LEMMA First ==
  ASSUME NEW S, NEW s \in Seq(S), s # <<>>, Distinct(s)
  PROVE  /\ Head(s) \in S /\ Head(s) \in ToSet(s) /\ Tail(s) \in Seq(S)
         /\ ToSet(Tail(s)) = ToSet(s) \ {Head(s)} /\ Distinct(Tail(s))
<1> DEFINE r == Tail(s)
<1>1. /\ r \in Seq(S) /\ Len(s) \in Nat /\ Len(s) > 0 /\ DOMAIN s = 1..Len(s)
      /\ DOMAIN r = 1..(Len(s) - 1)
      /\ \A n \in 1..(Len(s) - 1) : r[n] = s[n + 1]
      /\ Head(s) = s[1] /\ Head(s) \in S
  OBVIOUS
<1> HIDE DEF r
<1>2. ASSUME NEW n \in DOMAIN r PROVE n + 1 \in DOMAIN s /\ n + 1 # 1 /\ r[n] = s[n + 1]
  BY <1>1
<1>3. 1 \in DOMAIN s
  BY <1>1
<1>4. ToSet(r) \subseteq ToSet(s) \ {s[1]}
  BY <1>2, <1>3 DEF ToSet, Distinct
<1>5. ASSUME NEW m \in DOMAIN s, s[m] # s[1] PROVE s[m] \in ToSet(r)
  <2>1. m - 1 \in DOMAIN r /\ r[m - 1] = s[m]
    BY <1>1, <1>5
  <2> QED BY <2>1 DEF ToSet
<1>6. Distinct(r)
  <2> SUFFICES ASSUME NEW m \in DOMAIN r, NEW n \in DOMAIN r, r[m] = r[n] PROVE m = n
    BY DEF Distinct
  <2>1. m + 1 = n + 1
    BY <1>2 DEF Distinct
  <2> QED BY <1>1, <2>1
<1>7. ToSet(r) = ToSet(s) \ {s[1]}
  BY <1>4, <1>5 DEF ToSet
<1> QED BY <1>1, <1>3, <1>6, <1>7 DEF r, ToSet

LEMMA Joined ==
  ASSUME NEW S, NEW s \in Seq(S), NEW r \in Seq(S)
  PROVE  /\ s \o r \in Seq(S) /\ ToSet(s \o r) = ToSet(s) \cup ToSet(r)
         /\ Distinct(s) /\ Distinct(r) /\ ToSet(s) \cap ToSet(r) = {} => Distinct(s \o r)
<1> DEFINE q == s \o r
<1>1. /\ q \in Seq(S) /\ Len(s) \in Nat /\ Len(r) \in Nat
      /\ DOMAIN s = 1..Len(s) /\ DOMAIN r = 1..Len(r) /\ DOMAIN q = 1..(Len(s) + Len(r))
      /\ \A n \in 1..Len(s) : q[n] = s[n]
      /\ \A n \in 1..(Len(s) + Len(r)) : n > Len(s) => q[n] = r[n - Len(s)]
  OBVIOUS
<1> HIDE DEF q
<1>2. ASSUME NEW n \in DOMAIN q
      PROVE  (n \in DOMAIN s /\ q[n] = s[n]) \/ (n - Len(s) \in DOMAIN r /\ q[n] = r[n - Len(s)])
  BY <1>1
<1>3. ToSet(q) \subseteq ToSet(s) \cup ToSet(r)
  BY <1>2 DEF ToSet
<1>4. ASSUME NEW n \in DOMAIN s PROVE s[n] \in ToSet(q)
  <2>1. n \in DOMAIN q /\ q[n] = s[n]
    BY <1>1
  <2> QED BY <2>1 DEF ToSet
<1>5. ASSUME NEW n \in DOMAIN r PROVE r[n] \in ToSet(q)
  <2>1. n + Len(s) \in DOMAIN q /\ q[n + Len(s)] = r[n]
    BY <1>1
  <2> QED BY <2>1 DEF ToSet
<1>6. ASSUME Distinct(s), Distinct(r), ToSet(s) \cap ToSet(r) = {} PROVE Distinct(q)
  <2> SUFFICES ASSUME NEW m \in DOMAIN q, NEW n \in DOMAIN q, q[m] = q[n] PROVE m = n
    BY DEF Distinct
  <2>1. CASE m \in DOMAIN s /\ q[m] = s[m] /\ n \in DOMAIN s /\ q[n] = s[n]
    BY <1>6, <2>1 DEF Distinct
  <2>2. CASE /\ m - Len(s) \in DOMAIN r /\ q[m] = r[m - Len(s)]
             /\ n - Len(s) \in DOMAIN r /\ q[n] = r[n - Len(s)]
    <3>1. m - Len(s) = n - Len(s)
      BY <1>6, <2>2 DEF Distinct
    <3> QED BY <1>1, <3>1
  <2> QED BY <1>2, <1>6, <2>1, <2>2 DEF ToSet
<1> QED BY <1>1, <1>3, <1>4, <1>5, <1>6 DEF q, ToSet

LEMMA JoinedApart ==
  ASSUME NEW S, NEW s \in Seq(S), NEW r \in Seq(S),
         Distinct(s), Distinct(r), ToSet(s) \cap ToSet(r) = {}
  PROVE  s \o r \in Seq(S) /\ ToSet(s \o r) = ToSet(s) \cup ToSet(r) /\ Distinct(s \o r)
BY Joined

LEMMA Appended ==
  ASSUME NEW S, NEW s \in Seq(S), NEW x \in S
  PROVE  Append(s, x) \in Seq(S) /\ ToSet(Append(s, x)) = ToSet(s) \cup {x}
<1> DEFINE r == <<x>>
<1>1. r \in Seq(S) /\ ToSet(r) = {x} /\ Append(s, x) = s \o r
  BY DEF ToSet
<1> HIDE DEF r
<1>2. s \o r \in Seq(S) /\ ToSet(s \o r) = ToSet(s) \cup ToSet(r)
  BY <1>1, Joined
<1> QED BY <1>1, <1>2

\* The head of a queue that may hold something twice.
LEMMA Popped ==
  ASSUME NEW S, NEW s \in Seq(S), s # <<>>
  PROVE  /\ Head(s) \in S /\ Head(s) \in ToSet(s) /\ Tail(s) \in Seq(S)
         /\ ToSet(Tail(s)) \subseteq ToSet(s) /\ ToSet(s) \subseteq ToSet(Tail(s)) \cup {Head(s)}
<1> DEFINE r == Tail(s)
<1>1. /\ r \in Seq(S) /\ Len(s) \in Nat /\ Len(s) > 0 /\ DOMAIN s = 1..Len(s)
      /\ DOMAIN r = 1..(Len(s) - 1)
      /\ \A n \in 1..(Len(s) - 1) : r[n] = s[n + 1]
      /\ Head(s) = s[1] /\ Head(s) \in S /\ 1 \in DOMAIN s
  OBVIOUS
<1> HIDE DEF r
<1>2. ASSUME NEW n \in DOMAIN r PROVE n + 1 \in DOMAIN s /\ r[n] = s[n + 1]
  BY <1>1
<1>3. ASSUME NEW m \in DOMAIN s, m # 1 PROVE m - 1 \in DOMAIN r /\ r[m - 1] = s[m]
  BY <1>1, <1>3
<1>4. ToSet(r) \subseteq ToSet(s)
  BY <1>2 DEF ToSet
<1>5. ToSet(s) \subseteq ToSet(r) \cup {s[1]}
  BY <1>3 DEF ToSet
<1> QED BY <1>1, <1>4, <1>5 DEF r, ToSet

-----------------------------------------------------------------------------
(* What there is to do does not change.                                    *)

LEMMA MixFacts ==
  ASSUME WellFormed(mix)
  PROVE  /\ mix.troubles \in Nat
         /\ \A i \in Tasks : i \in Task /\ i # None /\ mix.task[i].hosts \in SUBSET Host
         /\ \A c \in DOMAIN mix.chains :
              /\ mix.chains[c] \in Seq(Task) /\ mix.chains[c] # <<>> /\ 1 \in DOMAIN mix.chains[c]
              /\ \A j \in DOMAIN mix.chains[c] : mix.chains[c][j] \in Tasks
<1>1. /\ mix \in Mix
      /\ \A c \in DOMAIN mix.chains :
           mix.chains[c] # <<>> /\ ToSet(mix.chains[c]) \subseteq DOMAIN mix.task
  BY DEF WellFormed
<1>2. /\ mix.troubles \in Nat /\ mix.chains \in Seq(Seq(Task))
      /\ \E T \in SUBSET Task : mix.task \in [T -> [kind : Kind, hosts : SUBSET Host]]
  BY <1>1 DEF Mix
<1>3. \A i \in Tasks : i \in Task /\ i # None /\ mix.task[i].hosts \in SUBSET Host
  BY <1>2, NoneAssumption DEF Tasks
<1>4. ASSUME NEW c \in DOMAIN mix.chains
      PROVE  /\ mix.chains[c] \in Seq(Task) /\ mix.chains[c] # <<>> /\ 1 \in DOMAIN mix.chains[c]
             /\ \A j \in DOMAIN mix.chains[c] : mix.chains[c][j] \in Tasks
  <2>1. mix.chains[c] \in Seq(Task) /\ mix.chains[c] # <<>>
    BY <1>1, <1>2
  <2> QED BY <1>1, <2>1 DEF ToSet, Tasks
<1> QED BY <1>2, <1>3, <1>4

LEMMA SingleFacts ==
  ASSUME WellFormed(mix), NEW t \in SinglesOf(Tasks)
  PROVE  /\ ~IsChain(t) /\ t.chain = <<>> /\ t.id \in Tasks /\ t.id # None /\ t.host \in Host
         /\ t.host \in mix.task[t.id].hosts /\ t = Single(t.id, t.host)
<1>1. PICK i \in Tasks : t \in {Single(i, h) : h \in mix.task[i].hosts}
  BY DEF SinglesOf
<1>2. PICK h \in mix.task[i].hosts : t = Single(i, h)
  BY <1>1
<1>3. t.chain = <<>> /\ t.id = i /\ t.host = h
  BY <1>2 DEF Single
<1> QED BY <1>2, <1>3, MixFacts DEF IsChain

LEMMA ChainFacts ==
  ASSUME WellFormed(mix), NEW t \in Chains
  PROVE  /\ IsChain(t) /\ t.id = None /\ t.host = None
         /\ \E c \in DOMAIN mix.chains : t.chain = mix.chains[c] /\ t = Chain(mix.chains[c])
<1>1. PICK c \in DOMAIN mix.chains : t = Chain(mix.chains[c])
  BY DEF Chains
<1>2. t.chain = mix.chains[c] /\ t.id = None /\ t.host = None
  BY <1>1 DEF Chain
<1> QED BY <1>1, <1>2, MixFacts DEF IsChain

Still == mix'.task = mix.task /\ mix'.chains = mix.chains

LEMMA Kept ==
  ASSUME WellFormed(mix), mix' = mix \/ Trouble
  PROVE  WellFormed(mix)' /\ Still
<1>1. CASE mix' = mix
  BY <1>1 DEF WellFormed, Still
<1>2. CASE Trouble
  <2>1. mix \in [task : UNION {[T -> [kind : Kind, hosts : SUBSET Host]] : T \in SUBSET Task},
                 chains : Seq(Seq(Task)), troubles : Nat]
    BY DEF WellFormed, Mix
  <2>2. /\ mix' = [mix EXCEPT !.troubles = mix.troubles - 1] /\ mix.troubles - 1 \in Nat
    BY <1>2, <2>1 DEF Trouble
  <2>3. mix' \in Mix /\ Still
    BY <2>1, <2>2 DEF Mix, Still
  <2> QED BY <2>3 DEF WellFormed, Still
<1> QED BY <1>1, <1>2

LEMMA StepKeeps == [Steps]_vars => mix' = mix \/ Trouble
<1> SUFFICES ASSUME [Steps]_vars PROVE mix' = mix \/ Trouble
  OBVIOUS
<1>1. ASSUME NEW w \in Process, Work(w) \/ WorkerDies(w) PROVE mix' = mix \/ Trouble
  <2>1. CASE Take(w) \/ Run(w) \/ ReportFails(w) \/ ReportLost(w) \/ WorkerDies(w)
    BY <2>1 DEF Take, Run, ReportFails, ReportLost, WorkerDies
  <2>2. CASE Report(w)
    BY <2>2 DEF Report
  <2>3. CASE Execute(w) \/ ExecuteFails(w) \/ Check(w)
    BY <2>3 DEF Execute, ExecuteFails, Check
  <2> QED BY <1>1, <2>1, <2>2, <2>3 DEF Work
<1>2. ASSUME NEW s \in Subscriber, Callback(s) \/ SubscriptionEnds(s) PROVE mix' = mix \/ Trouble
  BY <1>2 DEF Callback, SubscriptionEnds, Drop, Lock, Update, Subscribe
<1>3. CASE \/ \E m \in locks : LockExpires(m)
           \/ \E i \in Tasks : CorrectData(i)
           \/ TokenExpires
  BY <1>3 DEF LockExpires, CorrectData, TokenExpires
<1> QED BY <1>1, <1>2, <1>3 DEF Steps, vars

LEMMA StillSame ==
  ASSUME Still
  PROVE  /\ Tasks' = Tasks /\ Item' = Item /\ Msg' = Msg /\ Chains' = Chains
         /\ SinglesOf(Tasks)' = SinglesOf(Tasks)
         /\ \A i : KindOf(i)' = KindOf(i)
<1>1. Tasks' = Tasks /\ \A i : KindOf(i)' = KindOf(i)
  BY DEF Still, Tasks, KindOf
<1>2. Chains' = Chains /\ SinglesOf(Tasks)' = SinglesOf(Tasks)
  BY <1>1 DEF Still, Chains, SinglesOf
<1> QED BY <1>1, <1>2 DEF Item, Msg

LEMMA FinitelyMany == ASSUME WellFormed(mix), NEW S \in SUBSET Tasks PROVE IsFiniteSet(SinglesOf(S))
<1> DEFINE P == {p \in Task \X Host : p[1] \in S /\ p[2] \in mix.task[p[1]].hosts}
           f == [p \in P |-> Single(p[1], p[2])]
<1>1. IsFiniteSet(Task \X Host)
  BY HostAssumption, FS_Product
<1>2. IsFiniteSet(P)
  BY <1>1, FS_Subset
<1>3. f \in [P -> SinglesOf(S)]
  BY DEF SinglesOf
<1>4. ASSUME NEW t \in SinglesOf(S) PROVE \E p \in P : f[p] = t
  <2>1. PICK i \in S : t \in {Single(i, h) : h \in mix.task[i].hosts}
    BY DEF SinglesOf
  <2>2. PICK h \in mix.task[i].hosts : t = Single(i, h)
    BY <2>1
  <2>3. <<i, h>> \in P
    BY MixFacts
  <2>4. f[<<i, h>>] = t
    BY <2>2, <2>3
  <2> QED BY <2>3, <2>4
<1> HIDE DEF P, f
<1>5. f \in Surjection(P, SinglesOf(S))
  BY <1>3, <1>4 DEF Surjection
<1> QED BY <1>2, <1>5, FS_Surjection

LEMMA SinglesFacts ==
  ASSUME WellFormed(mix), NEW S \in SUBSET Tasks
  PROVE  /\ Singles(S) \in Seq(Item) /\ ToSet(Singles(S)) = SinglesOf(S) /\ Distinct(Singles(S))
         /\ SinglesOf(S) \subseteq SinglesOf(Tasks)
<1>1. /\ Singles(S) \in Seq(SinglesOf(S)) /\ ToSet(Singles(S)) = SinglesOf(S)
      /\ Distinct(Singles(S))
  BY FinitelyMany, Orders DEF Singles
<1>2. SinglesOf(S) \subseteq SinglesOf(Tasks)
  BY DEF SinglesOf
<1>3. SinglesOf(S) \subseteq Item
  BY <1>2 DEF Item
<1>4. Singles(S) \in Seq(Item)
  BY <1>1, <1>3
<1> QED BY <1>1, <1>2, <1>4

\* Where a process is says what it is at.
LEMMA PlaceFacts ==
  ASSUME Shape, NEW w \in Process
  PROVE  /\ Working(w, "run") \/ Working(w, "report") =>
              work[w] # Idle /\ SingleWork(work[w]) /\ work[w].t \in SinglesOf(Tasks)
         /\ Working(w, "execute") \/ Working(w, "check") =>
              work[w] # Idle /\ ChainWork(work[w]) /\ work[w].t \in Chains
         /\ work[w] # Idle => (work[w].t \in Item /\ (IsChain(work[w].t) => ChainWork(work[w]))
                               /\ (~IsChain(work[w].t) => SingleWork(work[w])))
<1>1. work[w] = Idle \/ SingleWork(work[w]) \/ ChainWork(work[w])
  BY DEF Shape, WorkShape
<1>2. ASSUME work[w] = Idle PROVE work[w].pc = "idle"
  BY <1>2 DEF Idle
<1>3. ASSUME SingleWork(work[w])
      PROVE  /\ work[w].t \in SinglesOf(Tasks) /\ work[w].pc \in {"run", "report"}
             /\ work[w] # Idle /\ ~IsChain(work[w].t)
  <2>1. work[w].t \in SinglesOf(Tasks) /\ work[w].pc \in {"run", "report"}
    BY <1>3 DEF SingleWork
  <2> QED BY <1>2, <2>1, SingleFacts DEF Shape
<1>4. ASSUME ChainWork(work[w])
      PROVE  /\ work[w].t \in Chains /\ work[w].pc \in {"execute", "check"}
             /\ work[w] # Idle /\ IsChain(work[w].t)
  <2>1. work[w].t \in Chains /\ work[w].pc \in {"execute", "check"}
    BY <1>4 DEF ChainWork
  <2> QED BY <1>2, <2>1, ChainFacts DEF Shape
<1> QED BY <1>1, <1>2, <1>3, <1>4 DEF Working, Item

\* A step of a process leaves the other processes alone.
LEMMA OneMoves ==
  ASSUME Shape, NEW v \in Process, Work(v) \/ WorkerDies(v)
  PROVE  \A w \in Process \ {v} : work'[w] = work[w]
<1>1. \A x : Becomes(v, x) => \A w \in Process \ {v} : work'[w] = work[w]
  BY DEF Becomes, Shape, WorkShape
<1>2. Onward(v) => \A w \in Process \ {v} : work'[w] = work[w]
  BY <1>1 DEF Onward
<1>3. CASE Take(v) \/ Run(v)
  BY <1>1, <1>3 DEF Take, Run
<1>4. CASE Report(v) \/ ReportLost(v) \/ ReportFails(v) \/ WorkerDies(v)
  BY <1>1, <1>4 DEF Report, ReportLost, ReportFails, WorkerDies
<1>5. CASE Execute(v) \/ ExecuteFails(v) \/ Check(v)
  BY <1>1, <1>2, <1>5 DEF Execute, ExecuteFails, Check
<1> QED BY <1>3, <1>4, <1>5 DEF Work

LEMMA WorkShapeKept ==
  ASSUME Shape, Still, NEW w \in Process, NEW x, Becomes(w, x),
         x = Idle \/ SingleWork(x) \/ ChainWork(x)
  PROVE  WorkShape'
<1>1. DOMAIN work' = Process /\ work'[w] = x /\ \A v \in Process \ {w} : work'[v] = work[v]
  BY DEF Shape, WorkShape, Becomes
<1>2. \A y : (SingleWork(y)' <=> SingleWork(y)) /\ (ChainWork(y)' <=> ChainWork(y))
  BY StillSame DEF SingleWork, ChainWork
<1>3. ASSUME NEW v \in Process
      PROVE  work'[v] = Idle \/ SingleWork(work'[v]) \/ ChainWork(work'[v])
  BY <1>1 DEF Shape, WorkShape
<1>4. ASSUME NEW v \in Process
      PROVE  work'[v] = Idle' \/ SingleWork(work[v])' \/ ChainWork(work[v])'
  BY <1>2, <1>3, StillSame DEF SingleWork, ChainWork, Idle
<1> QED BY <1>1, <1>4 DEF WorkShape

-----------------------------------------------------------------------------
(* What is under way.                                                      *)

LEMMA UnderWayIs == \A t : t \in UnderWay <=> Queued(t) \/ \E w \in Process : Has(w, t)
BY DEF UnderWay, AtWork, Queued, Has

\* Process v goes on with what it is at, if only to the next task of its chain, or is free.
GoesOn(v) ==
  \/ work'[v] = work[v] \/ work'[v] = Idle
  \/ /\ work[v] # Idle /\ work'[v] # Idle /\ work'[v].t = work[v].t
     /\ IsChain(work[v].t) => work'[v].at = work[v].at + 1
Continues == queue' = queue /\ \A v \in Process : GoesOn(v)

LEMMA NextTurn ==
  ASSUME NEW r \in [t : Chains, pc : {"execute", "check"}, at : Nat, out : {None}]
  PROVE  [r EXCEPT !.at = r.at + 1, !.pc = "execute"]
           = [t |-> r.t, pc |-> "execute", at |-> r.at + 1, out |-> None]
<1> DEFINE n == r.at + 1
           z == [r EXCEPT !.at = n]
<1>1. z = [t |-> r.t, pc |-> r.pc, at |-> n, out |-> None]
  OBVIOUS
<1>2. [r EXCEPT !.at = n, !.pc = "execute"] = [z EXCEPT !.pc = "execute"]
  OBVIOUS
<1> HIDE DEF z
<1>3. [z EXCEPT !.pc = "execute"] = [t |-> r.t, pc |-> "execute", at |-> n, out |-> None]
  BY <1>1
<1> QED BY <1>2, <1>3

LEMMA OnwardIs ==
  ASSUME Shape, NEW w \in Process, Working(w, "execute") \/ Working(w, "check"), Onward(w)
  PROVE  /\ WorkShape' \/ ~Still
         /\ \A v \in Process : GoesOn(v)
<1>1. /\ work[w] # Idle /\ work[w].t \in Chains /\ work[w].at \in DOMAIN work[w].t.chain
      /\ work[w] \in [t : Chains, pc : {"execute", "check"}, at : Nat, out : {None}]
  BY PlaceFacts DEF ChainWork
<1>2. PICK c \in DOMAIN mix.chains : work[w].t.chain = mix.chains[c]
  BY <1>1, ChainFacts DEF Shape
<1>3. mix.chains[c] \in Seq(Task)
  BY MixFacts DEF Shape
<1> DEFINE x == IF work[w].at < Len(work[w].t.chain)
                THEN [work[w] EXCEPT !.at = work[w].at + 1, !.pc = "execute"] ELSE Idle
<1>4. Becomes(w, x)
  BY DEF Onward
<1>5. CASE x = Idle
  <2>1. Still => WorkShape'
    BY <1>4, <1>5, WorkShapeKept
  <2>2. \A v \in Process : GoesOn(v)
    BY <1>4, <1>5 DEF Becomes, GoesOn, Shape, WorkShape
  <2> QED BY <2>1, <2>2
<1>6. CASE work[w].at < Len(work[w].t.chain)
  <2>1. /\ x.t = work[w].t /\ x.at = work[w].at + 1 /\ x.pc = "execute"
        /\ x \in [t : Chains, pc : {"execute", "check"}, at : Nat, out : {None}]
    <3>1. x = [work[w] EXCEPT !.at = work[w].at + 1, !.pc = "execute"]
      BY <1>6
    <3>2. x = [t |-> work[w].t, pc |-> "execute", at |-> work[w].at + 1, out |-> None]
      BY <1>1, <3>1, NextTurn
    <3>3. work[w].t \in Chains /\ work[w].at \in Nat
      BY <1>1
    <3> HIDE DEF x
    <3> QED BY <3>2, <3>3
  <2>2. ChainWork(x) /\ x # Idle
    <3>1. work[w].at + 1 \in DOMAIN work[w].t.chain
      BY <1>1, <1>2, <1>3, <1>6
    <3> QED BY <2>1, <3>1 DEF ChainWork, Idle
  <2> HIDE DEF x
  <2>3. Still => WorkShape'
    BY <1>4, <2>2, WorkShapeKept
  <2>4. work'[w] = x /\ \A v \in Process \ {w} : work'[v] = work[v]
    BY <1>4 DEF Becomes, Shape, WorkShape
  <2>5. \A v \in Process : GoesOn(v)
    BY <1>1, <2>1, <2>2, <2>4 DEF GoesOn
  <2> QED BY <2>3, <2>5
<1> QED BY <1>5, <1>6

LEMMA Freed ==
  ASSUME Shape, NEW w \in Process, Becomes(w, Idle)
  PROVE  /\ WorkShape' \/ ~Still
         /\ \A v \in Process : GoesOn(v)
<1>1. Still => WorkShape'
  BY WorkShapeKept
<1>2. \A v \in Process : GoesOn(v)
  BY DEF Becomes, GoesOn, Shape, WorkShape
<1> QED BY <1>1, <1>2

LEMMA RunIs ==
  ASSUME Shape, NEW w \in Process, Run(w)
  PROVE  /\ WorkShape' \/ ~Still
         /\ \A v \in Process : GoesOn(v)
<1>1. PICK o \in Outcome : Becomes(w, [work[w] EXCEPT !.pc = "report", !.out = o.out])
  BY DEF Run
<1>2. work[w] # Idle /\ SingleWork(work[w]) /\ ~IsChain(work[w].t) /\ work[w].pc = "run"
  BY PlaceFacts, SingleFacts DEF Run, Working, Shape
<1> DEFINE x == [work[w] EXCEPT !.pc = "report", !.out = o.out]
<1>3. o.out \in Outs
  BY DEF Outcome, Outs
<1>4. x.t = work[w].t /\ x \in [t : SinglesOf(Tasks), pc : {"report"}, at : {1}, out : Outs]
  BY <1>2, <1>3 DEF SingleWork
<1>5. x # Idle /\ SingleWork(x) /\ Becomes(w, x)
  BY <1>1, <1>4 DEF Idle, SingleWork
<1> HIDE DEF x
<1>6. Still => WorkShape'
  BY <1>5, WorkShapeKept
<1>7. work'[w] = x /\ \A v \in Process \ {w} : work'[v] = work[v]
  BY <1>5 DEF Becomes, Shape, WorkShape
<1>8. \A v \in Process : GoesOn(v)
  BY <1>2, <1>4, <1>5, <1>7 DEF GoesOn
<1> QED BY <1>6, <1>8

\* Every step but these two.
LEMMA StepContinues ==
  ASSUME Shape, [Steps]_vars, \A w \in Process : ~Take(w) /\ ~Execute(w)
  PROVE  Continues /\ WorkShape'
<1>1. Still
  BY StepKeeps, Kept DEF Shape
<1>2. ASSUME NEW w \in Process, Work(w) \/ WorkerDies(w) PROVE Continues /\ WorkShape'
  <2>1. CASE Run(w)
    BY <1>1, <2>1, RunIs DEF Continues, Run
  <2>2. CASE Report(w) \/ ReportLost(w) \/ ReportFails(w) \/ WorkerDies(w)
    <3>1. Becomes(w, Idle) /\ queue' = queue
      BY <2>2 DEF Report, ReportLost, ReportFails, WorkerDies
    <3> QED BY <1>1, <3>1, Freed DEF Continues
  <2>3. CASE ExecuteFails(w) \/ Check(w)
    <3>1. Onward(w) /\ queue' = queue /\ (Working(w, "execute") \/ Working(w, "check"))
      BY <2>3 DEF ExecuteFails, Check
    <3> QED BY <1>1, <3>1, OnwardIs DEF Continues
  <2> QED BY <1>2, <2>1, <2>2, <2>3 DEF Work
<1>3. CASE UNCHANGED <<queue, work>>
  <2>1. Continues
    BY <1>3 DEF Continues, GoesOn
  <2>2. \A y : (SingleWork(y)' <=> SingleWork(y)) /\ (ChainWork(y)' <=> ChainWork(y))
    BY <1>1, StillSame DEF SingleWork, ChainWork
  <2>3. \A w \in Process : work'[w] = Idle \/ SingleWork(work[w])' \/ ChainWork(work[w])'
    BY <1>1, <1>3, StillSame DEF Shape, WorkShape, SingleWork, ChainWork
  <2>4. WorkShape'
    BY <1>3, <2>3 DEF Shape, WorkShape, Idle
  <2> QED BY <2>1, <2>4
<1>4. ASSUME NEW s \in Subscriber, Callback(s) \/ SubscriptionEnds(s)
      PROVE  UNCHANGED <<queue, work>>
  BY <1>4 DEF Callback, SubscriptionEnds, Drop, Lock, Update, Subscribe
<1>5. CASE \/ \E m \in locks : LockExpires(m)
           \/ \E i \in Tasks : CorrectData(i)
           \/ TokenExpires
           \/ UNCHANGED vars
  <2>1. UNCHANGED <<queue, work>>
    BY <1>5 DEF LockExpires, CorrectData, TokenExpires, vars
  <2> QED BY <1>3, <2>1
<1> QED BY <1>2, <1>3, <1>4, <1>5 DEF Steps

LEMMA TakeIs ==
  ASSUME Shape, Once, NEW w \in Process, Take(w)
  PROVE  /\ WorkShape' /\ queue' \in Seq(Item) /\ Distinct(queue')
         /\ Queued(Head(queue)) /\ Head(queue) \in Item /\ work[w] = Idle
         /\ \A t : Queued(t)' <=> Queued(t) /\ t # Head(queue)
         /\ work'[w] # Idle /\ work'[w].t = Head(queue) /\ work'[w].at = 1
         /\ work'[w].pc = (IF IsChain(Head(queue)) THEN "execute" ELSE "run")
         /\ work'[w].out = None
         /\ \A v \in Process \ {w} : work'[v] = work[v]
         /\ Still
<1> DEFINE t == Head(queue)
           x == [t |-> t, pc |-> IF IsChain(t) THEN "execute" ELSE "run", at |-> 1, out |-> None]
<1>1. queue \in Seq(Item) /\ queue # <<>> /\ Distinct(queue) /\ queue' = Tail(queue)
      /\ work[w] = Idle
  BY DEF Shape, Once, Distinct, Take
<1>2. /\ t \in Item /\ Queued(t) /\ queue' \in Seq(Item) /\ Distinct(queue')
      /\ ToSet(queue') = ToSet(queue) \ {t}
  BY <1>1, First DEF Queued
<1>3. Becomes(w, x) /\ Still
  BY DEF Take, Still
<1> HIDE DEF t
<1>4. x.t = t /\ x.at = 1 /\ x.out = None /\ x.pc = (IF IsChain(t) THEN "execute" ELSE "run")
  OBVIOUS
<1>5. CASE t \in SinglesOf(Tasks)
  <2>1. x \in [t : SinglesOf(Tasks), pc : {"run"}, at : {1}, out : {None}]
    BY <1>5, SingleFacts DEF Shape
  <2> QED BY <2>1, <1>3, <1>4, WorkShapeKept, <1>1, <1>2
             DEF SingleWork, t, Becomes, Shape, WorkShape, Idle, Queued
<1>6. CASE t \in Chains
  <2>1. x \in [t : Chains, pc : {"execute", "check"}, at : Nat, out : {None}]
    BY <1>6, ChainFacts DEF Shape
  <2>2. 1 \in DOMAIN t.chain
    BY <1>6, ChainFacts, MixFacts DEF Shape
  <2> QED BY <2>1, <2>2, <1>3, <1>4, WorkShapeKept, <1>1, <1>2
             DEF ChainWork, t, Becomes, Shape, WorkShape, Idle, Queued
<1> QED BY <1>2, <1>5, <1>6 DEF Item

LEMMA OneSingle == \A i, h : Single(i, h) \in SinglesOf({i}) <=> h \in mix.task[i].hosts
<1> SUFFICES ASSUME NEW i, NEW h PROVE Single(i, h) \in SinglesOf({i}) <=> h \in mix.task[i].hosts
  OBVIOUS
<1>1. SinglesOf({i}) = {Single(i, g) : g \in mix.task[i].hosts}
  BY DEF SinglesOf
<1>2. \A g : Single(i, g).host = g
  BY DEF Single
<1> QED BY <1>1, <1>2

\* A process at a chain: which, and what it asks for.
LEMMA AtChain ==
  ASSUME Shape, NEW w \in Process, work[w] # Idle, IsChain(work[w].t)
  PROVE  /\ work[w].at \in Nat /\ work[w].pc \in {"execute", "check"} /\ Current(w) \in Tasks
         /\ \E c \in DOMAIN mix.chains :
              /\ Has(w, Chain(mix.chains[c])) /\ work[w].t.chain = mix.chains[c]
              /\ work[w].at \in DOMAIN mix.chains[c]
              /\ Current(w) = mix.chains[c][work[w].at]
<1>1. ChainWork(work[w])
  BY PlaceFacts
<1>2. /\ work[w].t \in Chains /\ work[w].at \in Nat /\ work[w].pc \in {"execute", "check"}
      /\ work[w].at \in DOMAIN work[w].t.chain
  BY <1>1 DEF ChainWork
<1>3. PICK c \in DOMAIN mix.chains :
        work[w].t.chain = mix.chains[c] /\ work[w].t = Chain(mix.chains[c])
  BY <1>2, ChainFacts DEF Shape
<1> QED BY <1>2, <1>3, MixFacts DEF Has, Current, Shape

\* A chain tells its places apart.
LEMMA ChainsApart ==
  ASSUME WellFormed(mix), NEW c \in DOMAIN mix.chains, NEW d \in DOMAIN mix.chains
  PROVE  /\ IsChain(Chain(mix.chains[c]))
         /\ Chain(mix.chains[c]) = Chain(mix.chains[d]) => c = d
         /\ \A j \in DOMAIN mix.chains[c], k \in DOMAIN mix.chains[d] :
              mix.chains[c][j] = mix.chains[d][k] => c = d /\ j = k
<1>1. \A j \in DOMAIN mix.chains[c], k \in DOMAIN mix.chains[d] :
        mix.chains[c][j] = mix.chains[d][k] => c = d /\ j = k
  BY DEF WellFormed
<1>2. Chain(mix.chains[c]).chain = mix.chains[c] /\ Chain(mix.chains[d]).chain = mix.chains[d]
  BY DEF Chain
<1>3. mix.chains[c] # <<>> /\ 1 \in DOMAIN mix.chains[c]
  BY MixFacts
<1> QED BY <1>1, <1>2, <1>3 DEF IsChain

LEMMA ContinuesOnce ==
  ASSUME Shape, Once, Continues
  PROVE  /\ Once' /\ \A t : Queued(t)' <=> Queued(t)
         /\ \A v \in Process : \A t : Has(v, t)' => Has(v, t)
         /\ \A t : t \in UnderWay' => t \in UnderWay
<1>1. \A t : Queued(t)' <=> Queued(t)
  BY DEF Continues, Queued
<1>2. \A v \in Process : \A t : Has(v, t)' => Has(v, t)
  BY DEF Continues, GoesOn, Has, Idle
<1>3. \A t : t \in UnderWay' => t \in UnderWay
  <2>1. \A t : t \in UnderWay' <=> Queued(t)' \/ \E w \in Process : Has(w, t)'
    BY DEF UnderWay, AtWork, Queued, Has
  <2> QED BY <1>1, <1>2, <2>1, UnderWayIs
<1>4. \A v \in Process : work'[v] # Idle => work[v] # Idle /\ work'[v].t = work[v].t
  BY DEF Continues, GoesOn
<1>5. Once'
  BY <1>1, <1>2, <1>4 DEF Once, Has, Continues, Idle
<1> QED BY <1>1, <1>2, <1>3, <1>5

LEMMA TakeOnce ==
  ASSUME Shape, Once, NEW w \in Process, Take(w)
  PROVE  /\ Once'
         /\ \A v \in Process : \A t : Has(v, t)' <=> Has(v, t) \/ (v = w /\ t = Head(queue))
         /\ \A t : t \in UnderWay' <=> t \in UnderWay
<1> DEFINE u == Head(queue)
<1>1. /\ Distinct(queue') /\ Queued(u) /\ work[w] = Idle /\ work'[w] # Idle /\ work'[w].t = u
      /\ \A t : Queued(t)' <=> Queued(t) /\ t # u
      /\ \A v \in Process \ {w} : work'[v] = work[v]
  BY TakeIs
<1> HIDE DEF u
<1>2. \A v \in Process : \A t : Has(v, t)' <=> Has(v, t) \/ (v = w /\ t = u)
  BY <1>1 DEF Has, Idle
<1>3. \A t : t \in UnderWay' <=> t \in UnderWay
  <2>1. \A t : t \in UnderWay' <=> Queued(t)' \/ \E v \in Process : Has(v, t)'
    BY DEF UnderWay, AtWork, Queued, Has
  <2> QED BY <1>1, <1>2, <2>1, UnderWayIs
<1>4. \A v \in Process : work'[v] # Idle => ~Queued(work[v].t)'
  <2> SUFFICES ASSUME NEW v \in Process, work'[v] # Idle PROVE ~Queued(work[v].t)'
    OBVIOUS
  <2>1. CASE v = w
    BY <1>1, <2>1 DEF Queued
  <2>2. CASE v # w
    BY <1>1, <2>2 DEF Once, Queued
  <2> QED BY <2>1, <2>2
<1>5. ASSUME NEW v \in Process, NEW x \in Process, work'[v] # Idle, Has(x, work[v].t)' PROVE x = v
  <2>1. CASE v = w /\ x # w
    BY <1>1, <1>5, <2>1 DEF Once, Has, Idle
  <2>2. CASE v # w /\ x = w
    BY <1>1, <1>5, <2>2 DEF Once, Has, Idle
  <2>3. CASE v # w /\ x # w
    BY <1>1, <1>5, <2>3 DEF Once, Has, Idle
  <2> QED BY <2>1, <2>2, <2>3
<1> QED BY <1>1, <1>2, <1>3, <1>4, <1>5 DEF Once, Distinct, u, Idle, Has

\* A task is asked for when nothing of it was ever under way.
LEMMA ExecuteIs ==
  ASSUME Shape, Once, Fresh, NEW w \in Process, Execute(w)
  PROVE  /\ WorkShape' /\ queue' \in Seq(Item) /\ Still /\ Current(w) \in Tasks
         /\ IsChain(work[w].t) /\ work[w] # Idle /\ ~Touched(Current(w))
         /\ \A t : Queued(t)' <=> Queued(t) \/ t \in SinglesOf({Current(w)})
         /\ \A v \in Process \ {w} : work'[v] = work[v]
         /\ \/ work'[w] = Idle
            \/ /\ work'[w] # Idle /\ work'[w].t = work[w].t
               /\ work'[w].at = work[w].at /\ work'[w].pc = "check"
            \/ /\ work'[w] # Idle /\ work'[w].t = work[w].t /\ work'[w].at = work[w].at + 1
               /\ Blind(Current(w)) \in marks'
         /\ Once'
         /\ \A v \in Process : \A t : Has(v, t)' => Has(v, t)
         /\ \A t : t \in UnderWay' => t \in UnderWay \/ t \in SinglesOf({Current(w)})
<1> DEFINE i == Current(w)
<1>1. /\ Working(w, "execute") /\ work[w] # Idle /\ IsChain(work[w].t) /\ ChainWork(work[w])
  BY PlaceFacts, ChainFacts DEF Execute, Shape
<1>2. PICK c \in DOMAIN mix.chains :
        /\ Has(w, Chain(mix.chains[c])) /\ work[w].at \in DOMAIN mix.chains[c]
        /\ i = mix.chains[c][work[w].at]
  BY <1>1, AtChain
<1>3. i \in Tasks
  BY <1>1, AtChain
<1>4. ~Touched(i)
  BY <1>1, <1>2 DEF Fresh, Ahead, Working
<1>5. Still
  BY StepKeeps, Kept DEF Execute, Shape, Still
<1>6. /\ queue \in Seq(Item) /\ Distinct(queue) /\ queue' = queue \o Singles({i})
      /\ Singles({i}) \in Seq(Item) /\ ToSet(Singles({i})) = SinglesOf({i})
      /\ Distinct(Singles({i}))
  BY <1>3, SinglesFacts DEF Shape, Once, Distinct, Execute
<1>7. \A t \in SinglesOf({i}) : t \notin UnderWay /\ ~IsChain(t)
  <2> SUFFICES ASSUME NEW t \in SinglesOf({i}) PROVE t \notin UnderWay /\ ~IsChain(t)
    OBVIOUS
  <2>1. PICK h \in mix.task[i].hosts : t = Single(i, h)
    BY DEF SinglesOf
  <2>2. h \in Host
    BY <1>3, MixFacts DEF Shape
  <2>3. ~IsChain(t)
    BY <2>1 DEF IsChain, Single
  <2> QED BY <1>4, <2>1, <2>2, <2>3 DEF Touched, Out
<1> HIDE DEF i
<1>8. ToSet(queue) \cap SinglesOf({i}) = {}
  BY <1>7, UnderWayIs DEF Queued
<1>9. queue' \in Seq(Item) /\ ToSet(queue') = ToSet(queue) \cup SinglesOf({i}) /\ Distinct(queue')
  <2> DEFINE r == Singles({i})
  <2>1. r \in Seq(Item) /\ queue \in Seq(Item) /\ Distinct(r) /\ Distinct(queue)
        /\ ToSet(queue) \cap ToSet(r) = {} /\ queue' = queue \o r /\ ToSet(r) = SinglesOf({i})
    BY <1>6, <1>8
  <2> HIDE DEF r
  <2>2. /\ queue \o r \in Seq(Item) /\ ToSet(queue \o r) = ToSet(queue) \cup ToSet(r)
        /\ Distinct(queue \o r)
    BY <2>1, JoinedApart
  <2> QED BY <2>1, <2>2
<1>10. \A t : Queued(t)' <=> Queued(t) \/ t \in SinglesOf({i})
  BY <1>9 DEF Queued
<1>11. /\ WorkShape' /\ \A v \in Process \ {w} : work'[v] = work[v]
       /\ \/ work'[w] = Idle
          \/ /\ work'[w] # Idle /\ work'[w].t = work[w].t
             /\ work'[w].at = work[w].at /\ work'[w].pc = "check"
          \/ /\ work'[w] # Idle /\ work'[w].t = work[w].t /\ work'[w].at = work[w].at + 1
             /\ Blind(i) \in marks'
  <2>1. CASE Becomes(w, [work[w] EXCEPT !.pc = "check"])
    <3> DEFINE x == [work[w] EXCEPT !.pc = "check"]
    <3>1. /\ x \in [t : Chains, pc : {"execute", "check"}, at : Nat, out : {None}]
          /\ x.t = work[w].t /\ x.at = work[w].at /\ x.pc = "check"
      BY <1>1 DEF ChainWork
    <3>2. ChainWork(x) /\ x # Idle /\ Becomes(w, x)
      BY <1>1, <2>1, <3>1 DEF ChainWork, Idle
    <3> HIDE DEF x
    <3>3. WorkShape'
      BY <1>5, <3>2, WorkShapeKept
    <3> QED BY <3>1, <3>2, <3>3 DEF Becomes, Shape, WorkShape
  <2>2. CASE Onward(w) /\ Blind(i) \in marks'
    <3>1. WorkShape' /\ GoesOn(w)
      BY <1>1, <1>5, <2>2, OnwardIs
    <3>2. \A v \in Process \ {w} : work'[v] = work[v]
      BY <2>2 DEF Onward, Becomes, Shape, WorkShape
    <3>3. work'[w] # work[w]
      <4>1. CASE work'[w] = Idle
        BY <1>1, <4>1
      <4>2. CASE work[w].at < Len(work[w].t.chain)
        <5> DEFINE x == [work[w] EXCEPT !.at = work[w].at + 1, !.pc = "execute"]
        <5>1. work'[w] = x
          BY <2>2, <4>2 DEF Onward, Becomes, Shape, WorkShape
        <5>2. work[w] \in [t : Chains, pc : {"execute", "check"}, at : Nat, out : {None}]
          BY <1>1 DEF ChainWork
        <5>3. x = [t |-> work[w].t, pc |-> "execute", at |-> work[w].at + 1, out |-> None]
          BY <5>2, NextTurn
        <5> HIDE DEF x
        <5>4. x.at = work[w].at + 1 /\ work[w].at \in Nat
          BY <5>2, <5>3
        <5> QED BY <5>1, <5>4
      <4> QED BY <2>2, <4>1, <4>2 DEF Onward, Becomes, Shape, WorkShape
    <3> QED BY <1>1, <2>2, <3>1, <3>2, <3>3 DEF GoesOn
  <2> QED BY <2>1, <2>2 DEF Execute, i
<1>12. \A v \in Process : work'[v] # Idle => work[v] # Idle /\ work'[v].t = work[v].t
  BY <1>1, <1>11
<1>13. \A v \in Process : \A t : Has(v, t)' => Has(v, t)
  BY <1>12 DEF Has, Idle
<1>14. \A t : t \in UnderWay' => t \in UnderWay \/ t \in SinglesOf({i})
  <2>1. \A t : t \in UnderWay' <=> Queued(t)' \/ \E v \in Process : Has(v, t)'
    BY DEF UnderWay, AtWork, Queued, Has
  <2> QED BY <1>10, <1>13, <2>1, UnderWayIs
<1>15. Once'
  <2>1. \A v \in Process : work'[v] # Idle => ~Queued(work[v].t)'
    <3> SUFFICES ASSUME NEW v \in Process, work'[v] # Idle PROVE ~Queued(work[v].t)'
      OBVIOUS
    <3>1. work[v] # Idle /\ work'[v].t = work[v].t /\ Has(v, work[v].t)
      BY <1>12 DEF Has
    <3>2. work[v].t \notin SinglesOf({i}) /\ work[v].t \notin ToSet(queue)
      BY <1>7, <3>1, UnderWayIs DEF Once, Queued
    <3> QED BY <1>9, <3>1, <3>2 DEF Queued
  <2>2. \A v, x \in Process : work'[v] # Idle /\ Has(x, work[v].t)' => v = x
    BY <1>12 DEF Once, Has, Idle
  <2> QED BY <1>9, <2>1, <2>2 DEF Once, Distinct, Has, Idle
<1> QED BY <1>1, <1>3, <1>4, <1>5, <1>9, <1>10, <1>11, <1>13, <1>14, <1>15 DEF i

-----------------------------------------------------------------------------
(* The state keeps its shape.                                              *)

\* One entry of a table by host and kind.
LEMMA Entry ==
  ASSUME NEW V, NEW f \in [Host -> [Column -> V]], NEW h \in Host, NEW k \in Column, NEW v \in V
  PROVE  LET g == [f EXCEPT ![h][k] = v] IN
         /\ g \in [Host -> [Column -> V]] /\ g[h][k] = v
         /\ \A i \in Host, l \in Column : i # h \/ l # k => g[i][l] = f[i][l]
<1> DEFINE e == [f[h] EXCEPT ![k] = v]
<1>1. e \in [Column -> V] /\ e[k] = v /\ \A l \in Column : l # k => e[l] = f[h][l]
  OBVIOUS
<1>2. [f EXCEPT ![h][k] = v] = [f EXCEPT ![h] = e]
  OBVIOUS
<1> HIDE DEF e
<1> QED BY <1>1, <1>2

LEMMA SubFacts ==
  ASSUME Shape, NEW s \in Subscriber
  PROVE  /\ sub[s].inbox \in Seq(Msg) /\ sub[s].at \in {"listening", "writing", "away"}
         /\ sub[s] = [at |-> sub[s].at, inbox |-> sub[s].inbox]
         /\ sub[s].inbox # <<>> => Message(s) \in Msg /\ Message(s) \in Inbox(s)
         /\ Inbox(s) \subseteq Msg
         /\ sub[s].at = "writing" => sub[s].inbox # <<>> /\ Handled(Message(s))
         /\ sub[s].at = "away" => sub[s].inbox = <<>>
<1> USE DEF Subs
<1>1. sub[s].inbox \in Seq(Msg) /\ sub[s].at \in {"listening", "writing", "away"}
      /\ sub[s] = [at |-> sub[s].at, inbox |-> sub[s].inbox]
  BY DEF Shape, SubShape
<1>2. ASSUME sub[s].inbox # <<>> PROVE Message(s) \in Msg /\ Message(s) \in Inbox(s)
  BY <1>1, <1>2, Popped DEF Message, Inbox
<1>3. Inbox(s) \subseteq Msg
  BY <1>1 DEF Inbox, ToSet
<1> QED BY <1>1, <1>2, <1>3 DEF Shape, SubShape

\* A subscriber's message is done with.
LEMMA PopsIs ==
  ASSUME Shape, NEW s \in Subscriber, sub[s].inbox # <<>>, Pops(s)
  PROVE  /\ sub' \in Subs
         /\ sub'[s].at = "listening" /\ \A r \in Subscriber \ {s} : sub'[r] = sub[r]
         /\ \A r \in Subscriber : /\ Inbox(r)' \subseteq Inbox(r)
                                  /\ Inbox(r) \subseteq Inbox(r)' \cup {Message(s)}
<1> USE DEF Subs
<1> DEFINE q == Tail(sub[s].inbox)
<1>1. q \in Seq(Msg) /\ ToSet(q) \subseteq Inbox(s) /\ Inbox(s) \subseteq ToSet(q) \cup {Message(s)}
  BY SubFacts, Popped DEF Message, Inbox
<1>2. sub \in Subs
  BY DEF Shape, SubShape
<1>3. sub' = [sub EXCEPT ![s] = [at |-> "listening", inbox |-> q]]
  BY <1>2, SubFacts DEF Pops
<1> HIDE DEF q
<1>4. /\ sub' \in Subs
      /\ sub'[s].at = "listening" /\ sub'[s].inbox = q
      /\ \A r \in Subscriber \ {s} : sub'[r] = sub[r]
  BY <1>1, <1>2, <1>3
<1> QED BY <1>1, <1>4 DEF Inbox

LEMMA AwaitedKept == ASSUME Shape, Once, Fresh, [Steps]_vars PROVE AwaitedShape'
<1>1. Still
  BY StepKeeps, Kept DEF Shape
<1>2. \/ awaited' = awaited
      \/ \E i : \E S \in SUBSET mix.task[i].hosts : awaited' = [awaited EXCEPT ![i] = S]
  <2>1. ASSUME NEW w \in Process, Report(w), awaited' # awaited
        PROVE  \E i : \E S \in SUBSET mix.task[i].hosts : awaited' = [awaited EXCEPT ![i] = S]
    <3>1. /\ awaited' = [awaited EXCEPT ![work[w].t.id] = awaited[work[w].t.id] \ {work[w].t.host}]
          /\ work[w].t.id \in Tasks
      BY <2>1, PlaceFacts, SingleFacts DEF Report, Shape
    <3>2. awaited[work[w].t.id] \ {work[w].t.host} \in SUBSET mix.task[work[w].t.id].hosts
      BY <3>1 DEF Shape, AwaitedShape
    <3> QED BY <3>1, <3>2
  <2>2. ASSUME NEW w \in Process, Execute(w)
        PROVE  \E i : \E S \in SUBSET mix.task[i].hosts : awaited' = [awaited EXCEPT ![i] = S]
    BY <2>2 DEF Execute
  <2>3. ASSUME NEW i \in Tasks, CorrectData(i)
        PROVE  \E j : \E S \in SUBSET mix.task[j].hosts : awaited' = [awaited EXCEPT ![j] = S]
    BY <2>3 DEF CorrectData
  <2>4. ASSUME NEW w \in Process, Work(w) \/ WorkerDies(w), ~Report(w), ~Execute(w)
        PROVE  awaited' = awaited
    BY <2>4 DEF Work, WorkerDies, Take, Run, ReportLost, ReportFails, ExecuteFails, Check
  <2>5. ASSUME NEW s \in Subscriber, Callback(s) \/ SubscriptionEnds(s) PROVE awaited' = awaited
    BY <2>5 DEF Callback, SubscriptionEnds, Drop, Lock, Update, Subscribe
  <2>6. CASE (\E m \in locks : LockExpires(m)) \/ TokenExpires \/ UNCHANGED vars
    BY <2>6 DEF LockExpires, TokenExpires, vars
  <2> QED BY <2>1, <2>2, <2>3, <2>4, <2>5, <2>6 DEF Steps
<1>3. DOMAIN awaited' = Tasks /\ \A i \in Tasks : awaited'[i] \subseteq mix.task[i].hosts
  BY <1>2 DEF Shape, AwaitedShape
<1> QED BY <1>1, <1>3, StillSame DEF AwaitedShape, Still

LEMMA TablesKept == ASSUME Shape, [Steps]_vars PROVE TableShape'
<1> USE DEF Table
<1>1. Still
  BY StepKeeps, Kept DEF Shape
<1>2. on \in Table /\ row \in Table
  BY DEF Shape, TableShape
<1>3. on' \in Table /\ row' \in Table
  <2>1. ASSUME NEW w \in Process, Run(w)
        PROVE  on' \in Table /\ row' = row
    <3> DEFINE i == work[w].t.id
               h == work[w].t.host
               k == KindOf(work[w].t.id)
    <3>1. i \in Tasks /\ h \in Host
      BY <2>1, PlaceFacts, SingleFacts DEF Run, Shape
    <3>2. /\ row' = row
          /\ \/ on' = on
             \/ k \in Column /\ on' = [on EXCEPT ![h][k] = i]
      BY <2>1 DEF Run
    <3> HIDE DEF i, h, k
    <3>3. ASSUME k \in Column
          PROVE  [on EXCEPT ![h][k] = i] \in Table
      BY <1>2, <3>1, <3>3, Entry
    <3> QED BY <1>2, <3>2, <3>3
  <2>2. ASSUME NEW s \in Subscriber, Update(s)
        PROVE  row' \in Table /\ on' = on
    <3> DEFINE i == Message(s).id
               h == Message(s).host
               k == KindOf(Message(s).id)
    <3>1. i \in Tasks /\ h \in Host /\ k \in Column
      BY <2>2, SubFacts DEF Update, Msg
    <3>2. on' = on /\ (row' = row \/ row' = [row EXCEPT ![h][k] = i])
      BY <2>2 DEF Update
    <3> HIDE DEF i, h, k
    <3>3. [row EXCEPT ![h][k] = i] \in Table
      BY <1>2, <3>1, Entry
    <3> QED BY <1>2, <3>2, <3>3
  <2>3. ASSUME NEW w \in Process, Work(w) \/ WorkerDies(w), ~Run(w) PROVE UNCHANGED <<on, row>>
    BY <2>3
       DEF Work, WorkerDies, Take, Report, ReportLost, ReportFails, Execute, ExecuteFails, Check
  <2>4. ASSUME NEW s \in Subscriber, Callback(s) \/ SubscriptionEnds(s), ~Update(s)
        PROVE  UNCHANGED <<on, row>>
    BY <2>4 DEF Callback, SubscriptionEnds, Drop, Lock, Subscribe
  <2>5. ASSUME NEW m \in locks, LockExpires(m) PROVE UNCHANGED <<on, row>>
    BY <2>5 DEF LockExpires
  <2>6. ASSUME NEW i \in Tasks, CorrectData(i) PROVE UNCHANGED <<on, row>>
    BY <2>6 DEF CorrectData
  <2>7. CASE TokenExpires \/ UNCHANGED vars
    BY <1>2, <2>7 DEF TokenExpires, vars
  <2> QED BY <1>2, <2>1, <2>2, <2>3, <2>4, <2>5, <2>6, <2>7 DEF Steps
<1> QED BY <1>1, <1>3, StillSame DEF TableShape

\* The message about a result.
MessageOf(w) == [id |-> work[w].t.id, host |-> work[w].t.host, ok |-> Succeeds(work[w].out)]

LEMMA ReportIs ==
  ASSUME Shape, NEW w \in Process, Report(w)
  PROVE  /\ KindOf(work[w].t.id) \in Column => MessageOf(w) \in Msg
         /\ work[w].t = Single(MessageOf(w).id, MessageOf(w).host)
         /\ sub' \in Subs
         /\ \A s \in Subscriber :
              /\ sub'[s].at = sub[s].at
              /\ \/ sub'[s] = sub[s] /\ (KindOf(work[w].t.id) \notin Column \/ sub[s].at = "away")
                 \/ /\ sub[s].at # "away" /\ KindOf(work[w].t.id) \in Column
                    /\ sub'[s].inbox = Append(sub[s].inbox, MessageOf(w))
                    /\ Inbox(s)' = Inbox(s) \cup {MessageOf(w)}
<1> USE DEF Subs
<1> DEFINE m == MessageOf(w)
           hear == {s \in Subscriber : KindOf(work[w].t.id) \in Column /\ sub[s].at # "away"}
<1>1. work[w].t \in SinglesOf(Tasks)
  BY PlaceFacts DEF Report
<1>2. (KindOf(work[w].t.id) \in Column => m \in Msg) /\ work[w].t = Single(m.id, m.host)
  BY <1>1, SingleFacts DEF Shape, MessageOf, Msg, Succeeds
<1>3. sub' = [s \in Subscriber |->
                IF s \in hear THEN [sub[s] EXCEPT !.inbox = Append(@, m)] ELSE sub[s]]
  BY DEF Report, MessageOf
<1> HIDE DEF m
<1>4. ASSUME NEW s \in Subscriber
      PROVE  /\ sub'[s] \in [at : {"listening", "writing", "away"}, inbox : Seq(Msg)]
             /\ sub'[s].at = sub[s].at
             /\ \/ sub'[s] = sub[s] /\ (KindOf(work[w].t.id) \notin Column \/ sub[s].at = "away")
                \/ /\ sub[s].at # "away" /\ KindOf(work[w].t.id) \in Column
                   /\ sub'[s].inbox = Append(sub[s].inbox, m)
                   /\ Inbox(s)' = Inbox(s) \cup {m}
  <2>1. CASE s \notin hear
    BY <1>3, <2>1, SubFacts DEF Shape, SubShape
  <2>2. CASE s \in hear
    <3> DEFINE b == sub[s].inbox
               q == Append(b, m)
    <3>1. b \in Seq(Msg) /\ m \in Msg /\ Inbox(s) = ToSet(b)
      BY <1>2, <2>2, SubFacts DEF Inbox
    <3>2. sub'[s] = [at |-> sub[s].at, inbox |-> q]
      <4> DEFINE x == sub[s]
      <4>1. x \in [at : {"listening", "writing", "away"}, inbox : Seq(Msg)]
        BY DEF Shape, SubShape
      <4>2. sub'[s] = [x EXCEPT !.inbox = Append(x.inbox, m)]
        BY <1>3, <2>2
      <4> HIDE DEF x
      <4>3. sub'[s] = [at |-> x.at, inbox |-> Append(x.inbox, m)]
        BY <4>1, <4>2
      <4> QED BY <4>3 DEF x
    <3> HIDE DEF b
    <3>5. q \in Seq(Msg) /\ ToSet(q) = ToSet(b) \cup {m}
      BY <3>1, Appended
    <3> HIDE DEF q
    <3>3. sub'[s].at = sub[s].at /\ sub'[s].inbox = q
      BY <3>2
    <3>4. Inbox(s)' = ToSet(q)
      BY <3>3 DEF Inbox
    <3> QED BY <2>2, <3>1, <3>2, <3>3, <3>4, <3>5, SubFacts DEF q, b
  <2> QED BY <2>1, <2>2
<1>5. sub' = [s \in Subscriber |-> sub'[s]]
  BY <1>3
<1>6. sub' \in Subs
  BY <1>4, <1>5
<1> QED BY <1>2, <1>4, <1>6 DEF m

LEMMA MovesIs ==
  ASSUME Shape, NEW s \in Subscriber, NEW a \in {"listening", "writing", "away"},
         sub' = [sub EXCEPT ![s].at = a]
  PROVE  /\ sub' \in Subs
         /\ sub'[s].at = a /\ \A r \in Subscriber \ {s} : sub'[r] = sub[r]
         /\ \A r \in Subscriber : sub'[r].inbox = sub[r].inbox
<1> USE DEF Subs
<1> DEFINE x == sub[s]
<1>1. x \in [at : {"listening", "writing", "away"}, inbox : Seq(Msg)]
  BY DEF Shape, SubShape
<1>2. sub' = [sub EXCEPT ![s] = [x EXCEPT !.at = a]]
  OBVIOUS
<1>3. sub \in Subs
  BY DEF Shape, SubShape
<1>4. [x EXCEPT !.at = a] = [at |-> a, inbox |-> x.inbox] /\ x.inbox \in Seq(Msg)
  <2> HIDE DEF x
  <2> QED BY <1>1
<1>5. sub'[s] = [at |-> a, inbox |-> x.inbox] /\ \A r \in Subscriber \ {s} : sub'[r] = sub[r]
  BY <1>2, <1>3, <1>4
<1>6. sub'[s].at = a /\ sub'[s].inbox = sub[s].inbox
  BY <1>5
<1>7. sub' = [r \in Subscriber |-> sub'[r]]
  BY <1>2, <1>3
<1>8. \A r \in Subscriber : sub'[r] \in [at : {"listening", "writing", "away"}, inbox : Seq(Msg)]
  BY <1>3, <1>4, <1>5
<1>9. sub' \in Subs
  BY <1>7, <1>8
<1> QED BY <1>5, <1>6, <1>9

LEMMA EndsIs ==
  ASSUME Shape, NEW s \in Subscriber, SubscriptionEnds(s)
  PROVE  /\ sub' \in Subs
         /\ sub'[s].at = "away" /\ sub'[s].inbox = <<>> /\ Inbox(s)' = {}
         /\ \A r \in Subscriber \ {s} : sub'[r] = sub[r]
<1> USE DEF Subs
<1> DEFINE x == [at |-> "away", inbox |-> <<>>]
<1>1. sub \in Subs
  BY DEF Shape, SubShape
<1>2. x \in [at : {"listening", "writing", "away"}, inbox : Seq(Msg)] /\ x.at = "away"
      /\ x.inbox = <<>>
  OBVIOUS
<1>3. sub' = [sub EXCEPT ![s] = x]
  BY DEF SubscriptionEnds
<1> HIDE DEF x
<1>4. /\ sub' \in Subs
      /\ sub'[s].at = "away" /\ sub'[s].inbox = <<>>
      /\ \A r \in Subscriber \ {s} : sub'[r] = sub[r]
  BY <1>1, <1>2, <1>3
<1> QED BY <1>4 DEF Inbox, ToSet

LEMMA SubKept == ASSUME Shape, [Steps]_vars PROVE SubShape' /\ locks' \subseteq Msg
<1> USE DEF Subs
<1> DEFINE Ok == \A s \in Subscriber :
                   /\ sub'[s].at = "writing" => sub'[s].inbox # <<>> /\ Handled(Head(sub'[s].inbox))
                   /\ sub'[s].at = "away" => sub'[s].inbox = <<>>
<1>1. Still
  BY StepKeeps, Kept DEF Shape
<1>2. ASSUME sub' \in Subs, Ok PROVE SubShape'
  BY <1>1, <1>2, StillSame DEF SubShape, Message, Handled
<1>3. ASSUME NEW w \in Process, Report(w) PROVE sub' \in Subs /\ Ok /\ locks' = locks
  <2>1. locks' = locks /\ sub' \in Subs
    BY <1>3, ReportIs DEF Report
  <2>2. ASSUME NEW s \in Subscriber
        PROVE  /\ sub'[s].at = "writing" => sub'[s].inbox # <<>> /\ Handled(Head(sub'[s].inbox))
               /\ sub'[s].at = "away" => sub'[s].inbox = <<>>
    <3>1. CASE sub'[s] = sub[s]
      BY <3>1, SubFacts DEF Message
    <3>2. CASE /\ sub[s].at # "away" /\ KindOf(work[w].t.id) \in Column
               /\ sub'[s].inbox = Append(sub[s].inbox, MessageOf(w))
      <4> DEFINE q == sub[s].inbox
                 m == MessageOf(w)
      <4>1. q \in Seq(Msg) /\ m \in Msg /\ sub'[s].at = sub[s].at /\ sub'[s].inbox = Append(q, m)
        BY <1>3, <3>2, ReportIs, SubFacts
      <4> HIDE DEF q, m
      <4>2. q # <<>> => Append(q, m) # <<>> /\ Head(Append(q, m)) = Head(q)
        BY <4>1
      <4> QED BY <3>2, <4>1, <4>2, SubFacts DEF q, Message
    <3>3. sub'[s] = sub[s] \/ (/\ sub[s].at # "away" /\ KindOf(work[w].t.id) \in Column
                               /\ sub'[s].inbox = Append(sub[s].inbox, MessageOf(w)))
      BY <1>3, ReportIs
    <3> QED BY <3>1, <3>2, <3>3
  <2> QED BY <2>1, <2>2
<1>4. ASSUME NEW s \in Subscriber, Callback(s) \/ SubscriptionEnds(s)
      PROVE  sub' \in Subs /\ Ok /\ locks' \subseteq Msg
  <2>1. CASE Drop(s) \/ Update(s)
    <3>1. Pops(s) /\ sub[s].inbox # <<>> /\ locks' = locks
      BY <2>1, SubFacts DEF Drop, Update, Listening
    <3> QED BY <3>1, PopsIs, SubFacts DEF Shape, Message
  <2>2. CASE Lock(s)
    <3>1. /\ sub' = [sub EXCEPT ![s].at = "writing"] /\ sub[s].inbox # <<>> /\ Handled(Message(s))
          /\ locks' = locks \cup {Message(s)}
      BY <2>2 DEF Lock, Listening
    <3>2. /\ sub' \in Subs /\ sub'[s].at = "writing" /\ sub'[s].inbox = sub[s].inbox
          /\ \A r \in Subscriber \ {s} : sub'[r] = sub[r]
      BY <3>1, MovesIs
    <3>3. Message(s) \in Msg
      BY <3>1, SubFacts
    <3>4. Ok
      BY <3>1, <3>2, SubFacts DEF Message
    <3> QED BY <3>1, <3>2, <3>3, <3>4 DEF Shape
  <2>3. CASE Subscribe(s)
    <3>1. sub' = [sub EXCEPT ![s].at = "listening"] /\ locks' = locks
      BY <2>3 DEF Subscribe
    <3>2. /\ sub' \in Subs /\ sub'[s].at = "listening"
          /\ \A r \in Subscriber \ {s} : sub'[r] = sub[r]
      BY <3>1, MovesIs
    <3> QED BY <3>1, <3>2, SubFacts DEF Shape, Message
  <2>4. CASE SubscriptionEnds(s)
    <3>1. locks' = locks
      BY <2>4 DEF SubscriptionEnds
    <3> QED BY <2>4, <3>1, EndsIs, SubFacts DEF Shape, Message
  <2> QED BY <1>4, <2>1, <2>2, <2>3, <2>4 DEF Callback
<1>5. ASSUME sub' = sub, locks' \subseteq locks PROVE sub' \in Subs /\ Ok /\ locks' \subseteq Msg
  BY <1>5 DEF Shape, SubShape, Message
<1>6. ASSUME NEW w \in Process, Work(w) \/ WorkerDies(w), ~Report(w) PROVE UNCHANGED <<sub, locks>>
  BY <1>6 DEF Work, WorkerDies, Take, Run, ReportLost, ReportFails, Execute, ExecuteFails, Check
<1>7. ASSUME NEW m \in locks, LockExpires(m) PROVE sub' = sub /\ locks' \subseteq locks
  BY <1>7 DEF LockExpires
<1>8. ASSUME NEW i \in Tasks, CorrectData(i) PROVE UNCHANGED <<sub, locks>>
  BY <1>8 DEF CorrectData
<1>9. CASE TokenExpires \/ UNCHANGED vars
  BY <1>2, <1>5, <1>9 DEF TokenExpires, vars
<1>10. locks \subseteq Msg
  BY DEF Shape
<1> HIDE DEF Ok
<1> QED BY <1>2, <1>3, <1>4, <1>5, <1>6, <1>7, <1>8, <1>9, <1>10 DEF Steps

LEMMA ShapeKept == ASSUME Shape, Once, Fresh, [Steps]_vars PROVE Shape' /\ Once'
<1>1. WellFormed(mix)' /\ Still
  BY StepKeeps, Kept DEF Shape
<1>2. WorkShape' /\ queue' \in Seq(Item) /\ Once'
  <2>1. CASE \E w \in Process : Take(w)
    BY <2>1, TakeIs, TakeOnce
  <2>2. CASE \E w \in Process : Execute(w)
    BY <2>2, ExecuteIs
  <2>3. CASE \A w \in Process : ~Take(w) /\ ~Execute(w)
    BY <2>3, StepContinues, ContinuesOnce DEF Continues, Shape
  <2> QED BY <2>1, <2>2, <2>3
<1>3. Item' = Item /\ Msg' = Msg
  BY <1>1, StillSame
<1> QED BY <1>1, <1>2, <1>3, AwaitedKept, TablesKept, SubKept DEF Shape

-----------------------------------------------------------------------------
(* A task is asked for once, and is on a host once.                        *)

LEMMA ReportedGrows ==
  ASSUME Shape, [Steps]_vars, NEW m \in Reported'
  PROVE  m \in Reported \/ \E w \in Process : Report(w) /\ m = MessageOf(w)
<1>1. (m \in locks' \/ \E s \in Subscriber : m \in Inbox(s)')
  BY DEF Reported
<1>2. ASSUME NEW w \in Process, Report(w) PROVE m \in Reported \/ m = MessageOf(w)
  <2>1. locks' = locks
    BY <1>2 DEF Report
  <2>2. \A s \in Subscriber : Inbox(s)' = Inbox(s) \/ Inbox(s)' = Inbox(s) \cup {MessageOf(w)}
    BY <1>2, ReportIs DEF Inbox
  <2> QED BY <1>1, <2>1, <2>2 DEF Reported
<1>3. ASSUME NEW s \in Subscriber, Callback(s) \/ SubscriptionEnds(s) PROVE m \in Reported
  <2>1. CASE Drop(s) \/ Update(s)
    <3>1. Pops(s) /\ sub[s].inbox # <<>> /\ locks' = locks
      BY <2>1, SubFacts DEF Drop, Update, Listening
    <3>2. \A r \in Subscriber : Inbox(r)' \subseteq Inbox(r)
      BY <3>1, PopsIs
    <3> QED BY <1>1, <3>1, <3>2 DEF Reported
  <2>2. CASE Lock(s)
    <3>1. /\ sub' = [sub EXCEPT ![s].at = "writing"] /\ sub[s].inbox # <<>>
          /\ locks' = locks \cup {Message(s)}
      BY <2>2 DEF Lock, Listening
    <3>2. \A r \in Subscriber : Inbox(r)' = Inbox(r)
      BY <3>1, MovesIs DEF Inbox
    <3>3. Message(s) \in Inbox(s)
      BY <3>1, SubFacts
    <3> QED BY <1>1, <3>1, <3>2, <3>3 DEF Reported
  <2>3. CASE Subscribe(s)
    <3>1. sub' = [sub EXCEPT ![s].at = "listening"] /\ locks' = locks
      BY <2>3 DEF Subscribe
    <3>2. \A r \in Subscriber : Inbox(r)' = Inbox(r)
      BY <3>1, MovesIs DEF Inbox
    <3> QED BY <1>1, <3>1, <3>2 DEF Reported
  <2>4. CASE SubscriptionEnds(s)
    <3>1. locks' = locks /\ Inbox(s)' = {} /\ \A r \in Subscriber \ {s} : Inbox(r)' = Inbox(r)
      BY <2>4, EndsIs DEF SubscriptionEnds, Inbox
    <3> QED BY <1>1, <3>1 DEF Reported
  <2> QED BY <1>3, <2>1, <2>2, <2>3, <2>4 DEF Callback
<1>4. ASSUME sub' = sub, locks' \subseteq locks PROVE m \in Reported
  BY <1>1, <1>4 DEF Reported, Inbox
<1>5. ASSUME NEW w \in Process, Work(w) \/ WorkerDies(w), ~Report(w) PROVE UNCHANGED <<sub, locks>>
  BY <1>5 DEF Work, WorkerDies, Take, Run, ReportLost, ReportFails, Execute, ExecuteFails, Check
<1>6. ASSUME NEW n \in locks, LockExpires(n) PROVE sub' = sub /\ locks' \subseteq locks
  BY <1>6 DEF LockExpires
<1>7. ASSUME NEW i \in Tasks, CorrectData(i) PROVE UNCHANGED <<sub, locks>>
  BY <1>7 DEF CorrectData
<1>8. CASE TokenExpires \/ UNCHANGED vars
  BY <1>4, <1>8 DEF TokenExpires, vars
<1> QED BY <1>2, <1>3, <1>4, <1>5, <1>6, <1>7, <1>8 DEF Steps

\* What is reported was under way, and is so no longer.
LEMMA ReportEnds ==
  ASSUME Shape, Once, NEW w \in Process, Report(w)
  PROVE  LET m == MessageOf(w) IN
         /\ work[w].t = Single(m.id, m.host) /\ m.host \in Host /\ m.id \in Tasks
         /\ Single(m.id, m.host) \in UnderWay /\ Single(m.id, m.host) \notin UnderWay'
<1> DEFINE t == work[w].t
<1>1. /\ work[w] # Idle /\ t = Single(MessageOf(w).id, MessageOf(w).host)
      /\ MessageOf(w).host \in Host /\ MessageOf(w).id \in Tasks
  BY PlaceFacts, SingleFacts DEF Report, MessageOf, Shape
<1>2. Has(w, t) /\ t \in UnderWay
  BY <1>1, UnderWayIs DEF Has
<1>3. queue' = queue /\ work'[w] = Idle /\ \A v \in Process \ {w} : work'[v] = work[v]
  BY DEF Report, Becomes, Shape, WorkShape
<1>4. t \notin UnderWay'
  <2>1. \A x : x \in UnderWay' <=> Queued(x)' \/ \E v \in Process : Has(v, x)'
    BY DEF UnderWay, AtWork, Queued, Has
  <2>2. ~Queued(t)
    BY <1>1 DEF Once
  <2>3. ASSUME NEW v \in Process PROVE ~(work'[v] # Idle /\ work'[v].t = t)
    BY <1>1, <1>3 DEF Once, Has
  <2> DEFINE x == t
  <2> SUFFICES x \notin UnderWay'
    OBVIOUS
  <2>4. PICK y : y = x
    OBVIOUS
  <2>5. ~Queued(y)' /\ \A v \in Process : ~Has(v, y)'
    BY <1>3, <2>2, <2>3, <2>4 DEF Queued, Has, Idle
  <2> QED BY <2>1, <2>4, <2>5
<1> QED BY <1>1, <1>2, <1>4

LEMMA AheadShrinks ==
  ASSUME Shape, Once, [Steps]_vars, \A w \in Process : ~Execute(w),
         NEW c \in DOMAIN mix.chains, NEW j \in DOMAIN mix.chains[c], Ahead(c, j)'
  PROVE  Ahead(c, j)
<1> DEFINE C == Chain(mix.chains[c])
<1>1. PICK d : d = C
  OBVIOUS
<1>2. Still /\ IsChain(d) /\ j \in Nat /\ j >= 1
  <2>1. mix.chains[c] \in Seq(Task)
    BY MixFacts DEF Shape
  <2> QED BY <1>1, <2>1, StepKeeps, Kept, ChainsApart DEF Shape
<1>3. \/ Queued(d)'
      \/ \E w \in Process :
           Has(w, d)' /\ (work'[w].at < j \/ (work'[w].at = j /\ work'[w].pc = "execute"))
  BY <1>1, <1>2 DEF Ahead, Still, Chain
<1>4. SUFFICES \/ Queued(d)
               \/ \E w \in Process :
                    Has(w, d) /\ (work[w].at < j \/ (work[w].at = j /\ work[w].pc = "execute"))
  BY <1>1 DEF Ahead
<1>5. ASSUME NEW v \in Process, Take(v) PROVE Ahead(c, j)
  <2>1. CASE Queued(d)'
    BY <1>1, <1>5, <2>1, TakeIs DEF Ahead
  <2>2. ASSUME NEW w \in Process, Has(w, d)',
               work'[w].at < j \/ (work'[w].at = j /\ work'[w].pc = "execute")
        PROVE  Ahead(c, j)
    <3>1. CASE w = v
      <4>1. d = Head(queue) /\ Queued(Head(queue))
        BY <1>5, <2>2, <3>1, TakeIs DEF Has, Idle
      <4> QED BY <1>1, <4>1 DEF Ahead
    <3>2. CASE w # v
      <4>1. work'[w] = work[w]
        BY <1>5, <3>2, TakeIs
      <4> QED BY <1>1, <2>2, <4>1 DEF Ahead, Has, Idle
    <3> QED BY <3>1, <3>2
  <2> QED BY <1>3, <2>1, <2>2
<1>6. CASE \A v \in Process : ~Take(v)
  <2>1. Continues /\ (Queued(d)' <=> Queued(d)) /\ \A v \in Process : Has(v, d)' => Has(v, d)
    BY <1>6, StepContinues, ContinuesOnce
  <2>2. ASSUME NEW w \in Process, Has(w, d)',
               work'[w].at < j \/ (work'[w].at = j /\ work'[w].pc = "execute")
        PROVE  work[w].at < j \/ (work[w].at = j /\ work[w].pc = "execute")
    <3>1. Has(w, d) /\ work[w] # Idle /\ work[w].t = d /\ work'[w] # Idle
      BY <2>1, <2>2 DEF Has, Idle
    <3>2. work[w].at \in Nat
      BY <1>2, <3>1, AtChain
    <3>3. work'[w] = work[w] \/ work'[w].at = work[w].at + 1
      BY <1>2, <2>1, <3>1 DEF Continues, GoesOn
    <3> QED BY <1>2, <2>2, <3>2, <3>3
  <2> QED BY <1>3, <2>1, <2>2
<1> QED BY <1>1, <1>5, <1>6 DEF Ahead

LEMMA FreshKept == ASSUME Shape, Once, Fresh, [Steps]_vars PROVE Fresh'
<1>1. Still
  BY StepKeeps, Kept DEF Shape
<1>2. SUFFICES /\ \A m \in Reported' : Single(m.id, m.host) \notin UnderWay'
               /\ \A c \in DOMAIN mix.chains : \A j \in DOMAIN mix.chains[c] :
                    Ahead(c, j)' => ~Touched(mix.chains[c][j])'
  <2>1. Fresh' <=> /\ \A m \in Reported' : Single(m.id, m.host) \notin UnderWay'
                   /\ \A c \in DOMAIN mix'.chains : \A j \in DOMAIN mix'.chains[c] :
                        Ahead(c, j)' => ~Touched(mix.chains[c][j])'
    BY DEF Fresh, Single
  <2> QED BY <1>1, <1>2, <2>1 DEF Still
<1>3. CASE \A w \in Process : ~Execute(w)
  <2>1. \A t : t \in UnderWay' => t \in UnderWay
    BY <1>3, StepContinues, ContinuesOnce, TakeOnce
  <2>2. ASSUME NEW m \in Reported' PROVE Single(m.id, m.host) \notin UnderWay' /\ Touched(m.id)
    <3>1. CASE m \in Reported
      BY <2>1, <3>1 DEF Fresh, Touched
    <3>2. ASSUME NEW w \in Process, Report(w), m = MessageOf(w)
          PROVE  Single(m.id, m.host) \notin UnderWay' /\ Touched(m.id)
      BY <3>2, ReportEnds DEF Touched, Out
    <3> QED BY <3>1, <3>2, ReportedGrows
  <2>3. \A i : Touched(i)' => Touched(i)
    BY <2>1, <2>2 DEF Touched, Out, Single
  <2>4. ASSUME NEW c \in DOMAIN mix.chains, NEW j \in DOMAIN mix.chains[c], Ahead(c, j)'
        PROVE  ~Touched(mix.chains[c][j])'
    <3>1. PICK i : i = mix.chains[c][j]
      OBVIOUS
    <3>2. ~Touched(i)
      BY <1>3, <2>4, <3>1, AheadShrinks DEF Fresh
    <3>3. mix'.chains[c][j] = i
      BY <1>1, <3>1 DEF Still
    <3>4. ~Touched(i)'
      BY <2>3, <3>2
    <3> QED BY <3>3, <3>4
  <2> QED BY <1>2, <2>2, <2>4
<1>4. ASSUME NEW w \in Process, Execute(w)
      PROVE  /\ \A m \in Reported' : Single(m.id, m.host) \notin UnderWay'
             /\ \A c \in DOMAIN mix.chains : \A j \in DOMAIN mix.chains[c] :
                  Ahead(c, j)' => ~Touched(mix.chains[c][j])'
  <2>1. PICK i : i = Current(w)
    OBVIOUS
  <2>2. /\ IsChain(work[w].t) /\ work[w] # Idle /\ ~Touched(i)
        /\ \A t : Queued(t)' <=> Queued(t) \/ t \in SinglesOf({i})
        /\ \A v \in Process \ {w} : work'[v] = work[v]
        /\ \A v \in Process : \A t : Has(v, t)' => Has(v, t)
        /\ \A t : t \in UnderWay' => t \in UnderWay \/ t \in SinglesOf({i})
    BY <1>4, <2>1, ExecuteIs
  <2>3. PICK b \in DOMAIN mix.chains :
          /\ Has(w, Chain(mix.chains[b])) /\ work[w].at \in DOMAIN mix.chains[b]
          /\ i = mix.chains[b][work[w].at]
    BY <2>1, <2>2, AtChain
  <2>4. ASSUME NEW m \in Reported' PROVE m \in Reported /\ m.id # i
    <3>1. \A v \in Process : ~Report(v)
      <4> SUFFICES ASSUME NEW v \in Process, Report(v) PROVE FALSE
        OBVIOUS
      <4>1. queue' = queue /\ work'[v] = Idle /\ work[v] # Idle /\ ~IsChain(work[v].t)
        BY PlaceFacts, SingleFacts DEF Report, Becomes, Shape, WorkShape
      <4> QED BY <2>2, <4>1
    <3>2. m \in Reported
      BY <3>1, ReportedGrows
    <3> QED BY <2>2, <3>2 DEF Touched
  <2>5. \A x : x \in SinglesOf({i}) => x.id = i
    BY DEF SinglesOf, Single
  <2>6. \A h, j : Single(j, h).id = j
    BY DEF Single
  <2>7. ASSUME NEW m \in Reported' PROVE Single(m.id, m.host) \notin UnderWay'
    <3>1. PICK t : t = Single(m.id, m.host)
      OBVIOUS
    <3>2. t \notin UnderWay /\ t.id = m.id
      BY <2>4, <2>6, <3>1 DEF Fresh
    <3>3. t \notin SinglesOf({i})
      BY <2>4, <2>5, <3>2
    <3> QED BY <2>2, <3>1, <3>2, <3>3
  <2>8. ASSUME NEW j, j # i, Touched(j)' PROVE Touched(j)
    <3>1. CASE Out(j)'
      <4>1. PICK h \in Host : Single(j, h) \in UnderWay'
        BY <3>1 DEF Out, Single
      <4>2. Single(j, h) \notin SinglesOf({i})
        BY <2>5, <2>6, <2>8
      <4>3. Single(j, h) \in UnderWay
        BY <2>2, <4>1, <4>2
      <4> QED BY <4>3 DEF Touched, Out
    <3>2. CASE \E m \in Reported' : m.id = j
      BY <2>4, <3>2 DEF Touched
    <3> QED BY <2>8, <3>1, <3>2 DEF Touched
  <2>9. ASSUME NEW c \in DOMAIN mix.chains, NEW j \in DOMAIN mix.chains[c], Ahead(c, j)'
        PROVE  Ahead(c, j) /\ mix.chains[c][j] # i
    <3>1. PICK d : d = Chain(mix.chains[c])
      OBVIOUS
    <3>2. IsChain(d)
      BY <3>1, ChainsApart DEF Shape
    <3>3. \/ Queued(d)'
          \/ \E v \in Process :
               Has(v, d)' /\ (work'[v].at < j \/ (work'[v].at = j /\ work'[v].pc = "execute"))
      BY <1>1, <2>9, <3>1 DEF Ahead, Still, Chain
    <3>4. CASE Queued(d)'
      <4>1. Queued(d)
        <5>1. \A x \in SinglesOf({i}) : ~IsChain(x)
          BY DEF SinglesOf, IsChain, Single
        <5> QED BY <2>2, <3>2, <3>4, <5>1
      <4>2. c # b
        BY <2>3, <3>1, <4>1 DEF Once, Has
      <4> QED BY <2>3, <3>1, <4>1, <4>2, ChainsApart DEF Ahead, Shape
    <3>5. ASSUME NEW v \in Process, Has(v, d)', v # w,
                 work'[v].at < j \/ (work'[v].at = j /\ work'[v].pc = "execute")
          PROVE  Ahead(c, j) /\ mix.chains[c][j] # i
      <4>1. work'[v] = work[v] /\ Has(v, d)
        BY <2>2, <3>5
      <4>2. c # b
        BY <2>3, <3>1, <3>5, <4>1 DEF Once, Has
      <4> QED BY <2>3, <3>1, <3>5, <4>1, <4>2, ChainsApart DEF Ahead, Shape
    <3>6. ASSUME Has(w, d)', work'[w].at < j \/ (work'[w].at = j /\ work'[w].pc = "execute")
          PROVE  Ahead(c, j) /\ mix.chains[c][j] # i
      <4>1. Has(w, d) /\ work'[w] # Idle
        BY <2>2, <3>6 DEF Has, Idle
      <4>2. /\ work[w].at \in Nat
            /\ (work'[w].at = work[w].at /\ work'[w].pc = "check") \/ work'[w].at = work[w].at + 1
        BY <1>4, <2>2, <4>1, ExecuteIs, AtChain
      <4>3. j \in Nat
        <5>1. mix.chains[c] \in Seq(Task)
          BY MixFacts DEF Shape
        <5> QED BY <5>1
      <4>4. work[w].at < j
        BY <3>6, <4>2, <4>3
      <4> QED BY <2>3, <3>1, <4>1, <4>2, <4>3, <4>4, ChainsApart DEF Ahead, Shape
    <3> QED BY <3>3, <3>4, <3>5, <3>6
  <2>10. ASSUME NEW c \in DOMAIN mix.chains, NEW j \in DOMAIN mix.chains[c], Ahead(c, j)'
         PROVE  ~Touched(mix.chains[c][j])'
    <3>1. PICK k : k = mix.chains[c][j]
      OBVIOUS
    <3>2. ~Touched(k) /\ k # i
      BY <2>9, <2>10, <3>1 DEF Fresh
    <3>3. mix'.chains[c][j] = k
      BY <1>1, <3>1 DEF Still
    <3>4. ~Touched(k)'
      BY <2>8, <3>2
    <3> QED BY <3>3, <3>4
  <2> QED BY <1>2, <2>7, <2>10
<1> QED BY <1>3, <1>4

-----------------------------------------------------------------------------
(* One after the other.                                                    *)

LEMMA MarksGrow == [Steps]_vars => marks \subseteq marks'
<1> SUFFICES ASSUME [Steps]_vars PROVE marks \subseteq marks'
  OBVIOUS
<1>1. ASSUME NEW w \in Process, Work(w) \/ WorkerDies(w) PROVE marks \subseteq marks'
  <2>1. CASE Take(w) \/ ReportFails(w) \/ ReportLost(w) \/ WorkerDies(w)
    BY <2>1 DEF Take, ReportFails, ReportLost, WorkerDies
  <2>2. CASE Run(w)
    BY <2>2 DEF Run
  <2>3. CASE Report(w)
    BY <2>3 DEF Report
  <2>4. CASE Execute(w) \/ ExecuteFails(w) \/ Check(w)
    BY <2>4 DEF Execute, ExecuteFails, Check
  <2> QED BY <1>1, <2>1, <2>2, <2>3, <2>4 DEF Work
<1>2. ASSUME NEW s \in Subscriber, Callback(s) \/ SubscriptionEnds(s) PROVE marks \subseteq marks'
  BY <1>2 DEF Callback, SubscriptionEnds, Drop, Lock, Update, Subscribe
<1>3. CASE (\E m \in locks : LockExpires(m)) \/ (\E i \in Tasks : CorrectData(i)) \/ TokenExpires
  BY <1>3 DEF LockExpires, CorrectData, TokenExpires
<1> QED BY <1>1, <1>2, <1>3 DEF Steps, vars

\* What there is under way grows with Execute only.
LEMMA LessUnderWay ==
  ASSUME Shape, Once, [Steps]_vars, \A w \in Process : ~Execute(w)
  PROVE  \A t : t \in UnderWay' => t \in UnderWay
BY StepContinues, ContinuesOnce, TakeOnce

\* With Execute, a task that was nowhere is on its hosts.
LEMMA MoreUnderWay ==
  ASSUME Shape, Once, Fresh, NEW w \in Process, Execute(w)
  PROVE  /\ ~Out(Current(w))
         /\ \A i, h : Single(i, h) \in UnderWay' =>
              Single(i, h) \in UnderWay \/ (i = Current(w) /\ h \in mix.task[i].hosts)
<1>1. PICK i : i = Current(w)
  OBVIOUS
<1>2. /\ ~Touched(i) /\ \A t : t \in UnderWay' => t \in UnderWay \/ t \in SinglesOf({i})
  BY <1>1, ExecuteIs
<1>3. ASSUME NEW j, NEW h, Single(j, h) \in SinglesOf({i}) PROVE j = i /\ h \in mix.task[j].hosts
  <2>1. PICK g \in mix.task[i].hosts : Single(j, h) = Single(i, g)
    BY <1>3 DEF SinglesOf
  <2> QED BY <2>1 DEF Single
<1> QED BY <1>1, <1>2, <1>3 DEF Touched

LEMMA AwaitedWhileOutKept ==
  ASSUME Shape, Once, Fresh, AwaitedWhileOut, [Steps]_vars
  PROVE  AwaitedWhileOut'
<1>1. Still /\ marks \subseteq marks' /\ DOMAIN awaited = Tasks
  BY StepKeeps, Kept, MarksGrow DEF Shape, AwaitedShape
<1>2. SUFFICES ASSUME NEW i \in Tasks, NEW h \in Host, Single(i, h) \in UnderWay'
               PROVE  Blind(i) \in marks' \/ h \in awaited'[i]
  <2>1. Tasks' = Tasks
    BY <1>1, StillSame
  <2> QED BY <1>2, <2>1 DEF AwaitedWhileOut, Single, Blind
<1>3. ASSUME Single(i, h) \in UnderWay PROVE Blind(i) \in marks' \/ h \in awaited[i]
  BY <1>1, <1>3 DEF AwaitedWhileOut
<1>4. ASSUME NEW w \in Process, Execute(w) PROVE Blind(i) \in marks' \/ h \in awaited'[i]
  <2>1. awaited' = [awaited EXCEPT ![Current(w)] = mix.task[Current(w)].hosts]
    BY <1>4 DEF Execute
  <2>2. i = Current(w) => ~Out(i)
    BY <1>4, MoreUnderWay
  <2>3. CASE Single(i, h) \in UnderWay
    BY <1>1, <1>3, <2>1, <2>2, <2>3 DEF Out
  <2>4. CASE i = Current(w) /\ h \in mix.task[i].hosts
    BY <1>1, <2>1, <2>4
  <2> QED BY <1>2, <1>4, <2>3, <2>4, MoreUnderWay
<1>5. CASE \A w \in Process : ~Execute(w)
  <2>1. Single(i, h) \in UnderWay
    BY <1>2, <1>5, LessUnderWay
  <2>2. ASSUME NEW w \in Process, Report(w) PROVE Blind(i) \in marks' \/ h \in awaited'[i]
    <3>1. /\ \/ awaited' = awaited
             \/ awaited' = [awaited EXCEPT
                              ![work[w].t.id] = awaited[work[w].t.id] \ {work[w].t.host}]
          /\ work[w].t \notin UnderWay' /\ work[w].t = Single(work[w].t.id, work[w].t.host)
      BY <2>2, ReportEnds DEF Report, MessageOf
    <3>2. work[w].t # Single(i, h)
      BY <1>2, <3>1
    <3>3. i # work[w].t.id \/ h # work[w].t.host
      BY <3>1, <3>2
    <3> QED BY <1>1, <1>3, <2>1, <3>1, <3>3
  <2>3. ASSUME NEW j \in Tasks, CorrectData(j) PROVE Blind(i) \in marks' \/ h \in awaited'[i]
    BY <1>1, <1>3, <2>1, <2>3 DEF CorrectData
  <2>4. ASSUME awaited' = awaited PROVE Blind(i) \in marks' \/ h \in awaited'[i]
    BY <1>3, <2>1, <2>4
  <2>5. ASSUME NEW w \in Process, Work(w) \/ WorkerDies(w), ~Report(w) PROVE awaited' = awaited
    BY <1>5, <2>5 DEF Work, WorkerDies, Take, Run, ReportLost, ReportFails, ExecuteFails, Check
  <2>6. ASSUME NEW s \in Subscriber, Callback(s) \/ SubscriptionEnds(s) PROVE awaited' = awaited
    BY <2>6 DEF Callback, SubscriptionEnds, Drop, Lock, Update, Subscribe
  <2>7. CASE (\E m \in locks : LockExpires(m)) \/ TokenExpires \/ UNCHANGED vars
    BY <2>4, <2>7 DEF LockExpires, TokenExpires, vars
  <2> QED BY <2>2, <2>3, <2>4, <2>5, <2>6, <2>7 DEF Steps
<1> QED BY <1>4, <1>5

\* A chain goes to its next task only when the current one is over.
LEMMA GoesOnWhenOver ==
  ASSUME Shape, Once, Fresh, AwaitedWhileOut, [Steps]_vars, \A v \in Process : ~Execute(v),
         NEW w \in Process, work[w] # Idle, IsChain(work[w].t),
         work'[w] # work[w], work'[w] # Idle
  PROVE  Blind(Current(w)) \in marks' \/ ~Out(Current(w))
<1> DEFINE i == Current(w)
<1>1. /\ work[w].pc \in {"execute", "check"} /\ i \in Tasks /\ marks \subseteq marks'
  BY AtChain, MarksGrow
<1>2. PICK c \in DOMAIN mix.chains :
        /\ Has(w, Chain(mix.chains[c])) /\ work[w].at \in DOMAIN mix.chains[c]
        /\ i = mix.chains[c][work[w].at]
  BY AtChain
<1>3. CASE Working(w, "execute")
  BY <1>2, <1>3 DEF Fresh, Ahead, Touched, Working
<1>4. CASE Working(w, "check")
  <2>1. ASSUME UNCHANGED work PROVE FALSE
    BY <2>1
  <2>2. ASSUME NEW s \in Subscriber, Callback(s) \/ SubscriptionEnds(s) PROVE UNCHANGED work
    BY <2>2 DEF Callback, SubscriptionEnds, Drop, Lock, Update, Subscribe
  <2>3. ASSUME (\E m \in locks : LockExpires(m)) \/ TokenExpires \/ UNCHANGED vars
        PROVE  UNCHANGED work
    BY <2>3 DEF LockExpires, TokenExpires, vars
  <2>4. ASSUME NEW j \in Tasks, CorrectData(j) PROVE UNCHANGED work
    BY <2>4 DEF CorrectData
  <2>5. PICK v \in Process : Work(v) \/ WorkerDies(v)
    BY <2>1, <2>2, <2>3, <2>4 DEF Steps
  <2>6. v = w
    BY <2>5, OneMoves
  <2>7. ~WorkerDies(w)
    BY DEF WorkerDies, Becomes, Shape, WorkShape
  <2>8. ~Take(w) /\ ~Run(w)
    BY <1>4 DEF Take, Run, Working
  <2>9. ~Report(w) /\ ~ReportLost(w) /\ ~ReportFails(w)
    BY <1>4 DEF Report, ReportLost, ReportFails, Working
  <2>10. ~Execute(w) /\ ~ExecuteFails(w)
    BY <1>4 DEF Execute, ExecuteFails, Working
  <2>11. Check(w)
    BY <2>5, <2>6, <2>7, <2>8, <2>9, <2>10 DEF Work
  <2>12. awaited[i] = {} \/ Blind(i) \in marks'
    BY <2>11 DEF Check, CheckTaskStatus
  <2> QED BY <1>1, <2>12 DEF AwaitedWhileOut, Out
<1> QED BY <1>1, <1>3, <1>4 DEF Working

LEMMA BehindOverKept ==
  ASSUME Shape, Once, Fresh, AwaitedWhileOut, BehindOver, [Steps]_vars
  PROVE  BehindOver'
<1>1. Still /\ marks \subseteq marks'
  BY StepKeeps, Kept, MarksGrow DEF Shape
<1>2. SUFFICES ASSUME NEW c \in DOMAIN mix.chains, NEW w \in Process, Has(w, Chain(mix.chains[c]))',
                      NEW j \in DOMAIN mix.chains[c], j < work'[w].at
               PROVE  Over(mix.chains[c][j])'
  <2>1. mix'.chains = mix.chains
    BY <1>1 DEF Still
  <2> QED BY <1>2, <2>1 DEF BehindOver
<1>3. PICK d : d = Chain(mix.chains[c])
  OBVIOUS
<1>4. PICK i : i = mix.chains[c][j]
  OBVIOUS
<1>5. /\ work'[w] # Idle /\ work'[w].t = d /\ Has(w, d)' /\ IsChain(d)
      /\ j \in Nat /\ j >= 1
  <2>1. Chain(mix'.chains[c]) = d
    BY <1>1, <1>3 DEF Still
  <2>2. mix.chains[c] \in Seq(Task)
    BY MixFacts DEF Shape
  <2>3. work'[w] # Idle /\ work'[w].t = d
    BY <1>2, <2>1 DEF Has, Idle
  <2>4. IsChain(d)
    BY <1>3, ChainsApart DEF Shape
  <2> QED BY <2>2, <2>3, <2>4 DEF Has, Idle
<1>6. SUFFICES Blind(i) \in marks' \/ ~Out(i)'
  <2>1. mix'.chains[c][j] = i
    BY <1>1, <1>4 DEF Still
  <2> QED BY <1>6, <2>1 DEF Over, Blind
<1>7. ASSUME Has(w, d), j < work[w].at PROVE Blind(i) \in marks' \/ ~Out(i)
  BY <1>1, <1>3, <1>4, <1>7 DEF BehindOver, Over
<1>8. CASE \A v \in Process : ~Execute(v)
  <2>1. Out(i)' => Out(i)
    BY <1>8, LessUnderWay DEF Out, Single
  <2>2. CASE work'[w] = work[w]
    BY <1>2, <1>5, <1>7, <2>1, <2>2 DEF Has
  <2>3. ASSUME NEW v \in Process, Take(v) PROVE work'[w] = work[w]
    <3>1. w # v
      BY <1>2, <1>5, <2>3, TakeIs
    <3> QED BY <2>3, <3>1, TakeIs
  <2>4. CASE \A v \in Process : ~Take(v)
    <3>1. CASE work'[w] # work[w]
      <4>1. /\ work[w] # Idle /\ work[w].t = d /\ work'[w].at = work[w].at + 1
        BY <1>5, <1>8, <2>4, <3>1, StepContinues DEF Continues, GoesOn
      <4>2. /\ work[w].at \in Nat /\ Current(w) = mix.chains[c][work[w].at]
            /\ Has(w, d)
        BY <1>3, <1>5, <4>1, AtChain, ChainsApart DEF Has, Shape
      <4>3. j < work[w].at \/ i = Current(w)
        BY <1>2, <1>4, <1>5, <4>1, <4>2
      <4>4. Blind(Current(w)) \in marks' \/ ~Out(Current(w))
        BY <1>5, <1>8, <3>1, <4>1, GoesOnWhenOver
      <4> QED BY <1>7, <2>1, <4>2, <4>3, <4>4
    <3> QED BY <2>2, <3>1
  <2> QED BY <2>2, <2>3, <2>4
<1>9. ASSUME NEW v \in Process, Execute(v) PROVE Blind(i) \in marks' \/ ~Out(i)'
  <2>1. PICK b \in DOMAIN mix.chains :
          /\ Has(v, Chain(mix.chains[b])) /\ work[v].at \in DOMAIN mix.chains[b]
          /\ Current(v) = mix.chains[b][work[v].at] /\ work[v].at \in Nat
    BY <1>9, ExecuteIs, AtChain
  <2>2. i # Current(v) => (Out(i)' => Out(i))
    BY <1>9, MoreUnderWay DEF Out, Single
  <2>3. Has(w, d)
    BY <1>5, <1>9, ExecuteIs
  <2>4. CASE w # v
    <3>1. work'[w] = work[w]
      BY <1>9, <2>4, ExecuteIs
    <3>2. b # c
      BY <1>3, <2>1, <2>3, <2>4 DEF Once, Has
    <3>3. i # Current(v)
      BY <1>4, <2>1, <3>2, ChainsApart DEF Shape
    <3> QED BY <1>2, <1>7, <2>2, <2>3, <3>1, <3>3
  <2>5. CASE w = v
    <3>1. b = c
      BY <1>3, <2>1, <2>3, <2>5, ChainsApart DEF Has, Shape
    <3>2. \/ work'[v].at = work[v].at
          \/ work'[v].at = work[v].at + 1 /\ Blind(Current(v)) \in marks'
      BY <1>5, <1>9, <2>5, ExecuteIs
    <3>3. CASE j < work[v].at
      <4>1. i # Current(v)
        BY <1>4, <2>1, <3>1, <3>3, ChainsApart DEF Shape
      <4> QED BY <1>7, <2>2, <2>3, <2>5, <3>3, <4>1
    <3>4. CASE j = work[v].at
      <4>1. i = Current(v)
        BY <1>4, <2>1, <3>1, <3>4
      <4> QED BY <1>2, <2>1, <2>5, <3>2, <3>4, <4>1
    <3> QED BY <1>2, <1>5, <2>1, <2>5, <3>2, <3>3, <3>4
  <2> QED BY <2>4, <2>5
<1> QED BY <1>8, <1>9

LEMMA InTurnKept ==
  ASSUME Shape, Once, Fresh, BehindOver, InTurn, [Steps]_vars
  PROVE  InTurn'
<1>1. Still /\ marks \subseteq marks'
  BY StepKeeps, Kept, MarksGrow DEF Shape
<1>2. SUFFICES ASSUME NEW c \in DOMAIN mix.chains,
                      NEW j \in DOMAIN mix.chains[c], NEW k \in DOMAIN mix.chains[c], j < k,
                      Out(mix.chains[c][j])', Out(mix.chains[c][k])'
               PROVE  (Blind(mix.chains[c][j]) \in marks)'
  <2>1. mix'.chains = mix.chains
    BY <1>1 DEF Still
  <2> QED BY <1>2, <2>1 DEF InTurn
<1>3. PICK first, second : first = mix.chains[c][j] /\ second = mix.chains[c][k]
  OBVIOUS
<1>4. mix'.chains[c][j] = first /\ mix'.chains[c][k] = second /\ Out(first)' /\ Out(second)'
  <2>1. mix'.chains[c][j] = first /\ mix'.chains[c][k] = second
    BY <1>1, <1>3 DEF Still
  <2> QED BY <1>2, <2>1 DEF Out, Single
<1>5. SUFFICES Blind(first) \in marks'
  BY <1>4 DEF Blind
<1>6. ASSUME Out(first), Out(second) PROVE Blind(first) \in marks'
  BY <1>1, <1>2, <1>3, <1>6 DEF InTurn
<1>7. CASE \A w \in Process : ~Execute(w)
  <2>1. Out(first) /\ Out(second)
    BY <1>4, <1>7, LessUnderWay DEF Out, Single
  <2> QED BY <1>6, <2>1
<1>8. ASSUME NEW w \in Process, Execute(w) PROVE Blind(first) \in marks'
  <2>1. PICK b \in DOMAIN mix.chains :
          /\ Has(w, Chain(mix.chains[b])) /\ work[w].at \in DOMAIN mix.chains[b]
          /\ Current(w) = mix.chains[b][work[w].at]
    BY <1>8, ExecuteIs, AtChain
  <2>2. \A i : i # Current(w) => (Out(i)' => Out(i))
    BY <1>8, MoreUnderWay DEF Out, Single
  <2>3. CASE first # Current(w) /\ second # Current(w)
    BY <1>4, <1>6, <2>2, <2>3
  <2>4. CASE second = Current(w)
    <3>1. b = c /\ k = work[w].at
      <4>1. mix.chains[b][work[w].at] = mix.chains[c][k] /\ WellFormed(mix)
        BY <1>3, <2>1, <2>4 DEF Shape
      <4> QED BY <2>1, <4>1, ChainsApart
    <3>2. first # second
      BY <1>2, <1>3, ChainsApart, MixFacts DEF Shape
    <3>3. Blind(first) \in marks \/ ~Out(first)
      BY <1>2, <1>3, <2>1, <3>1 DEF BehindOver, Over
    <3> QED BY <1>1, <1>4, <2>2, <2>4, <3>2, <3>3
  <2>5. CASE first = Current(w)
    <3>1. b = c /\ j = work[w].at
      <4>1. mix.chains[b][work[w].at] = mix.chains[c][j] /\ WellFormed(mix)
        BY <1>3, <2>1, <2>5 DEF Shape
      <4> QED BY <2>1, <4>1, ChainsApart
    <3>2. first # second
      BY <1>2, <1>3, ChainsApart, MixFacts DEF Shape
    <3>3. ~Touched(second)
      BY <1>2, <1>3, <2>1, <3>1 DEF Fresh, Ahead
    <3> QED BY <1>4, <2>2, <2>5, <3>2, <3>3 DEF Touched
  <2> QED BY <2>3, <2>4, <2>5
<1> QED BY <1>7, <1>8

-----------------------------------------------------------------------------
(* Who is awaited has an owner.                                            *)

\* A host's task that is under way stays so until its process is at the end.
LEMMA Leaves ==
  ASSUME Shape, Once, Fresh, [Steps]_vars, NEW i, NEW h,
         Single(i, h) \in UnderWay, Single(i, h) \notin UnderWay'
  PROVE  \E w \in Process : /\ Has(w, Single(i, h))
                            /\ Report(w) \/ ReportLost(w) \/ ReportFails(w) \/ WorkerDies(w)
<1>1. PICK t : t = Single(i, h)
  OBVIOUS
<1>2. ~IsChain(t) /\ t \in UnderWay /\ ~Queued(t)' /\ \A v \in Process : ~Has(v, t)'
  <2>1. ~IsChain(t)
    BY <1>1 DEF IsChain, Single
  <2>2. t \in UnderWay' <=> Queued(t)' \/ \E v \in Process : Has(v, t)'
    BY DEF UnderWay, AtWork, Queued, Has
  <2>3. t \notin UnderWay'
    BY <1>1 DEF Single
  <2> QED BY <1>1, <2>1, <2>2, <2>3
<1>3. ~\E w \in Process : Take(w)
  BY <1>2, TakeOnce, UnderWayIs DEF Queued, Has, UnderWay, AtWork
<1>4. ~\E w \in Process : Execute(w)
  <2> SUFFICES ASSUME NEW w \in Process, Execute(w) PROVE FALSE
    OBVIOUS
  <2>1. /\ \A x : Queued(x) => Queued(x)'
        /\ \A v \in Process \ {w} : work'[v] = work[v]
        /\ IsChain(work[w].t)
    BY ExecuteIs
  <2> QED BY <1>2, <2>1, UnderWayIs DEF Has, Idle
<1>5. PICK w \in Process : Has(w, t)
  <2>1. \A x : Queued(x)' <=> Queued(x)
    BY <1>3, <1>4, StepContinues, ContinuesOnce
  <2> QED BY <1>2, <2>1, UnderWayIs
<1>6. work[w] # Idle /\ work[w].t = t /\ work'[w] = Idle
  <2>1. GoesOn(w) /\ ~Has(w, t)'
    BY <1>2, <1>3, <1>4, StepContinues DEF Continues
  <2> QED BY <1>5, <2>1 DEF GoesOn, Has, Idle
<1>7. Working(w, "run") \/ Working(w, "report")
  BY <1>2, <1>6, PlaceFacts DEF SingleWork, Working
<1>8. ASSUME UNCHANGED work PROVE FALSE
  BY <1>6, <1>8
<1>9. ASSUME NEW v \in Process, Work(v) \/ WorkerDies(v)
      PROVE  Report(w) \/ ReportLost(w) \/ ReportFails(w) \/ WorkerDies(w)
  <2>1. v = w
    BY <1>6, <1>9, OneMoves
  <2>2. ~Run(w)
    <3> SUFFICES ASSUME Run(w) PROVE FALSE
      OBVIOUS
    <3>1. PICK o \in Outcome : work'[w] = [work[w] EXCEPT !.pc = "report", !.out = o.out]
      BY DEF Run, Becomes, Shape, WorkShape
    <3>2. SingleWork(work[w])
      BY <1>7, PlaceFacts
    <3>3. work'[w].pc = "report"
      BY <3>1, <3>2 DEF SingleWork
    <3> QED BY <1>6, <3>3 DEF Idle
  <2>3. ~ExecuteFails(w) /\ ~Check(w)
    BY <1>7 DEF ExecuteFails, Check, Working
  <2> QED BY <1>3, <1>4, <1>9, <2>1, <2>2, <2>3 DEF Work
<1>10. ASSUME NEW s \in Subscriber, Callback(s) \/ SubscriptionEnds(s) PROVE UNCHANGED work
  BY <1>10 DEF Callback, SubscriptionEnds, Drop, Lock, Update, Subscribe
<1>11. CASE \/ \E m \in locks : LockExpires(m)
            \/ \E j \in Tasks : CorrectData(j)
            \/ TokenExpires \/ UNCHANGED vars
  BY <1>8, <1>11 DEF LockExpires, CorrectData, TokenExpires, vars
<1> QED BY <1>1, <1>5, <1>8, <1>9, <1>10, <1>11 DEF Steps

LEMMA OwnerKept ==
  ASSUME Shape, Once, Fresh, Unreported, AwaitedHasOwner, [Steps]_vars
  PROVE  AwaitedHasOwner'
<1>1. Still /\ marks \subseteq marks' /\ DOMAIN awaited = Tasks
  BY StepKeeps, Kept, MarksGrow DEF Shape, AwaitedShape
<1>2. SUFFICES ASSUME NEW i \in Tasks, NEW h \in awaited'[i]
               PROVE  Single(i, h) \in UnderWay' \/ Lost(i) \in marks'
  <2>1. Tasks' = Tasks
    BY <1>1, StillSame
  <2> QED BY <1>2, <2>1 DEF AwaitedHasOwner, Single, Lost
<1>3. ASSUME h \in awaited[i], Single(i, h) \notin UnderWay', Lost(i) \notin marks',
             ~\E w \in Process : Report(w) /\ work[w].t.id = i /\ work[w].t.host = h
      PROVE  FALSE
  <2>1. Single(i, h) \in UnderWay
    BY <1>1, <1>3 DEF AwaitedHasOwner
  <2>2. PICK w \in Process : /\ Has(w, Single(i, h))
                             /\ Report(w) \/ ReportLost(w) \/ ReportFails(w) \/ WorkerDies(w)
    BY <1>3, <2>1, Leaves
  <2>3. work[w].t = Single(i, h) /\ work[w].t.id = i /\ work[w].t.host = h /\ ~IsChain(work[w].t)
    BY <2>2 DEF Has, Single, IsChain
  <2>4. CASE ReportLost(w) \/ WorkerDies(w)
    BY <1>3, <2>3, <2>4 DEF ReportLost, WorkerDies
  <2>5. CASE ReportFails(w)
    BY <1>1, <1>3, <2>3, <2>5 DEF ReportFails, Unreported
  <2> QED BY <1>3, <2>2, <2>3, <2>4, <2>5
<1>4. ASSUME NEW w \in Process, Execute(w)
      PROVE  Single(i, h) \in UnderWay' \/ Lost(i) \in marks'
  <2>1. awaited' = [awaited EXCEPT ![Current(w)] = mix.task[Current(w)].hosts]
    BY <1>4 DEF Execute
  <2>2. CASE i = Current(w)
    <3>1. Single(i, h) \in SinglesOf({i})
      BY <1>1, <1>2, <2>1, <2>2, OneSingle
    <3>2. PICK t : t = Single(i, h)
      OBVIOUS
    <3>3. Queued(t)'
      BY <1>4, <2>2, <3>1, <3>2, ExecuteIs
    <3> QED BY <3>2, <3>3 DEF UnderWay, Queued, Single
  <2>3. CASE i # Current(w)
    <3>1. h \in awaited[i]
      BY <1>1, <1>2, <2>1, <2>3
    <3>2. ASSUME NEW v \in Process PROVE ~Report(v)
      <4>1. work[w] # Idle /\ IsChain(work[w].t) /\ queue' = queue \o Singles({Current(w)})
            /\ Working(w, "execute")
        BY <1>4, ExecuteIs DEF Execute
      <4>2. v # w => work'[v] = work[v]
        BY <1>4, ExecuteIs
      <4> QED BY <4>1, <4>2, PlaceFacts DEF Report, Working, Becomes, Shape, WorkShape
    <3> QED BY <1>3, <3>1, <3>2
  <2> QED BY <2>2, <2>3
<1>5. ASSUME NEW w \in Process, Report(w)
      PROVE  Single(i, h) \in UnderWay' \/ Lost(i) \in marks'
  <2>1. \/ /\ awaited' = awaited /\ Lost(work[w].t.id) \in marks'
        \/ awaited' = [awaited EXCEPT ![work[w].t.id] = awaited[work[w].t.id] \ {work[w].t.host}]
    BY <1>5 DEF Report
  <2>2. h \in awaited[i]
    BY <1>1, <1>2, <2>1
  <2>3. ~(work[w].t.id = i /\ work[w].t.host = h) \/ Lost(i) \in marks'
    BY <1>1, <1>2, <2>1
  <2>4. \A v \in Process \ {w} : ~Report(v)
    BY <1>5, PlaceFacts DEF Report, Becomes, Shape, WorkShape
  <2> QED BY <1>3, <2>2, <2>3, <2>4
<1>6. ASSUME NEW j \in Tasks, CorrectData(j)
      PROVE  Single(i, h) \in UnderWay' \/ Lost(i) \in marks'
  <2>1. h \in awaited[i] /\ UNCHANGED <<queue, work>>
    BY <1>1, <1>2, <1>6 DEF CorrectData
  <2> QED BY <1>1, <2>1 DEF AwaitedHasOwner, UnderWay, AtWork, Single, Idle
<1>7. ASSUME awaited' = awaited, \A w \in Process : ~Report(w)
      PROVE  Single(i, h) \in UnderWay' \/ Lost(i) \in marks'
  BY <1>2, <1>3, <1>7
<1>8. ASSUME NEW w \in Process, Work(w) \/ WorkerDies(w), ~Report(w), ~Execute(w)
      PROVE  awaited' = awaited
  BY <1>8 DEF Work, WorkerDies, Take, Run, ReportLost, ReportFails, ExecuteFails, Check
<1>9. ASSUME NEW s \in Subscriber, Callback(s) \/ SubscriptionEnds(s) PROVE awaited' = awaited
  BY <1>9 DEF Callback, SubscriptionEnds, Drop, Lock, Update, Subscribe
<1>10. ASSUME (\E m \in locks : LockExpires(m)) \/ TokenExpires \/ UNCHANGED vars
       PROVE  awaited' = awaited
  BY <1>10 DEF LockExpires, TokenExpires, vars
<1> QED BY <1>4, <1>5, <1>6, <1>7, <1>8, <1>9, <1>10 DEF Steps

LEMMA UnreportedKept == ASSUME Shape, Once, Unreported, [Steps]_vars PROVE Unreported'
<1>1. Still /\ marks \subseteq marks' /\ DOMAIN work = Process
  BY StepKeeps, Kept, MarksGrow DEF Shape, WorkShape
<1>2. SUFFICES ASSUME NEW w \in Process, work'[w].pc = "report",
                      ~Reports(KindOf(work'[w].t.id), work'[w].out)
               PROVE  Lost(work'[w].t.id) \in marks'
  <2>1. \A i : KindOf(i)' = KindOf(i)
    BY <1>1, StillSame
  <2> QED BY <1>1, <1>2, <2>1
             DEF Unreported, Working, Lost, KindOf, Still, Reports, OnSuccess, OnFailure
<1>3. CASE work'[w] = work[w]
  BY <1>1, <1>2, <1>3 DEF Unreported, Working
<1>4. CASE Run(w)
  <2>1. PICK o \in Outcome :
          /\ work'[w] = [work[w] EXCEPT !.pc = "report", !.out = o.out]
          /\ o.out = "garbled" \/ (o.out = "raised" /\ KindOf(work[w].t.id) # "cve_scan_task") =>
               Lost(work[w].t.id) \in marks'
    BY <1>1, <1>4 DEF Run, Becomes
  <2>2. SingleWork(work[w])
    BY <1>4, PlaceFacts DEF Run
  <2>3. work'[w].t = work[w].t /\ work'[w].out = o.out
    BY <2>1, <2>2 DEF SingleWork
  <2>4. o.out \in Outs
    BY DEF Outcome, Outs
  <2> QED BY <1>2, <2>1, <2>3, <2>4 DEF Reports, OnSuccess, OnFailure, Outs
<1>5. CASE work'[w] # work[w] /\ ~Run(w)
  <2>1. work'[w].pc # "report"
    <3>1. ASSUME NEW v \in Process, Take(v), v = w PROVE work'[w].pc # "report"
      BY <3>1, TakeIs
    <3>2. ASSUME Becomes(w, Idle) PROVE work'[w].pc # "report"
      BY <1>1, <3>2 DEF Becomes, Idle
    <3>3. ASSUME Working(w, "execute") \/ Working(w, "check"),
                 Onward(w) \/ Becomes(w, [work[w] EXCEPT !.pc = "check"])
          PROVE  work'[w].pc # "report"
      <4>1. work[w] \in [t : Chains, pc : {"execute", "check"}, at : Nat, out : {None}]
        BY <3>3, PlaceFacts DEF ChainWork
      <4>2. CASE Becomes(w, [work[w] EXCEPT !.pc = "check"])
        BY <1>1, <4>1, <4>2 DEF Becomes
      <4>3. CASE Becomes(w, [work[w] EXCEPT !.at = work[w].at + 1, !.pc = "execute"])
        <5> DEFINE x == [work[w] EXCEPT !.at = work[w].at + 1, !.pc = "execute"]
        <5>1. x = [t |-> work[w].t, pc |-> "execute", at |-> work[w].at + 1, out |-> None]
          BY <4>1, NextTurn
        <5>2. work'[w] = x
          BY <1>1, <4>3 DEF Becomes
        <5> HIDE DEF x
        <5> QED BY <5>1, <5>2
      <4>4. CASE Becomes(w, Idle)
        BY <3>2, <4>4
      <4> QED BY <3>3, <4>2, <4>3, <4>4 DEF Onward
    <3>4. ASSUME NEW v \in Process, Work(v) \/ WorkerDies(v) PROVE v = w
      BY <1>5, <3>4, OneMoves
    <3>5. CASE Work(w) \/ WorkerDies(w)
      BY <1>5, <3>1, <3>2, <3>3, <3>5
         DEF Work, WorkerDies, Report, ReportLost, ReportFails, Execute, ExecuteFails, Check
    <3>6. ASSUME UNCHANGED work PROVE FALSE
      BY <1>5, <3>6
    <3>7. ASSUME NEW s \in Subscriber, Callback(s) \/ SubscriptionEnds(s) PROVE UNCHANGED work
      BY <3>7 DEF Callback, SubscriptionEnds, Drop, Lock, Update, Subscribe
    <3>8. CASE \/ \E m \in locks : LockExpires(m)
               \/ \E j \in Tasks : CorrectData(j)
               \/ TokenExpires \/ UNCHANGED vars
      BY <3>6, <3>8 DEF LockExpires, CorrectData, TokenExpires, vars
    <3> QED BY <3>4, <3>5, <3>6, <3>7, <3>8 DEF Steps
  <2> QED BY <1>2, <2>1
<1> QED BY <1>3, <1>4, <1>5

-----------------------------------------------------------------------------
(* The row follows the host.                                               *)

\* What process v is at after a step, and the messages, in the terms of before.
LEMMA Read ==
  ASSUME Still, NEW k, NEW h
  PROVE  /\ \A v \in Process : OnIt(v, k, h)' <=>
              /\ work'[v] # Idle /\ ~IsChain(work'[v].t)
              /\ work'[v].t.host = h /\ KindOf(work'[v].t.id) = k
         /\ \A m : (Of(m, k, h)' <=> Of(m, k, h)) /\ (Good(m, k, h)' <=> Good(m, k, h))
<1>1. \A i : mix'.task[i].kind = mix.task[i].kind
  BY DEF Still
<1>2. \A v \in Process : OnIt(v, k, h)' <=>
        work'[v] # Idle /\ ~IsChain(work'[v].t) /\ work'[v].t.host = h /\ KindOf(work'[v].t.id) = k
  BY <1>1 DEF OnIt, On, KindOf, Idle, IsChain
<1>3. \A m : (Of(m, k, h)' <=> Of(m, k, h)) /\ (Good(m, k, h)' <=> Good(m, k, h))
  BY <1>1 DEF Of, Good, KindOf
<1> QED BY <1>2, <1>3

\* Nothing about the kind on the host changes.
Apart(k, h) ==
  /\ on'[h][k] = on[h][k] /\ row'[h][k] = row[h][k]
  /\ \A v \in Process : /\ OnIt(v, k, h)' <=> OnIt(v, k, h)
                        /\ OnIt(v, k, h) => work'[v] = work[v]
  /\ \A s \in Subscriber : \A m : Of(m, k, h) => /\ m \in Inbox(s)' <=> m \in Inbox(s)
                                                 /\ m \in locks' => m \in locks
                                                 /\ Writes(s, m) => Writes(s, m)'

LEMMA ApartKept ==
  ASSUME Still, NEW k, NEW h, RowInv(k, h), Apart(k, h)
  PROVE  RowInv(k, h)'
<1>1. /\ on'[h][k] = on[h][k] /\ row'[h][k] = row[h][k]
      /\ \A v \in Process : /\ OnIt(v, k, h)' <=> OnIt(v, k, h)
                            /\ OnIt(v, k, h) => work'[v] = work[v]
      /\ \A s \in Subscriber : \A m : Of(m, k, h) => /\ m \in Inbox(s)' <=> m \in Inbox(s)
                                                     /\ m \in locks' => m \in locks
                                                     /\ Writes(s, m) => Writes(s, m)'
      /\ \A m : (Of(m, k, h)' <=> Of(m, k, h)) /\ (Good(m, k, h)' <=> Good(m, k, h))
      /\ \A m : Good(m, k, h) => Of(m, k, h)
  BY Read DEF Apart, Good
<1>2. Fits(k, h)' <=> Fits(k, h)
  BY <1>1 DEF Fits
<1>3. OneAtWork(k, h)'
  BY <1>1 DEF RowInv, OneAtWork
<1>4. NoneSent(k, h)'
  BY <1>1 DEF RowInv, NoneSent
<1>5. FitsBefore(k, h)'
  BY <1>1, <1>2 DEF RowInv, FitsBefore, Working
<1>6. KnownAfter(k, h)'
  BY <1>1, <1>2 DEF RowInv, KnownAfter, Working
<1>7. Newest(k, h)'
  BY <1>1 DEF RowInv, Newest
<1>8. LockedHandled(k, h)'
  BY <1>1, <1>2 DEF RowInv, LockedHandled
<1>9. OnItsWay(k, h) => OnItsWay(k, h)'
  BY <1>1 DEF OnItsWay, Working
<1> QED BY <1>2, <1>3, <1>4, <1>5, <1>6, <1>7, <1>8, <1>9 DEF RowInv

\* Nobody is at it, nothing about it is waiting: it is as the row says.
LEMMA NothingOnItsWay ==
  ASSUME NEW k, NEW h, RowInv(k, h), \A v \in Process : ~OnIt(v, k, h),
         \A s \in Subscriber : \A m \in Inbox(s) : ~Of(m, k, h)
  PROVE  Fits(k, h)
BY DEF RowInv, OnItsWay, Good

\* A step in which processes go on and nothing else changes.
LEMMA SameTables ==
  ASSUME Still, NEW k, NEW h, RowInv(k, h), UNCHANGED <<on, row, sub, locks>>,
         \A v \in Process : /\ OnIt(v, k, h)' <=> OnIt(v, k, h)
                            /\ OnIt(v, k, h) => work'[v] = work[v]
  PROVE  RowInv(k, h)'
<1>1. \A s \in Subscriber : \A m : /\ m \in Inbox(s)' <=> m \in Inbox(s)
                                   /\ m \in locks' => m \in locks
                                   /\ Writes(s, m) => Writes(s, m)'
  BY DEF Inbox, Writes, Message
<1>2. Apart(k, h)
  BY <1>1 DEF Apart
<1> QED BY <1>2, ApartKept

LEMMA TakeRow ==
  ASSUME Shape, Once, NEW h \in Host, NEW k \in Column, RowInv(k, h), Clean(k, h)',
         NEW w \in Process, Take(w)
  PROVE  RowInv(k, h)'
<1> DEFINE t == Head(queue)
<1>1. /\ Still /\ t \in Item /\ work[w] = Idle /\ work'[w] # Idle /\ work'[w].t = t
      /\ work'[w].pc = (IF IsChain(t) THEN "execute" ELSE "run")
      /\ \A v \in Process \ {w} : work'[v] = work[v]
      /\ UNCHANGED <<on, row, sub, locks>>
      /\ marks' = IF Crosses(t) THEN marks \cup {Crossed(t)} ELSE marks
  BY TakeIs DEF Take
<1> HIDE DEF t
<1>2. \A v \in Process : OnIt(v, k, h)' <=> OnIt(v, k, h) \/ (v = w /\ On(t, k, h))
  BY <1>1, Read DEF OnIt, On, Idle
<1>3. CASE ~On(t, k, h)
  BY <1>1, <1>2, <1>3, SameTables DEF OnIt
<1>4. CASE On(t, k, h)
  <2>1. ~IsChain(t) /\ t.host = h /\ KindOf(t.id) = k
    BY <1>4 DEF On
  <2>2. ~Crosses(t)
    BY <1>1, <2>1 DEF Clean, Crossed
  <2>3. \A v \in Process : ~OnIt(v, k, h)
    BY <2>1, <2>2 DEF Crosses, OnIt, On, AtWork
  <2>4. ASSUME NEW s \in Subscriber, NEW m \in Inbox(s) PROVE ~Of(m, k, h)
    <3>1. sub[s].inbox \in Seq(Msg)
      BY SubFacts
    <3>2. PICK n \in DOMAIN sub[s].inbox : m = sub[s].inbox[n]
      BY DEF Inbox, ToSet
    <3> QED BY <2>1, <2>2, <3>2 DEF Crosses, Of
  <2>5. Fits(k, h)'
    BY <1>1, <2>3, <2>4, NothingOnItsWay DEF Fits
  <2>6. \A s \in Subscriber : \A m \in Inbox(s)' : ~Of(m, k, h)' /\ ~Good(m, k, h)'
    BY <1>1, <2>4, Read DEF Inbox, Good
  <2>7. \A v \in Process : OnIt(v, k, h)' => v = w /\ work'[v].pc = "run"
    BY <1>1, <1>2, <2>1, <2>3
  <2> QED BY <2>5, <2>6, <2>7 DEF RowInv, OneAtWork, NoneSent, FitsBefore, KnownAfter, Newest,
                                  LockedHandled, Working
<1> QED BY <1>3, <1>4

\* A process is at the end of what it is at.
LEMMA FreedRow ==
  ASSUME Shape, Still, NEW h \in Host, NEW k \in Column, RowInv(k, h),
         NEW w \in Process, ~OnIt(w, k, h), UNCHANGED <<on, row, sub, locks>>,
         Becomes(w, Idle)
  PROVE  RowInv(k, h)'
<1>1. work'[w] = Idle /\ \A v \in Process \ {w} : work'[v] = work[v]
  BY DEF Becomes, Shape, WorkShape
<1>2. \A v \in Process : (OnIt(v, k, h)' <=> OnIt(v, k, h)) /\ (OnIt(v, k, h) => work'[v] = work[v])
  BY <1>1, Read DEF OnIt, On
<1> QED BY <1>2, SameTables

LEMMA EndRow ==
  ASSUME Shape, Still, NEW h \in Host, NEW k \in Column, RowInv(k, h), Clean(k, h)',
         NEW w \in Process, WorkerDies(w) \/ ReportLost(w) \/ ReportFails(w)
  PROVE  RowInv(k, h)'
<1>1. Becomes(w, Idle) /\ UNCHANGED <<on, row, sub, locks>>
  BY DEF WorkerDies, ReportLost, ReportFails
<1>2. CASE ~OnIt(w, k, h)
  BY <1>1, <1>2, FreedRow
<1>3. CASE OnIt(w, k, h)
  <2>1. ~WorkerDies(w) /\ ~ReportLost(w)
    BY <1>3 DEF WorkerDies, ReportLost, Clean, Missed, OnIt, On
  <2>2. Working(w, "report") /\ work[w].out # "ok"
    BY <2>1 DEF ReportFails, Reports, OnSuccess
  <2>3. Fits(k, h)
    BY <1>3, <2>2 DEF RowInv, KnownAfter
  <2>4. work'[w] = Idle /\ \A v \in Process \ {w} : work'[v] = work[v]
    BY <1>1 DEF Becomes, Shape, WorkShape
  <2>5. \A v \in Process : ~OnIt(v, k, h)'
    BY <1>3, <2>4, Read DEF RowInv, OneAtWork, OnIt, On
  <2>6. Fits(k, h)' /\ Newest(k, h)'
    BY <1>1, <2>3, Read DEF Fits, RowInv, Newest, Inbox
  <2> QED BY <2>5, <2>6 DEF RowInv, OneAtWork, NoneSent, FitsBefore, KnownAfter, LockedHandled
<1> QED BY <1>2, <1>3

LEMMA RunRow ==
  ASSUME Shape, NEW h \in Host, NEW k \in Column, RowInv(k, h), Clean(k, h)',
         NEW w \in Process, Run(w)
  PROVE  RowInv(k, h)'
<1> USE DEF Table
<1> DEFINE t == work[w].t
<1>1. /\ Still /\ UNCHANGED <<row, sub, locks>> /\ Working(w, "run") /\ work[w] # Idle
      /\ SingleWork(work[w]) /\ t \in SinglesOf(Tasks) /\ t.id \in Tasks /\ t.host \in Host
  BY PlaceFacts, SingleFacts DEF Run, Still, Shape
<1>2. PICK o \in Outcome :
        /\ Becomes(w, [work[w] EXCEPT !.pc = "report", !.out = o.out])
        /\ on' = IF o.done /\ KindOf(t.id) \in Column
                 THEN [on EXCEPT ![t.host][KindOf(t.id)] = t.id] ELSE on
        /\ o.done /\ o.out # "ok" => Missed(t) \in marks'
  BY DEF Run
<1>3. /\ work'[w] # Idle /\ work'[w].t = t /\ work'[w].pc = "report" /\ work'[w].out = o.out
      /\ \A v \in Process \ {w} : work'[v] = work[v]
  BY <1>1, <1>2 DEF SingleWork, Becomes, Shape, WorkShape, Idle
<1>4. on \in Table
  BY DEF Shape, TableShape
<1>5. \A v \in Process : OnIt(v, k, h)' <=> OnIt(v, k, h)
  BY <1>1, <1>3, Read DEF OnIt, On
<1>6. on'[h][k] = IF o.done /\ OnIt(w, k, h) THEN t.id ELSE on[h][k]
  <2> DEFINE i == t.id
             g == t.host
             l == KindOf(t.id)
  <2>1. /\ i \in Tasks \cup {None} /\ g \in Host
        /\ OnIt(w, k, h) <=> g = h /\ l = k
    BY <1>1, SingleFacts DEF OnIt, On, Shape
  <2>2. on' = IF o.done /\ l \in Column THEN [on EXCEPT ![g][l] = i] ELSE on
    BY <1>2
  <2> HIDE DEF i, g, l
  <2>3. l \in Column => LET e == [on EXCEPT ![g][l] = i] IN
          e[g][l] = i /\ \A a \in Host, b \in Column : a # g \/ b # l => e[a][b] = on[a][b]
    BY <1>4, <2>1, Entry
  <2>4. on'[h][k] = IF o.done /\ OnIt(w, k, h) THEN i ELSE on[h][k]
    BY <2>1, <2>2, <2>3
  <2> QED BY <2>4 DEF i
<1>7. \A s \in Subscriber : \A m : /\ m \in Inbox(s)' <=> m \in Inbox(s)
                                   /\ m \in locks' => m \in locks
                                   /\ Writes(s, m) => Writes(s, m)'
  BY <1>1 DEF Inbox, Writes, Message
<1>8. CASE ~OnIt(w, k, h)
  <2>1. \A v \in Process : OnIt(v, k, h) => work'[v] = work[v]
    BY <1>3, <1>8
  <2>2. Apart(k, h)
    BY <1>1, <1>5, <1>6, <1>7, <1>8, <2>1 DEF Apart
  <2> QED BY <1>1, <2>2, ApartKept
<1>9. CASE OnIt(w, k, h)
  <2>1. Fits(k, h) /\ \A s \in Subscriber : \A m \in Inbox(s) : ~Of(m, k, h)
    BY <1>1, <1>9 DEF RowInv, FitsBefore, NoneSent
  <2>2. \A v \in Process : OnIt(v, k, h)' => v = w
    BY <1>5, <1>9 DEF RowInv, OneAtWork
  <2>3. ~(o.done /\ o.out # "ok")
    BY <1>2, <1>9 DEF Clean, Missed, OnIt, On
  <2>4. o.out = "ok" => o.done
    BY DEF Outcome
  <2>5. \A s \in Subscriber : \A m \in Inbox(s)' : ~Of(m, k, h)' /\ ~Good(m, k, h)'
    BY <1>1, <1>7, <2>1, Read DEF Good
  <2>6. IF o.out = "ok" THEN on'[h][k] = t.id ELSE Fits(k, h)'
    BY <1>1, <1>6, <1>9, <2>1, <2>3, <2>4 DEF Fits
  <2>7. OneAtWork(k, h)' /\ NoneSent(k, h)' /\ Newest(k, h)' /\ LockedHandled(k, h)'
    BY <2>2, <2>5 DEF OneAtWork, NoneSent, Newest, LockedHandled
  <2>8. FitsBefore(k, h)' /\ KnownAfter(k, h)'
    BY <1>3, <2>2, <2>6 DEF FitsBefore, KnownAfter, Working
  <2>9. Fits(k, h)' \/ OnItsWay(k, h)'
    BY <1>3, <1>5, <1>9, <2>6 DEF OnItsWay, Working
  <2> QED BY <2>7, <2>8, <2>9 DEF RowInv
<1> QED BY <1>8, <1>9

LEMMA ReportRow ==
  ASSUME Shape, Once, Fresh, NEW h \in Host, NEW k \in Column, RowInv(k, h), Clean(k, h)',
         NEW w \in Process, Report(w)
  PROVE  RowInv(k, h)'
<1> DEFINE t == work[w].t
<1>1. PICK m : m = MessageOf(w)
  OBVIOUS
<1>2. /\ Still /\ UNCHANGED <<on, row, locks>> /\ Working(w, "report") /\ work[w] # Idle
      /\ ~IsChain(t) /\ work'[w] = Idle /\ \A v \in Process \ {w} : work'[v] = work[v]
  BY StepKeeps, Kept, PlaceFacts, SingleFacts
     DEF Report, Becomes, Shape, WorkShape, Still, Trouble
<1>3. /\ m.id = t.id /\ m.host = t.host /\ m.ok = (work[w].out = "ok")
      /\ Of(m, k, h) <=> OnIt(w, k, h)
  BY <1>1, <1>2 DEF MessageOf, Succeeds, Of, OnIt, On
<1>4. \A s \in Subscriber :
        /\ sub'[s].at = sub[s].at
        /\ \/ sub'[s] = sub[s] /\ (KindOf(t.id) \notin Column \/ sub[s].at = "away")
           \/ /\ sub[s].at # "away" /\ KindOf(t.id) \in Column
              /\ sub'[s].inbox = Append(sub[s].inbox, m) /\ Inbox(s)' = Inbox(s) \cup {m}
  BY <1>1, ReportIs
<1>5. \A v \in Process : OnIt(v, k, h)' <=> OnIt(v, k, h) /\ v # w
  BY <1>2, Read DEF OnIt, On
<1>6. CASE ~OnIt(w, k, h)
  <2>1. ASSUME NEW s \in Subscriber, NEW n, Of(n, k, h), Writes(s, n) PROVE Writes(s, n)'
    <3> DEFINE q == sub[s].inbox
    <3>1. q \in Seq(Msg) /\ q # <<>> /\ Head(q) = n
      BY <2>1, SubFacts DEF Writes, Message
    <3> HIDE DEF q
    <3>2. Head(Append(q, m)) = Head(q)
      BY <3>1
    <3>3. sub'[s].at = "writing" /\ Head(sub'[s].inbox) = n
      BY <1>4, <2>1, <3>1, <3>2 DEF Writes, q
    <3> QED BY <3>3 DEF Writes, Message
  <2>2. \A s \in Subscriber : \A n : Of(n, k, h) => (n \in Inbox(s)' <=> n \in Inbox(s))
    BY <1>3, <1>4, <1>6 DEF Inbox
  <2>3. Apart(k, h)
    BY <1>2, <1>5, <1>6, <2>1, <2>2 DEF Apart
  <2> QED BY <1>2, <2>3, ApartKept
<1>7. CASE OnIt(w, k, h)
  <2>1. \A v \in Process : ~OnIt(v, k, h)'
    BY <1>5, <1>7 DEF RowInv, OneAtWork
  <2>2. IF m.ok THEN on[h][k] = m.id ELSE Fits(k, h)
    BY <1>2, <1>3, <1>7 DEF RowInv, KnownAfter
  <2>3. ASSUME NEW s \in Subscriber, NEW n \in Inbox(s)', Good(n, k, h)' PROVE n = m /\ m.ok
    <3>1. Of(n, k, h) /\ n.ok
      BY <1>2, <2>3, Read DEF Good
    <3>2. n \notin Inbox(s)
      BY <1>7, <3>1 DEF RowInv, NoneSent
    <3>3. n = m
      BY <1>4, <2>3, <3>2 DEF Inbox
    <3> QED BY <3>1, <3>3
  <2>4. ASSUME NEW s \in Subscriber, m \in Inbox(s)' PROVE m \notin locks
    <3>1. Single(m.id, m.host) \in UnderWay
      BY <1>1, ReportEnds
    <3> QED BY <3>1 DEF Fresh, Reported
  <2>5. Newest(k, h)'
    BY <1>2, <2>2, <2>3 DEF Newest
  <2>6. LockedHandled(k, h)'
    BY <1>2, <2>3, <2>4 DEF LockedHandled
  <2>7. Fits(k, h)' \/ OnItsWay(k, h)'
    <3>1. CASE ~m.ok
      BY <1>2, <2>2, <3>1 DEF Fits
    <3>2. CASE m.ok
      <4>1. KindOf(t.id) = k /\ t.host = h
        BY <1>7 DEF OnIt, On
      <4>2. PICK s \in Subscriber : sub[s].at # "away"
        BY <4>1 DEF Report, Clean, Missed
      <4>3. m \in Inbox(s)' /\ Good(m, k, h)'
        BY <1>2, <1>3, <1>4, <1>7, <3>2, <4>1, <4>2, Read DEF Good
      <4> QED BY <4>3 DEF OnItsWay
    <3> QED BY <3>1, <3>2
  <2> QED BY <2>1, <2>5, <2>6, <2>7
       DEF RowInv, OneAtWork, NoneSent, FitsBefore, KnownAfter
<1> QED BY <1>6, <1>7

\* What processes are at does not change.
LEMMA WorkersStay ==
  ASSUME Still, NEW k, NEW h, RowInv(k, h), UNCHANGED <<on, work>>,
         \A s \in Subscriber : Inbox(s)' \subseteq Inbox(s)
  PROVE  /\ OneAtWork(k, h)' /\ NoneSent(k, h)' /\ Newest(k, h)'
         /\ \A w \in Process : OnIt(w, k, h)' <=> OnIt(w, k, h)
<1>1. \A w \in Process : OnIt(w, k, h)' <=> OnIt(w, k, h)
  BY Read DEF OnIt, On
<1>2. OneAtWork(k, h)' /\ NoneSent(k, h)' /\ Newest(k, h)'
  BY <1>1, Read DEF RowInv, OneAtWork, NoneSent, Newest
<1> QED BY <1>1, <1>2

LEMMA WorkersKnow ==
  ASSUME Still, NEW k, NEW h, RowInv(k, h), UNCHANGED <<on, work>>,
         \A s \in Subscriber : Inbox(s)' \subseteq Inbox(s),
         Fits(k, h) => Fits(k, h)'
  PROVE  /\ OneAtWork(k, h)' /\ NoneSent(k, h)' /\ Newest(k, h)'
         /\ FitsBefore(k, h)' /\ KnownAfter(k, h)'
<1>1. OneAtWork(k, h)' /\ NoneSent(k, h)' /\ Newest(k, h)'
  BY WorkersStay
<1>2. FitsBefore(k, h)' /\ KnownAfter(k, h)'
  BY WorkersStay DEF RowInv, FitsBefore, KnownAfter, Working
<1> QED BY <1>1, <1>2

LEMMA DropRow ==
  ASSUME Shape, NEW h \in Host, NEW k \in Column, RowInv(k, h),
         NEW s \in Subscriber, Drop(s)
  PROVE  RowInv(k, h)'
<1>1. PICK m : m = Message(s)
  OBVIOUS
<1>2. /\ Still /\ UNCHANGED <<on, row, work, locks>> /\ Listening(s) /\ Pops(s)
      /\ sub[s].inbox # <<>> /\ (~m.ok \/ m \in locks)
  BY <1>1 DEF Drop, Still, Handled, Listening
<1>3. /\ \A r \in Subscriber \ {s} : sub'[r] = sub[r]
      /\ \A r \in Subscriber : Inbox(r)' \subseteq Inbox(r) /\ Inbox(r) \subseteq Inbox(r)' \cup {m}
      /\ m \in Inbox(s)
  BY <1>1, <1>2, PopsIs, SubFacts
<1>4. Fits(k, h)' <=> Fits(k, h)
  BY <1>2 DEF Fits
<1>5. \A r \in Subscriber : \A n : Writes(r, n) => Writes(r, n)' /\ n \in Inbox(r)'
  <2> SUFFICES ASSUME NEW r \in Subscriber, NEW n, Writes(r, n)
               PROVE  Writes(r, n)' /\ n \in Inbox(r)'
    OBVIOUS
  <2>1. r # s /\ n \in Inbox(r)
    BY <1>2, SubFacts DEF Writes, Listening
  <2> QED BY <1>3, <2>1 DEF Writes, Message, Inbox
<1>6. LockedHandled(k, h)'
  BY <1>2, <1>3, <1>4, <1>5, Read DEF RowInv, LockedHandled
<1>7. ASSUME OnItsWay(k, h) PROVE Fits(k, h)' \/ OnItsWay(k, h)'
  <2>1. ASSUME NEW w \in Process, OnIt(w, k, h) /\ Working(w, "report") /\ work[w].out = "ok"
        PROVE  OnItsWay(k, h)'
    BY <1>2, <1>3, <2>1, WorkersStay DEF OnItsWay, Working
  <2>2. ASSUME NEW r \in Subscriber, NEW n \in Inbox(r), Good(n, k, h), n \in Inbox(r)'
        PROVE  OnItsWay(k, h)'
    BY <1>2, <2>2, Read DEF OnItsWay
  <2>3. ASSUME Good(m, k, h) PROVE Fits(k, h)' \/ OnItsWay(k, h)'
    <3>1. m \in locks
      BY <1>2, <2>3 DEF Good
    <3>2. CASE Fits(k, h)
      BY <1>4, <3>2
    <3>3. ASSUME NEW r \in Subscriber, Writes(r, m) PROVE OnItsWay(k, h)'
      BY <1>2, <1>5, <2>3, <3>3, Read DEF OnItsWay
    <3> QED BY <1>3, <2>3, <3>1, <3>2, <3>3 DEF RowInv, LockedHandled
  <2> QED BY <1>3, <1>7, <2>1, <2>2, <2>3 DEF OnItsWay
<1> QED BY <1>2, <1>3, <1>4, <1>6, <1>7, WorkersKnow DEF RowInv

LEMMA LockRow ==
  ASSUME Shape, NEW h \in Host, NEW k \in Column, RowInv(k, h),
         NEW s \in Subscriber, Lock(s)
  PROVE  RowInv(k, h)'
<1>1. PICK m : m = Message(s)
  OBVIOUS
<1>2. /\ Still /\ UNCHANGED <<on, row, work>> /\ locks' = locks \cup {m}
      /\ sub' = [sub EXCEPT ![s].at = "writing"] /\ sub[s].at = "listening"
  BY <1>1 DEF Lock, Still, Listening
<1>3. /\ sub'[s].at = "writing" /\ \A r \in Subscriber \ {s} : sub'[r] = sub[r]
      /\ \A r \in Subscriber : sub'[r].inbox = sub[r].inbox
  BY <1>2, MovesIs
<1>4. (Fits(k, h)' <=> Fits(k, h)) /\ \A r \in Subscriber : Inbox(r)' = Inbox(r)
  BY <1>2, <1>3 DEF Fits, Inbox
<1>5. Writes(s, m)' /\ \A r \in Subscriber : \A n : Writes(r, n) => Writes(r, n)'
  BY <1>1, <1>2, <1>3 DEF Writes, Message
<1>6. LockedHandled(k, h)'
  BY <1>2, <1>4, <1>5, Read DEF RowInv, LockedHandled
<1>7. OnItsWay(k, h) => OnItsWay(k, h)'
  BY <1>2, <1>4, WorkersStay, Read DEF OnItsWay, Working
<1> QED BY <1>2, <1>4, <1>6, <1>7, WorkersKnow DEF RowInv

LEMMA UpdateRow ==
  ASSUME Shape, NEW h \in Host, NEW k \in Column, RowInv(k, h), Clean(k, h)',
         NEW s \in Subscriber, Update(s)
  PROVE  RowInv(k, h)'
<1> USE DEF Table
<1>1. PICK m : m = Message(s)
  OBVIOUS
<1>2. /\ Still /\ UNCHANGED <<on, work, locks>> /\ Pops(s)
      /\ sub[s].at = "writing" /\ sub[s].inbox # <<>> /\ m.ok
      /\ \/ row' = [row EXCEPT ![m.host][KindOf(m.id)] = m.id]
         \/ row' = row /\ Missed(m) \in marks'
  BY <1>1, SubFacts, StepKeeps, Kept DEF Update, Still, Trouble, Handled, Shape
<1>3. /\ \A r \in Subscriber \ {s} : sub'[r] = sub[r]
      /\ \A r \in Subscriber : Inbox(r)' \subseteq Inbox(r) /\ Inbox(r) \subseteq Inbox(r)' \cup {m}
      /\ m \in Inbox(s) /\ m \in Msg
  BY <1>1, <1>2, PopsIs, SubFacts
<1>4. row \in Table
  BY DEF Shape, TableShape
<1>5. row'[h][k] = IF Of(m, k, h) THEN m.id ELSE row[h][k]
  <2> DEFINE i == m.id
             g == m.host
             l == KindOf(m.id)
  <2>1. i \in Tasks \cup {None} /\ g \in Host /\ l \in Column /\ (Of(m, k, h) <=> g = h /\ l = k)
    BY <1>3 DEF Msg, Of
  <2>2. CASE row' = [row EXCEPT ![g][l] = i]
    <3> HIDE DEF i, g, l
    <3>1. LET e == [row EXCEPT ![g][l] = i] IN
            e[g][l] = i /\ \A a \in Host, b \in Column : a # g \/ b # l => e[a][b] = row[a][b]
      BY <1>4, <2>1, Entry
    <3>2. row'[h][k] = IF Of(m, k, h) THEN i ELSE row[h][k]
      BY <2>1, <2>2, <3>1
    <3> QED BY <3>2 DEF i
  <2>3. CASE row' = row /\ Missed(m) \in marks'
    <3>1. ~Of(m, k, h)
      BY <2>3 DEF Clean, Missed, Of
    <3> QED BY <2>3, <3>1
  <2> QED BY <1>2, <2>2, <2>3
<1>6. CASE Of(m, k, h)
  <2>1. Fits(k, h)'
    BY <1>2, <1>3, <1>5, <1>6 DEF Fits, Good, RowInv, Newest
  <2>2. LockedHandled(k, h)'
    BY <2>1 DEF LockedHandled
  <2> QED BY <1>2, <1>3, <2>1, <2>2, WorkersKnow DEF RowInv
<1>7. CASE ~Of(m, k, h)
  <2>1. \A r \in Subscriber : \A n : Of(n, k, h) /\ Writes(r, n) => Writes(r, n)'
    <3> SUFFICES ASSUME NEW r \in Subscriber, NEW n, Of(n, k, h), Writes(r, n) PROVE Writes(r, n)'
      OBVIOUS
    <3>1. r # s
      BY <1>1, <1>7 DEF Writes
    <3> QED BY <1>3, <3>1 DEF Writes, Message
  <2>2. \A v \in Process : OnIt(v, k, h)' <=> OnIt(v, k, h)
    BY <1>2, <1>3, WorkersStay
  <2>3. Apart(k, h)
    BY <1>2, <1>3, <1>5, <1>7, <2>1, <2>2 DEF Apart
  <2> QED BY <1>2, <2>3, ApartKept
<1> QED BY <1>6, <1>7

LEMMA SubscriptionEndsRow ==
  ASSUME Shape, NEW h \in Host, NEW k \in Column, RowInv(k, h), Clean(k, h)',
         NEW s \in Subscriber, SubscriptionEnds(s)
  PROVE  RowInv(k, h)'
<1>1. /\ Still /\ UNCHANGED <<on, row, work, locks>> /\ sub[s].at = "listening"
      /\ \A m \in Inbox(s) : Missed(m) \in marks'
  BY StepKeeps, Kept DEF SubscriptionEnds, Shape, Inbox, Still, Trouble
<1>2. Inbox(s)' = {} /\ \A r \in Subscriber \ {s} : sub'[r] = sub[r]
  BY EndsIs
<1>3. \A m \in Inbox(s) : ~Of(m, k, h)
  BY <1>1 DEF Clean, Missed, Of
<1>4. \A r \in Subscriber : \A m : Of(m, k, h) => /\ m \in Inbox(r)' <=> m \in Inbox(r)
                                                  /\ m \in locks' => m \in locks
                                                  /\ Writes(r, m) => Writes(r, m)'
  BY <1>1, <1>2, <1>3 DEF Inbox, Writes, Message
<1>5. \A v \in Process : OnIt(v, k, h)' <=> OnIt(v, k, h)
  BY <1>1, <1>2, WorkersStay DEF Inbox
<1>6. Apart(k, h)
  BY <1>1, <1>4, <1>5 DEF Apart
<1> QED BY <1>1, <1>6, ApartKept

LEMMA SubscribeRow ==
  ASSUME Shape, NEW h \in Host, NEW k \in Column, RowInv(k, h),
         NEW s \in Subscriber, Subscribe(s)
  PROVE  RowInv(k, h)'
<1>1. /\ Still /\ UNCHANGED <<on, row, work, locks>> /\ sub[s].at = "away"
      /\ sub' = [sub EXCEPT ![s].at = "listening"]
  BY DEF Subscribe, Still
<1>2. /\ \A r \in Subscriber \ {s} : sub'[r] = sub[r]
      /\ \A r \in Subscriber : sub'[r].inbox = sub[r].inbox
  BY <1>1, MovesIs
<1>3. \A r \in Subscriber : \A m : /\ m \in Inbox(r)' <=> m \in Inbox(r)
                                   /\ m \in locks' => m \in locks
                                   /\ Writes(r, m) => Writes(r, m)'
  BY <1>1, <1>2 DEF Inbox, Writes, Message
<1>4. \A v \in Process : OnIt(v, k, h)' <=> OnIt(v, k, h)
  BY <1>1, <1>3, WorkersStay
<1>5. Apart(k, h)
  BY <1>1, <1>3, <1>4 DEF Apart
<1> QED BY <1>1, <1>5, ApartKept

\* Chains concern no row.
LEMMA ChainRow ==
  ASSUME Shape, Once, Fresh, [Steps]_vars, NEW h \in Host, NEW k \in Column, RowInv(k, h),
         NEW w \in Process, Execute(w) \/ ExecuteFails(w) \/ Check(w)
  PROVE  RowInv(k, h)'
<1>1. Still /\ UNCHANGED <<on, row, sub, locks>>
  BY StepKeeps, Kept DEF Execute, ExecuteFails, Check, Shape
<1>2. work[w] # Idle /\ IsChain(work[w].t)
  BY PlaceFacts, ChainFacts DEF Execute, ExecuteFails, Check, Shape
<1>3. \A v \in Process \ {w} : work'[v] = work[v]
  BY DEF Execute, ExecuteFails, Check, Onward, Becomes, Shape, WorkShape
<1>4. work'[w] = Idle \/ work'[w].t = work[w].t
  <2>1. CASE Execute(w)
    BY <2>1, ExecuteIs
  <2>2. CASE ExecuteFails(w) \/ Check(w)
    <3>1. GoesOn(w)
      BY <2>2, OnwardIs DEF ExecuteFails, Check
    <3> QED BY <3>1 DEF GoesOn
  <2> QED BY <2>1, <2>2
<1>5. \A v \in Process : (OnIt(v, k, h)' <=> OnIt(v, k, h)) /\ (OnIt(v, k, h) => work'[v] = work[v])
  <2>1. ~OnIt(w, k, h) /\ ~OnIt(w, k, h)'
    BY <1>1, <1>2, <1>4, Read DEF OnIt, On
  <2>2. \A v \in Process \ {w} : OnIt(v, k, h)' <=> OnIt(v, k, h)
    BY <1>1, <1>3, Read DEF OnIt, On
  <2> QED BY <1>3, <2>1, <2>2
<1> QED BY <1>1, <1>5, SameTables

LEMMA RestRow ==
  ASSUME Shape, Still, NEW h \in Host, NEW k \in Column, RowInv(k, h),
         UNCHANGED <<on, row, work, sub>>, locks' \subseteq locks
  PROVE  RowInv(k, h)'
<1>1. \A r \in Subscriber : \A m : /\ m \in Inbox(r)' <=> m \in Inbox(r)
                                   /\ m \in locks' => m \in locks
                                   /\ Writes(r, m) => Writes(r, m)'
  BY DEF Inbox, Writes, Message
<1>2. \A v \in Process : OnIt(v, k, h)' <=> OnIt(v, k, h)
  BY <1>1, WorkersStay
<1>3. Apart(k, h)
  BY <1>1, <1>2 DEF Apart
<1> QED BY <1>3, ApartKept

LEMMA RowsKept == ASSUME Shape, Once, Fresh, Rows, [Steps]_vars PROVE Rows'
<1>1. Still /\ marks \subseteq marks'
  BY StepKeeps, Kept, MarksGrow DEF Shape
<1>2. SUFFICES ASSUME NEW h \in Host, NEW k \in Column, Clean(k, h)' PROVE RowInv(k, h)'
  BY DEF Rows, Column
<1>3. RowInv(k, h)
  BY <1>1, <1>2 DEF Rows, Clean
<1>4. ASSUME NEW w \in Process, Work(w) \/ WorkerDies(w) PROVE RowInv(k, h)'
  BY <1>1, <1>2, <1>3, <1>4, TakeRow, RunRow, ReportRow, EndRow, ChainRow DEF Work
<1>5. ASSUME NEW s \in Subscriber, Callback(s) \/ SubscriptionEnds(s) PROVE RowInv(k, h)'
  BY <1>2, <1>3, <1>5, DropRow, LockRow, UpdateRow, SubscribeRow, SubscriptionEndsRow DEF Callback
<1>6. CASE \/ \E m \in locks : LockExpires(m)
           \/ \E i \in Tasks : CorrectData(i)
           \/ TokenExpires \/ UNCHANGED vars
  <2>1. UNCHANGED <<on, row, work, sub>> /\ locks' \subseteq locks
    BY <1>6 DEF LockExpires, CorrectData, TokenExpires, vars
  <2> QED BY <1>1, <1>3, <2>1, RestRow
<1> QED BY <1>4, <1>5, <1>6 DEF Steps

-----------------------------------------------------------------------------
(* The inductive invariant, and what follows from it.                      *)

HostInv ==
  /\ Shape /\ Once /\ Fresh
  /\ AwaitedWhileOut /\ BehindOver /\ InTurn
  /\ Unreported /\ AwaitedHasOwner
  /\ Rows

\* Chains and the tasks in no chain, in any order, are a queue of different items.
LEMMA QueueStart ==
  ASSUME Init
  PROVE  /\ WellFormed(mix) /\ queue \in Seq(Item) /\ Distinct(queue)
         /\ ToSet(queue) = Chains \cup SinglesOf(Tasks \ Chained)
<1> DEFINE cs == [c \in DOMAIN mix.chains |-> Chain(mix.chains[c])]
           ss == Singles(Tasks \ Chained)
<1>1. WellFormed(mix)
  BY MixesAssumption DEF Init
<1>2. mix.chains \in Seq(Seq(Task))
  BY <1>1 DEF WellFormed, Mix
<1>3. cs \in Seq(Item) /\ ToSet(cs) = Chains /\ Distinct(cs)
  <2>1. DOMAIN cs = 1..Len(mix.chains) /\ Len(mix.chains) \in Nat
        /\ DOMAIN mix.chains = 1..Len(mix.chains)
    BY <1>2
  <2>2. \A c \in DOMAIN cs : cs[c] \in Item
    BY DEF Item, Chains
  <2>3. cs \in Seq(Item)
    <3> DEFINE n == Len(mix.chains)
    <3>1. cs \in [1..n -> Item] /\ n \in Nat
      BY <2>1, <2>2
    <3> HIDE DEF cs, n
    <3> QED BY <3>1
  <2>4. ToSet(cs) = Chains
    BY DEF ToSet, Chains
  <2>5. Distinct(cs)
    BY <1>1, ChainsApart DEF Distinct
  <2> QED BY <2>3, <2>4, <2>5
<1>4. ss \in Seq(Item) /\ ToSet(ss) = SinglesOf(Tasks \ Chained) /\ Distinct(ss)
  BY <1>1, SinglesFacts
<1>5. SinglesOf(Tasks \ Chained) \cap Chains = {}
  <2>1. SinglesOf(Tasks \ Chained) \subseteq SinglesOf(Tasks)
    BY DEF SinglesOf
  <2> QED BY <1>1, <2>1, SingleFacts, ChainFacts
<1>6. queue = cs \o ss \/ queue = ss \o cs
  BY DEF Init
<1> HIDE DEF cs, ss
<1>7. ToSet(cs) \cap ToSet(ss) = {} /\ ToSet(ss) \cap ToSet(cs) = {}
  BY <1>3, <1>4, <1>5
<1>8. cs \o ss \in Seq(Item) /\ ToSet(cs \o ss) = ToSet(cs) \cup ToSet(ss) /\ Distinct(cs \o ss)
  BY <1>3, <1>4, <1>7, JoinedApart
<1>9. ss \o cs \in Seq(Item) /\ ToSet(ss \o cs) = ToSet(ss) \cup ToSet(cs) /\ Distinct(ss \o cs)
  BY <1>3, <1>4, <1>7, JoinedApart
<1> QED BY <1>1, <1>3, <1>4, <1>6, <1>8, <1>9

LEMMA HostStart == Init => HostInv
<1> USE DEF Subs, Table
<1> SUFFICES ASSUME Init PROVE HostInv
  OBVIOUS
<1>1. /\ WellFormed(mix) /\ queue \in Seq(Item) /\ Distinct(queue)
      /\ ToSet(queue) = Chains \cup SinglesOf(Tasks \ Chained)
  BY QueueStart
<1>2. DOMAIN work = Process /\ \A w \in Process : work[w] = Idle /\ work[w].pc = "idle"
  BY DEF Init, Idle
<1>3. /\ locks = {} /\ marks = {}
      /\ sub = [s \in Subscriber |-> [at |-> "listening", inbox |-> <<>>]]
      /\ on = [h \in Host |-> [k \in Column |-> None]]
      /\ row = [h \in Host |-> [k \in Column |-> None]]
      /\ awaited = [i \in Tasks |-> IF i \in Chained THEN {} ELSE mix.task[i].hosts]
  BY DEF Init
<1>4. \A s \in Subscriber : Inbox(s) = {} /\ sub[s].at = "listening"
  BY <1>3 DEF Inbox, ToSet
<1>5. Shape
  <2>1. WorkShape /\ AwaitedShape /\ TableShape
    BY <1>2, <1>3 DEF WorkShape, AwaitedShape, TableShape
  <2>2. SubShape
    BY <1>3, <1>4 DEF SubShape
  <2> QED BY <1>1, <1>3, <2>1, <2>2 DEF Shape
<1>6. Once
  BY <1>1, <1>2 DEF Once, Distinct, Has
<1>7. \A i, h : Single(i, h) \in UnderWay => i \in Tasks \ Chained
  <2> SUFFICES ASSUME NEW i, NEW h, Single(i, h) \in UnderWay PROVE i \in Tasks \ Chained
    OBVIOUS
  <2>1. PICK t : t = Single(i, h)
    OBVIOUS
  <2>2. t \in ToSet(queue)
    BY <1>2, <2>1, UnderWayIs DEF Queued, Has
  <2>3. t.id = i /\ t.chain = <<>>
    BY <2>1 DEF Single
  <2>4. t \notin Chains
    BY <1>1, <2>3, ChainFacts DEF IsChain
  <2>5. t \in SinglesOf(Tasks \ Chained)
    BY <1>1, <2>2, <2>4
  <2>6. PICK j \in Tasks \ Chained : t \in {Single(j, g) : g \in mix.task[j].hosts}
    BY <2>5 DEF SinglesOf
  <2> QED BY <2>3, <2>6 DEF Single
<1>8. \A c \in DOMAIN mix.chains : \A j \in DOMAIN mix.chains[c] :
        mix.chains[c][j] \in Chained /\ ~Out(mix.chains[c][j])
  <2> SUFFICES ASSUME NEW c \in DOMAIN mix.chains, NEW j \in DOMAIN mix.chains[c]
               PROVE  mix.chains[c][j] \in Chained /\ ~Out(mix.chains[c][j])
    OBVIOUS
  <2>1. mix.chains[c][j] \in Chained
    BY DEF Chained, ToSet
  <2> QED BY <1>7, <2>1 DEF Out
<1>9. Fresh
  BY <1>3, <1>4, <1>8 DEF Fresh, Reported, Touched
<1>10. AwaitedWhileOut
  <2> SUFFICES ASSUME NEW i \in Tasks, NEW h \in Host, Single(i, h) \in UnderWay
               PROVE  h \in awaited[i]
    BY DEF AwaitedWhileOut
  <2>1. i \in Tasks \ Chained
    BY <1>7
  <2>2. PICK t : t = Single(i, h)
    OBVIOUS
  <2>3. t.id = i /\ t.host = h /\ t.chain = <<>> /\ t \in ToSet(queue)
    BY <1>2, <2>2, UnderWayIs DEF Queued, Has, Single
  <2>4. t \notin Chains
    BY <1>1, <2>3, ChainFacts DEF IsChain
  <2>5. t \in SinglesOf(Tasks)
    BY <1>1, <2>3, <2>4 DEF SinglesOf
  <2> QED BY <1>1, <1>3, <2>1, <2>3, <2>5, SingleFacts
<1>11. BehindOver /\ InTurn
  BY <1>2, <1>8 DEF BehindOver, InTurn, Has
<1>12. Unreported
  BY <1>2 DEF Unreported, Working
<1>13. AwaitedHasOwner
  <2> SUFFICES ASSUME NEW i \in Tasks, NEW h \in awaited[i] PROVE Single(i, h) \in UnderWay
    BY DEF AwaitedHasOwner
  <2>1. i \in Tasks \ Chained /\ h \in mix.task[i].hosts
    BY <1>3
  <2>2. Single(i, h) \in SinglesOf(Tasks \ Chained)
    BY <2>1 DEF SinglesOf
  <2> QED BY <1>1, <2>2 DEF UnderWay
<1>14. Rows
  BY <1>2, <1>3, <1>4 DEF Rows, RowInv, OneAtWork, NoneSent, FitsBefore, KnownAfter, Newest,
                          LockedHandled, Fits, OnIt
<1> QED BY <1>5, <1>6, <1>9, <1>10, <1>11, <1>12, <1>13, <1>14 DEF HostInv

LEMMA HostStep == HostInv /\ [Steps]_vars => HostInv'
BY ShapeKept, FreshKept, AwaitedWhileOutKept, BehindOverKept, InTurnKept, UnreportedKept, OwnerKept,
   RowsKept DEF HostInv

LEMMA HostInvHolds == Spec => []HostInv
BY HostStart, HostStep, PTL DEF Spec

\* The shape of the state: of the tables, the locks, the messages, and of what every
\* process is at.
THEOREM HostShape == Spec => []Shape
<1>1. HostInv => Shape
  BY DEF HostInv
<1> QED BY <1>1, HostInvHolds, PTL

\* A host's row names the task that last set its repository, or scanned it, once all
\* is handled (update_host_association_information): unless tasks of the kind crossed
\* on the host or a message about it was missed.
THEOREM RowsFollow == Spec => []RowFollowsHost
<1>1. HostInv => RowFollowsHost
  <2> SUFFICES ASSUME HostInv, NEW h \in Host, NEW k \in Column, Quiet(k, h), Clean(k, h)
               PROVE  row[h][k] = on[h][k]
    BY DEF RowFollowsHost, Clean
  <2>1. RowInv(k, h)
    BY DEF HostInv, Rows
  <2>2. \A v \in Process : ~OnIt(v, k, h)
    BY DEF Quiet, OnIt, AtWork
  <2>3. \A s \in Subscriber : \A m \in Inbox(s) : ~Of(m, k, h)
    BY DEF Quiet, Inbox, Of
  <2>4. Fits(k, h)
    BY <2>1, <2>2, <2>3, NothingOnItsWay
  <2> QED BY <2>4 DEF Fits
<1> QED BY <1>1, HostInvHolds, PTL

\* A host whose result the vulnerability service awaits has its task queued or at
\* work, unless the result was lost.
THEOREM AwaitedOwned == Spec => []AwaitedHasOwner
<1>1. HostInv => AwaitedHasOwner
  BY DEF HostInv
<1> QED BY <1>1, HostInvHolds, PTL

\* Two tasks of a chain are not on hosts at the same time, unless the answer about the
\* first was missing or the vulnerability service had given it up (check_task_status).
THEOREM ChainsInOrder == Spec => []OneAfterTheOther
<1>1. HostInv => OneAfterTheOther
  <2> SUFFICES ASSUME HostInv, NEW c \in DOMAIN mix.chains,
                      NEW j \in DOMAIN mix.chains[c], NEW k \in DOMAIN mix.chains[c], j < k,
                      NEW t \in UnderWay, t.id = mix.chains[c][j],
                      NEW u \in UnderWay, u.id = mix.chains[c][k]
               PROVE  Blind(mix.chains[c][j]) \in marks
    BY DEF OneAfterTheOther
  <2>1. Shape /\ InTurn
    BY DEF HostInv
  <2>2. \A x \in UnderWay : x \in Item
    BY <2>1, PlaceFacts DEF Shape, UnderWay, AtWork, ToSet
  <2>3. \A i \in Tasks : \A x \in UnderWay : x.id = i => Out(i)
    <3> SUFFICES ASSUME NEW i \in Tasks, NEW x \in UnderWay, x.id = i PROVE Out(i)
      OBVIOUS
    <3>1. x \in SinglesOf(Tasks)
      BY <2>1, <2>2, ChainFacts, MixFacts DEF Item, Shape
    <3>2. x = Single(i, x.host) /\ x.host \in Host
      BY <2>1, <3>1, SingleFacts DEF Shape
    <3> QED BY <3>2 DEF Out
  <2>4. mix.chains[c][j] \in Tasks /\ mix.chains[c][k] \in Tasks
    BY <2>1, MixFacts DEF Shape
  <2> QED BY <2>1, <2>3, <2>4 DEF InTurn
<1> QED BY <1>1, HostInvHolds, PTL

=============================================================================
