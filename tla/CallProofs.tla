----------------------------- MODULE CallProofs -----------------------------
(***************************************************************************)
(* Callers and the jobs they wait for: a caller has at most one job with   *)
(* the writer, what it has resolved is registered, and every step keeps it *)
(* so (CallsInv).                                                          *)
(***************************************************************************)
EXTENDS ShardInvariant, FiniteSetTheorems

USE Zenon

-----------------------------------------------------------------------------
(* Callers and jobs as memory grows *)

\* A caller's progress stays good.
LEMMA CallerGrows ==
  ASSUME NEW x, NEW tags, NEW new, NEW epoch, NEW later, NEW l, NEW m,
         CallerOK(x, tags, epoch, l), Grows(tags, new, epoch, later, l, m)
  PROVE  CallerOK(x, new, later, m)
<1>1. CASE x = Idle
  BY <1>1 DEF CallerOK
<1>2. CASE x # Idle
  <2>1. x.call \in DOMAIN m /\ m[x.call].op = x.op
    BY <1>2 DEF CallerOK, Grows, Extends
  <2>2. DOMAIN tags \subseteq DOMAIN new
    BY DEF Grows, Behind
  <2>3. PrepOK(x, new, later)
    <3>1. PrepOK(x, tags, epoch)
      BY <1>2 DEF CallerOK
    <3>2. ASSUME NEW i \in DOMAIN x.prep
          PROVE  RefsUnder(x.prep[i].tags, new, x.op.items[i].names) /\ x.prep[i].epoch <= later
      <4>1. RefsUnder(x.prep[i].tags, new, x.op.items[i].names)
        BY <3>1, RefsGrow DEF PrepOK, Grows
      <4>2. x.prep[i].epoch <= later
        BY <3>1, SMT DEF PrepOK, Grows
      <4> QED BY <4>1, <4>2
    <3> QED BY <3>1, <3>2 DEF PrepOK
  <2>4. x.pc = "prepare" => RefsUnder(x.refs, new, x.op.items[Len(x.prep) + 1].names)
    BY <1>2, RefsGrow DEF CallerOK, Grows
  <2> QED BY <1>2, <2>1, <2>2, <2>3, <2>4 DEF CallerOK
<1> QED BY <1>1, <1>2

\* A queued job stays good.
LEMMA JobGrows ==
  ASSUME NEW job, NEW x, NEW tags, NEW new, NEW epoch, NEW later, NEW l, NEW m,
         JobFor(job, x, tags, epoch, l), Grows(tags, new, epoch, later, l, m)
  PROVE  JobFor(job, x, new, later, m)
<1>1. DOMAIN tags \subseteq DOMAIN new
  BY DEF Grows, Behind
<1>2. job.kind \in {"Set", "ConditionalSet"} =>
        \A i \in DOMAIN job.items :
          /\ DOMAIN job.items[i] = PreparedFields
          /\ Grounded(job.items[i].key, job.items[i], new, later, m)
  BY GroundedGrows DEF JobFor
<1> QED BY <1>1, <1>2 DEF JobFor

-----------------------------------------------------------------------------
(* A caller's steps (store.rs, read.rs) *)

\* A caller with no job moves on, and may queue one (writer.rs send).
LEMMA CallerMoves ==
  ASSUME RegistryInv, CallsInv, NEW c \in Clients, cl[c].pc # "wait",
         UNCHANGED <<store_vars, writer_vars>>,
         NEW x, cl' = [cl EXCEPT ![c] = x], CallerOK(x, ram.tags, ram.epoch, log'),
         LogOK(log'), Extends(log, log'),
         \/ queue' = queue
         \/ \E job : /\ job.client = c /\ JobFor(job, x, ram.tags, ram.epoch, log')
                     /\ queue' = Append(queue, job)
  PROVE  CallsInv'
<1>1. /\ UNCHANGED <<disk, since, ram, phase, batch, outs, acc, txn, eff>>
  BY DEF store_vars, writer_vars
<1>2. DOMAIN cl' = Clients /\ cl'[c] = x /\ \A d \in Clients \ {c} : cl'[d] = cl[d]
  BY DEF CallsInv
<1>3. Grows(ram.tags, ram.tags, ram.epoch, ram.epoch, log, log')
  BY MemoryGrows
<1>4. \A d \in Clients : CallerOK(cl'[d], ram.tags, ram.epoch, log')
  BY <1>2, <1>3, CallerGrows, SMT DEF CallsInv
<1>5. ASSUME NEW job \in Elems(queue) \cup Elems(batch)
      PROVE  /\ job.client \in Clients \ {c}
             /\ JobFor(job, cl'[job.client], ram.tags, ram.epoch, log')
  <2>1. job.client \in Clients /\ JobFor(job, cl[job.client], ram.tags, ram.epoch, log)
    BY DEF CallsInv
  <2>2. job.client # c
    BY <2>1 DEF JobFor
  <2> QED BY <1>2, <1>3, <2>1, <2>2, JobGrows
<1>6. BatchOK'
  BY <1>1 DEF CallsInv, BatchOK, Open, Registered, Job
<1>7. CASE queue' = queue
  <2>1. OneJobEach'
    BY <1>1, <1>7 DEF CallsInv, OneJobEach
  <2> QED BY <1>1, <1>2, <1>4, <1>5, <1>6, <1>7, <2>1 DEF CallsInv
<1>8. ASSUME NEW job, job.client = c, JobFor(job, x, ram.tags, ram.epoch, log'),
             queue' = Append(queue, job)
      PROVE  CallsInv'
  <2>1. IsSeq(queue)
    BY DEF RegistryInv, JobsOK
  <2>2. Elems(queue') = Elems(queue) \cup {job}
    BY <1>8, <2>1, AppendElems
  <2>3. /\ \A i \in DOMAIN queue' : i \in DOMAIN queue \/ i = Len(queue) + 1
        /\ queue'[Len(queue) + 1] = job
        /\ \A i \in DOMAIN queue : queue'[i] = queue[i]
    BY <1>8, <2>1, SMT DEF IsSeq
  <2>4. /\ \A i \in DOMAIN queue : queue[i].client # c
        /\ \A i \in DOMAIN batch : batch[i].client # c
    BY <1>5 DEF Elems
  <2>5. OneJobEach'
    BY <1>1, <1>8, <2>3, <2>4, SMT DEF CallsInv, OneJobEach
  <2>6. \A y \in Elems(queue') \cup Elems(batch) :
          y.client \in Clients /\ JobFor(y, cl'[y.client], ram.tags, ram.epoch, log')
    BY <1>2, <1>5, <1>8, <2>2
  <2> QED BY <1>1, <1>2, <1>4, <1>6, <2>5, <2>6 DEF CallsInv
<1> QED BY <1>7, <1>8

\* Sending a job: the caller waits, or a full queue ends its call (writer.rs
\* send).
LEMMA CallerSends ==
  ASSUME RegistryInv, CallsInv, NEW c \in Clients, cl[c].pc # "wait",
         UNCHANGED <<store_vars, writer_vars>>,
         NEW s, NEW l, NEW kind, NEW items, Send(c, s, l, kind, items),
         LogOK(l), Extends(log, l),
         CallerOK([s EXCEPT !.pc = "wait"], ram.tags, ram.epoch, l),
         JobFor([client |-> c, call |-> s.call, kind |-> kind, items |-> items],
                [s EXCEPT !.pc = "wait"], ram.tags, ram.epoch, l)
  PROVE  CallsInv'
<1> DEFINE job == [client |-> c, call |-> s.call, kind |-> kind, items |-> items]
           w == [s EXCEPT !.pc = "wait"]
<1>1. job.client = c
  OBVIOUS
<1>2. CASE Len(queue) >= QueueDepth
  <2>1. cl' = [cl EXCEPT ![c] = Idle] /\ log' = Replied(l, s.call, Error("overloaded"))
        /\ queue' = queue
    BY <1>2 DEF Send
  <2>2. LogOK(log') /\ Extends(l, log')
    BY <2>1, RepliedAnswers, AnswersExtend
  <2>3. Extends(log, log')
    BY <2>2 DEF Extends
  <2>4. CallerOK(Idle, ram.tags, ram.epoch, log')
    BY DEF CallerOK
  <2> QED BY <2>1, <2>2, <2>3, <2>4, CallerMoves
<1>3. CASE ~(Len(queue) >= QueueDepth)
  <2>1. cl' = [cl EXCEPT ![c] = w] /\ log' = l /\ queue' = Append(queue, job)
    BY <1>3 DEF Send
  <2> HIDE DEF job, w
  <2>2. CallerOK(w, ram.tags, ram.epoch, log') /\ JobFor(job, w, ram.tags, ram.epoch, log')
    BY <2>1 DEF w, job
  <2> QED BY <1>1, <2>1, <2>2, CallerMoves
<1> QED BY <1>2, <1>3

\* A caller that has just called.
LEMMA NewCaller ==
  ASSUME NEW op \in Ops, NEW pc, NEW tags, NEW epoch, LogOK(log),
         pc \in {"epoch", "wait", "register"}, pc = "register" => Storing(op)
  PROVE  LET x == Caller(op, pc)
         IN  /\ CallerOK(x, tags, epoch, Called(op))
             /\ DOMAIN x = CallerFields /\ x.op = op /\ x.prep = <<>> /\ x.pc = pc
<1> DEFINE x == Caller(op, pc)
<1>1. /\ DOMAIN x = CallerFields /\ x.op = op /\ x.pc = pc /\ x.call = Len(log) + 1
      /\ x.prep = <<>>
  BY DEF Caller, CallerFields
<1> HIDE DEF x
<1>2. x.call \in DOMAIN Called(op) /\ Called(op)[x.call].op = op
  BY <1>1, CalledExtends
<1>3. PrepOK(x, tags, epoch)
  BY <1>1, EmptyElems, SMT DEF PrepOK
<1> QED BY <1>1, <1>2, <1>3 DEF CallerOK, x

\* A caller gets its answer without the writer.
LEMMA CallerReturns ==
  ASSUME RegistryInv, CallsInv, NEW c \in Clients, cl[c].pc # "wait",
         UNCHANGED <<store_vars, writer_vars>>, UNCHANGED queue, NEW reply, Return(c, reply)
  PROVE  CallsInv'
<1>1. cl' = [cl EXCEPT ![c] = Idle] /\ log' = Replied(log, cl[c].call, reply)
  BY DEF Return
<1>2. LogOK(log') /\ Extends(log, log')
  BY <1>1, RepliedAnswers, AnswersExtend DEF CallsInv
<1>3. CallerOK(Idle, ram.tags, ram.epoch, log')
  BY DEF CallerOK
<1> QED BY <1>1, <1>2, <1>3, CallerMoves

\* The names to create, in some order (store.rs ensure_tags_registered).
LEMMA SeqOfLists ==
  ASSUME NEW S, IsFiniteSet(S)
  PROVE  /\ Cardinality(S) \in Nat
         /\ SeqOf(S) \in [1..Cardinality(S) -> S]
         /\ {SeqOf(S)[i] : i \in 1..Cardinality(S)} = S
<1> DEFINE n == Cardinality(S)
<1>1. n \in Nat /\ ExistsBijection(1..n, S)
  BY FS_CardinalityType
<1>2. PICK f \in Bijection(1..n, S) : TRUE
  BY <1>1 DEF ExistsBijection
<1> HIDE DEF n
<1>3. f \in [1..n -> S] /\ \A s \in S : \E i \in 1..n : f[i] = s
  BY <1>2 DEF Bijection, Injection, Surjection
<1>4. {f[i] : i \in DOMAIN f} = S
  BY <1>3
<1> DEFINE q == CHOOSE q \in [1..n -> S] : {q[i] : i \in DOMAIN q} = S
<1>5. q \in [1..n -> S] /\ {q[i] : i \in DOMAIN q} = S
  BY <1>3, <1>4
<1>6. q = SeqOf(S)
  BY DEF SeqOf, n
<1> HIDE DEF q
<1>7. {q[i] : i \in 1..n} = S
  BY <1>5
<1> QED BY <1>1, <1>5, <1>6, <1>7 DEF n

\* Resolved refs are to the names asked for, at the generations memory holds
\* (tags.rs resolve).
LEMMA ResolveGrounds ==
  ASSUME NEW r, NEW names, names \subseteq DOMAIN r.tags,
         \A n \in DOMAIN r.tags : r.tags[n] \in Entry
  PROVE  RefsUnder(resolve(r, names), r.tags, names)
<1> DEFINE entries == {r.tags[n] : n \in names}
           refs == resolve(r, names)
<1>1. /\ DOMAIN refs = {e.id : e \in entries}
      /\ \A id \in DOMAIN refs : refs[id] = (CHOOSE e \in entries : e.id = id).gen
  BY DEF resolve
<1> HIDE DEF refs
<1> SUFFICES ASSUME NEW id \in DOMAIN refs
             PROVE  /\ refs[id] \in Nat
                    /\ \E n \in names \cap DOMAIN r.tags : r.tags[n].id = id /\ refs[id] <= r.tags[n].gen
  BY DEF RefsUnder, refs
<1>2. \E e \in entries : e.id = id
  BY <1>1
<1>3. PICK e \in entries : e.id = id /\ refs[id] = e.gen
  BY <1>1, <1>2
<1>4. PICK n \in names : r.tags[n] = e
  BY <1>3
<1> QED BY <1>3, <1>4, SMT DEF Entry

\* What the writer is asked to store under names.
LEMMA StoresAreLists ==
  ASSUME NEW op \in Ops, Storing(op)
  PROVE  /\ Len(op.items) \in Nat \ {0} /\ DOMAIN op.items = 1..Len(op.items)
         /\ IsFiniteSet(NamesOf(op))
  BY WriterAssumption DEF Storing

\* A caller's step, by place.
LEMMA CallerEpoch ==
  ASSUME RegistryInv, CallsInv, NEW c \in Clients, LoadEpoch(c)
  PROVE  CallsInv'
<1>1. /\ cl[c].pc = "epoch" /\ UNCHANGED <<queue, log, store_vars, writer_vars>>
      /\ cl' = [cl EXCEPT ![c] = [cl[c] EXCEPT !.pc = "judge", !.epoch = ram.epoch]]
  BY DEF LoadEpoch, CallsInv
<1>2. PICK x : x = [cl[c] EXCEPT !.pc = "judge", !.epoch = ram.epoch]
  OBVIOUS
<1>3. cl[c] # Idle /\ CallerOK(cl[c], ram.tags, ram.epoch, log) /\ DOMAIN cl[c] = CallerFields
  BY <1>1, CallerAt
<1>4. /\ DOMAIN x = CallerFields /\ x.pc = "judge" /\ x.op = cl[c].op /\ x.call = cl[c].call
      /\ x.prep = cl[c].prep
  BY <1>2, <1>3 DEF CallerFields
<1>5. CallerOK(x, ram.tags, ram.epoch, log)
  BY <1>1, <1>3, <1>4 DEF CallerOK, PrepOK
<1> QED BY <1>1, <1>2, <1>5, CallerMoves, LogStays

\* Judging what a read found (read.rs; store.rs set_many_if, get_and_touch).
LEMMA CallerJudges ==
  ASSUME RegistryInv, CallsInv, NEW c \in Clients, Judge(c)
  PROVE  CallsInv'
<1>1. cl[c].pc = "judge" /\ UNCHANGED <<store_vars, writer_vars>>
  BY DEF Judge
<1>2. cl[c] # Idle /\ CallerOK(cl[c], ram.tags, ram.epoch, log) /\ DOMAIN cl[c] = CallerFields
  BY <1>1, CallerAt
<1>3. \/ cl[c].op.kind = "SetIf" /\ Goto(c, "register") /\ UNCHANGED queue
      \/ \E reply : Return(c, reply) /\ UNCHANGED queue
      \/ \E found, items : Send(c, [cl[c] EXCEPT !.found = found], log, "Touch", items)
  BY DEF Judge
<1>4. CASE cl[c].op.kind = "SetIf" /\ Goto(c, "register") /\ UNCHANGED queue
  <2>1. PICK x : x = [cl[c] EXCEPT !.pc = "register"]
    OBVIOUS
  <2>2. cl' = [cl EXCEPT ![c] = x] /\ log' = log
    BY <1>4, <2>1 DEF Goto, CallsInv
  <2>3. /\ DOMAIN x = CallerFields /\ x.pc = "register" /\ x.op = cl[c].op
        /\ x.call = cl[c].call /\ x.prep = cl[c].prep
    BY <1>2, <2>1 DEF CallerFields
  <2>4. CallerOK(x, ram.tags, ram.epoch, log)
    BY <1>1, <1>2, <1>4, <2>3 DEF CallerOK, PrepOK, Storing
  <2> QED BY <1>1, <1>4, <2>2, <2>4, CallerMoves, LogStays
<1>5. ASSUME NEW reply, Return(c, reply), UNCHANGED queue PROVE CallsInv'
  BY <1>1, <1>5, CallerReturns
<1>6. ASSUME NEW found, NEW items, Send(c, [cl[c] EXCEPT !.found = found], log, "Touch", items)
      PROVE  CallsInv'
  <2>1. PICK s : s = [cl[c] EXCEPT !.found = found]
    OBVIOUS
  <2>2. PICK w : w = [s EXCEPT !.pc = "wait"]
    OBVIOUS
  <2>3. /\ DOMAIN w = CallerFields /\ w.pc = "wait" /\ w.op = cl[c].op
        /\ w.call = cl[c].call /\ w.prep = cl[c].prep
    BY <1>2, <2>1, <2>2 DEF CallerFields
  <2>4. CallerOK(w, ram.tags, ram.epoch, log)
    BY <1>1, <1>2, <2>3 DEF CallerOK, PrepOK
  <2>5. JobFor([client |-> c, call |-> s.call, kind |-> "Touch", items |-> items], w,
               ram.tags, ram.epoch, log)
    BY <2>3 DEF JobFor
  <2> QED BY <1>1, <1>6, <2>1, <2>2, <2>4, <2>5, CallerSends, LogStays
<1> QED BY <1>3, <1>4, <1>5, <1>6

\* Registering the names the shard lacks (store.rs ensure_tags_registered).
LEMMA CallerRegisters ==
  ASSUME RegistryInv, CallsInv, NEW c \in Clients, Register(c)
  PROVE  CallsInv'
<1> DEFINE names == NamesOf(cl[c].op)
           absent == missing(ram, names)
           items == [i \in 1..Cardinality(absent) |-> [name |-> SeqOf(absent)[i], gen |-> 0]]
<1>1. /\ cl[c].pc = "register" /\ UNCHANGED <<store_vars, writer_vars>>
      /\ \/ absent = {} /\ Goto(c, "resolve") /\ UNCHANGED queue
         \/ Send(c, cl[c], log, "CreateTags", items)
  BY DEF Register
<1>2. cl[c] # Idle /\ CallerOK(cl[c], ram.tags, ram.epoch, log) /\ DOMAIN cl[c] = CallerFields
  BY <1>1, CallerAt
<1>3. /\ Storing(cl[c].op) /\ cl[c].prep = <<>> /\ cl[c].op \in Ops
      /\ cl[c].call \in DOMAIN log /\ log[cl[c].call].op = cl[c].op
      /\ PrepOK(cl[c], ram.tags, ram.epoch)
  BY <1>1, <1>2 DEF CallerOK
<1>4. absent = names \ DOMAIN ram.tags
  BY DEF missing
<1>5. CASE absent = {} /\ Goto(c, "resolve") /\ UNCHANGED queue
  <2>1. PICK x : x = [cl[c] EXCEPT !.pc = "resolve"]
    OBVIOUS
  <2>2. cl' = [cl EXCEPT ![c] = x] /\ log' = log
    BY <1>5, <2>1 DEF Goto, CallsInv
  <2>3. /\ DOMAIN x = CallerFields /\ x.pc = "resolve" /\ x.op = cl[c].op
        /\ x.call = cl[c].call /\ x.prep = <<>>
    BY <1>2, <1>3, <2>1 DEF CallerFields
  <2>4. Len(x.prep) < Len(x.op.items)
    BY <1>3, <2>3, StoresAreLists, SMT
  <2>5. PrepOK(x, ram.tags, ram.epoch)
    BY <1>3, <2>3 DEF PrepOK
  <2>6. NamesOf(x.op) \subseteq DOMAIN ram.tags
    BY <1>4, <1>5, <2>3
  <2>7. CallerOK(x, ram.tags, ram.epoch, log)
    BY <1>3, <2>3, <2>4, <2>5, <2>6 DEF CallerOK
  <2> QED BY <1>1, <1>5, <2>2, <2>7, CallerMoves, LogStays
<1>6. CASE Send(c, cl[c], log, "CreateTags", items)
  <2>1. PICK w : w = [cl[c] EXCEPT !.pc = "wait"]
    OBVIOUS
  <2>2. /\ DOMAIN w = CallerFields /\ w.pc = "wait" /\ w.op = cl[c].op
        /\ w.call = cl[c].call /\ w.prep = <<>>
    BY <1>2, <1>3, <2>1 DEF CallerFields
  <2>3. PrepOK(w, ram.tags, ram.epoch)
    BY <1>3, <2>2 DEF PrepOK
  <2>4. CallerOK(w, ram.tags, ram.epoch, log)
    BY <1>3, <2>2, <2>3 DEF CallerOK
  <2>5. IsFiniteSet(absent)
    BY <1>3, <1>4, StoresAreLists, FS_Subset
  <2>6. /\ Cardinality(absent) \in Nat
        /\ {SeqOf(absent)[i] : i \in 1..Cardinality(absent)} = absent
    BY <2>5, SeqOfLists
  <2>7. PICK job : job = [client |-> c, call |-> cl[c].call, kind |-> "CreateTags", items |-> items]
    OBVIOUS
  <2>8. job.kind = "CreateTags" /\ job.items = items
    BY <2>7
  <2>9. items \in Seq([name : absent, gen : {0}]) /\ Len(items) = Cardinality(absent)
    <3>1. \A i \in 1..Cardinality(absent) : SeqOf(absent)[i] \in absent
      BY <2>6
    <3>2. \A i \in 1..Cardinality(absent) :
            [name |-> SeqOf(absent)[i], gen |-> 0] \in [name : absent, gen : {0}]
      BY <3>1
    <3>3. items \in [1..Cardinality(absent) -> [name : absent, gen : {0}]]
      BY <3>2
    <3> HIDE DEF items, absent
    <3>4. items \in Seq([name : absent, gen : {0}])
      <4>1. PICK m \in Nat : m = Cardinality(absent)
        BY <2>6
      <4>2. PICK T : T = [name : absent, gen : {0}]
        OBVIOUS
      <4>3. items \in [1..m -> T]
        BY <3>3, <4>1, <4>2
      <4>4. items \in Seq(T)
        BY <4>3, SMT
      <4> QED BY <4>2, <4>4
    <3>5. DOMAIN items = 1..Len(items) /\ Len(items) \in Nat
      BY <3>4, SMT
    <3>6. DOMAIN items = 1..Cardinality(absent)
      BY <3>3
    <3>7. Len(items) = Cardinality(absent)
      BY <2>6, <3>5, <3>6, SMT
    <3> QED BY <3>4, <3>7
  <2>10. Creates(job) = absent
    <3>1. \A i \in 1..Cardinality(absent) : items[i].name = SeqOf(absent)[i]
      OBVIOUS
    <3>2. DOMAIN items = 1..Cardinality(absent)
      OBVIOUS
    <3> HIDE DEF items, absent
    <3> QED BY <2>6, <2>8, <3>1, <3>2 DEF Creates
  <2>11. JobFor(job, w, ram.tags, ram.epoch, log)
    <3>1. DOMAIN job.items = 1..Len(job.items) /\ Len(job.items) \in Nat
      BY <2>6, <2>8, <2>9
    <3>2. NamesOf(w.op) \subseteq DOMAIN ram.tags \cup Creates(job)
      BY <1>4, <2>2, <2>10
    <3> QED BY <1>3, <2>2, <2>8, <3>1, <3>2 DEF JobFor
  <2> HIDE DEF items
  <2> QED BY <1>1, <1>6, <2>1, <2>4, <2>7, <2>11, CallerSends, LogStays
<1> QED BY <1>1, <1>5, <1>6

\* The next item's refs are resolved (tags.rs resolve).
LEMMA CallerResolves ==
  ASSUME RegistryInv, CallsInv, NEW c \in Clients, Resolve(c)
  PROVE  CallsInv'
<1> DEFINE item == cl[c].op.items[Len(cl[c].prep) + 1]
<1>1. PICK x : x = [cl[c] EXCEPT !.pc = "prepare", !.refs = resolve(ram, item.names)]
  OBVIOUS
<1>2. /\ cl[c].pc = "resolve" /\ UNCHANGED <<queue, log, store_vars, writer_vars>>
      /\ cl' = [cl EXCEPT ![c] = x]
  BY <1>1 DEF Resolve, CallsInv
<1>3. cl[c] # Idle /\ CallerOK(cl[c], ram.tags, ram.epoch, log) /\ DOMAIN cl[c] = CallerFields
  BY <1>2, CallerAt
<1>4. /\ DOMAIN x = CallerFields /\ x.pc = "prepare" /\ x.op = cl[c].op
      /\ x.call = cl[c].call /\ x.prep = cl[c].prep
      /\ x.refs = resolve(ram, item.names)
  BY <1>1, <1>3 DEF CallerFields
<1>5. /\ Storing(cl[c].op) /\ cl[c].op \in Ops
      /\ cl[c].call \in DOMAIN log /\ log[cl[c].call].op = cl[c].op
      /\ PrepOK(cl[c], ram.tags, ram.epoch)
      /\ NamesOf(cl[c].op) \subseteq DOMAIN ram.tags /\ Len(cl[c].prep) < Len(cl[c].op.items)
  BY <1>2, <1>3 DEF CallerOK
<1>6. Len(cl[c].prep) \in Nat
  BY <1>5, SMT DEF PrepOK, IsSeq
<1>7. Len(cl[c].prep) + 1 \in DOMAIN cl[c].op.items
  BY <1>5, <1>6, StoresAreLists, SMT
<1>8. item.names \subseteq DOMAIN ram.tags
  BY <1>5, <1>7 DEF NamesOf
<1>9. \A n \in DOMAIN ram.tags : ram.tags[n] \in Entry
  BY DEF RegistryInv, MemoryOK
<1>10. RefsUnder(x.refs, ram.tags, item.names)
  BY <1>4, <1>8, <1>9, ResolveGrounds
<1>11. PrepOK(x, ram.tags, ram.epoch)
  BY <1>4, <1>5 DEF PrepOK
<1>12. CallerOK(x, ram.tags, ram.epoch, log)
  BY <1>4, <1>5, <1>10, <1>11 DEF CallerOK
<1> QED BY <1>2, <1>12, CallerMoves, LogStays

\* An item is prepared with the refs resolved for it and the epoch in memory
\* (apply.rs prepare_set).
LEMMA CallerPrepares ==
  ASSUME RegistryInv, CallsInv, NEW c \in Clients, Prepare(c)
  PROVE  CallsInv'
<1> DEFINE i0 == Len(cl[c].prep) + 1
           p == prepare_set(c, cl[c].op.items[i0])
           prep == Append(cl[c].prep, p)
           pc == IF Len(prep) = Len(cl[c].op.items) THEN "send" ELSE "resolve"
<1>1. cl[c].pc = "prepare" /\ UNCHANGED <<queue, store_vars, writer_vars>>
  BY DEF Prepare
<1>2. cl[c] # Idle /\ CallerOK(cl[c], ram.tags, ram.epoch, log) /\ DOMAIN cl[c] = CallerFields
  BY <1>1, CallerAt
<1>3. CASE Return(c, Error("capacity_full"))
  BY <1>1, <1>3, CallerReturns
<1>4. CASE /\ cl' = [cl EXCEPT ![c].prep = prep, ![c].refs = Empty, ![c].pc = pc]
           /\ UNCHANGED log
  <2>1. PICK x : x = [cl[c] EXCEPT !.prep = prep, !.refs = Empty, !.pc = pc]
    OBVIOUS
  <2>2. cl' = [cl EXCEPT ![c] = x]
    BY <1>4, <2>1 DEF CallsInv
  <2>3. /\ DOMAIN x = CallerFields /\ x.pc = pc /\ x.op = cl[c].op
        /\ x.call = cl[c].call /\ x.prep = prep
    BY <1>2, <2>1 DEF CallerFields
  <2>4. /\ Storing(cl[c].op) /\ cl[c].op \in Ops
        /\ cl[c].call \in DOMAIN log /\ log[cl[c].call].op = cl[c].op
        /\ PrepOK(cl[c], ram.tags, ram.epoch)
        /\ NamesOf(cl[c].op) \subseteq DOMAIN ram.tags /\ Len(cl[c].prep) < Len(cl[c].op.items)
        /\ RefsUnder(cl[c].refs, ram.tags, cl[c].op.items[i0].names)
    BY <1>1, <1>2 DEF CallerOK
  <2>5. /\ p.key = cl[c].op.items[i0].key /\ p.ver = cl[c].call
        /\ p.epoch = ram.epoch /\ p.tags = cl[c].refs /\ DOMAIN p = PreparedFields
    BY DEF prepare_set, PreparedFields
  <2> HIDE DEF p
  <2>6. IsSeq(cl[c].prep)
    BY <2>4 DEF PrepOK
  <2>7. /\ Len(cl[c].prep) \in Nat /\ DOMAIN cl[c].prep = 1..Len(cl[c].prep)
        /\ DOMAIN prep = 1..i0 /\ Len(prep) = i0 /\ prep[i0] = p
        /\ \A i \in 1..Len(cl[c].prep) : prep[i] = cl[c].prep[i]
    BY <2>6, SMT DEF IsSeq
  <2>8. IsSeq(prep)
    BY <2>6, AppendElems
  <2> HIDE DEF prep
  <2>9. i0 \in DOMAIN cl[c].op.items /\ Len(cl[c].op.items) \in Nat
    BY <2>4, <2>7, StoresAreLists, SMT
  <2>10. ram.epoch \in Nat
    BY DEF RegistryInv, MemoryOK
  <2>11. PrepOK(x, ram.tags, ram.epoch)
    <3>1. ASSUME NEW i \in DOMAIN prep
          PROVE  /\ i \in DOMAIN cl[c].op.items /\ DOMAIN prep[i] = PreparedFields
                 /\ prep[i].key = cl[c].op.items[i].key /\ prep[i].ver = cl[c].call
                 /\ prep[i].epoch \in Nat /\ prep[i].epoch <= ram.epoch
                 /\ RefsUnder(prep[i].tags, ram.tags, cl[c].op.items[i].names)
      <4>1. CASE i = i0
        <5>1. prep[i] = p /\ i \in DOMAIN cl[c].op.items
          BY <2>7, <2>9, <4>1
        <5>2. p.key = cl[c].op.items[i].key /\ RefsUnder(p.tags, ram.tags, cl[c].op.items[i].names)
          BY <2>4, <2>5, <4>1
        <5>3. DOMAIN p = PreparedFields /\ p.ver = cl[c].call /\ p.epoch \in Nat /\ p.epoch <= ram.epoch
          BY <2>5, <2>10, SMT
        <5> QED BY <5>1, <5>2, <5>3
      <4>2. CASE i # i0
        <5>1. i \in DOMAIN cl[c].prep /\ prep[i] = cl[c].prep[i]
          BY <2>7, <4>2, SMT
        <5> QED BY <2>4, <5>1 DEF PrepOK
      <4> QED BY <4>1, <4>2
    <3> QED BY <2>3, <2>8, <3>1 DEF PrepOK
  <2>12. pc = "resolve" => Len(prep) < Len(cl[c].op.items)
    BY <2>4, <2>7, <2>9, SMT
  <2>13. pc \in {"resolve", "send"}
    OBVIOUS
  <2> HIDE DEF pc
  <2>14. CallerOK(x, ram.tags, ram.epoch, log)
    BY <2>3, <2>4, <2>11, <2>12, <2>13 DEF CallerOK
  <2> QED BY <1>1, <1>4, <2>2, <2>14, CallerMoves, LogStays
<1>5. \/ Return(c, Error("capacity_full"))
      \/ /\ cl' = [cl EXCEPT ![c].prep = prep, ![c].refs = Empty, ![c].pc = pc]
         /\ UNCHANGED log
  BY DEF Prepare
<1> QED BY <1>3, <1>4, <1>5

\* The write goes to the writer with everything prepared (store.rs).
LEMMA CallerSubmits ==
  ASSUME RegistryInv, CallsInv, NEW c \in Clients, Submit(c)
  PROVE  CallsInv'
<1>1. cl[c].pc = "send" /\ UNCHANGED <<store_vars, writer_vars>>
  BY DEF Submit
<1>2. cl[c] # Idle /\ CallerOK(cl[c], ram.tags, ram.epoch, log) /\ DOMAIN cl[c] = CallerFields
  BY <1>1, CallerAt
<1>3. /\ cl[c].op \in Ops /\ cl[c].call \in DOMAIN log /\ log[cl[c].call].op = cl[c].op
      /\ PrepOK(cl[c], ram.tags, ram.epoch)
  BY <1>2 DEF CallerOK
<1>4. PICK kind \in {"Set", "ConditionalSet"} :
        Send(c, [cl[c] EXCEPT !.prep = <<>>], log, kind, cl[c].prep)
  BY DEF Submit
<1>5. PICK s : s = [cl[c] EXCEPT !.prep = <<>>]
  OBVIOUS
<1>6. PICK w : w = [s EXCEPT !.pc = "wait"]
  OBVIOUS
<1>7. /\ DOMAIN w = CallerFields /\ w.pc = "wait" /\ w.op = cl[c].op
      /\ w.call = cl[c].call /\ w.prep = <<>>
  BY <1>2, <1>5, <1>6 DEF CallerFields
<1>8. PrepOK(w, ram.tags, ram.epoch)
  BY <1>7, EmptyElems, SMT DEF PrepOK
<1>9. CallerOK(w, ram.tags, ram.epoch, log)
  BY <1>3, <1>7, <1>8 DEF CallerOK
<1>10. PICK job : job = [client |-> c, call |-> s.call, kind |-> kind, items |-> cl[c].prep]
  OBVIOUS
<1>11. job.kind = kind /\ job.items = cl[c].prep
  BY <1>10
<1>12. ASSUME NEW i \in DOMAIN cl[c].prep
       PROVE  /\ DOMAIN cl[c].prep[i] = PreparedFields
              /\ Grounded(cl[c].prep[i].key, cl[c].prep[i], ram.tags, ram.epoch, log)
  <2>1. /\ i \in DOMAIN cl[c].op.items /\ DOMAIN cl[c].prep[i] = PreparedFields
        /\ cl[c].prep[i].key = cl[c].op.items[i].key /\ cl[c].prep[i].ver = cl[c].call
        /\ cl[c].prep[i].epoch \in Nat /\ cl[c].prep[i].epoch <= ram.epoch
        /\ RefsUnder(cl[c].prep[i].tags, ram.tags, cl[c].op.items[i].names)
    BY <1>3 DEF PrepOK
  <2>2. Written(cl[c].prep[i].key, cl[c].prep[i].tags, cl[c].prep[i].ver, ram.tags, log)
    BY <1>3, <2>1 DEF Written
  <2> QED BY <2>1, <2>2 DEF Grounded
<1>13. JobFor(job, w, ram.tags, ram.epoch, log)
  BY <1>7, <1>11, <1>12 DEF JobFor
<1> QED BY <1>1, <1>4, <1>5, <1>6, <1>9, <1>10, <1>13, CallerSends, LogStays

\* A call is made (store.rs, read.rs).
LEMMA CallerCalls ==
  ASSUME RegistryInv, CallsInv, NEW c \in Clients, CallStep(c)
  PROVE  CallsInv'
<1>1. PICK op \in Ops : CallRead(c, op) \/ CallStore(c, op) \/ CallWrite(c, op)
  BY DEF CallStep
<1>2. cl[c].pc # "wait" /\ UNCHANGED <<store_vars, writer_vars>>
  BY <1>1 DEF CallRead, CallStore, CallWrite, MayCall
<1>3. LogOK(log)
  BY DEF CallsInv
<1>4. LogOK(Called(op)) /\ Extends(log, Called(op))
  BY <1>3, CalledExtends
<1>5. CASE CallRead(c, op)
  <2> DEFINE y == Caller(op, "epoch")
             snap == [k \in DOMAIN disk.main \cap KeysOf(op) |-> disk.main[k]]
  <2>1. PICK x : x = [y EXCEPT !.at = now, !.snap = snap]
    OBVIOUS
  <2>2. CallerOK(y, ram.tags, ram.epoch, Called(op)) /\ DOMAIN y = CallerFields /\ y.pc = "epoch"
    BY <1>3, NewCaller
  <2>3. log' = Called(op) /\ queue' = queue /\ cl' = [cl EXCEPT ![c] = x]
    BY <1>5, <2>1 DEF CallRead
  <2> HIDE DEF y, snap
  <2>4. DOMAIN x = CallerFields /\ \A f \in CallerFields \ {"at", "snap"} : x[f] = y[f]
    BY <2>1, <2>2
  <2>5. x.op = y.op /\ x.call = y.call /\ x.pc = y.pc /\ x.prep = y.prep /\ x.refs = y.refs
    BY <2>4 DEF CallerFields
  <2>6. y # Idle
    BY <2>2, SMT DEF Idle
  <2>7. CallerOK(x, ram.tags, ram.epoch, Called(op))
    BY <2>2, <2>4, <2>5, <2>6 DEF CallerOK, PrepOK
  <2> QED BY <1>2, <1>4, <2>3, <2>7, CallerMoves
<1>6. CASE CallStore(c, op)
  <2>1. PICK x : x = Caller(op, "register")
    OBVIOUS
  <2>2. log' = Called(op) /\ queue' = queue /\ cl' = [cl EXCEPT ![c] = x]
    BY <1>6, <2>1 DEF CallStore
  <2>3. Storing(op)
    BY <1>6 DEF CallStore, Storing, Stores
  <2>4. CallerOK(x, ram.tags, ram.epoch, Called(op))
    BY <1>3, <2>1, <2>3, NewCaller
  <2> QED BY <1>2, <1>4, <2>2, <2>4, CallerMoves
<1>7. CASE CallWrite(c, op)
  <2>1. PICK x : x = Caller(op, "wait")
    OBVIOUS
  <2>2. Send(c, x, Called(op), op.kind, op.items) /\ op.kind \notin Reads \cup Stores
    BY <1>7, <2>1 DEF CallWrite
  <2>3. /\ CallerOK(x, ram.tags, ram.epoch, Called(op)) /\ DOMAIN x = CallerFields
        /\ x.pc = "wait"
    BY <1>3, <2>1, NewCaller
  <2>4. [x EXCEPT !.pc = "wait"] = x
    BY <2>1, SMT DEF Caller
  <2>5. op.kind \notin {"CreateTags", "Set", "ConditionalSet"}
    BY <2>2, WriterAssumption DEF Reads, Stores, WriteOps
  <2>6. PICK job : job = [client |-> c, call |-> x.call, kind |-> op.kind, items |-> op.items]
    OBVIOUS
  <2>7. job.kind = op.kind
    BY <2>6
  <2>8. JobFor(job, x, ram.tags, ram.epoch, Called(op))
    BY <2>3, <2>5, <2>7 DEF JobFor
  <2> QED BY <1>2, <1>4, <2>2, <2>3, <2>4, <2>6, <2>8, CallerSends
<1> QED BY <1>1, <1>5, <1>6, <1>7

\* A step of a caller keeps the calls in order.
LEMMA CallerStep ==
  ASSUME RegistryInv, CallsInv, NEW c \in Clients, ClientStep(c) \/ CallStep(c)
  PROVE  CallsInv'
  BY CallerEpoch, CallerJudges, CallerRegisters, CallerResolves, CallerPrepares, CallerSubmits,
     CallerCalls DEF ClientStep

-----------------------------------------------------------------------------
(* The writer's steps and its callers (writer.rs) *)

\* A batch that is not being applied.
LEMMA BatchStays ==
  ASSUME BatchOK, UNCHANGED <<batch, outs, acc>>,
         Open' => Open /\ txn'.t.tags = txn.t.tags,
         phase' = "publish" => \/ phase = "publish" /\ disk'.tags = disk.tags
                               \/ phase = "commit" /\ disk'.tags = txn.t.tags,
         phase' \in {"maintain", "commit"} => phase \in {"maintain", "commit"}
  PROVE  BatchOK'
<1> USE DEF Registered, Job
<1>1. CASE Open'
  <2>1. Open /\ txn'.t.tags = txn.t.tags /\ phase' # "publish"
    BY <1>1 DEF Open
  <2> QED BY <1>1, <2>1 DEF BatchOK
<1>2. CASE phase' = "publish"
  <2>1. ~Open' /\ (Open \/ phase = "publish") /\ phase \in {"maintain", "commit", "publish"}
    BY <1>2 DEF Open
  <2>2. CASE phase = "publish" /\ disk'.tags = disk.tags
    BY <1>2, <2>1, <2>2 DEF BatchOK
  <2>3. CASE phase = "commit" /\ disk'.tags = txn.t.tags
    BY <1>2, <2>1, <2>3 DEF BatchOK, Open
  <2> QED BY <1>2, <2>2, <2>3
<1>3. CASE ~Open' /\ phase' # "publish"
  BY <1>3 DEF BatchOK, Open
<1> QED BY <1>1, <1>2, <1>3

\* The writer works while its callers wait.
LEMMA CallsStay ==
  ASSUME CallsInv, UNCHANGED <<cl, log, queue, batch>>,
         Grows(ram.tags, ram'.tags, ram.epoch, ram'.epoch, log, log'), BatchOK'
  PROVE  CallsInv'
<1>1. \A c \in Clients : CallerOK(cl[c], ram'.tags, ram'.epoch, log')
  BY CallerGrows DEF CallsInv
<1>2. \A job \in Elems(queue) \cup Elems(batch) :
        job.client \in Clients /\ JobFor(job, cl[job.client], ram'.tags, ram'.epoch, log')
  BY JobGrows DEF CallsInv
<1> QED BY <1>1, <1>2 DEF CallsInv, OneJobEach

\* A registration that is not refused leaves its name registered (tags.rs
\* apply_create).
LEMMA CreateRegisters ==
  ASSUME NEW r, NEW t, NEW name, NEW start, DOMAIN t = Fields,
         apply_create_tag(r, t, name, start).res \notin SoftError
  PROVE  name \in DOMAIN apply_create_tag(r, t, name, start).t.tags
<1>1. CASE name \in DOMAIN t.tags
  BY <1>1 DEF apply_create_tag
<1>2. CASE name \notin DOMAIN t.tags /\ TagLimitReached(r)
  BY <1>2 DEF apply_create_tag, Nothing, SoftError
<1>3. CASE name \notin DOMAIN t.tags /\ ~TagLimitReached(r)
  BY <1>3 DEF apply_create_tag, Put, Fields
<1> QED BY <1>1, <1>2, <1>3

\* One item more of the job being applied, or one job more (writer.rs
\* commit_batch).
LEMMA BatchApplies ==
  ASSUME RegistryInv, CallsInv, NEW kind, Apply(kind)
  PROVE  BatchOK'
<1> DEFINE r == ApplyItem(Job, Item)
           one == [res |-> r.res, n |-> r.n]
           items == Append(acc, one)
           ended == Len(items) = Len(Job.items) \/ r.res \in SoftError
           last == ended /\ Len(outs) + 1 = Len(batch)
<1>1. /\ phase = "apply" /\ HasItem
      /\ txn' = [txn EXCEPT !.t = r.t] /\ UNCHANGED batch
      /\ phase' \in {"apply", "maintain", "commit"}
      /\ phase' # "apply" => last
      /\ ended => outs' = Append(outs, items) /\ acc' = <<>>
      /\ ~ended => outs' = outs /\ acc' = items
  BY DEF Apply
<1>2. BatchOK /\ Open /\ Registered(txn.t.tags)
  BY <1>1 DEF CallsInv, BatchOK, Open
<1>3. txn'.t = r.t
  BY <1>1 DEF RegistryInv, OpenOK, Open
<1>4. DOMAIN txn.t.tags \subseteq DOMAIN r.t.tags
  <2>1. Delivers(ram, txn.t, r)
    BY <1>1, ItemDelivers
  <2> QED BY <2>1 DEF Delivers, Brings, Behind
<1>5. Job.kind = "CreateTags" /\ r.res \notin SoftError => Item.name \in DOMAIN r.t.tags
  <2>1. DOMAIN txn.t = Fields
    BY <1>1 DEF RegistryInv, OpenOK, Open, Registry
  <2>2. SUFFICES ASSUME Job.kind = "CreateTags", r.res \notin SoftError
                 PROVE  Item.name \in DOMAIN r.t.tags
    OBVIOUS
  <2>3. r = apply_create_tag(ram, txn.t, Item.name, Item.gen)
    BY <2>2 DEF ApplyItem
  <2> HIDE DEF r
  <2> QED BY <2>1, <2>2, <2>3, CreateRegisters
<1>6. one.res = r.res
  OBVIOUS
<1> HIDE DEF r, one
<1>7. /\ IsSeq(items) /\ Len(acc) \in Nat /\ Len(items) = Len(acc) + 1
      /\ DOMAIN items = 1..(Len(acc) + 1)
      /\ items[Len(acc) + 1] = one
  BY <1>2, AppendElems, SMT DEF BatchOK, IsSeq
<1> HIDE DEF items
<1>8. /\ IsSeq(Append(outs, items)) /\ Len(outs) \in Nat
      /\ Len(Append(outs, items)) = Len(outs) + 1
      /\ DOMAIN outs = 1..Len(outs) /\ DOMAIN Append(outs, items) = 1..(Len(outs) + 1)
      /\ Append(outs, items)[Len(outs) + 1] = items
      /\ \A i \in 1..Len(outs) : Append(outs, items)[i] = outs[i]
  BY <1>2, AppendElems, SMT DEF BatchOK, IsSeq
<1>9. Len(batch) \in Nat /\ Len(outs) + 1 \in 1..Len(batch) /\ Len(acc) + 1 \in DOMAIN Job.items
  BY <1>1, <1>2, SMT DEF BatchOK, IsSeq, HasItem
<1>10. Job.kind = "CreateTags" => DOMAIN Job.items = 1..Len(Job.items) /\ Len(Job.items) \in Nat
  BY <1>1 DEF CallsInv, JobFor, HasItem, Job, Elems
<1>11. Job.kind = "CreateTags" /\ r.res \notin SoftError =>
         \A j \in 1..(Len(acc) + 1) : Job.items[j].name \in DOMAIN r.t.tags
  <2> SUFFICES ASSUME Job.kind = "CreateTags", r.res \notin SoftError, NEW j \in 1..(Len(acc) + 1)
               PROVE  Job.items[j].name \in DOMAIN r.t.tags
    OBVIOUS
  <2>1. CASE j = Len(acc) + 1
    BY <1>5, <2>1 DEF Item
  <2>2. CASE j # Len(acc) + 1
    <3>1. j \in 1..Len(acc)
      BY <1>7, <2>2, SMT
    <3>2. Len(outs) + 1 \in DOMAIN batch
      BY <1>1 DEF HasItem
    <3> QED BY <1>2, <1>4, <3>1, <3>2 DEF Registered
  <2> QED BY <2>1, <2>2
<1>12. ASSUME NEW i \in DOMAIN outs, batch[i].kind = "CreateTags", ~SoftFailed(outs[i])
       PROVE  Creates(batch[i]) \subseteq DOMAIN r.t.tags
  BY <1>2, <1>4, <1>12 DEF Registered
<1>13. CASE ended
  <2>1. outs' = Append(outs, items) /\ acc' = <<>>
    BY <1>1, <1>13
  <2>2. IsSeq(outs') /\ IsSeq(acc') /\ Len(outs') = Len(outs) + 1 /\ Len(acc') = 0
    BY <1>8, <2>1, EmptyElems
  <2>3. ASSUME Job.kind = "CreateTags", ~SoftFailed(items)
        PROVE  Creates(Job) \subseteq DOMAIN r.t.tags
    <3>1. r.res \notin SoftError
      BY <1>6, <1>7, <2>3, SMT DEF SoftFailed
    <3>2. Len(Job.items) = Len(acc) + 1
      BY <1>7, <1>13, <3>1
    <3> QED BY <1>10, <1>11, <2>3, <3>1, <3>2 DEF Creates
  <2>4. ASSUME NEW i \in DOMAIN outs', batch[i].kind = "CreateTags", ~SoftFailed(outs'[i])
        PROVE  Creates(batch[i]) \subseteq DOMAIN r.t.tags
    <3>1. CASE i = Len(outs) + 1
      BY <1>8, <2>1, <2>3, <2>4, <3>1 DEF Job
    <3>2. CASE i # Len(outs) + 1
      <4>1. i \in DOMAIN outs /\ outs'[i] = outs[i]
        BY <1>8, <2>1, <3>2, SMT
      <4> QED BY <1>12, <2>4, <4>1
    <3> QED BY <3>1, <3>2
  <2>5. 1..Len(acc') = {}
    BY <2>2, SMT
  <2>6. Registered(txn.t.tags)'
    BY <1>1, <1>3, <2>4, <2>5 DEF Registered
  <2>7. phase' # "apply" => Len(outs') = Len(batch)
    BY <1>1, <2>2
  <2>8. phase' # "publish" /\ Len(outs') <= Len(batch)
    BY <1>1, <1>9, <2>2, SMT
  <2> QED BY <1>1, <1>2, <2>2, <2>6, <2>7, <2>8 DEF BatchOK
<1>14. CASE ~ended
  <2>1. outs' = outs /\ acc' = items /\ phase' = "apply" /\ r.res \notin SoftError
    BY <1>1, <1>14
  <2>2. Job' = Job
    BY <1>1, <2>1 DEF Job
  <2>3. Job.kind = "CreateTags" => \A j \in 1..Len(acc') : Job.items[j].name \in DOMAIN r.t.tags
    BY <1>7, <1>11, <2>1
  <2>4. Registered(txn.t.tags)'
    BY <1>1, <1>3, <1>12, <2>1, <2>2, <2>3 DEF Registered
  <2>5. phase' = "apply" /\ Len(outs') <= Len(batch)
    BY <1>8, <1>9, <2>1, SMT
  <2> QED BY <1>1, <1>2, <1>7, <2>1, <2>4, <2>5 DEF BatchOK
<1> QED BY <1>13, <1>14

\* Applying an item keeps the calls in order.
LEMMA CallsApply ==
  ASSUME RegistryInv, CallsInv, NEW kind, Apply(kind)
  PROVE  CallsInv'
<1>1. UNCHANGED <<cl, log, queue, batch>> /\ ram' = ApplyItem(Job, Item).ram
      /\ phase = "apply" /\ HasItem
  BY DEF Apply
<1>2. ram'.tags = ram.tags /\ ram'.epoch = ram.epoch
  BY <1>1, ItemMemory
<1> QED BY <1>1, <1>2, MemoryStays, BatchApplies, CallsStay

\* The writer takes the oldest jobs of the queue (writer.rs writer_loop).
LEMMA CallsBegin ==
  ASSUME RegistryInv, CallsInv, NEW due, Begin(due)
  PROVE  CallsInv'
<1> DEFINE n == Min2(Len(queue), MaxBatch)
<1>1. /\ phase = "idle" /\ batch' = SubSeq(queue, 1, n) /\ queue' = SubSeq(queue, n + 1, Len(queue))
      /\ phase' = (IF n > 0 THEN "apply" ELSE "maintain")
      /\ outs' = <<>> /\ acc' = <<>> /\ UNCHANGED <<ram, cl, log>>
  BY DEF Begin, store_vars
<1>2. IsSeq(queue) /\ Len(queue) \in Nat /\ DOMAIN queue = 1..Len(queue)
  BY SMT DEF RegistryInv, JobsOK, IsSeq
<1>3. n \in Nat /\ n <= Len(queue)
  BY <1>2, WriterAssumption, SMT DEF Min2
<1> HIDE DEF n
<1>4. \A i \in 1..Len(queue) : queue[i] \in Elems(queue)
  BY <1>2 DEF Elems
<1>5. /\ IsSeq(batch') /\ Elems(batch') \subseteq Elems(queue) /\ Len(batch') = n
      /\ DOMAIN batch' = 1..n /\ \A i \in 1..n : batch'[i] = queue[i]
  <2>1. IsSeq(batch') /\ Elems(batch') \subseteq Elems(queue)
    BY <1>1, <1>2, <1>3, SubSeqElems, SMT
  <2>2. \A i \in 1..n : queue[i] \in Elems(queue)
    BY <1>3, <1>4, <1>2, SMT
  <2>3. /\ Len(batch') = IF 1 <= n THEN n - 1 + 1 ELSE 0
        /\ \A i \in 1..(n - 1 + 1) : batch'[i] = queue[1 + i - 1]
    BY <1>1, <1>2, <1>3, <2>2, SliceAt, SMT DEF IsSeq
  <2>4. DOMAIN batch' = 1..Len(batch')
    BY <2>1, SMT DEF IsSeq
  <2> QED BY <1>3, <2>1, <2>3, <2>4, SMT
<1>6. /\ IsSeq(queue') /\ Elems(queue') \subseteq Elems(queue)
      /\ DOMAIN queue' = 1..(Len(queue) - n)
      /\ \A i \in 1..(Len(queue) - n) : queue'[i] = queue[n + i]
  <2>1. IsSeq(queue') /\ Elems(queue') \subseteq Elems(queue)
    BY <1>1, <1>2, <1>3, SubSeqElems, SMT
  <2>2. \A i \in (n + 1)..Len(queue) : queue[i] \in Elems(queue)
    BY <1>3, <1>4, <1>2, SMT
  <2>3. /\ Len(queue') = IF n + 1 <= Len(queue) THEN Len(queue) - (n + 1) + 1 ELSE 0
        /\ \A i \in 1..(Len(queue) - (n + 1) + 1) : queue'[i] = queue[(n + 1) + i - 1]
    BY <1>1, <1>2, <1>3, <2>2, SliceAt, SMT DEF IsSeq
  <2>4. DOMAIN queue' = 1..Len(queue')
    BY <2>1, SMT DEF IsSeq
  <2>5. Len(queue') = Len(queue) - n
    <3>1. CASE n + 1 <= Len(queue)
      <4>1. Len(queue') = Len(queue) - (n + 1) + 1
        BY <2>3, <3>1
      <4> QED BY <1>2, <1>3, <4>1, SMT
    <3>2. CASE ~(n + 1 <= Len(queue))
      <4>1. Len(queue') = 0
        BY <2>3, <3>2
      <4>2. PICK m \in Nat : m = Len(queue)
        BY <1>2
      <4>3. n = m
        BY <1>3, <3>2, <4>2, SMT
      <4> QED BY <4>1, <4>2, <4>3, SMT
    <3> QED BY <3>1, <3>2
  <2>6. \A i \in 1..(Len(queue) - n) : queue'[i] = queue[n + i]
    <3> TAKE i \in 1..(Len(queue) - n)
    <3>1. i \in 1..(Len(queue) - (n + 1) + 1) /\ (n + 1) + i - 1 = n + i
      BY <1>2, <1>3, SMT
    <3> QED BY <2>3, <3>1
  <2> QED BY <2>1, <2>4, <2>5, <2>6
<1>7. OneJobEach'
  <2>1. ASSUME NEW i \in DOMAIN queue', NEW j \in DOMAIN queue', queue'[i].client = queue'[j].client
        PROVE  i = j
    <3>1. n + i \in DOMAIN queue /\ n + j \in DOMAIN queue
      BY <1>2, <1>3, <1>6, SMT
    <3>2. queue[n + i].client = queue[n + j].client
      BY <1>6, <2>1
    <3>3. n + i = n + j
      BY <3>1, <3>2 DEF CallsInv, OneJobEach
    <3> QED BY <1>3, <1>6, <3>3, SMT
  <2>2. ASSUME NEW i \in DOMAIN batch', NEW j \in DOMAIN batch', batch'[i].client = batch'[j].client
        PROVE  i = j
    <3>1. i \in DOMAIN queue /\ j \in DOMAIN queue /\ queue[i].client = queue[j].client
      BY <1>2, <1>3, <1>5, <2>2, SMT
    <3> QED BY <3>1 DEF CallsInv, OneJobEach
  <2>3. ASSUME NEW i \in DOMAIN queue', NEW j \in DOMAIN batch'
        PROVE  queue'[i].client # batch'[j].client
    <3>1. n + i \in DOMAIN queue /\ j \in DOMAIN queue /\ n + i # j
      BY <1>2, <1>3, <1>5, <1>6, SMT
    <3>2. queue'[i] = queue[n + i] /\ batch'[j] = queue[j]
      BY <1>5, <1>6
    <3> QED BY <3>1, <3>2 DEF CallsInv, OneJobEach
  <2> QED BY <2>1, <2>2, <2>3 DEF OneJobEach
<1>8. BatchOK'
  <2>1. Len(outs') = 0 /\ Len(acc') = 0 /\ DOMAIN outs' = {} /\ 1..Len(acc') = {}
    BY <1>1, SMT
  <2>2. Registered(txn.t.tags)'
    BY <2>1 DEF Registered
  <2>3. IsSeq(outs') /\ IsSeq(acc')
    BY <1>1, EmptyElems
  <2>4. phase' \in {"maintain", "commit", "publish"} => n = 0
    BY <1>1, <1>3, SMT
  <2>5. phase' # "publish"
    BY <1>1
  <2> QED BY <1>3, <1>5, <2>1, <2>2, <2>3, <2>4, <2>5, SMT DEF BatchOK
<1> QED BY <1>1, <1>5, <1>6, <1>7, <1>8 DEF CallsInv

\* Every caller of the batch is answered, or goes on to write under names that
\* are now registered (writer.rs commit_batch).
LEMMA CallsDeliver ==
  ASSUME RegistryInv, CallsInv, NEW replies, Deliver(replies),
         \A i \in DOMAIN batch :
           /\ batch[i].kind = "CreateTags"
           /\ ~\E j \in DOMAIN replies[i] : replies[i][j].res \in SoftError \cup {"error"}
           => Creates(batch[i]) \subseteq DOMAIN ram.tags,
         ram'.tags = ram.tags, ram'.epoch = ram.epoch, UNCHANGED queue,
         batch' = <<>>, outs' = <<>>, acc' \in {acc, <<>>}, phase' \in {"idle", "sync", "full"}
  PROVE  CallsInv'
<1> DEFINE failed(i) == \E j \in DOMAIN replies[i] : replies[i][j].res \in SoftError \cup {"error"}
           onward(i) == batch[i].kind = "CreateTags" /\ ~failed(i)
           answer(i) == IF cl[batch[i].client].op.kind = "GetTouch" /\ ~failed(i)
                        THEN cl[batch[i].client].found ELSE replies[i]
<1>1. cl' = [c \in Clients |->
               IF \E i \in DOMAIN batch : batch[i].client = c
               THEN IF \E i \in DOMAIN batch : batch[i].client = c /\ onward(i)
                    THEN [cl[c] EXCEPT !.pc = "resolve"] ELSE Idle
               ELSE cl[c]]
  BY DEF Deliver
<1>2. log' = [x \in DOMAIN log |->
                IF \E i \in DOMAIN batch : batch[i].call = x /\ ~onward(i)
                THEN [log[x] EXCEPT !.reply = answer(CHOOSE i \in DOMAIN batch : batch[i].call = x)]
                ELSE log[x]]
  BY DEF Deliver
<1>3. \A i \in DOMAIN batch : onward(i) => Creates(batch[i]) \subseteq DOMAIN ram.tags
  OBVIOUS
<1> HIDE DEF failed, onward, answer
<1>4. LogOK(log') /\ Extends(log, log')
  <2>1. LogOK(log)
    BY DEF CallsInv
  <2>2. IsTable(log') /\ DOMAIN log' = DOMAIN log
    BY <1>2 DEF IsTable
  <2>3. \A x \in DOMAIN log : log'[x].op = log[x].op /\ "op" \in DOMAIN log'[x]
    BY <1>2, <2>1 DEF LogOK
  <2> QED BY <2>1, <2>2, <2>3, AnswersExtend DEF Answers
<1>5. Grows(ram.tags, ram'.tags, ram.epoch, ram'.epoch, log, log')
  BY <1>4, MemoryGrows
<1>6. ASSUME NEW c \in Clients PROVE CallerOK(cl'[c], ram'.tags, ram'.epoch, log')
  <2>1. CASE \A i \in DOMAIN batch : batch[i].client # c
    <3>1. cl'[c] = cl[c]
      BY <1>1, <2>1
    <3> QED BY <1>5, <3>1, CallerGrows DEF CallsInv
  <2>2. ASSUME NEW i \in DOMAIN batch, batch[i].client = c, onward(i)
        PROVE  CallerOK(cl'[c], ram'.tags, ram'.epoch, log')
    <3>1. PICK x : x = [cl[c] EXCEPT !.pc = "resolve"]
      OBVIOUS
    <3>2. cl'[c] = x
      BY <1>1, <2>2, <3>1
    <3>3. JobFor(batch[i], cl[c], ram.tags, ram.epoch, log) /\ batch[i].kind = "CreateTags"
      BY <2>2 DEF CallsInv, Elems, onward
    <3>4. Creates(batch[i]) \subseteq DOMAIN ram.tags
      BY <1>3, <2>2
    <3>5. /\ cl[c].pc = "wait" /\ Storing(cl[c].op) /\ cl[c].prep = <<>>
          /\ NamesOf(cl[c].op) \subseteq DOMAIN ram.tags
      BY <3>3, <3>4 DEF JobFor
    <3>6. CallerOK(cl[c], ram.tags, ram.epoch, log) /\ cl[c] # Idle
      BY <3>5, CallerAt
    <3>7. /\ DOMAIN x = CallerFields /\ x.pc = "resolve" /\ x.op = cl[c].op /\ x.op \in Ops
          /\ x.call = cl[c].call /\ x.prep = <<>>
      BY <3>1, <3>5, <3>6 DEF CallerFields, CallerOK
    <3>8. Len(x.prep) < Len(x.op.items)
      BY <3>5, <3>7, StoresAreLists, SMT
    <3>9. PrepOK(x, ram.tags, ram.epoch)
      BY <3>7, EmptyElems, SMT DEF PrepOK
    <3>10. CallerOK(x, ram.tags, ram.epoch, log)
      BY <3>5, <3>6, <3>7, <3>8, <3>9 DEF CallerOK
    <3> QED BY <1>5, <3>2, <3>10, CallerGrows
  <2>3. CASE /\ \E i \in DOMAIN batch : batch[i].client = c
             /\ ~\E i \in DOMAIN batch : batch[i].client = c /\ onward(i)
    <3>1. cl'[c] = Idle
      BY <1>1, <2>3
    <3> QED BY <3>1 DEF CallerOK
  <2> QED BY <2>1, <2>2, <2>3
<1>7. ASSUME NEW job \in Elems(queue)
      PROVE  job.client \in Clients /\ JobFor(job, cl'[job.client], ram'.tags, ram'.epoch, log')
  <2>1. PICK q \in DOMAIN queue : queue[q] = job
    BY DEF Elems
  <2>2. \A i \in DOMAIN batch : batch[i].client # job.client
    BY <2>1 DEF CallsInv, OneJobEach
  <2>3. job.client \in Clients /\ JobFor(job, cl[job.client], ram.tags, ram.epoch, log)
    BY DEF CallsInv
  <2>4. cl'[job.client] = cl[job.client]
    BY <1>1, <2>2, <2>3
  <2> QED BY <1>5, <2>3, <2>4, JobGrows
<1>8. DOMAIN batch' = {} /\ Elems(batch') = {}
  BY EmptyElems, SMT
<1>9. OneJobEach'
  BY <1>8 DEF CallsInv, OneJobEach
<1>10. BatchOK'
  BY EmptyElems DEF CallsInv, BatchOK, Open
<1> QED BY <1>1, <1>4, <1>6, <1>7, <1>8, <1>9, <1>10 DEF CallsInv

\* After a restart there are no callers (writer.rs, engine.rs open).
LEMMA CallsRestart ==
  ASSUME CallsInv, NEW t, Restart(t)
  PROVE  CallsInv'
<1>1. /\ queue' = <<>> /\ phase' = "idle" /\ batch' = <<>> /\ outs' = <<>> /\ acc' = <<>>
      /\ cl' = [c \in Clients |-> Idle]
      /\ log' = [i \in DOMAIN log |-> IF log[i].reply = <<>>
                                      THEN [log[i] EXCEPT !.reply = Error("crashed")] ELSE log[i]]
  BY DEF Restart
<1>2. LogOK(log')
  <2>1. LogOK(log)
    BY DEF CallsInv
  <2>2. IsTable(log') /\ DOMAIN log' = DOMAIN log
    BY <1>1 DEF IsTable
  <2>3. \A i \in DOMAIN log : log'[i].op = log[i].op /\ "op" \in DOMAIN log'[i]
    BY <1>1, <2>1 DEF LogOK
  <2> QED BY <2>1, <2>2, <2>3, AnswersExtend DEF Answers
<1>3. DOMAIN queue' = {} /\ DOMAIN batch' = {} /\ Elems(queue') = {} /\ Elems(batch') = {}
  BY <1>1, EmptyElems, SMT
<1>4. OneJobEach'
  BY <1>3 DEF OneJobEach
<1>5. BatchOK'
  BY <1>1, EmptyElems DEF BatchOK, Open
<1>6. DOMAIN cl' = Clients /\ \A c \in Clients : CallerOK(cl'[c], ram'.tags, ram'.epoch, log')
  BY <1>1 DEF CallerOK
<1> QED BY <1>2, <1>3, <1>4, <1>5, <1>6 DEF CallsInv

\* No call has been made.
LEMMA CallsInit == Init => CallsInv
<1> SUFFICES ASSUME Init PROVE CallsInv
  OBVIOUS
<1>1. /\ queue = <<>> /\ phase = "idle" /\ batch = <<>> /\ outs = <<>> /\ acc = <<>>
      /\ cl = [c \in Clients |-> Idle] /\ log = <<>>
  BY DEF Init
<1>2. DOMAIN queue = {} /\ DOMAIN batch = {} /\ Elems(queue) = {} /\ Elems(batch) = {}
  BY <1>1, EmptyElems, SMT
<1>3. OneJobEach /\ BatchOK /\ LogOK(log)
  BY <1>1, <1>2, EmptyElems DEF OneJobEach, BatchOK, Open, LogOK
<1>4. DOMAIN cl = Clients /\ \A c \in Clients : CallerOK(cl[c], ram.tags, ram.epoch, log)
  BY <1>1 DEF CallerOK
<1> QED BY <1>2, <1>3, <1>4 DEF CallsInv

\* A batch that is given up answers its callers with the error (writer.rs).
LEMMA CallsAbort ==
  ASSUME RegistryInv, CallsInv, NEW full, Abort(full), ram'.tags = ram.tags, ram'.epoch = ram.epoch
  PROVE  CallsInv'
<1> DEFINE replies == [i \in DOMAIN batch |-> Error("error")]
<1>1. /\ Deliver(replies) /\ UNCHANGED queue /\ batch' = <<>> /\ outs' = <<>> /\ acc' = <<>>
      /\ phase' \in {"idle", "full"}
  BY DEF Abort, Discard
<1>2. \A i \in DOMAIN batch : \E j \in DOMAIN replies[i] : replies[i][j].res \in SoftError \cup {"error"}
  <2>1. 1 \in DOMAIN Error("error") /\ Error("error")[1].res = "error"
    BY SMT DEF Error
  <2> QED BY <2>1
<1> HIDE DEF replies
<1> QED BY <1>1, <1>2, CallsDeliver

\* A committed batch answers its callers (writer.rs commit_batch).
LEMMA CallsReply ==
  ASSUME RegistryInv, PublicationInv, CallsInv, Reply
  PROVE  CallsInv'
<1>1. /\ phase = "publish" /\ eff = <<>> /\ Deliver(outs) /\ UNCHANGED <<queue, ram, acc>>
      /\ batch' = <<>> /\ outs' = <<>> /\ phase' \in {"idle", "sync"}
  BY DEF Reply, store_vars
<1>2. ram.tags = disk.tags
  BY <1>1, MemorySettled
<1>3. BatchOK /\ Registered(disk.tags)
  BY <1>1 DEF CallsInv, BatchOK
<1>4. DOMAIN outs = DOMAIN batch
  BY <1>1, <1>3, SMT DEF BatchOK, IsSeq
<1>5. \A i \in DOMAIN batch :
        /\ batch[i].kind = "CreateTags"
        /\ ~\E j \in DOMAIN outs[i] : outs[i][j].res \in SoftError \cup {"error"}
        => Creates(batch[i]) \subseteq DOMAIN ram.tags
  BY <1>2, <1>3, <1>4 DEF Registered, SoftFailed
<1> QED BY <1>1, <1>5, CallsDeliver

\* Every step keeps the calls in order.
LEMMA CallsStep ==
  ASSUME RegistryInv, RegistryInv', PublicationInv, CallsInv, [Next]_vars
  PROVE  CallsInv'
<1> USE DEF store_vars, writer_vars
<1>1. \A level : /\ [ram EXCEPT !.pressure = level].tags = ram.tags
                 /\ [ram EXCEPT !.pressure = level].epoch = ram.epoch
  BY DEF RegistryInv, MemoryOK
<1>2. ASSUME UNCHANGED <<cl, log, queue, batch, outs, acc>>,
             ram'.tags = ram.tags, ram'.epoch = ram.epoch,
             Open' => Open /\ txn'.t.tags = txn.t.tags,
             phase' = "publish" => \/ phase = "publish" /\ disk'.tags = disk.tags
                                   \/ phase = "commit" /\ disk'.tags = txn.t.tags,
             phase' \in {"maintain", "commit"} => phase \in {"maintain", "commit"}
      PROVE  CallsInv'
  <2>1. BatchOK'
    BY <1>2, BatchStays DEF CallsInv
  <2> QED BY <1>2, <2>1, MemoryStays, CallsStay
<1>3. ASSUME NEW c \in Clients, ClientStep(c) \/ CallStep(c) PROVE CallsInv'
  BY <1>3, CallerStep
<1>4. CASE WriterStep
  <2>1. ASSUME NEW due \in BOOLEAN, Begin(due) PROVE CallsInv'
    BY <2>1, CallsBegin
  <2>2. CASE \/ ApplySet \/ ApplyConditional \/ ApplyDelete \/ ApplyTouch \/ ApplyExpire
             \/ ApplyArithmetic \/ ApplyAppend \/ ApplyCreateTags \/ ApplyDeleteByTag
             \/ ApplyMergeTag \/ ApplyFlush \/ ApplySync
    BY <2>2, CallsApply DEF ApplySet, ApplyConditional, ApplyDelete, ApplyTouch,
         ApplyExpire, ApplyArithmetic, ApplyAppend, ApplyCreateTags, ApplyDeleteByTag,
         ApplyMergeTag, ApplyFlush, ApplySync
  <2>3. ASSUME NEW level \in Levels, Maintain(level) PROVE CallsInv'
    <3>1. /\ phase = "maintain" /\ phase' = "commit" /\ UNCHANGED <<cl, log, queue, batch, outs, acc>>
          /\ ram' = [ram EXCEPT !.pressure = level]
      BY <2>3 DEF Maintain
    <3>2. txn'.t.tags = txn.t.tags
      BY <2>3, MaintainKeeps DEF KeepsTables
    <3> QED BY <1>1, <1>2, <3>1, <3>2 DEF Open
  <2>4. CASE Commit
    <3>1. /\ phase = "commit" /\ phase' = "publish" /\ disk'.tags = txn.t.tags
          /\ UNCHANGED <<cl, log, queue, batch, outs, acc, ram>>
      BY <2>4 DEF Commit, RegistryInv, OpenOK, Open, Registry, Fields
    <3> QED BY <1>2, <3>1 DEF Open
  <2>5. CASE Publish
    <3>1. UNCHANGED <<cl, log, queue, batch, outs, acc, disk, phase>> /\ phase = "publish"
      BY <2>5 DEF Publish
    <3>2. BatchOK'
      BY <3>1, BatchStays DEF CallsInv, Open
    <3> QED BY <2>5, <3>1, <3>2, MemoryLearns, CallsStay
  <2>6. CASE CommitPoisoned
    BY <2>6, CallsAbort DEF CommitPoisoned
  <2>7. CASE Reply
    BY <2>7, CallsReply
  <2>8. CASE SyncEnv
    BY <1>2, <2>8 DEF SyncEnv, Open
  <2>9. CASE Refuse
    BY <1>1, <1>2, <2>9 DEF Refuse, Open
  <2>10. CASE FreeSpaceFails
    BY <1>2, <2>10 DEF FreeSpaceFails, Open
  <2>11. ASSUME NEW b \in FreeBudgets, FreeSpace(b) PROVE CallsInv'
    BY <1>2, <2>11 DEF FreeSpace, Open
  <2> QED BY <1>4, <2>1, <2>2, <2>3, <2>4, <2>5, <2>6, <2>7, <2>8, <2>9, <2>10, <2>11 DEF WriterStep
<1>5. CASE Failure
  <2>1. CASE BeginFails
    BY <2>1, CallsAbort DEF BeginFails
  <2>2. CASE SyncFails
    BY <1>2, <2>2 DEF SyncFails, Open
  <2>3. ASSUME NEW full \in BOOLEAN, CommitFails(full) PROVE CallsInv'
    BY <2>3, CallsAbort DEF CommitFails
  <2>4. ASSUME NEW full \in BOOLEAN, ApplyFails(full) PROVE CallsInv'
    <3>1. /\ phase = "apply" /\ HasItem /\ ram' \in {ram, ApplyItem(Job, Item).ram}
          /\ Abort(full)
      BY <2>4 DEF ApplyFails
    <3>2. ram'.tags = ram.tags /\ ram'.epoch = ram.epoch
      BY <3>1, ItemMemory
    <3> QED BY <3>1, <3>2, CallsAbort
  <2>5. ASSUME NEW level \in Levels, MaintainFails(level) PROVE CallsInv'
    <3>1. /\ phase = "maintain" /\ phase' = "commit"
          /\ UNCHANGED <<cl, log, queue, batch, outs, acc>>
          /\ txn' = [txn EXCEPT !.poisoned = TRUE]
          /\ ram' \in {ram, [ram EXCEPT !.pressure = level]}
      BY <2>5 DEF MaintainFails
    <3>2. txn'.t = txn.t
      BY <3>1 DEF RegistryInv, OpenOK, Open
    <3> QED BY <1>1, <1>2, <3>1, <3>2 DEF Open
  <2>6. CASE Crash
    BY <2>6, CallsRestart DEF Crash
  <2>7. CASE PowerLoss
    BY <2>7, CallsRestart DEF PowerLoss
  <2> QED BY <1>5, <2>1, <2>2, <2>3, <2>4, <2>5, <2>6, <2>7 DEF Failure
<1>6. CASE Tick
  BY <1>2, <1>6 DEF Tick, Open
<1>7. CASE UNCHANGED vars
  BY <1>2, <1>7 DEF vars, Open
<1> QED BY <1>3, <1>4, <1>5, <1>6, <1>7 DEF Next

=============================================================================
