------------------------------ MODULE Pipeline ------------------------------
(***************************************************************************)
(* What one connection does with one read that holds several commands:     *)
(* vash-server/src/conn.rs measures the buffer, cuts it into runs of reads,*)
(* plain writes and the rest, and sends every run to the tier that suits   *)
(* it; the block executors of resp.rs, memcached.rs and vcp.rs hold plain  *)
(* writes back in a dispatch::SetBatch and answer everything in order.     *)
(*                                                                         *)
(* A command is a record [op, key, as, quiet]: op is one of                *)
(*   get     a read                    set     an unconditional write      *)
(*   tagged  a write that carries tags add     a guarded write             *)
(*   auth    AUTH, presenting `as`     quit    QUIT                        *)
(*   bad     a command the parser refuses                                  *)
(*   badset  a Redis SET whose options only the executor's parser refuses  *)
(* `as` is the identity the credential it carries proves, Error for a      *)
(* wrong one; a memcached set carries one too, which is how memcached      *)
(* clients authenticate.  A write stores its own position in the block, so *)
(* the model can tell which write a read saw.                              *)
(*                                                                         *)
(* A block is given with what it meets: the dialect, whether               *)
(* authentication is required, the identity before the read, whether reads *)
(* run inline and up to how many commands, whether the buffer ends in      *)
(* unrecoverable framing, and how many times the store may fail.           *)
(***************************************************************************)
EXTENDS Auth

CONSTANTS
    Keys,
    Blocks      \* the worlds and blocks the runs explore

VARIABLES
    block,      \* [dialect, required, identity, inline, max, fatal, cmds]
    conn,       \* ConnAuth
    slices,     \* the slices `drain` still has to run: [from, to, tier]
    at,         \* [pc, pos, to]: the command the block executor is at
    batch,      \* the SetBatch: positions of the writes held back
    out,        \* the write buffer: [cmd, kind, val], in the order written
    kv,         \* the store: which command last wrote each key, 0 for none
    verdict,    \* what became of each command, answered or not
    faults      \* how many more times the store may fail

pipeVars == <<block, conn, slices, at, batch, out, kv, verdict, faults>>

cmds == block.cmds
cmd(i) == block.cmds[i]

-----------------------------------------------------------------------------
(* Measuring.                                                               *)

(* The RunKind of a command: measure_vcp with Opcode::inline_safe,          *)
(* measure_memcached, and measure_resp with resp::classify, which judges a  *)
(* SET by its option tokens alone.                                          *)
classify(dialect, c) ==
    CASE c.op = "get" -> "Reads"
      [] c.op \in {"auth", "quit"} ->
            IF dialect = "vcp" THEN "Other" ELSE "Reads"
      [] c.op = "set" -> IF dialect = "vcp" THEN "Other" ELSE "Writes"
      [] c.op = "badset" -> "Writes"
      [] OTHER -> "Other"

(* Run::extend: adjacent commands of a kind make one run. *)
extend(runs, kind, i) ==
    IF runs # <<>> /\ Last(runs).kind = kind
    THEN [runs EXCEPT ![Len(runs)].to = i]
    ELSE Append(runs, [from |-> i, to |-> i, kind |-> kind])

Measured(w) ==
    FoldLeft(LAMBDA runs, i : extend(runs, classify(w.dialect, w.cmds[i]), i),
             <<>>, [i \in DOMAIN w.cmds |-> i])

(* worth_inlining: asked of the block, not of the run. *)
worth_inlining(w) == w.inline /\ Len(w.cmds) <= w.max

(* The slices `drain` runs one after the other.  A block whose reads gain   *)
(* nothing is not split; runs that both go to the pool share one hop.       *)
Tier(run, w, writes) ==
    CASE run.kind = "Reads" /\ worth_inlining(w) -> "inline"
      [] run.kind = "Writes" /\ writes -> "await"
      [] OTHER -> "pool"

Slices(w, writes) ==
    LET runs == Measured(w)
        split == IF ~worth_inlining(w) /\ Len(runs) > 1
                 THEN <<[from |-> 1, to |-> Len(w.cmds), kind |-> "Other"]>>
                 ELSE runs
        add(acc, run) ==
            LET tier == Tier(run, w, writes)
            IN  IF acc # <<>> /\ tier = "pool" /\ Last(acc).tier = "pool"
                THEN [acc EXCEPT ![Len(acc)].to = run.to]
                ELSE Append(acc, [from |-> run.from, to |-> run.to, tier |-> tier])
    IN  FoldLeft(add, <<>>, split)

(* `handle` after a read: what may be written is judged once, here, and a   *)
(* VCP connection has no awaited write path at all.                         *)
Measure ==
    /\ at.pc = "read"
    /\ slices' = Slices(block,
                        block.dialect # "vcp"
                          /\ permitted(block.required, conn, {"write"}))
    /\ at' = [at EXCEPT !.pc = "drain"]
    /\ UNCHANGED <<block, conn, batch, out, kv, verdict, faults>>

-----------------------------------------------------------------------------
(* Replies.                                                                 *)

(* Whether a verdict on command i is written: never to a quiet one. *)
Rendered(i, kind, val) ==
    IF cmd(i).quiet THEN <<>> ELSE <<[cmd |-> i, kind |-> kind, val |-> val]>>

RenderedAll(seq, kindOf) ==
    FoldLeft(LAMBDA acc, i : acc \o Rendered(i, kindOf[i], 0), <<>>, seq)

KeysOf(seq) == {cmd(seq[n]).key : n \in DOMAIN seq}

(* A slip for the mutation test: the first write of a run to a key wins. *)
AppliedBackwards(store, seq, onto) ==
    FoldLeft(LAMBDA acc, i :
                IF cmd(i).key \in onto THEN [acc EXCEPT ![cmd(i).key] = i] ELSE acc,
             store, Reverse(seq))

(* The store after the writes of seq, in order, on the keys given. *)
Applied(store, seq, onto) ==
    FoldLeft(LAMBDA acc, i :
                IF cmd(i).key \in onto THEN [acc EXCEPT ![cmd(i).key] = i] ELSE acc,
             store, seq)

-----------------------------------------------------------------------------
(* A slice that is nothing but writes, submitted and awaited on the worker: *)
(* conn.rs run_writes_awaited with parse_writes / parse_memcached_writes.   *)

Span(from, to) == [n \in 1..(to - from + 1) |-> from + n - 1]

NextSlice ==
    /\ at.pc = "drain"
    /\ slices # <<>>
    /\ at' = [pc |-> IF Head(slices).tier = "await" THEN "await" ELSE "exec",
              pos |-> Head(slices).from, to |-> Head(slices).to]
    /\ slices' = Tail(slices)
    /\ UNCHANGED <<block, conn, batch, out, kv, verdict, faults>>

Awaited == Span(at.pos, at.to)

(* Every write committed: one STORED for each that asked for one. *)
AwaitedStores ==
    /\ at.pc = "await"
    /\ \A n \in DOMAIN Awaited : cmd(Awaited[n]).op = "set"
    /\ kv' = Applied(kv, Awaited, Keys)
    /\ verdict' = [i \in DOMAIN verdict |->
                     IF i \in at.pos..at.to THEN "ok" ELSE verdict[i]]
    /\ out' = out \o RenderedAll(Awaited, [i \in at.pos..at.to |-> "stored"])
    /\ at' = [at EXCEPT !.pc = "drain"]
    /\ UNCHANGED <<block, conn, slices, batch, faults>>

(* A slip: a declined slice is offered to the awaited path again. *)
AwaitedDeclinesAgain ==
    /\ at.pc = "await"
    /\ \E n \in DOMAIN Awaited : cmd(Awaited[n]).op # "set"
    /\ slices' = <<[from |-> at.pos, to |-> at.to, tier |-> "await"]>> \o slices
    /\ at' = [at EXCEPT !.pc = "drain"]
    /\ UNCHANGED <<block, conn, batch, out, kv, verdict, faults>>

(* A write it cannot parse: declined before anything was submitted. *)
AwaitedDeclines ==
    /\ at.pc = "await"
    /\ \E n \in DOMAIN Awaited : cmd(Awaited[n]).op # "set"
    /\ at' = [at EXCEPT !.pc = "exec"]
    /\ UNCHANGED <<block, conn, slices, batch, out, kv, verdict, faults>>

(* The store failed: the shards of some keys committed, those of the others *)
(* did not, nothing is answered and the ordinary path runs the slice again. *)
AwaitedFails ==
    /\ at.pc = "await"
    /\ \A n \in DOMAIN Awaited : cmd(Awaited[n]).op = "set"
    /\ faults > 0
    /\ \E committed \in SUBSET KeysOf(Awaited) :
         kv' = Applied(kv, Awaited, committed)
    /\ faults' = faults - 1
    /\ at' = [at EXCEPT !.pc = "exec"]
    /\ UNCHANGED <<block, conn, slices, batch, out, verdict>>

-----------------------------------------------------------------------------
(* The block executors, one command at a time: resp::execute_block,         *)
(* execute_memcached_block, execute_vcp_block.                              *)

Executing == at.pc = "exec" /\ at.pos <= at.to
Here == cmd(at.pos)

Needed(c) ==
    CASE c.op = "get" -> {"read"}
      [] c.op \in {"set", "tagged", "add"} -> {"write"}
      [] c.op \in {"bad", "badset"} ->
            IF block.dialect = "vcp" THEN {"write"} ELSE {}
      [] OTHER -> {}

(* Whether the dialect refuses the command before it looks at it.  AUTH and *)
(* QUIT are how a stranger gets in and out; the text parsers meet their own *)
(* errors ahead of the gate.                                                *)
Refused(c) ==
    /\ c.op \notin {"auth", "quit"}
    /\ c.op \in {"bad", "badset"} => block.dialect = "vcp"
    /\ ~permitted(block.required, conn, Needed(c))

(* A slip: the batch is filled ahead of the gate. *)
HoldableUngated(c) == c.op \in {"set", "tagged"}

(* dispatch::batchable behind the gate: an unconditional write, tagged or   *)
(* not, that nothing refuses.                                               *)
Holdable(c) == c.op \in {"set", "tagged"} /\ ~Refused(c)

(* SetBatch::holds *)
holds(key) == key \in KeysOf(batch)

(* A slip: the executor stays on the write it has just held. *)
HoldInPlace ==
    /\ Executing
    /\ Holdable(Here)
    /\ ~holds(Here.key)
    /\ batch' = Append(batch, at.pos)
    /\ UNCHANGED <<block, conn, slices, at, out, kv, verdict, faults>>

(* A held write is answered only when the batch is flushed. *)
Hold ==
    /\ Executing
    /\ Holdable(Here)
    /\ ~holds(Here.key)
    /\ batch' = Append(batch, at.pos)
    /\ at' = [at EXCEPT !.pos = @ + 1]
    /\ UNCHANGED <<block, conn, slices, out, kv, verdict, faults>>

(* Where the executors flush: before a write to a key already held, before  *)
(* anything that cannot be held, and at the end of the slice.               *)
MustFlush ==
    /\ at.pc = "exec"
    /\ batch # <<>>
    /\ at.pos <= at.to => ~Holdable(Here) \/ holds(Here.key)

SetVerdicts(seq, failed) ==
    [i \in DOMAIN verdict |->
        IF i \notin ToSet(seq) THEN verdict[i]
        ELSE IF i \in failed THEN "failed" ELSE "ok"]

FlushStores ==
    /\ MustFlush
    /\ kv' = Applied(kv, batch, Keys)
    /\ verdict' = SetVerdicts(batch, {})
    /\ out' = out \o RenderedAll(batch, [i \in ToSet(batch) |-> "stored"])
    /\ batch' = <<>>
    /\ UNCHANGED <<block, conn, slices, at, faults>>

(* A failed batch is retried one command at a time: some shards committed,  *)
(* and each retry has a verdict of its own.                                 *)
FlushFails ==
    /\ MustFlush
    /\ faults > 0
    /\ \E committed \in SUBSET KeysOf(batch), failed \in SUBSET ToSet(batch) :
         /\ kv' = Applied(Applied(kv, batch, committed),
                          SelectSeq(batch, LAMBDA i : i \notin failed), Keys)
         /\ verdict' = SetVerdicts(batch, failed)
         /\ out' = out \o RenderedAll(batch,
                                      [i \in ToSet(batch) |->
                                         IF i \in failed THEN "error" ELSE "stored"])
    /\ faults' = faults - 1
    /\ batch' = <<>>
    /\ UNCHANGED <<block, conn, slices, at>>

(* The command at hand has its verdict and its reply; on to the next.       *)
Answer(what, reply, newConn) ==
    /\ verdict' = [verdict EXCEPT ![at.pos] = what]
    /\ out' = out \o reply
    /\ conn' = newConn
    /\ at' = [at EXCEPT !.pos = @ + 1]
    /\ UNCHANGED <<block, slices, batch, faults>>

(* A slip: a command runs while writes before it are still held back. *)
ReadyAnyway == Executing

(* Whatever is not held runs only once the writes before it are flushed. *)
Ready == Executing /\ batch = <<>>

(* A stranger's memcached `set` presents a credential instead of writing. *)
IsLogin(c) == \/ c.op = "auth"
              \/ /\ c.op = "set" /\ block.dialect = "memcached"
                 /\ block.required /\ ~is_authenticated(conn)

(* resp::authenticate, vcp::execute_auth (which answers even a quiet AUTH), *)
(* execute_memcached_unauthenticated: a failure costs an attempt and leaves *)
(* the identity there was.                                                  *)
Login ==
    /\ Ready
    /\ IsLogin(Here)
    /\ LET good == Here.as # Error
           reply == [cmd |-> at.pos, val |-> 0,
                     kind |-> IF good THEN "stored" ELSE "error"]
       IN  Answer(IF good THEN "login" ELSE "refused",
                  IF Here.op = "auth" THEN <<reply>>
                  ELSE Rendered(at.pos, reply.kind, 0),
                  IF good THEN succeed(conn, Here.as) ELSE fail(conn))
    /\ UNCHANGED kv

Refuse ==
    /\ Ready
    /\ ~IsLogin(Here)
    /\ Refused(Here)
    /\ Answer("refused", Rendered(at.pos, "error", 0), conn)
    /\ UNCHANGED kv

(* A command the parser refused keeps its place in the reply stream.  The   *)
(* flags of its header are not consulted: the answer is always written.     *)
RejectMalformed ==
    /\ Ready
    /\ ~Refused(Here)
    /\ Here.op \in {"bad", "badset"}
    /\ Answer("refused", <<[cmd |-> at.pos, kind |-> "error", val |-> 0]>>, conn)
    /\ UNCHANGED kv

(* dispatch::execute_get_into *)
ExecuteGet ==
    /\ Ready
    /\ ~Refused(Here)
    /\ Here.op = "get"
    /\ Answer("ok", Rendered(at.pos, "value", kv[Here.key]), conn)
    /\ UNCHANGED kv

(* A guarded write goes through dispatch::execute on its own. *)
ExecuteAdd ==
    /\ Ready
    /\ ~Refused(Here)
    /\ Here.op = "add"
    /\ LET absent == kv[Here.key] = 0
       IN  /\ kv' = IF absent THEN [kv EXCEPT ![Here.key] = at.pos] ELSE kv
           /\ Answer(IF absent THEN "ok" ELSE "not_stored",
                     Rendered(at.pos, IF absent THEN "stored" ELSE "not_stored", 0),
                     conn)

(* Closing::Yes: what follows in the block does not matter.  Redis says OK  *)
(* first, memcached says nothing.                                           *)
Quit ==
    /\ Ready
    /\ Here.op = "quit"
    /\ out' = IF block.dialect = "resp"
              THEN Append(out, [cmd |-> at.pos, kind |-> "stored", val |-> 0])
              ELSE out
    /\ verdict' = [verdict EXCEPT ![at.pos] = "quit"]
    /\ at' = [at EXCEPT !.pc = "close"]
    /\ UNCHANGED <<block, conn, slices, batch, kv, faults>>

EndSlice ==
    /\ at.pc = "exec"
    /\ at.pos > at.to
    /\ batch = <<>>
    /\ at' = [at EXCEPT !.pc = "drain"]
    /\ UNCHANGED <<block, conn, slices, batch, out, kv, verdict, faults>>

(* The tail of `drain`: unrecoverable framing is answered last (by Redis    *)
(* only) and closes; otherwise the connection waits for its next read.      *)
EndDrain ==
    /\ \/ at.pc = "drain" /\ slices = <<>>
       \/ at.pc = "close"
    /\ out' = IF block.fatal /\ block.dialect = "resp"
              THEN Append(out, [cmd |-> Len(cmds) + 1, kind |-> "protocol", val |-> 0])
              ELSE out
    /\ at' = [at EXCEPT !.pc = IF at.pc = "close" \/ block.fatal
                               THEN "closed" ELSE "written"]
    /\ UNCHANGED <<block, conn, slices, batch, kv, verdict, faults>>

-----------------------------------------------------------------------------
PipeInit ==
    /\ \E b \in Blocks :
         /\ block = b
         /\ conn = [identity |-> b.identity, failures |-> 0]
         /\ faults = b.faults
    /\ slices = <<>>
    /\ at = [pc |-> "read", pos |-> 1, to |-> 0]
    /\ batch = <<>>
    /\ out = <<>>
    /\ kv = [k \in Keys |-> 0]
    /\ verdict = [i \in DOMAIN block.cmds |-> "none"]

PipeNext ==
    \/ Measure \/ NextSlice
    \/ AwaitedStores \/ AwaitedDeclines \/ AwaitedFails
    \/ Hold \/ FlushStores \/ FlushFails
    \/ Login \/ Refuse \/ RejectMalformed
    \/ ExecuteGet \/ ExecuteAdd \/ Quit
    \/ EndSlice \/ EndDrain

(* The task of a connection runs until it waits for the next read.          *)
PipeFairness == WF_pipeVars(PipeNext)

PipeSpec == PipeInit /\ [][PipeNext]_pipeVars /\ PipeFairness

-----------------------------------------------------------------------------
(* Properties.                                                              *)

Over == at.pc \in {"written", "closed"}

(* The variables stay in their types, and what the executor holds back are  *)
(* positions of the slice it is running.                                    *)
PipeTypeOK ==
    /\ at.pc \in {"read", "drain", "await", "exec", "close", "written", "closed"}
    /\ at.pos \in 1..(Len(cmds) + 1) /\ at.to \in 0..Len(cmds)
    /\ ToSet(batch) \subseteq 1..(at.pos - 1)
    /\ \A k \in Keys : kv[k] \in 0..Len(cmds)
    /\ conn.failures \in 0..Len(cmds)

(* Whether command i is owed a reply: not when it asked for none, and not   *)
(* when a QUIT before it, or a memcached QUIT itself, closed the connection.*)
Owed(i) ==
    /\ ~cmd(i).quiet
    /\ \A j \in 1..(i - 1) : verdict[j] # "quit"
    /\ cmd(i).op = "quit" => block.dialect = "resp"

(* A pipelined block is answered in the order it was sent, whichever tier   *)
(* each of its runs took, whether or not a batch failed and was retried:    *)
(* one reply to every command that is owed one, none twice, and when the    *)
(* block is over none missing (conn.rs drain, dispatch SetBatch::flush).    *)
RepliesInOrder ==
    /\ \A m, n \in DOMAIN out : m < n => out[m].cmd < out[n].cmd
    /\ Over => \A i \in DOMAIN cmds :
                 Owed(i) => \E n \in DOMAIN out : out[n].cmd = i

(* What a look at key k after the first n commands may show: the last of    *)
(* them that stored k, or a later one that may have reached its shard       *)
(* without being acknowledged: one whose failure was reported, or one       *)
(* refused behind an AUTH of the same block, which the awaited path may     *)
(* have submitted under the identity before it.                             *)
MayShow(k, n, val) ==
    LET writes == {i \in 1..n : cmd(i).op \in {"set", "tagged", "add"} /\ cmd(i).key = k}
        sure == {i \in writes : verdict[i] = "ok"}
        maybe == {i \in writes : \/ verdict[i] = "failed"
                                 \/ /\ verdict[i] = "refused"
                                    /\ \E j \in 1..(i - 1) : verdict[j] = "login"}
    IN  \/ val \in sure \cup maybe /\ \A i \in sure : i <= val
        \/ val = 0 /\ sure = {}

(* A read pipelined behind writes sees them: a value it returns is that of  *)
(* the last write to the key ahead of it in the block, and what the block   *)
(* leaves in the store is its last write's, even where the runs took        *)
(* different tiers or a write was applied twice by a retry.                 *)
ReadsSeeEarlierWrites ==
    /\ \A n \in DOMAIN out :
         out[n].kind = "value" => MayShow(cmd(out[n].cmd).key, out[n].cmd, out[n].val)
    /\ Over => \A k \in Keys : MayShow(k, Len(cmds), kv[k])

(* The identity command i meets when the executor comes to it: that of the  *)
(* last AUTH before it that succeeded, or the one there was.                *)
IdentityAt(i) ==
    LET logins == {n \in 1..(i - 1) : verdict[n] = "login"}
    IN  IF logins = {} THEN block.identity
        ELSE cmd(CHOOSE n \in logins : \A m \in logins : m <= n).as

Allows(who, needed) == permitted(block.required, [identity |-> who, failures |-> 0], needed)

(* The writes of a run that is submitted and awaited without the executor. *)
IsAwaited(i) ==
    LET runs == Slices(block, block.dialect # "vcp" /\ Allows(block.identity, {"write"}))
    IN  \E n \in DOMAIN runs :
          /\ runs[n].tier = "await" /\ i \in runs[n].from..runs[n].to
          /\ \A m \in runs[n].from..runs[n].to : cmd(m).op = "set"

TookEffect(i) ==
    \/ verdict[i] \in {"ok", "failed", "not_stored"}
    \/ \E k \in Keys : kv[k] = i

(* No command takes effect, acknowledged or not, unless the identity it     *)
(* meets is allowed to run it: not held back ahead of the gate, not on a    *)
(* retry.  Only for a write that is awaited on the worker is the identity   *)
(* of the start of the read good enough, an AUTH ahead of it in the same    *)
(* read notwithstanding: `may_write` is asked once per read (conn.rs:238).  *)
GateBeforeEffect ==
    \A i \in DOMAIN cmds : TookEffect(i) =>
        \/ Allows(IdentityAt(i), Needed(cmd(i)))
        \/ IsAwaited(i) /\ Allows(block.identity, {"write"})

(* conn.rs:234: within one read the identity cannot go stale, because a     *)
(* block that carries an AUTH never reaches the awaited path.  The block is *)
(* cut into runs, and the writes behind the AUTH do reach it.               *)
AuthNeverGoesStale ==
    \A i \in DOMAIN cmds : TookEffect(i) => Allows(IdentityAt(i), Needed(cmd(i)))

(* Every block ends: nothing the executors do can leave one waiting. *)
EveryBlockEnds == []<>Over
=============================================================================
