--------------------------- MODULE OutboundQueue ---------------------------
(***************************************************************************)
(* The on-disk outbound queue and the three processes that meet on it:     *)
(*                                                                         *)
(*   writer      session-manager's queue.Write, one call per message: the  *)
(*               body file first, then one envelope file per recipient;    *)
(*   scheduler   queue-manager's Scheduler.RunOnce: recover, scan, claim,  *)
(*               invoke mail-remote, bounce, remove or unclaim, clean;     *)
(*   mail-remote one child process per invocation, which delivers, reports *)
(*               its results on stdout and only then deletes envelopes.    *)
(*                                                                         *)
(* Every process may crash between any two of its steps, and a mail-remote *)
(* whose scheduler died keeps running as an orphan.                        *)
(*                                                                         *)
(* An envelope is a member of Envs, a body a member of Msgs; what a file   *)
(* holds is abstracted.  Clocks are abstracted to the two tests made of    *)
(* them: a message is past its TTL (expired), and an envelope's mtime is   *)
(* older than its retry interval (due).                                    *)
(***************************************************************************)
EXTENDS Integers, Sequences, FiniteSets

CONSTANTS
  Msgs,            \* message ids (the hex part used in file names)
  Envs,            \* envelopes, one per message and recipient
  MsgOf,           \* [Envs -> Msgs]
  RcptDomain,      \* [Envs -> Seq(label)], the recipient's domain name
  Procs,           \* slots for mail-remote processes, live and orphaned
  NoMsg,           \* "no message", not a member of Msgs
  MessagesPerHour, \* refill rate of the domain limiter; 0 is "no limiter"
  Burst,           \* capacity of a domain's token bucket
  MaxFaults        \* bound on crashes and lost replies in a behaviour

ASSUME QueueConstants ==
  /\ MsgOf \in [Envs -> Msgs]
  /\ \A e \in Envs : Len(RcptDomain[e]) \in Nat \ {0}
  /\ NoMsg \notin Msgs
  /\ MessagesPerHour \in Nat /\ Burst \in Nat /\ MaxFaults \in Nat
  /\ IsFiniteSet(Envs)

\* The {tld}/{sld} pair a domain name is filed under: its last two labels.
splitDomainLabels(domain) ==
  LET n == Len(domain)
  IN  IF n < 2 THEN <<"unknown", domain[1]>> ELSE <<domain[n], domain[n - 1]>>

EnvDir(e) == splitDomainLabels(RcptDomain[e])
EnvDirs == {EnvDir(e) : e \in Envs}
EnvsOf(m) == {e \in Envs : MsgOf[e] = m}

VARIABLES
  body,      \* message bodies on disk under msg/
  env,       \* each envelope's file: not written, queued, claimed, removed
  wr,        \* state of the queue.Write call for each message
  dirs,      \* env/{tld}/{sld} directories that exist
  expired,   \* messages past their TTL
  due,       \* envelopes whose mtime is older than the retry interval
  tokens,    \* limiter: tokens in each domain directory's bucket
  pc,        \* scheduler: where in RunOnce it is
  todoDirs,  \* scheduler: directories this scan has not visited yet
  batch,     \* scheduler: entries of the current directory not handled yet
  final,     \* scheduler: the entries of this directory that were expired
  claimed,   \* scheduler: envelopes of the current group not settled yet
  sent,      \* scheduler: envelopes of the current mail-remote invocation
  results,   \* scheduler: status per envelope read from mail-remote's stdout
  clean,     \* scheduler: bodies cleanOrphanBodies has not looked at yet
  victim,    \* scheduler: body found without envelopes, about to be removed
  rst,       \* mail-remote: state of each process
  rtodo,     \* mail-remote: its envelopes; after the report, those to delete
  rres,      \* mail-remote: results so far
  rpar,      \* mail-remote: its scheduler is alive to read its stdout
  accepted,  \* history: times the remote server accepted the message
  dsn,       \* history: bounces generated
  faults,    \* history: crashes and lost replies that hit an envelope
  reported,  \* history: envelopes whose last verdict reached a scheduler
  early,     \* history: bodies found without envelopes while Write ran
  crashes    \* history: all faults so far, bounded by MaxFaults

disk   == <<body, env, wr, dirs>>
clock  == <<expired, due, tokens>>
sched  == <<pc, todoDirs, batch, final, claimed, sent, results, clean, victim>>
remote == <<rst, rtodo, rres, rpar>>
hist   == <<accepted, dsn, faults, reported, early, crashes>>
vars   == <<disk, clock, sched, remote, hist>>

Verdicts == {"delivered", "perm_fail", "temp_fail"}
OnDisk == {"queued", "delivering"}
NoResults == [e \in Envs |-> "none"]
FullBuckets == [d \in EnvDirs |-> Burst]

Init ==
  /\ body = {} /\ env = [e \in Envs |-> "absent"]
  /\ wr = [m \in Msgs |-> "idle"] /\ dirs = {}
  /\ expired = {} /\ due = {} /\ tokens = FullBuckets
  /\ pc = "sleep" /\ todoDirs = {} /\ batch = {} /\ final = {} /\ claimed = {}
  /\ sent = {} /\ results = NoResults /\ clean = {} /\ victim = NoMsg
  /\ rst = [p \in Procs |-> "off"] /\ rtodo = [p \in Procs |-> {}]
  /\ rres = [p \in Procs |-> NoResults] /\ rpar = [p \in Procs |-> FALSE]
  /\ accepted = [e \in Envs |-> 0] /\ dsn = [e \in Envs |-> 0]
  /\ faults = [e \in Envs |-> 0] /\ reported = {} /\ early = {} /\ crashes = 0

----------------------------------------------------------------------------
(* The writer: queue.Write. *)

\* The body's rename into msg/.  The tmp_ file before it is invisible.
WriteBody(m) ==
  /\ wr[m] = "idle"
  /\ wr' = [wr EXCEPT ![m] = "writing"]
  /\ body' = body \cup {m}
  /\ UNCHANGED <<env, dirs, clock, sched, remote, hist>>

\* One recipient of the loop: mkdir, then the envelope's rename into env/.
WriteEnvelope(e) ==
  /\ wr[MsgOf[e]] = "writing"
  /\ env[e] = "absent"
  /\ env' = [env EXCEPT ![e] = "queued"]
  /\ dirs' = dirs \cup {EnvDir(e)}
  /\ UNCHANGED <<body, wr, clock, sched, remote, hist>>

\* Every recipient has its envelope: the message id is returned to the caller.
WriteReturns(m) ==
  /\ wr[m] = "writing"
  /\ \A e \in EnvsOf(m) : env[e] # "absent"
  /\ wr' = [wr EXCEPT ![m] = "ok"]
  /\ UNCHANGED <<body, env, dirs, clock, sched, remote, hist>>

\* An invalid recipient, an I/O error or a crash of session-manager ends the
\* call early.  Files already renamed into place stay.
WriteFails(m) ==
  /\ wr[m] = "writing"
  /\ wr' = [wr EXCEPT ![m] = "err"]
  /\ UNCHANGED <<body, env, dirs, clock, sched, remote, hist>>

----------------------------------------------------------------------------
(* Time. *)

\* An envelope's mtime becomes older than retryInterval.
BecomeDue(e) ==
  /\ env[e] \in OnDisk /\ e \notin due
  /\ due' = due \cup {e}
  /\ UNCHANGED <<expired, tokens, disk, sched, remote, hist>>

\* A message's TTL, fixed when Write started, passes.
Expire(m) ==
  /\ wr[m] # "idle" /\ m \notin expired
  /\ expired' = expired \cup {m}
  /\ UNCHANGED <<due, tokens, disk, sched, remote, hist>>

\* A bucket gains a token, up to its capacity.
Refill(d) ==
  /\ MessagesPerHour > 0 /\ tokens[d] < Burst
  /\ tokens' = [tokens EXCEPT ![d] = @ + 1]
  /\ UNCHANGED <<expired, due, disk, sched, remote, hist>>

----------------------------------------------------------------------------
(* The scheduler: Scheduler.RunOnce and what it calls. *)


\* recoverStaleDeliveries: every .delivering file is renamed back.
Recover(files) ==
  [e \in Envs |-> IF files[e] = "delivering" THEN "queued" ELSE files[e]]

\* RunOnce begins: recover, then list the domain directories.
StartScan ==
  /\ pc = "sleep"
  /\ env' = Recover(env)
  /\ todoDirs' = dirs
  /\ pc' = "scan"
  /\ UNCHANGED <<body, wr, dirs, clock, batch, final, claimed, sent, results, clean,
                 victim, remote, hist>>

\* The entries of directory d that processDomainDir groups: not claimed, and
\* either expired or due.
ReadyIn(d) ==
  {e \in Envs : /\ env[e] = "queued" /\ EnvDir(e) = d
                /\ MsgOf[e] \in expired \/ e \in due}

\* processDomainDir reads one directory.
OpenDir(d) ==
  /\ pc = "scan"
  /\ d \in todoDirs
  /\ todoDirs' = todoDirs \ {d}
  /\ batch' = ReadyIn(d)
  /\ final' = {e \in ReadyIn(d) : MsgOf[e] \in expired}
  /\ pc' = "group"
  /\ UNCHANGED <<disk, clock, claimed, sent, results, clean, victim, remote, hist>>

\* All directories are visited: sleep until the next scan.
EndScan ==
  /\ pc = "scan"
  /\ todoDirs = {}
  /\ pc' = "sleep"
  /\ UNCHANGED <<disk, clock, todoDirs, batch, final, claimed, sent, results, clean,
                 victim, remote, hist>>

Group(m) == batch \cap EnvsOf(m)
GroupDir(m) == EnvDir(CHOOSE e \in Group(m) : TRUE)

\* Faulty variant of Allowed: off by one, a group may take one token too many.
AllowedOneMore(m) ==
  MessagesPerHour > 0 => Cardinality(Group(m)) <= tokens[GroupDir(m)] + 1

\* tokenBucket.allow for the whole group; no limiter allows everything.
Allowed(m) ==
  MessagesPerHour > 0 => Cardinality(Group(m)) <= tokens[GroupDir(m)]

Consume(m) ==
  IF MessagesPerHour > 0
  THEN tokens' = [tokens EXCEPT ![GroupDir(m)] = @ - Cardinality(Group(m))]
  ELSE UNCHANGED tokens

\* The domain's rate limit refuses the group: it waits for another scan.
DeferGroup(m) ==
  /\ pc = "group" /\ Group(m) # {}
  /\ ~Allowed(m)
  /\ batch' = batch \ Group(m)
  /\ UNCHANGED <<disk, clock, pc, todoDirs, final, claimed, sent, results, clean,
                 victim, remote, hist>>

\* resolveBody finds no body: expired entries are removed, the others stay.
DropBodyless(m) ==
  /\ pc = "group" /\ Group(m) # {}
  /\ Allowed(m) /\ Consume(m)
  /\ m \notin body
  /\ env' = [e \in Envs |-> IF e \in Group(m) \cap final THEN "removed" ELSE env[e]]
  /\ batch' = batch \ Group(m)
  /\ UNCHANGED <<body, wr, dirs, expired, due, pc, todoDirs, final, claimed, sent,
                 results, clean, victim, remote, hist>>

\* The group's envelopes are renamed to .delivering.
ClaimGroup(m) ==
  /\ pc = "group" /\ Group(m) # {}
  /\ Allowed(m) /\ Consume(m)
  /\ m \in body
  /\ env' = [e \in Envs |-> IF e \in Group(m) THEN "delivering" ELSE env[e]]
  /\ claimed' = Group(m)
  /\ batch' = batch \ Group(m)
  /\ pc' = "dispatch"
  /\ UNCHANGED <<body, wr, dirs, expired, due, todoDirs, final, sent, results, clean,
                 victim, remote, hist>>

\* invoke: one child per expired envelope (--final) while there are any, then
\* a single child for the active envelopes of the group.
Invoke(p, es) ==
  /\ pc = "dispatch"
  /\ rst[p] = "off"
  /\ \/ es \in {{e} : e \in claimed \cap final}
     \/ claimed \cap final = {} /\ es = claimed
  /\ rst' = [rst EXCEPT ![p] = "started"]
  /\ rtodo' = [rtodo EXCEPT ![p] = es]
  /\ rpar' = [rpar EXCEPT ![p] = TRUE]
  /\ sent' = es
  /\ pc' = "wait"
  /\ UNCHANGED <<disk, clock, todoDirs, batch, final, claimed, results, clean, victim,
                 rres, hist>>

\* cmd.Run returns: the child has exited and its stdout is parsed.
Collect(p) ==
  /\ pc = "wait"
  /\ rst[p] = "exited" /\ rpar[p]
  /\ rst' = [rst EXCEPT ![p] = "off"]
  /\ rpar' = [rpar EXCEPT ![p] = FALSE]
  /\ pc' = "bounce"
  /\ UNCHANGED <<disk, clock, todoDirs, batch, final, claimed, sent, results, clean,
                 victim, rtodo, rres, hist>>


\* The results that call for a DSN: on a final attempt everything that was not
\* delivered, otherwise the permanent failures.
ToBounce ==
  {e \in sent : \/ results[e] = "perm_fail"
                \/ results[e] = "temp_fail" /\ e \in final}

\* generateAndDeliverDSN for one result.
Bounce(e) ==
  /\ pc = "bounce"
  /\ e \in ToBounce
  /\ dsn' = [dsn EXCEPT ![e] = @ + 1]
  /\ results' = [results EXCEPT ![e] = "none"]
  /\ UNCHANGED <<disk, clock, pc, todoDirs, batch, final, claimed, sent, clean, victim,
                 remote, accepted, faults, reported, early, crashes>>

\* Faulty variant of AfterAttempt: a bounced expired envelope is queued again.
UnclaimAll(e) == IF env[e] # "delivering" THEN env[e] ELSE "queued"

\* After the DSNs: an expired envelope is removed whatever happened to it, an
\* active one that mail-remote left on disk is unclaimed.
AfterAttempt(e) ==
  IF env[e] # "delivering" THEN env[e] ELSE IF e \in final THEN "removed" ELSE "queued"

Settle ==
  /\ pc = "bounce"
  /\ ToBounce = {}
  /\ env' = [e \in Envs |-> IF e \in sent THEN AfterAttempt(e) ELSE env[e]]
  /\ claimed' = claimed \ sent
  /\ sent' = {}
  /\ results' = NoResults
  /\ pc' = IF claimed = sent THEN "group" ELSE "dispatch"
  /\ UNCHANGED <<body, wr, dirs, clock, todoDirs, batch, final, clean, victim, remote,
                 hist>>

\* cleanOrphanBodies, called when the directory is done: list all bodies.
StartClean ==
  /\ pc = "group" /\ batch = {}
  /\ clean' = body
  /\ final' = {}
  /\ pc' = "clean"
  /\ UNCHANGED <<disk, clock, todoDirs, batch, claimed, sent, results, victim, remote,
                 hist>>

\* Faulty variant of bodyHasEnvelopes: expired envelopes do not keep a body.
LiveEnvelopesOnly(m) == \E e \in EnvsOf(m) : env[e] \in OnDisk /\ m \notin expired

\* The glob over all domain directories, claimed envelopes included.
bodyHasEnvelopes(m) == \E e \in EnvsOf(m) : env[e] \in OnDisk

\* cleanOrphanBodies looks at one body.  The unlink that may follow is a later step.
CheckBody(m) ==
  /\ pc = "clean"
  /\ m \in clean
  /\ clean' = clean \ {m}
  /\ IF bodyHasEnvelopes(m)
     THEN UNCHANGED <<pc, victim, early>>
     ELSE /\ pc' = "unlink"
          /\ victim' = m
          /\ early' = IF wr[m] = "writing" THEN early \cup {m} ELSE early
  /\ UNCHANGED <<disk, clock, todoDirs, batch, final, claimed, sent, results, remote,
                 accepted, dsn, faults, reported, crashes>>

RemoveOrphan ==
  /\ pc = "unlink"
  /\ body' = body \ {victim}
  /\ victim' = NoMsg
  /\ pc' = "clean"
  /\ UNCHANGED <<env, wr, dirs, clock, todoDirs, batch, final, claimed, sent, results,
                 clean, remote, hist>>

EndClean ==
  /\ pc = "clean" /\ clean = {}
  /\ pc' = "scan"
  /\ UNCHANGED <<disk, clock, todoDirs, batch, final, claimed, sent, results, clean,
                 victim, remote, hist>>

----------------------------------------------------------------------------
(* mail-remote: run and writeResultsAndCleanup. *)

\* What a process that ends leaves behind: a child waits for its scheduler to
\* collect it, an orphan is gone.
Ends(p) ==
  /\ rst' = [rst EXCEPT ![p] = IF rpar[p] THEN "exited" ELSE "off"]
  /\ rtodo' = [rtodo EXCEPT ![p] = {}]
  /\ rres' = [rres EXCEPT ![p] = NoResults]
  /\ UNCHANGED rpar

Hit(es) == [e \in Envs |-> IF e \in es THEN faults[e] + 1 ELSE faults[e]]

\* The body is stat'ed and every envelope parsed; one that cannot be read
\* ends the process before anything is sent and without any result.
Readable(p) == \A e \in rtodo[p] : MsgOf[e] \in body /\ env[e] = "delivering"

RemoteOpens(p) ==
  /\ rst[p] = "started"
  /\ IF Readable(p)
     THEN rst' = [rst EXCEPT ![p] = "sending"] /\ UNCHANGED <<rtodo, rres, rpar>>
     ELSE Ends(p)
  /\ UNCHANGED <<disk, clock, sched, hist>>

\* A bad config, an unknown strategy or no smarthost address: exUsage, no
\* result.
RemoteRefuses(p) ==
  /\ crashes < MaxFaults
  /\ rst[p] = "started"
  /\ Ends(p)
  /\ faults' = Hit(rtodo[p])
  /\ crashes' = crashes + 1
  /\ UNCHANGED <<disk, clock, sched, accepted, dsn, reported, early>>

\* One envelope's outcome: accepted, rejected (5xx) or deferred (4xx, no
\* connection, body unreadable).
RemoteSends(p, e, v) ==
  /\ rst[p] = "sending"
  /\ e \in rtodo[p] /\ rres[p][e] = "none"
  /\ v # "temp_fail" => MsgOf[e] \in body
  /\ rres' = [rres EXCEPT ![p] = [@ EXCEPT ![e] = v]]
  /\ accepted' = [accepted EXCEPT ![e] = IF v = "delivered" THEN @ + 1 ELSE @]
  /\ UNCHANGED <<disk, clock, sched, rst, rtodo, rpar, dsn, faults, reported, early,
                 crashes>>

\* The server accepts the message and its reply is lost: an AmbiguousError,
\* reported as a temporary failure.
RemoteLosesReply(p, e) ==
  /\ crashes < MaxFaults
  /\ rst[p] = "sending"
  /\ e \in rtodo[p] /\ rres[p][e] = "none"
  /\ MsgOf[e] \in body
  /\ rres' = [rres EXCEPT ![p] = [@ EXCEPT ![e] = "temp_fail"]]
  /\ accepted' = [accepted EXCEPT ![e] = @ + 1]
  /\ faults' = Hit({e})
  /\ crashes' = crashes + 1
  /\ UNCHANGED <<disk, clock, sched, rst, rtodo, rpar, dsn, reported, early>>

\* The envelopes mail-remote deletes, and those whose mtime it touches so that
\* they wait for the retry interval.
Settled(p) == {e \in rtodo[p] : rres[p][e] \in {"delivered", "perm_fail"}}
Touched(p) == {e \in rtodo[p] : rres[p][e] = "temp_fail" /\ env[e] = "delivering"}

\* Faulty variant of RemoteReports: the encoding error is ignored and the
\* files are deleted all the same.
ReportsIgnoringError(p) ==
  /\ rst[p] = "sending"
  /\ \A e \in rtodo[p] : rres[p][e] # "none"
  /\ due' = due \ Touched(p)
  /\ rst' = [rst EXCEPT ![p] = "deleting"]
  /\ rtodo' = [rtodo EXCEPT ![p] = Settled(p)]
  /\ rres' = [rres EXCEPT ![p] = NoResults]
  /\ results' = IF rpar[p] THEN rres[p] ELSE results
  /\ reported' = IF rpar[p] THEN reported \cup Settled(p) ELSE reported
  /\ UNCHANGED <<rpar, disk, expired, tokens, pc, todoDirs, batch, final, claimed, sent,
                 clean, victim, accepted, dsn, faults, early, crashes>>

\* The results are written to stdout.  With nobody reading the pipe the write
\* fails and the envelopes stay for recovery.
RemoteReports(p) ==
  /\ rst[p] = "sending"
  /\ \A e \in rtodo[p] : rres[p][e] # "none"
  /\ due' = due \ Touched(p)
  /\ IF rpar[p]
     THEN /\ rst' = [rst EXCEPT ![p] = "deleting"]
          /\ rtodo' = [rtodo EXCEPT ![p] = Settled(p)]
          /\ rres' = [rres EXCEPT ![p] = NoResults]
          /\ results' = rres[p]
          /\ reported' = reported \cup Settled(p)
          /\ UNCHANGED rpar
     ELSE Ends(p) /\ UNCHANGED <<results, reported>>
  /\ UNCHANGED <<disk, expired, tokens, pc, todoDirs, batch, final, claimed, sent,
                 clean, victim, accepted, dsn, faults, early, crashes>>

\* One file of toDelete; a file no longer under its claimed name is skipped.
RemoteDeletes(p, e) ==
  /\ rst[p] = "deleting"
  /\ e \in rtodo[p]
  /\ rtodo' = [rtodo EXCEPT ![p] = @ \ {e}]
  /\ env' = [env EXCEPT ![e] = IF @ = "delivering" THEN "removed" ELSE @]
  /\ UNCHANGED <<body, wr, dirs, clock, sched, rst, rres, rpar, hist>>

RemoteExits(p) ==
  /\ rst[p] = "deleting" /\ rtodo[p] = {}
  /\ Ends(p)
  /\ UNCHANGED <<disk, clock, sched, hist>>

----------------------------------------------------------------------------
(* Crashes. *)

\* mail-remote is killed.  What it has not reported or deleted stays undone.
RemoteCrash(p) ==
  /\ crashes < MaxFaults
  /\ rst[p] \in {"started", "sending", "deleting"}
  /\ Ends(p)
  /\ faults' = Hit(rtodo[p])
  /\ crashes' = crashes + 1
  /\ UNCHANGED <<disk, clock, sched, accepted, dsn, reported, early>>

\* queue-manager dies and is restarted: all it knew is lost, its limiter
\* starts full, and a running child becomes an orphan.
SchedulerCrash ==
  /\ crashes < MaxFaults
  /\ pc # "sleep"
  /\ pc' = "sleep" /\ todoDirs' = {} /\ batch' = {} /\ final' = {} /\ claimed' = {}
  /\ sent' = {} /\ results' = NoResults /\ clean' = {} /\ victim' = NoMsg
  /\ tokens' = FullBuckets
  /\ rpar' = [p \in Procs |-> FALSE]
  /\ rst' = [p \in Procs |-> IF rst[p] = "exited" THEN "off" ELSE rst[p]]
  /\ faults' = Hit(claimed)
  /\ crashes' = crashes + 1
  /\ UNCHANGED <<disk, expired, due, rtodo, rres, accepted, dsn, reported, early>>

----------------------------------------------------------------------------
Writer ==
  \/ \E m \in Msgs : WriteBody(m) \/ WriteReturns(m) \/ WriteFails(m)
  \/ \E e \in Envs : WriteEnvelope(e)

Time ==
  \/ \E e \in Envs : BecomeDue(e)
  \/ \E m \in Msgs : Expire(m)
  \/ \E d \in EnvDirs : Refill(d)

Scheduler ==
  \/ StartScan \/ EndScan
  \/ \E d \in EnvDirs : OpenDir(d)
  \/ \E m \in Msgs : DeferGroup(m) \/ DropBodyless(m) \/ ClaimGroup(m)
  \/ \E p \in Procs, es \in SUBSET Envs : Invoke(p, es)
  \/ \E p \in Procs : Collect(p)
  \/ \E e \in Envs : Bounce(e)
  \/ Settle \/ StartClean \/ RemoveOrphan \/ EndClean
  \/ \E m \in Msgs : CheckBody(m)

Remote(p) ==
  \/ RemoteOpens(p) \/ RemoteReports(p) \/ RemoteExits(p)
  \/ \E e \in Envs, v \in Verdicts : RemoteSends(p, e, v)
  \/ \E e \in Envs : RemoteDeletes(p, e)

Faults ==
  \/ SchedulerCrash
  \/ \E p \in Procs : RemoteCrash(p) \/ RemoteRefuses(p)
  \/ \E p \in Procs, e \in Envs : RemoteLosesReply(p, e)

Next == Writer \/ Time \/ Scheduler \/ (\E p \in Procs : Remote(p)) \/ Faults

Spec == Init /\ [][Next]_vars

\* The scheduler loops for ever, a mail-remote runs to its end, and time
\* passes.  Nothing is assumed of the writer, nor of the verdicts.
Fairness ==
  /\ WF_vars(Scheduler)
  /\ \A p \in Procs : WF_vars(Remote(p))
  /\ \A m \in Msgs : WF_vars(Expire(m))
  /\ \A d \in EnvDirs : WF_vars(Refill(d))

FairSpec == Spec /\ Fairness

----------------------------------------------------------------------------
(* Properties. *)

\* The type of every variable.
TypeOK ==
  /\ body \subseteq Msgs
  /\ env \in [Envs -> OnDisk \cup {"absent", "removed"}]
  /\ wr \in [Msgs -> {"idle", "writing", "ok", "err"}]
  /\ dirs \subseteq EnvDirs
  /\ expired \subseteq Msgs /\ due \subseteq Envs
  /\ tokens \in [EnvDirs -> 0..Burst]
  /\ pc \in {"sleep", "scan", "group", "dispatch", "wait", "bounce", "clean", "unlink"}
  /\ todoDirs \subseteq EnvDirs
  /\ batch \subseteq Envs /\ final \subseteq Envs
  /\ claimed \subseteq Envs /\ sent \subseteq Envs
  /\ results \in [Envs -> Verdicts \cup {"none"}]
  /\ clean \subseteq Msgs /\ victim \in Msgs \cup {NoMsg}
  /\ rst \in [Procs -> {"off", "started", "sending", "deleting", "exited"}]
  /\ rtodo \in [Procs -> SUBSET Envs]
  /\ rres \in [Procs -> [Envs -> Verdicts \cup {"none"}]]
  /\ rpar \in [Procs -> BOOLEAN]
  /\ accepted \in [Envs -> Nat] /\ dsn \in [Envs -> Nat] /\ faults \in [Envs -> Nat]
  /\ reported \subseteq Envs /\ early \subseteq Msgs
  /\ crashes \in 0..MaxFaults

\* mail-remote writes its results before it deletes anything ("the
\* write-then-delete ordering", writeResultsAndCleanup): an envelope that left
\* the queue before its TTL has had its final verdict, delivered or perm_fail,
\* handed to a scheduler that was alive, whatever crashed in between.
RemovedOnlyAfterReport ==
  \A e \in Envs :
    env[e] = "removed" /\ MsgOf[e] \notin expired => e \in reported


\* A recipient gets the message, or the sender the bounce, once; each extra
\* copy is paid for by a crash or a lost reply that hit this very envelope
\* (recoverStaleDeliveries: "a possible re-delivery after crash").
OutcomesBoundedByFaults ==
  \A e \in Envs : accepted[e] + dsn[e] <= 1 + faults[e]

\* cleanOrphanBodies never takes the body from under an envelope that is still
\* in the queue, claimed or not, unless the check ran before queue.Write had
\* written the envelope.
BodyOutlivesEnvelopes ==
  \A e \in Envs :
    env[e] \in OnDisk /\ MsgOf[e] \notin body => MsgOf[e] \in early


\* "All writes are atomic (tmp -> rename) so queue-manager never sees partial
\* state" (queue.go): an envelope in the queue has its body.
QueueNeverSeesPartialState ==
  \A e \in Envs : env[e] \in OnDisk => MsgOf[e] \in body
============================================================================
