----------------------- MODULE OutboundQueueProofs -----------------------
(***************************************************************************)
(* Theorems about OutboundQueue for every set of messages, envelopes and   *)
(* processes and any number of faults.                                     *)
(***************************************************************************)
EXTENDS OutboundQueue, FiniteSetTheorems, TLAPS

\* A group is a finite set of envelopes, so its size is a natural number.
LEMMA GroupSize ==
  ASSUME TypeOK, NEW m \in Msgs
  PROVE  /\ Group(m) \subseteq Envs
         /\ Cardinality(Group(m)) \in Nat
<1>1. Group(m) \subseteq Envs
  BY DEF Group, EnvsOf
<1>2. IsFiniteSet(Group(m))
  BY <1>1, QueueConstants, FS_Subset
<1> QED
  BY <1>1, <1>2, FS_CardinalityType

\* The directory of a non-empty group is one of the domain directories.
LEMMA GroupDirType ==
  ASSUME TypeOK, NEW m \in Msgs, Group(m) # {}
  PROVE  GroupDir(m) \in EnvDirs
<1> PICK e \in Group(m) : TRUE
  OBVIOUS
<1> DEFINE c == CHOOSE x \in Group(m) : TRUE
<1>1. c \in Group(m)
  OBVIOUS
<1>2. c \in Envs
  BY <1>1, GroupSize
<1> QED
  BY <1>2 DEF GroupDir, EnvDirs

\* Claiming tokens for an allowed group keeps every bucket within its burst.
LEMMA ConsumeType ==
  ASSUME TypeOK, NEW m \in Msgs, Group(m) # {}, Allowed(m), Consume(m)
  PROVE  tokens' \in [EnvDirs -> 0..Burst]
<1> DEFINE d == GroupDir(m)
           n == Cardinality(Group(m))
<1>1. d \in EnvDirs /\ n \in Nat
  BY GroupDirType, GroupSize
<1>2. tokens \in [EnvDirs -> 0..Burst] /\ Burst \in Nat
  BY QueueConstants DEF TypeOK
<1>3. CASE MessagesPerHour > 0
  <2>1. n <= tokens[d] /\ tokens' = [tokens EXCEPT ![d] = tokens[d] - n]
    BY <1>3 DEF Allowed, Consume
  <2> HIDE DEF d, n
  <2>2. tokens[d] - n \in 0..Burst
    BY <1>1, <1>2, <2>1
  <2> QED
    BY <1>1, <1>2, <2>1, <2>2
<1>4. CASE ~(MessagesPerHour > 0)
  BY <1>2, <1>4 DEF Consume
<1> QED
  BY <1>3, <1>4

\* The queue starts empty and well typed.
LEMMA InitTypeOK == Init => TypeOK
  BY QueueConstants DEF Init, TypeOK, NoResults, FullBuckets, Verdicts

\* Counting a fault keeps the counters natural numbers.
LEMMA HitType ==
  ASSUME TypeOK, NEW es
  PROVE  Hit(es) \in [Envs -> Nat]
  BY DEF Hit, TypeOK

\* A mail-remote that ends leaves its variables well typed.
LEMMA EndsType ==
  ASSUME TypeOK, NEW p \in Procs, Ends(p)
  PROVE  /\ rst' \in [Procs -> {"off", "started", "sending", "deleting", "exited"}]
         /\ rtodo' \in [Procs -> SUBSET Envs]
         /\ rres' \in [Procs -> [Envs -> Verdicts \cup {"none"}]]
         /\ rpar' \in [Procs -> BOOLEAN]
<1>1. NoResults \in [Envs -> Verdicts \cup {"none"}]
  BY DEF NoResults
<1> QED
  BY <1>1 DEF TypeOK, Ends

\* Every step keeps every variable in its type.
LEMMA NextTypeOK == TypeOK /\ [Next]_vars => TypeOK'
<1> SUFFICES ASSUME TypeOK, [Next]_vars PROVE TypeOK'
  OBVIOUS
<1> USE DEF disk, clock, sched, remote, hist
<1>1. ASSUME NEW m \in Msgs, WriteBody(m) PROVE TypeOK'
  BY <1>1 DEF TypeOK, WriteBody
<1>2. ASSUME NEW e \in Envs, WriteEnvelope(e) PROVE TypeOK'
  BY <1>2 DEF TypeOK, WriteEnvelope, EnvDirs, OnDisk
<1>3. ASSUME NEW m \in Msgs, WriteReturns(m) PROVE TypeOK'
  BY <1>3 DEF TypeOK, WriteReturns
<1>4. ASSUME NEW m \in Msgs, WriteFails(m) PROVE TypeOK'
  BY <1>4 DEF TypeOK, WriteFails
<1>5. ASSUME NEW e \in Envs, BecomeDue(e) PROVE TypeOK'
  BY <1>5 DEF TypeOK, BecomeDue
<1>6. ASSUME NEW m \in Msgs, Expire(m) PROVE TypeOK'
  BY <1>6 DEF TypeOK, Expire
<1>7. ASSUME NEW d \in EnvDirs, Refill(d) PROVE TypeOK'
  BY <1>7, QueueConstants DEF TypeOK, Refill
<1>8. CASE StartScan
  BY <1>8 DEF TypeOK, StartScan, Recover, OnDisk
<1>9. ASSUME NEW d \in EnvDirs, OpenDir(d) PROVE TypeOK'
  BY <1>9 DEF TypeOK, OpenDir, ReadyIn
<1>10. CASE EndScan
  BY <1>10 DEF TypeOK, EndScan
<1>11. ASSUME NEW m \in Msgs, DeferGroup(m) PROVE TypeOK'
  BY <1>11 DEF TypeOK, DeferGroup
<1>12. ASSUME NEW m \in Msgs, DropBodyless(m) PROVE TypeOK'
  BY <1>12, ConsumeType DEF TypeOK, DropBodyless
<1>13. ASSUME NEW m \in Msgs, ClaimGroup(m) PROVE TypeOK'
  BY <1>13, ConsumeType, GroupSize DEF TypeOK, ClaimGroup, OnDisk
<1>14. ASSUME NEW p \in Procs, NEW es \in SUBSET Envs, Invoke(p, es) PROVE TypeOK'
  BY <1>14 DEF TypeOK, Invoke
<1>15. ASSUME NEW p \in Procs, Collect(p) PROVE TypeOK'
  BY <1>15 DEF TypeOK, Collect
<1>16. ASSUME NEW e \in Envs, Bounce(e) PROVE TypeOK'
  BY <1>16 DEF TypeOK, Bounce
<1>17. CASE Settle
  BY <1>17 DEF TypeOK, Settle, AfterAttempt, OnDisk, NoResults
<1>18. CASE StartClean
  BY <1>18 DEF TypeOK, StartClean
<1>19. ASSUME NEW m \in Msgs, CheckBody(m) PROVE TypeOK'
  BY <1>19 DEF TypeOK, CheckBody
<1>20. CASE RemoveOrphan
  BY <1>20 DEF TypeOK, RemoveOrphan
<1>21. CASE EndClean
  BY <1>21 DEF TypeOK, EndClean
<1>22. ASSUME NEW p \in Procs, RemoteOpens(p) PROVE TypeOK'
  BY <1>22, EndsType DEF TypeOK, RemoteOpens
<1>23. ASSUME NEW p \in Procs, NEW e \in Envs, NEW v \in Verdicts, RemoteSends(p, e, v) PROVE TypeOK'
  BY <1>23 DEF TypeOK, RemoteSends
<1>24. ASSUME NEW p \in Procs, RemoteReports(p) PROVE TypeOK'
  <2>1. NoResults \in [Envs -> Verdicts \cup {"none"}] /\ Settled(p) \in SUBSET Envs
    BY DEF NoResults, TypeOK, Settled
  <2>2. CASE rpar[p]
    <3>1. /\ rst' = [rst EXCEPT ![p] = "deleting"]
          /\ rtodo' = [rtodo EXCEPT ![p] = Settled(p)]
          /\ rres' = [rres EXCEPT ![p] = NoResults]
          /\ results' = rres[p] /\ reported' = reported \cup Settled(p)
          /\ due' = due \ Touched(p)
          /\ UNCHANGED <<rpar, disk, expired, tokens, pc, todoDirs, batch, final, claimed,
                         sent, clean, victim, accepted, dsn, faults, early, crashes>>
      BY <1>24, <2>2 DEF RemoteReports
    <3>2. rres[p] \in [Envs -> Verdicts \cup {"none"}]
      BY DEF TypeOK
    <3> QED
      BY <2>1, <3>1, <3>2 DEF TypeOK
  <2>3. CASE ~rpar[p]
    BY <1>24, <2>3, EndsType DEF TypeOK, RemoteReports
  <2> QED
    BY <2>2, <2>3
<1>25. ASSUME NEW p \in Procs, NEW e \in Envs, RemoteDeletes(p, e) PROVE TypeOK'
  BY <1>25 DEF TypeOK, RemoteDeletes
<1>26. ASSUME NEW p \in Procs, RemoteExits(p) PROVE TypeOK'
  BY <1>26, EndsType DEF TypeOK, RemoteExits
<1>27. ASSUME NEW p \in Procs, RemoteRefuses(p) PROVE TypeOK'
  <2>1. Ends(p) /\ UNCHANGED <<disk, clock, sched, accepted, dsn, reported, early>>
    BY <1>27 DEF RemoteRefuses
  <2>2. faults' \in [Envs -> Nat]
    BY <1>27, HitType DEF TypeOK, RemoteRefuses
  <2>3. crashes' \in 0..MaxFaults
    BY <1>27, QueueConstants DEF TypeOK, RemoteRefuses
  <2> QED
    BY <2>1, <2>2, <2>3, EndsType DEF TypeOK
<1>28. ASSUME NEW p \in Procs, NEW e \in Envs, RemoteLosesReply(p, e) PROVE TypeOK'
  <2>1. rres' = [rres EXCEPT ![p] = [@ EXCEPT ![e] = "temp_fail"]]
    BY <1>28 DEF RemoteLosesReply
  <2>2. rres' \in [Procs -> [Envs -> Verdicts \cup {"none"}]]
    BY <2>1 DEF TypeOK, Verdicts
  <2>3. accepted' \in [Envs -> Nat] /\ faults' \in [Envs -> Nat]
    BY <1>28, HitType DEF TypeOK, RemoteLosesReply
  <2>4. crashes' \in 0..MaxFaults
    BY <1>28, QueueConstants DEF TypeOK, RemoteLosesReply
  <2>5. UNCHANGED <<disk, clock, sched, rst, rtodo, rpar, dsn, reported, early>>
    BY <1>28 DEF RemoteLosesReply
  <2> QED
    BY <2>2, <2>3, <2>4, <2>5 DEF TypeOK
<1>29. ASSUME NEW p \in Procs, RemoteCrash(p) PROVE TypeOK'
  <2>1. Ends(p) /\ UNCHANGED <<disk, clock, sched, accepted, dsn, reported, early>>
    BY <1>29 DEF RemoteCrash
  <2>2. faults' \in [Envs -> Nat]
    BY <1>29, HitType DEF TypeOK, RemoteCrash
  <2>3. crashes' \in 0..MaxFaults
    BY <1>29, QueueConstants DEF TypeOK, RemoteCrash
  <2> QED
    BY <2>1, <2>2, <2>3, EndsType DEF TypeOK
<1>30. CASE SchedulerCrash
  BY <1>30, HitType, QueueConstants DEF TypeOK, SchedulerCrash, NoResults, FullBuckets
<1>31. CASE UNCHANGED vars
  BY <1>31 DEF TypeOK, vars
<1> QED
  BY <1>1, <1>2, <1>3, <1>4, <1>5, <1>6, <1>7, <1>8, <1>9, <1>10, <1>11, <1>12, <1>13, <1>14, <1>15, <1>16, <1>17, <1>18, <1>19, <1>20, <1>21, <1>22, <1>23, <1>24, <1>25, <1>26, <1>27, <1>28, <1>29, <1>30, <1>31
     DEF Next, Writer, Time, Scheduler, Remote, Faults

\* Every reachable state is well typed; in particular a limiter's bucket stays
\* between zero and its burst whatever is claimed, refilled or restarted.
THEOREM TypeCorrect == Spec => []TypeOK
  BY InitTypeOK, NextTypeOK, PTL DEF Spec

----------------------------------------------------------------------------
(* What leaves the queue was reported. *)

\* RemovedOnlyAfterReport is kept by mail-remote because what it has left to
\* delete was reported, and by the scheduler because it removes only entries
\* that were expired when it read the directory.
ReportInv ==
  /\ TypeOK
  /\ RemovedOnlyAfterReport
  /\ \A p \in Procs : rst[p] = "deleting" => rtodo[p] \subseteq reported
  /\ \A e \in final : MsgOf[e] \in expired

\* An empty queue has nothing to report.
LEMMA InitReportInv == Init => ReportInv
  BY InitTypeOK DEF Init, ReportInv, RemovedOnlyAfterReport

\* Every step keeps ReportInv; RemoteReports and RemoteDeletes are the ones that
\* matter, every other action leaves the files or what was reported alone.
LEMMA NextReportInv == ReportInv /\ [Next]_vars => ReportInv'
<1> SUFFICES ASSUME ReportInv, [Next]_vars PROVE ReportInv'
  OBVIOUS
<1>0. TypeOK'
  BY NextTypeOK DEF ReportInv
<1>t. /\ env \in [Envs -> OnDisk \cup {"absent", "removed"}]
      /\ rst \in [Procs -> {"off", "started", "sending", "deleting", "exited"}]
      /\ rtodo \in [Procs -> SUBSET Envs] /\ final \subseteq Envs
  BY DEF ReportInv, TypeOK
<1> USE <1>0, <1>t DEF disk, clock, sched, remote, hist
<1>1. ASSUME NEW m \in Msgs, WriteBody(m) PROVE ReportInv'
  BY <1>1 DEF ReportInv, RemovedOnlyAfterReport, WriteBody
<1>2. ASSUME NEW e \in Envs, WriteEnvelope(e) PROVE ReportInv'
  BY <1>2 DEF ReportInv, RemovedOnlyAfterReport, WriteEnvelope
<1>3. ASSUME NEW m \in Msgs, WriteReturns(m) PROVE ReportInv'
  BY <1>3 DEF ReportInv, RemovedOnlyAfterReport, WriteReturns
<1>4. ASSUME NEW m \in Msgs, WriteFails(m) PROVE ReportInv'
  BY <1>4 DEF ReportInv, RemovedOnlyAfterReport, WriteFails
<1>5. ASSUME NEW e \in Envs, BecomeDue(e) PROVE ReportInv'
  BY <1>5 DEF ReportInv, RemovedOnlyAfterReport, BecomeDue
<1>6. ASSUME NEW m \in Msgs, Expire(m) PROVE ReportInv'
  BY <1>6 DEF ReportInv, RemovedOnlyAfterReport, Expire
<1>7. ASSUME NEW d \in EnvDirs, Refill(d) PROVE ReportInv'
  BY <1>7 DEF ReportInv, RemovedOnlyAfterReport, Refill
<1>8. CASE StartScan
  BY <1>8 DEF ReportInv, RemovedOnlyAfterReport, StartScan, Recover
<1>9. ASSUME NEW d \in EnvDirs, OpenDir(d) PROVE ReportInv'
  BY <1>9 DEF ReportInv, RemovedOnlyAfterReport, OpenDir, ReadyIn
<1>10. CASE EndScan
  BY <1>10 DEF ReportInv, RemovedOnlyAfterReport, EndScan
<1>11. ASSUME NEW m \in Msgs, DeferGroup(m) PROVE ReportInv'
  BY <1>11 DEF ReportInv, RemovedOnlyAfterReport, DeferGroup
<1>12. ASSUME NEW m \in Msgs, DropBodyless(m) PROVE ReportInv'
  BY <1>12 DEF ReportInv, RemovedOnlyAfterReport, DropBodyless
<1>13. ASSUME NEW m \in Msgs, ClaimGroup(m) PROVE ReportInv'
  BY <1>13 DEF ReportInv, RemovedOnlyAfterReport, ClaimGroup
<1>14. ASSUME NEW p \in Procs, NEW es \in SUBSET Envs, Invoke(p, es) PROVE ReportInv'
  BY <1>14 DEF ReportInv, RemovedOnlyAfterReport, Invoke
<1>15. ASSUME NEW p \in Procs, Collect(p) PROVE ReportInv'
  BY <1>15 DEF ReportInv, RemovedOnlyAfterReport, Collect
<1>16. ASSUME NEW e \in Envs, Bounce(e) PROVE ReportInv'
  BY <1>16 DEF ReportInv, RemovedOnlyAfterReport, Bounce
<1>17. CASE Settle
  BY <1>17 DEF ReportInv, RemovedOnlyAfterReport, Settle, AfterAttempt
<1>18. CASE StartClean
  BY <1>18 DEF ReportInv, RemovedOnlyAfterReport, StartClean
<1>19. ASSUME NEW m \in Msgs, CheckBody(m) PROVE ReportInv'
  BY <1>19 DEF ReportInv, RemovedOnlyAfterReport, CheckBody
<1>20. CASE RemoveOrphan
  BY <1>20 DEF ReportInv, RemovedOnlyAfterReport, RemoveOrphan
<1>21. CASE EndClean
  BY <1>21 DEF ReportInv, RemovedOnlyAfterReport, EndClean
<1>22. ASSUME NEW p \in Procs, RemoteOpens(p) PROVE ReportInv'
  <2>1. CASE Readable(p)
    <3>1. /\ rst' = [rst EXCEPT ![p] = "sending"]
          /\ UNCHANGED <<rtodo, reported, env, expired, final>>
      BY <1>22, <2>1 DEF RemoteOpens
    <3> QED
      BY <3>1 DEF ReportInv, RemovedOnlyAfterReport
  <2>2. CASE ~Readable(p)
    <3>1. Ends(p) /\ UNCHANGED <<reported, env, expired, final>>
      BY <1>22, <2>2 DEF RemoteOpens
    <3> QED
      BY <3>1 DEF ReportInv, RemovedOnlyAfterReport, Ends
  <2> QED
    BY <2>1, <2>2
<1>23. ASSUME NEW p \in Procs, NEW e \in Envs, NEW v \in Verdicts, RemoteSends(p, e, v) PROVE ReportInv'
  BY <1>23 DEF ReportInv, RemovedOnlyAfterReport, RemoteSends
<1>24. ASSUME NEW p \in Procs, RemoteReports(p) PROVE ReportInv'
  <2>1. CASE rpar[p]
    <3>1. /\ rst' = [rst EXCEPT ![p] = "deleting"]
          /\ rtodo' = [rtodo EXCEPT ![p] = Settled(p)]
          /\ reported' = reported \cup Settled(p)
          /\ UNCHANGED <<env, expired, final>>
      BY <1>24, <2>1 DEF RemoteReports
    <3> QED
      BY <3>1 DEF ReportInv, RemovedOnlyAfterReport
  <2>2. CASE ~rpar[p]
    BY <1>24, <2>2 DEF ReportInv, RemovedOnlyAfterReport, RemoteReports, Ends
  <2> QED
    BY <2>1, <2>2
<1>25. ASSUME NEW p \in Procs, NEW e \in Envs, RemoteDeletes(p, e) PROVE ReportInv'
  BY <1>25 DEF ReportInv, RemovedOnlyAfterReport, RemoteDeletes
<1>26. ASSUME NEW p \in Procs, RemoteExits(p) PROVE ReportInv'
  BY <1>26 DEF ReportInv, RemovedOnlyAfterReport, RemoteExits, Ends
<1>27. ASSUME NEW p \in Procs, RemoteRefuses(p) PROVE ReportInv'
  BY <1>27 DEF ReportInv, RemovedOnlyAfterReport, RemoteRefuses, Ends
<1>28. ASSUME NEW p \in Procs, NEW e \in Envs, RemoteLosesReply(p, e) PROVE ReportInv'
  BY <1>28 DEF ReportInv, RemovedOnlyAfterReport, RemoteLosesReply
<1>29. ASSUME NEW p \in Procs, RemoteCrash(p) PROVE ReportInv'
  BY <1>29 DEF ReportInv, RemovedOnlyAfterReport, RemoteCrash, Ends
<1>30. CASE SchedulerCrash
  BY <1>30 DEF ReportInv, RemovedOnlyAfterReport, SchedulerCrash
<1>31. CASE UNCHANGED vars
  BY <1>31 DEF ReportInv, RemovedOnlyAfterReport, vars
<1> QED
  BY <1>1, <1>2, <1>3, <1>4, <1>5, <1>6, <1>7, <1>8, <1>9, <1>10, <1>11, <1>12, <1>13, <1>14, <1>15, <1>16, <1>17, <1>18, <1>19, <1>20, <1>21, <1>22, <1>23, <1>24, <1>25, <1>26, <1>27, <1>28, <1>29, <1>30, <1>31
     DEF Next, Writer, Time, Scheduler, Remote, Faults

\* An envelope leaves the queue before its TTL only after its verdict was
\* handed to a live scheduler, for any number of envelopes, processes, crashes
\* and restarts.
THEOREM ReportedBeforeRemoved == Spec => []RemovedOnlyAfterReport
<1>1. ReportInv => RemovedOnlyAfterReport
  BY DEF ReportInv
<1> QED
  BY <1>1, InitReportInv, NextReportInv, PTL DEF Spec

----------------------------------------------------------------------------
(* A body outlives the envelopes that need it. *)

\* A body with an envelope is never the victim of cleanOrphanBodies unless the
\* check ran inside queue.Write: once Write has ended no envelope of a message
\* can appear, and what is claimed was on disk before (batch).
BodyInv ==
  /\ TypeOK
  /\ BodyOutlivesEnvelopes
  /\ \A m \in body \cup clean : wr[m] # "idle"
  /\ \A m \in Msgs : wr[m] = "writing" /\ m \notin body => m \in early
  /\ pc = "unlink" /\ victim \notin early =>
       /\ wr[victim] \in {"ok", "err"}
       /\ \A e \in EnvsOf(victim) : env[e] \notin OnDisk
  /\ \A e \in batch : env[e] = "queued"

\* An empty queue has no body to lose.
LEMMA InitBodyInv == Init => BodyInv
  BY InitTypeOK DEF Init, BodyInv, BodyOutlivesEnvelopes, OnDisk

\* Every step keeps BodyInv; WriteEnvelope adds the envelope that needs a body,
\* CheckBody and RemoveOrphan are the two halves of its removal.
LEMMA NextBodyInv == BodyInv /\ [Next]_vars => BodyInv'
<1> SUFFICES ASSUME BodyInv, [Next]_vars PROVE BodyInv'
  OBVIOUS
<1>0. TypeOK'
  BY NextTypeOK DEF BodyInv
<1>t. /\ body \subseteq Msgs /\ clean \subseteq Msgs /\ batch \subseteq Envs
      /\ env \in [Envs -> OnDisk \cup {"absent", "removed"}]
      /\ wr \in [Msgs -> {"idle", "writing", "ok", "err"}]
  BY DEF BodyInv, TypeOK
<1> USE <1>0, <1>t DEF disk, clock, sched, remote, hist
<1>1. ASSUME NEW m \in Msgs, WriteBody(m) PROVE BodyInv'
  BY <1>1, QueueConstants DEF BodyInv, BodyOutlivesEnvelopes, OnDisk, EnvsOf, WriteBody
<1>2. ASSUME NEW e \in Envs, WriteEnvelope(e) PROVE BodyInv'
  <2>1. /\ wr[MsgOf[e]] = "writing" /\ MsgOf[e] \in Msgs
        /\ env' = [env EXCEPT ![e] = "queued"]
        /\ UNCHANGED <<body, wr, clean, pc, victim, early, batch>>
    BY <1>2, QueueConstants DEF WriteEnvelope
  <2>2. BodyOutlivesEnvelopes'
    BY <2>1 DEF BodyInv, BodyOutlivesEnvelopes, OnDisk
  <2>3. (pc = "unlink" /\ victim \notin early =>
          /\ wr[victim] \in {"ok", "err"}
          /\ \A f \in EnvsOf(victim) : env[f] \notin OnDisk)'
    BY <2>1 DEF BodyInv, OnDisk, EnvsOf
  <2>4. (\A f \in batch : env[f] = "queued")'
    BY <2>1 DEF BodyInv
  <2> QED
    BY <2>1, <2>2, <2>3, <2>4 DEF BodyInv
<1>3. ASSUME NEW m \in Msgs, WriteReturns(m) PROVE BodyInv'
  BY <1>3 DEF BodyInv, BodyOutlivesEnvelopes, OnDisk, EnvsOf, WriteReturns
<1>4. ASSUME NEW m \in Msgs, WriteFails(m) PROVE BodyInv'
  BY <1>4 DEF BodyInv, BodyOutlivesEnvelopes, OnDisk, EnvsOf, WriteFails
<1>5. ASSUME NEW e \in Envs, BecomeDue(e) PROVE BodyInv'
  BY <1>5 DEF BodyInv, BodyOutlivesEnvelopes, OnDisk, EnvsOf, BecomeDue
<1>6. ASSUME NEW m \in Msgs, Expire(m) PROVE BodyInv'
  BY <1>6 DEF BodyInv, BodyOutlivesEnvelopes, OnDisk, EnvsOf, Expire
<1>7. ASSUME NEW d \in EnvDirs, Refill(d) PROVE BodyInv'
  BY <1>7 DEF BodyInv, BodyOutlivesEnvelopes, OnDisk, EnvsOf, Refill
<1>8. CASE StartScan
  BY <1>8 DEF BodyInv, BodyOutlivesEnvelopes, OnDisk, EnvsOf, StartScan, Recover
<1>9. ASSUME NEW d \in EnvDirs, OpenDir(d) PROVE BodyInv'
  BY <1>9 DEF BodyInv, BodyOutlivesEnvelopes, OnDisk, EnvsOf, OpenDir, ReadyIn
<1>10. CASE EndScan
  BY <1>10 DEF BodyInv, BodyOutlivesEnvelopes, OnDisk, EnvsOf, EndScan
<1>11. ASSUME NEW m \in Msgs, DeferGroup(m) PROVE BodyInv'
  BY <1>11 DEF BodyInv, BodyOutlivesEnvelopes, OnDisk, EnvsOf, DeferGroup
<1>12. ASSUME NEW m \in Msgs, DropBodyless(m) PROVE BodyInv'
  BY <1>12, QueueConstants DEF BodyInv, BodyOutlivesEnvelopes, OnDisk, EnvsOf, DropBodyless, Group
<1>13. ASSUME NEW m \in Msgs, ClaimGroup(m) PROVE BodyInv'
  BY <1>13, QueueConstants DEF BodyInv, BodyOutlivesEnvelopes, OnDisk, EnvsOf, ClaimGroup, Group
<1>14. ASSUME NEW p \in Procs, NEW es \in SUBSET Envs, Invoke(p, es) PROVE BodyInv'
  BY <1>14 DEF BodyInv, BodyOutlivesEnvelopes, OnDisk, EnvsOf, Invoke
<1>15. ASSUME NEW p \in Procs, Collect(p) PROVE BodyInv'
  BY <1>15 DEF BodyInv, BodyOutlivesEnvelopes, OnDisk, EnvsOf, Collect
<1>16. ASSUME NEW e \in Envs, Bounce(e) PROVE BodyInv'
  BY <1>16 DEF BodyInv, BodyOutlivesEnvelopes, OnDisk, EnvsOf, Bounce
<1>17. CASE Settle
  BY <1>17, QueueConstants DEF BodyInv, BodyOutlivesEnvelopes, OnDisk, EnvsOf, Settle, AfterAttempt
<1>18. CASE StartClean
  BY <1>18 DEF BodyInv, BodyOutlivesEnvelopes, OnDisk, EnvsOf, StartClean
<1>19. ASSUME NEW m \in Msgs, CheckBody(m) PROVE BodyInv'
  BY <1>19, QueueConstants DEF BodyInv, BodyOutlivesEnvelopes, OnDisk, EnvsOf, CheckBody, bodyHasEnvelopes
<1>20. CASE RemoveOrphan
  BY <1>20, QueueConstants DEF BodyInv, BodyOutlivesEnvelopes, OnDisk, EnvsOf, RemoveOrphan
<1>21. CASE EndClean
  BY <1>21 DEF BodyInv, BodyOutlivesEnvelopes, OnDisk, EnvsOf, EndClean
<1>22. ASSUME NEW p \in Procs, RemoteOpens(p) PROVE BodyInv'
  BY <1>22 DEF BodyInv, BodyOutlivesEnvelopes, OnDisk, EnvsOf, RemoteOpens, Ends
<1>23. ASSUME NEW p \in Procs, NEW e \in Envs, NEW v \in Verdicts, RemoteSends(p, e, v) PROVE BodyInv'
  BY <1>23 DEF BodyInv, BodyOutlivesEnvelopes, OnDisk, EnvsOf, RemoteSends
<1>24. ASSUME NEW p \in Procs, RemoteReports(p) PROVE BodyInv'
  BY <1>24 DEF BodyInv, BodyOutlivesEnvelopes, OnDisk, EnvsOf, RemoteReports, Ends
<1>25. ASSUME NEW p \in Procs, NEW e \in Envs, RemoteDeletes(p, e) PROVE BodyInv'
  BY <1>25 DEF BodyInv, BodyOutlivesEnvelopes, OnDisk, EnvsOf, RemoteDeletes
<1>26. ASSUME NEW p \in Procs, RemoteExits(p) PROVE BodyInv'
  BY <1>26 DEF BodyInv, BodyOutlivesEnvelopes, OnDisk, EnvsOf, RemoteExits, Ends
<1>27. ASSUME NEW p \in Procs, RemoteRefuses(p) PROVE BodyInv'
  BY <1>27 DEF BodyInv, BodyOutlivesEnvelopes, OnDisk, EnvsOf, RemoteRefuses, Ends
<1>28. ASSUME NEW p \in Procs, NEW e \in Envs, RemoteLosesReply(p, e) PROVE BodyInv'
  BY <1>28 DEF BodyInv, BodyOutlivesEnvelopes, OnDisk, EnvsOf, RemoteLosesReply
<1>29. ASSUME NEW p \in Procs, RemoteCrash(p) PROVE BodyInv'
  BY <1>29 DEF BodyInv, BodyOutlivesEnvelopes, OnDisk, EnvsOf, RemoteCrash, Ends
<1>30. CASE SchedulerCrash
  BY <1>30 DEF BodyInv, BodyOutlivesEnvelopes, OnDisk, EnvsOf, SchedulerCrash
<1>31. CASE UNCHANGED vars
  BY <1>31 DEF BodyInv, BodyOutlivesEnvelopes, OnDisk, EnvsOf, vars
<1> QED
  BY <1>1, <1>2, <1>3, <1>4, <1>5, <1>6, <1>7, <1>8, <1>9, <1>10, <1>11, <1>12, <1>13, <1>14, <1>15, <1>16, <1>17, <1>18, <1>19, <1>20, <1>21, <1>22, <1>23, <1>24, <1>25, <1>26, <1>27, <1>28, <1>29, <1>30, <1>31
     DEF Next, Writer, Time, Scheduler, Remote, Faults

\* cleanOrphanBodies never removes a body that a queued or claimed envelope
\* needs, unless it looked for envelopes while queue.Write was still running.
THEOREM BodiesOutliveEnvelopes == Spec => []BodyOutlivesEnvelopes
<1>1. BodyInv => BodyOutlivesEnvelopes
  BY DEF BodyInv
<1> QED
  BY <1>1, InitBodyInv, NextBodyInv, PTL DEF Spec
==========================================================================
