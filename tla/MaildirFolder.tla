---------------------------- MODULE MaildirFolder ----------------------------
(***************************************************************************)
(* One folder of a maildir: the directories new/ and cur/, the persistent  *)
(* UIDs in .uidlist, and the processes that work on them.                  *)
(*                                                                         *)
(* A session is a mail-session process; its RPCs run one at a time under   *)
(* Server.mu.  A viewer is webadmin, whose mailbox statistics open a store *)
(* of their own and list the folder.  Deliveries come from short-lived     *)
(* mail-session processes and only ever touch tmp/ and new/.  Nothing but  *)
(* the flock on .uidlist.lock orders the processes.                        *)
(*                                                                         *)
(* A message is the number of its maildir key: keys begin with the time,   *)
(* so their order is the order in which they were generated.  Flags are    *)
(* reduced to \Deleted.  bootstrapUIDList is reconcile of an empty list,   *)
(* which is how .uidlist begins here.                                      *)
(***************************************************************************)
EXTENDS Integers, FiniteSets

CONSTANTS
  Sessions,      \* mail-session processes of the mailbox
  Viewers,       \* stores that only list (webadmin)
  None,          \* no lock holder, no cached uidlist
  MaxKeys,       \* bound on messages generated
  MaxUid,        \* bound on UIDs assigned
  AppendDeleted  \* whether a client may APPEND with the flag \Deleted

ASSUME FolderConstants ==
  /\ Sessions \cap Viewers = {}
  /\ None \notin Sessions \cup Viewers
  /\ MaxKeys \in Nat /\ MaxUid \in Nat
  /\ AppendDeleted \in BOOLEAN

VARIABLES
  gen,        \* the next key to be generated
  tmp, new, cur,
  flagged,    \* messages whose file name in cur/ carries T
  list,       \* .uidlist on disk
  lock,       \* holder of the flock
  pc,         \* each store's place in the RPC it serves
  keys,       \* curDirKeys as listDir read it, before the lock
  before,     \* new/ as AppendToFolder saw it
  own,        \* the message an append or a copy wrote
  pick,       \* the message an append took for its own
  arg,        \* the request of a SetFlags: message meant, UID, flag value
  mark,       \* MaildirStore.deleted of the folder
  todo,       \* messages an expunge has still to remove
  cache,      \* MaildirStore.uidlistCache of the folder
  shown,      \* history: <<message, UID>> a session listed to a client
  assigned,   \* history: <<message, UID>> ever written to .uidlist
  asked,      \* history: messages a client successfully flagged \Deleted
  copied,     \* history: messages a move copied to its destination
  removed,    \* history: messages removed from cur/
  appended,   \* history: <<own message, UID answered>> of appends
  copyAns     \* history: <<own message, UID answered>> of copies

dirs == <<gen, tmp, new, cur, flagged>>
uidl == <<list, lock, assigned>>
locals == <<keys, before, own, pick, arg, mark, todo>>
hist == <<shown, asked, copied, removed, appended, copyAns>>
vars == <<dirs, uidl, pc, locals, cache, hist>>

Keys == 1 .. MaxKeys
Stores == Sessions \cup Viewers

Init ==
  /\ gen = 1 /\ tmp = {} /\ new = {} /\ cur = {} /\ flagged = {}
  /\ list = [next |-> 1, uid |-> [k \in {} |-> 0]] /\ lock = None
  /\ pc = [s \in Stores |-> "idle"]
  /\ keys = [s \in Stores |-> {}] /\ before = [s \in Stores |-> {}]
  /\ own = [s \in Stores |-> 0] /\ pick = [s \in Stores |-> 0]
  /\ arg = [s \in Stores |-> <<0, 0, FALSE>>]
  /\ mark = [s \in Stores |-> {}] /\ todo = [s \in Stores |-> {}]
  /\ cache = [s \in Stores |-> None]
  /\ shown = {} /\ assigned = {} /\ asked = {} /\ copied = {} /\ removed = {}
  /\ appended = {} /\ copyAns = {}

Goto(s, p) == pc' = [pc EXCEPT ![s] = p]

----------------------------------------------------------------------------
(* .uidlist *)

\* Faulty variant: numbers after the entries that are left, not after uidNext.
ReconcileByCount(l, ks) ==
  LET kept  == DOMAIN l.uid \cap ks
      fresh == ks \ DOMAIN l.uid
      n     == Cardinality(kept) + 1 IN
  [next |-> n + Cardinality(fresh),
   uid  |-> [k \in ks |-> IF k \in kept THEN l.uid[k]
                          ELSE n + Cardinality({j \in fresh : j < k})]]


\* Drop the entries of messages that are gone and number the new messages from
\* uidNext, in the order of their keys.
reconcile(l, ks) ==
  LET kept  == DOMAIN l.uid \cap ks
      fresh == ks \ DOMAIN l.uid IN
  [next |-> l.next + Cardinality(fresh),
   uid  |-> [k \in ks |-> IF k \in kept THEN l.uid[k]
                          ELSE l.next + Cardinality({j \in fresh : j < k})]]

\* loadOrBootstrapUIDList under the flock, for the messages ks.
Load(ks) ==
  /\ lock = None
  /\ list' = reconcile(list, ks) /\ list'.next <= MaxUid + 1
  /\ assigned' = assigned \cup {<<k, list'.uid[k]>> : k \in ks}

UidsOf(l, ks) == {<<k, l.uid[k]>> : k \in DOMAIN l.uid \cap ks}

\* The message a uidlist gives for a UID, if any.
KeyOf(l, u) == {k \in DOMAIN l.uid : l.uid[k] = u}

----------------------------------------------------------------------------
(* Deliveries: Deliver and DeliverToFolder. *)

DeliverBegins ==
  /\ gen <= MaxKeys
  /\ tmp' = tmp \cup {gen} /\ gen' = gen + 1
  /\ UNCHANGED <<new, cur, flagged, uidl, pc, locals, cache, hist>>

DeliverEnds(k) ==
  /\ k \in tmp
  /\ tmp' = tmp \ {k} /\ new' = new \cup {k}
  /\ UNCHANGED <<gen, cur, flagged, uidl, pc, locals, cache, hist>>

DeliverAborts(k) ==
  /\ k \in tmp
  /\ tmp' = tmp \ {k}
  /\ UNCHANGED <<gen, new, cur, flagged, uidl, pc, locals, cache, hist>>

----------------------------------------------------------------------------
(* listDir, which every List, Stat, SetFlags and Expunge begins with: move *)
(* new/ to cur/ and read the keys; the lock is taken only afterwards.      *)

ReadKeys(s) ==
  /\ cur' = cur \cup new /\ new' = {}
  /\ keys' = [keys EXCEPT ![s] = cur']

ListReads(s) ==
  /\ pc[s] \in {"idle", "relist"}
  /\ ReadKeys(s)
  /\ Goto(s, "list")
  /\ UNCHANGED <<gen, tmp, flagged, uidl, before, own, pick, arg, mark, todo, cache, hist>>

ListLoads(s) ==
  /\ pc[s] = "list"
  /\ Load(keys[s])
  /\ cache' = [cache EXCEPT ![s] = IF s \in Sessions THEN list' ELSE None]
  /\ shown' = IF s \in Sessions THEN shown \cup UidsOf(list', keys[s] \cap cur) ELSE shown
  /\ keys' = [keys EXCEPT ![s] = {}]
  /\ Goto(s, "idle")
  /\ UNCHANGED <<dirs, lock, before, own, pick, arg, mark, todo, asked, copied, removed,
                 appended, copyAns>>

\* UIDValidity and UIDNext load the list too, under the lock and uncached.
UIDNext(s) ==
  /\ pc[s] = "idle"
  /\ Load(cur)
  /\ UNCHANGED <<dirs, lock, pc, locals, cache, hist>>

----------------------------------------------------------------------------
(* SetFlags: a client flags or unflags a message it was shown. *)

FlagReads(s, k, u, on) ==
  /\ pc[s] = "idle" /\ <<k, u>> \in shown
  /\ ReadKeys(s)
  /\ arg' = [arg EXCEPT ![s] = <<k, u, on>>]
  /\ Goto(s, "flag")
  /\ UNCHANGED <<gen, tmp, flagged, uidl, before, own, pick, mark, todo, cache, hist>>

FlagLoads(s) ==
  /\ pc[s] = "flag"
  /\ Load(keys[s])
  /\ cache' = [cache EXCEPT ![s] = list']
  /\ LET k  == arg[s][1]
         on == arg[s][3]
         ks == KeyOf(list', arg[s][2]) \cap cur IN
       /\ flagged' = IF on THEN flagged \cup ks ELSE flagged \ ks
       /\ asked' = CASE ks = {} -> asked
                     [] ks # {} /\ on -> asked \cup {k}
                     [] OTHER -> asked \ {k}
  /\ arg' = [arg EXCEPT ![s] = <<0, 0, FALSE>>]
  /\ keys' = [keys EXCEPT ![s] = {}]
  /\ Goto(s, "idle")
  /\ UNCHANGED <<gen, tmp, new, cur, lock, before, own, pick, mark, todo, shown, copied,
                 removed, appended, copyAns>>

----------------------------------------------------------------------------
(* Expunge: list, mark the \Deleted messages by UID, then remove them under *)
(* the lock; a move marks the one message it has copied.                    *)

ExpungeReads(s) ==
  /\ pc[s] = "idle"
  /\ ReadKeys(s)
  /\ Goto(s, "mark")
  /\ UNCHANGED <<gen, tmp, flagged, uidl, before, own, pick, arg, mark, todo, cache, hist>>

ExpungeMarks(s) ==
  /\ pc[s] = "mark"
  /\ Load(keys[s])
  /\ cache' = [cache EXCEPT ![s] = list']
  /\ mark' = [mark EXCEPT ![s] = {list'.uid[k] : k \in keys[s] \cap cur \cap flagged}]
  /\ keys' = [keys EXCEPT ![s] = {}]
  /\ Goto(s, IF mark'[s] = {} THEN "idle" ELSE "expunge")
  /\ UNCHANGED <<dirs, lock, before, own, pick, arg, todo, hist>>


\* Expunge takes the marks, then the lock, and resolves the UIDs.
ExpungeResolves(s) ==
  /\ pc[s] \in {"expunge", "moveout"}
  /\ Load(cur)
  /\ lock' = s
  /\ todo' = [todo EXCEPT ![s] = UNION {KeyOf(list', u) : u \in mark[s]}]
  /\ mark' = [mark EXCEPT ![s] = {}]
  /\ Goto(s, IF pc[s] = "expunge" THEN "remove" ELSE "removeone")
  /\ UNCHANGED <<dirs, keys, before, own, pick, arg, cache, hist>>

\* removeMessages: one unlink.
ExpungeRemoves(s, k) ==
  /\ pc[s] \in {"remove", "removeone"} /\ k \in todo[s]
  /\ todo' = [todo EXCEPT ![s] = @ \ {k}]
  /\ cur' = cur \ {k} /\ flagged' = flagged \ {k}
  /\ removed' = removed \cup {k}
  /\ UNCHANGED <<gen, tmp, new, uidl, pc, keys, before, own, pick, arg, mark, cache, shown,
                 asked, copied, appended, copyAns>>

\* Reconcile once more, write, unlock; an Expunge then selects the folder again.
ExpungeEnds(s) ==
  /\ pc[s] \in {"remove", "removeone"} /\ todo[s] = {}
  /\ list' = reconcile(list, cur)
  /\ assigned' = assigned \cup UidsOf(list', cur)
  /\ lock' = None
  /\ cache' = [cache EXCEPT ![s] = None]
  /\ Goto(s, IF pc[s] = "remove" THEN "relist" ELSE "idle")
  /\ UNCHANGED <<dirs, locals, hist>>

\* MoveMessage of the message shown with UID u: lookupKey in the cache, copy the
\* file to the other folder and mark the UID.
MoveFromCache(s, k, u) ==
  /\ pc[s] = "idle" /\ <<k, u>> \in shown
  /\ cache[s] # None
  /\ LET ks == KeyOf(cache[s], u) \cap cur IN
       /\ ks # {}
       /\ copied' = copied \cup ks
  /\ mark' = [mark EXCEPT ![s] = {u}]
  /\ Goto(s, "moveout")
  /\ UNCHANGED <<dirs, uidl, keys, before, own, pick, arg, todo, cache, shown, asked,
                 removed, appended, copyAns>>

\* The same without a cached list: lookupKey loads it under the lock.
MoveFromDisk(s, k, u) ==
  /\ pc[s] = "idle" /\ <<k, u>> \in shown
  /\ cache[s] = None
  /\ Load(cur)
  /\ cache' = [cache EXCEPT ![s] = list']
  /\ LET ks == KeyOf(list', u) IN
       /\ copied' = copied \cup ks
       /\ mark' = [mark EXCEPT ![s] = IF ks = {} THEN {} ELSE {u}]
       /\ Goto(s, IF ks = {} THEN "idle" ELSE "moveout")
  /\ UNCHANGED <<dirs, lock, keys, before, own, pick, arg, todo, shown, asked, removed,
                 appended, copyAns>>

----------------------------------------------------------------------------
(* AppendToFolder. *)

AppendSnapshots(s, del) ==
  /\ pc[s] = "idle" /\ gen <= MaxKeys
  /\ before' = [before EXCEPT ![s] = new]
  /\ arg' = [arg EXCEPT ![s] = <<0, 0, del>>]
  /\ Goto(s, "append")
  /\ UNCHANGED <<dirs, uidl, keys, own, pick, mark, todo, cache, hist>>

AppendDelivers(s) ==
  /\ pc[s] = "append" /\ gen <= MaxKeys
  /\ new' = new \cup {gen} /\ gen' = gen + 1
  /\ own' = [own EXCEPT ![s] = gen]
  /\ Goto(s, "place")
  /\ UNCHANGED <<tmp, cur, flagged, uidl, keys, before, pick, arg, mark, todo, cache, hist>>

\* maildirNewKey takes the first name in new/ that was not there before, and
\* moveNewToCurWithFlags moves that file.  With nothing new the append fails.
AppendPlaces(s) ==
  /\ pc[s] = "place"
  /\ LET fresh == new \ before[s]
         k     == CHOOSE k \in fresh : \A j \in fresh : k <= j IN
       IF fresh = {}
       THEN /\ Goto(s, "idle")
            /\ UNCHANGED <<new, cur, flagged, pick, asked>>
       ELSE /\ new' = new \ {k} /\ cur' = cur \cup {k}
            /\ flagged' = IF arg[s][3] THEN flagged \cup {k} ELSE flagged
            /\ asked' = IF arg[s][3] THEN asked \cup {own[s]} ELSE asked
            /\ pick' = [pick EXCEPT ![s] = k]
            /\ Goto(s, "number")
  /\ before' = [before EXCEPT ![s] = {}]
  /\ arg' = [arg EXCEPT ![s] = <<0, 0, FALSE>>]
  /\ UNCHANGED <<gen, tmp, uidl, keys, own, mark, todo, cache, shown, copied, removed,
                 appended, copyAns>>

AppendNumbers(s) ==
  /\ pc[s] = "number"
  /\ Load(cur)
  /\ cache' = [cache EXCEPT ![s] = None]
  /\ appended' = appended \cup {<<own[s], u>> : u \in {list'.uid[k] : k \in {pick[s]} \cap cur}}
  /\ own' = [own EXCEPT ![s] = 0] /\ pick' = [pick EXCEPT ![s] = 0]
  /\ Goto(s, "idle")
  /\ UNCHANGED <<dirs, lock, keys, before, arg, mark, todo, shown, asked, copied, removed,
                 copyAns>>

----------------------------------------------------------------------------
(* CopyMessage into this folder. *)

CopyPlaces(s) ==
  /\ pc[s] = "idle" /\ gen <= MaxKeys
  /\ cur' = cur \cup {gen} /\ gen' = gen + 1
  /\ own' = [own EXCEPT ![s] = gen]
  /\ Goto(s, "copy")
  /\ UNCHANGED <<tmp, new, flagged, uidl, keys, before, pick, arg, mark, todo, cache, hist>>


\* "Return uidNext - 1 as the newly assigned UID."
CopyNumbers(s) ==
  /\ pc[s] = "copy"
  /\ Load(cur)
  /\ cache' = [cache EXCEPT ![s] = None]
  /\ copyAns' = copyAns \cup {<<own[s], list'.next - 1>>}
  /\ own' = [own EXCEPT ![s] = 0]
  /\ Goto(s, "idle")
  /\ UNCHANGED <<dirs, lock, keys, before, pick, arg, mark, todo, shown, asked, copied,
                 removed, appended>>

----------------------------------------------------------------------------
\* A process ends at any point; the kernel releases its flock.
Crash(s) ==
  /\ pc[s] # "idle"
  /\ Goto(s, "idle")
  /\ lock' = IF lock = s THEN None ELSE lock
  /\ cache' = [cache EXCEPT ![s] = None]
  /\ keys' = [keys EXCEPT ![s] = {}] /\ before' = [before EXCEPT ![s] = {}]
  /\ own' = [own EXCEPT ![s] = 0] /\ pick' = [pick EXCEPT ![s] = 0]
  /\ arg' = [arg EXCEPT ![s] = <<0, 0, FALSE>>]
  /\ mark' = [mark EXCEPT ![s] = {}] /\ todo' = [todo EXCEPT ![s] = {}]
  /\ UNCHANGED <<dirs, list, assigned, hist>>

Delivery ==
  \/ DeliverBegins
  \/ \E k \in tmp : DeliverEnds(k) \/ DeliverAborts(k)

Session(s) ==
  \/ \E p \in shown : \/ \E on \in BOOLEAN : FlagReads(s, p[1], p[2], on)
                      \/ MoveFromCache(s, p[1], p[2])
                      \/ MoveFromDisk(s, p[1], p[2])
  \/ UIDNext(s) \/ FlagLoads(s)
  \/ ExpungeReads(s) \/ ExpungeMarks(s) \/ ExpungeResolves(s) \/ ExpungeEnds(s)
  \/ \E k \in todo[s] : ExpungeRemoves(s, k)
  \/ \E del \in {FALSE, AppendDeleted} : AppendSnapshots(s, del)
  \/ AppendDelivers(s) \/ AppendPlaces(s) \/ AppendNumbers(s)
  \/ CopyPlaces(s) \/ CopyNumbers(s)

Next ==
  \/ Delivery
  \/ \E s \in Stores : ListReads(s) \/ ListLoads(s) \/ Crash(s)
  \/ \E s \in Sessions : Session(s)

Spec == Init /\ [][Next]_vars

----------------------------------------------------------------------------
(* Properties. *)

\* The type of every variable.
TypeOK ==
  /\ gen \in 1 .. MaxKeys + 1
  /\ tmp \subseteq Keys /\ new \subseteq Keys /\ cur \subseteq Keys /\ flagged \subseteq cur
  /\ list.next \in Nat /\ DOMAIN list.uid \subseteq Keys
  /\ \A k \in DOMAIN list.uid : list.uid[k] \in 1 .. list.next - 1
  /\ lock \in Stores \cup {None}
  /\ pc \in [Stores -> {"idle", "relist", "list", "flag", "mark", "expunge", "moveout",
                        "remove", "removeone", "append", "place", "number", "copy"}]
  /\ keys \in [Stores -> SUBSET Keys] /\ before \in [Stores -> SUBSET Keys]
  /\ todo \in [Stores -> SUBSET Keys] /\ mark \in [Stores -> SUBSET Nat]
  /\ own \in [Stores -> Keys \cup {0}] /\ pick \in [Stores -> Keys \cup {0}]

\* reconcile never gives a UID to a second message: not after an expunge, not
\* when a crash left the list behind the directory, and not when a second
\* store loads the list with keys it read before another store's change.
UidsNeverReused ==
  \A p, q \in assigned : p[2] = q[2] => p[1] = q[1]

\* "UID is the persistent numeric IMAP UID assigned by the uidlist": a message
\* keeps the UID it got.
UidsArePersistent ==
  \A p, q \in assigned : p[1] = q[1] => p[2] = q[2]



\* AppendToFolder "returns the UID assigned to the new message".
AppendAnswersOwnUid == appended \subseteq assigned
============================================================================
